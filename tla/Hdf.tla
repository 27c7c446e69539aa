-------------------------------- MODULE Hdf --------------------------------
(* The HDF data set as util/neo_hdf.c builds it: nodes on the heap, each   *)
(* level a singly linked list with a one-entry lookup cache (last_hp and   *)
(* last_hs) and, once it is long, a hash table and the pointer last_child  *)
(* that appending to it needs. One client calls at a time.                 *)
EXTENDS Integers, Sequences, FiniteSets, FiniteSetsExt, Functions, SequencesExt, TLC

CONSTANTS Cells,     \* addresses the allocator hands out (positive numbers)
          Names,     \* components of a node's name
          Empty,     \* the component between two dots, or after the last
          NoName,    \* the top node has no name
          NoValue,   \* a NULL value
          Dangling,  \* what a pointer to a freed string reads
          NoHash,    \* the level has no hash table
          HashAt,    \* FORCE_HASH_AT
          Clients,   \* the programs, each a set of calls [op, at, name, value, attr]
          MaxSteps   \* the iterations after which a loop is taken never to end

Path == Seq(Names \cup {Empty})

ASSUME HdfAssumption ==
  /\ Cells \subseteq Nat \ {0} /\ 1 \in Cells /\ HashAt \in Nat /\ MaxSteps \in Nat
  /\ \A program \in Clients : \A c \in program :
       /\ c.at \in Seq(Names) /\ c.name \in Path
       /\ c.value \in Path \/ (c.value = NoValue /\ c.op \notin {"setcopy", "copy"})

VARIABLES heap,      \* from the cells in use to the nodes they hold
          client,    \* the program that uses the data set
          call,      \* the last call
          res        \* how it ended: "ok", "bad" (an empty component), "none"
                     \* (not there), "full" (NERR_NOMEM), or "dead" when the
                     \* process does not survive it

vars == <<heap, client, call, res>>

Null == 0
Top == 1

Attr == INSTANCE HdfAttr
-----------------------------------------------------------------------------
(* Allocation, and the strings that nodes own or only point to.            *)

(* `shares` is the node whose string this one points to without owning it  *)
(* (alloc_value is 0), Null for a string of its own (alloc_value is 1).    *)
NewNode(name, value, link, attr) ==
  [name |-> name, value |-> value, shares |-> Null, link |-> link, attr |-> attr,
   next |-> Null, child |-> Null, last_hp |-> Null, last_hs |-> Null,
   hash |-> NoHash, last_child |-> Null]

Full(h) == Cells \subseteq DOMAIN h
Fresh(h) == Min(Cells \ DOMAIN h)

(* The node that owns the string c points to, Null when there is none.     *)
Owner(h, c) ==
  IF h[c].value \in {NoValue, Dangling} THEN Null
  ELSE IF h[c].shares # Null THEN h[c].shares ELSE c

(* free(hp->value) where alloc_value says so: whoever else pointed to the  *)
(* string is left with a dangling pointer.                                 *)
FreeStrings(h, gone) ==
  [c \in DOMAIN h |->
     IF h[c].shares \in gone THEN [h[c] EXCEPT !.value = Dangling, !.shares = Null]
     ELSE h[c]]

(* Update an existing node: the attributes are merged, the value replaced  *)
(* unless it is the very same pointer, the link flag set.                  *)
Assign(h, c, a) ==
  LET same == IF a.value = NoValue THEN h[c].value = NoValue
              ELSE a.from # Null /\ a.from = Owner(h, c)
      mine == h[c].shares = Null /\ h[c].value \notin {NoValue, Dangling}
      h1   == IF mine THEN FreeStrings(h, {c}) ELSE h
      h2   == IF same THEN h
              ELSE [h1 EXCEPT ![c].value = a.value,
                              ![c].shares = IF a.dupl THEN Null ELSE a.from]
  IN  [h2 EXCEPT ![c].attr = IF @ = <<>> THEN a.attr ELSE Attr!MergeAttr(@, a.attr),
                 ![c].link = a.link]
-----------------------------------------------------------------------------
(* One level of the tree.                                                  *)

(* The list that starts at c; it stops short after as many nodes as there  *)
(* are, so that it is defined on a damaged list too.                       *)
Forward(l) ==
  IF l.at \in DOMAIN l.heap
  THEN [heap |-> l.heap, at |-> l.heap[l.at].next, seen |-> Append(l.seen, l.at)]
  ELSE l
Listing == INSTANCE Loop WITH Body <- Forward
List(h, c) ==
  Listing!After(Cardinality(DOMAIN h), [heap |-> h, at |-> c, seen |-> <<>>]).seen

Kids(h, p) == List(h, h[p].child)

InHash(h, p, n) == {c \in h[p].hash : h[c].name = n}

InList(h, kids, n) == SelectInSeq(kids, LAMBDA c : h[c].name = n)

(* The child of that name, as a search of the list finds it.               *)
Child(h, p, n) ==
  LET kids == Kids(h, p)
      i    == InList(h, kids, n)
  IN  IF i = 0 THEN Null ELSE kids[i]

(* How _walk_hdf looks a component up.                                     *)
Lookup(h, p, n) ==
  IF h[p].hash = NoHash THEN Child(h, p, n)
  ELSE IF InHash(h, p, n) = {} THEN Null ELSE CHOOSE c \in InHash(h, p, n) : TRUE

(* A search of the lists for a path, component by component.               *)
Enter(d) ==
  IF d.path = <<>> \/ d.node = Null THEN d
  ELSE [heap |-> d.heap, node |-> Child(d.heap, d.node, Head(d.path)), path |-> Tail(d.path)]
Entering == INSTANCE Loop WITH Body <- Enter
Below(h, c, path) == Entering!After(Len(path), [heap |-> h, node |-> c, path |-> path]).node

(* Where a level with a hash table is appended to.                         *)
Tip(h, p) == h[p].last_child

(* How _set_value does: the cache first, if the list still has last_hp     *)
(* right after last_hs; the node found, or where to append it, in hp, hs.  *)
CacheHit(h, p, n) ==
  LET hp == h[p].last_hp
      hs == h[p].last_hs
  IN  /\ hp # Null
      /\ IF hs = Null THEN hp = h[p].child ELSE h[hs].next = hp
      /\ h[hp].name = n

Find(h, p, n) ==
  LET kids == Kids(h, p)
      i    == InList(h, kids, n)
  IN  IF CacheHit(h, p, n) THEN [hp |-> h[p].last_hp, hs |-> h[p].last_hs, count |-> 0]
      ELSE IF h[p].hash # NoHash
           THEN [hp |-> Lookup(h, p, n), hs |-> Tip(h, p), count |-> 0]
      ELSE IF i # 0
           THEN [hp |-> kids[i], hs |-> IF i = 1 THEN Null ELSE kids[i - 1], count |-> i - 1]
      ELSE [hp |-> Null, hs |-> IF kids = <<>> THEN Null ELSE Last(kids), count |-> Len(kids)]

Remember(h, p, f) ==
  IF f.hp = Null THEN h ELSE [h EXCEPT ![p].last_hp = f.hp, ![p].last_hs = f.hs]

(* The hash table once c is the last of the kids: it is made for the whole *)
(* level when the list gets long, c is added to one that is there.         *)
IndexedOnce(hash, count, kids) ==
  IF count > HashAt /\ hash = NoHash THEN ToSet(kids) ELSE hash
Indexed(hash, count, kids) ==
  IF count > HashAt /\ hash = NoHash THEN ToSet(kids)
  ELSE IF hash # NoHash THEN hash \cup {Last(kids)}
  ELSE hash

(* Append the new node c at the place Find gave.                           *)
Link(h, p, f, c, node) ==
  LET h1 == [x \in DOMAIN h \cup {c} |-> IF x = c THEN node ELSE h[x]]
      h2 == IF h[p].child = Null THEN [h1 EXCEPT ![p].child = c]
            ELSE [h1 EXCEPT ![f.hs].next = c]
      h3 == [h2 EXCEPT ![p].last_child = c]
  IN  [h3 EXCEPT ![p].hash = Indexed(@, f.count, Kids(h3, p))]
-----------------------------------------------------------------------------
(* Walking and writing by name. A name is the sequence of its components,  *)
(* and so is the value of a link. Nothing can be read through a link whose *)
(* value is NULL or whose string is freed: the process ends there.         *)

Broken == -1    \* what a walk that does not survive, or never returns, gives
Leads(h, c) == h[c].value \notin {NoValue, Dangling}

(* The steps of _walk_hdf from the node reached: a link is left for the    *)
(* top with its value put before the name (an empty one means the top as   *)
(* it is), the first component is looked up, and a link is followed at the *)
(* end too. Ended walks stand on the node found, Null or Broken.           *)
Walker(h, c, path, stage) == [heap |-> h, node |-> c, path |-> path, stage |-> stage]
Follow(h, c, path) ==
  IF ~Leads(h, c) THEN Walker(h, Broken, path, "ended")
  ELSE Walker(h, Top, h[c].value \o path, IF h[c].value = <<>> THEN "in" ELSE "at")
WalkStep(w) ==
  LET h == w.heap
      c == Lookup(h, w.node, Head(w.path))
  IN  IF w.stage = "ended" THEN w
      ELSE IF w.path = <<>> THEN Walker(h, w.node, <<>>, "ended")
      ELSE IF w.stage = "at" /\ h[w.node].link THEN Follow(h, w.node, w.path)
      ELSE IF c = Null THEN Walker(h, Null, w.path, "ended")
      ELSE IF Len(w.path) = 1 /\ h[c].link THEN Follow(h, c, <<>>)
      ELSE Walker(h, c, Tail(w.path), IF Len(w.path) = 1 THEN "in" ELSE "at")
Walking == INSTANCE Loop WITH Body <- WalkStep
Walk(h, start, path) ==
  LET w == Walking!After(MaxSteps, Walker(h, start, path, "at"))
  IN  IF w.stage = "ended" THEN w.node ELSE Broken

Done(h, c, s) == [heap |-> h, node |-> c, status |-> s]

JoinedShort(value, rest) == IF value = <<>> THEN <<Empty>> ELSE value
Joined(value, rest) == (IF value = <<>> THEN <<Empty>> ELSE value) \o rest

(* _set_value: `a` holds the value, the node whose string it is (Null when *)
(* the caller's), whether to duplicate it, the link flag and attributes.   *)
(* An empty component, or an allocation that fails, ends it with an error; *)
(* the nodes made until then stay.                                         *)
Writer(h, c, path, a, s) == [heap |-> h, node |-> c, path |-> path, what |-> a, status |-> s]
Writes(h, c, path, a) == Writer(h, c, path, a, IF Head(path) = Empty THEN "bad" ELSE "on")

(* The node for the first component, one that is not there.                *)
NodeFor(path, a) ==
  IF Len(path) > 1 THEN NewNode(Head(path), NoValue, FALSE, <<>>)
  ELSE [NewNode(Head(path), a.value, a.link, a.attr)
          EXCEPT !.shares = IF a.dupl THEN Null ELSE a.from]

WriteStep(w) ==
  LET h    == w.heap
      p    == w.node
      a    == w.what
      f    == Find(h, p, Head(w.path))
      c    == IF f.hp = Null THEN Fresh(h) ELSE f.hp
      last == Len(w.path) = 1
      h1   == Remember(h, p, f)
      h2   == IF f.hp = Null THEN Link(h1, p, f, c, NodeFor(w.path, a))
              ELSE IF last THEN Assign(h1, c, a) ELSE h1
  IN  IF w.status # "on" THEN w
      ELSE IF h[p].link
           THEN IF Leads(h, p) THEN Writes(h, Top, Joined(h[p].value, w.path), a)
                ELSE Writer(h, Null, w.path, a, "dead")
      ELSE IF Head(w.path) = Empty THEN Writer(h, Null, w.path, a, "bad")
      ELSE IF f.hp = Null /\ Full(h) THEN Writer(h, Null, w.path, a, "full")
      ELSE Writer(h2, c, Tail(w.path), a, IF last THEN "ok" ELSE "on")
Writing == INSTANCE Loop WITH Body <- WriteStep

Written(w) == Done(w.heap, w.node, IF w.status = "on" THEN "dead" ELSE w.status)
SetValue(h, start, path, a) ==
  IF path = <<>> THEN Done(Assign(h, start, a), start, "ok")
  ELSE Written(Writing!After(MaxSteps, Writes(h, start, path, a)))

NothingUnder(h, c) == Null
Under(h, c) == h[c].child

(* _copy_nodes: the nodes of a list and what is below them are written     *)
(* below dest, one after the other, as the list is then. The stack holds,  *)
(* for the call and those it is nested in, dest and where in the list it is.*)
Copier(h, stack, s) == [heap |-> h, stack |-> stack, status |-> s]

(* Once the node c of the list is written: what is below it comes next.    *)
Descend(w, c, r) ==
  IF r.status # "ok" THEN Copier(r.heap, w.stack, r.status)
  ELSE Copier(r.heap, Append(w.stack, <<r.node, Under(r.heap, c)>>), "on")
CopyStep(w) ==
  LET h     == w.heap
      dest  == Last(w.stack)[1]
      st    == Last(w.stack)[2]
      outer == Front(w.stack)
      after == <<Last(outer)[1], h[Last(outer)[2]].next>>
      own   == [value |-> h[st].value, from |-> Owner(h, st), dupl |-> TRUE,
                link |-> h[st].link, attr |-> h[st].attr]
  IN  IF w.status # "on" THEN w
      ELSE IF st # Null THEN Descend(w, st, SetValue(h, dest, <<h[st].name>>, own))
      ELSE IF outer = <<>> THEN Copier(h, w.stack, "ok")
      ELSE Copier(h, Append(Front(outer), after), "on")
Copying == INSTANCE Loop WITH Body <- CopyStep

Copied(w, dest) == Done(w.heap, dest, IF w.status = "on" THEN "dead" ELSE w.status)
CopyNodes(h, dest, st) ==
  Copied(Copying!After(MaxSteps, Copier(h, <<<<dest, st>>>>, "on")), dest)

(* What the pointers lead to from c.                                       *)
Closed(h, S) == \A c \in S : {h[c].child, h[c].next} \subseteq S \cup {Null}
Reach(h, c) == {x \in DOMAIN h : \A S \in SUBSET DOMAIN h : c \in S /\ Closed(h, S) => x \in S}

(* _dealloc_hdf takes the node, what is below it and what is linked after. *)
Dealloc(h, c) ==
  LET gone == Reach(h, c)
  IN  Restrict(FreeStrings(h, gone), DOMAIN h \ gone)

(* What a removal does to last_child and to the node that is taken out.    *)
LastKept(last, hp, ln) == last
LastAfter(last, hp, ln) == IF last = hp THEN ln ELSE last
Unlinked(h, hp) == [h EXCEPT ![hp].next = Null]

(* hdf_remove_tree searches the lists, never the hash, and follows no link.*)
CutAt(h, lp, i) ==
  LET kids == Kids(h, lp)
      hp   == kids[i]
      h1   == IF h[lp].hash = NoHash THEN h
              ELSE [h EXCEPT ![lp].hash = @ \ InHash(h, lp, h[hp].name)]
      h2   == IF i = 1 THEN [h1 EXCEPT ![lp].child = h[hp].next]
              ELSE [h1 EXCEPT ![kids[i - 1]].next = h[hp].next,
                              ![lp].last_child = LastAfter(@, hp, kids[i - 1])]
      h3   == [Unlinked(h2, hp) EXCEPT ![lp].last_hp = Null, ![lp].last_hs = Null]
  IN  Dealloc(h3, hp)
Cut(h, start, path) ==
  LET lp == Below(h, start, Front(path))
      i  == InList(h, Kids(h, lp), Last(path))
  IN  IF path = <<>> \/ lp = Null \/ i = 0 THEN h ELSE CutAt(h, lp, i)

(* hdf_sort_obj relinks the list in the order qsort left it in, which is   *)
(* any order: the comparison is the caller's.                              *)
Orders(kids) ==
  {order \in [DOMAIN kids -> ToSet(kids)] : IsInjective(order) /\ ToSet(order) = ToSet(kids)}
NextIn(h, kids, c) ==
  LET i == SelectInSeq(kids, LAMBDA k : k = c)
  IN  IF i = Len(kids) THEN Null ELSE kids[i + 1]
Relink(h, p, kids) ==
  [c \in DOMAIN h |->
     IF c = p THEN [h[p] EXCEPT !.child = kids[1], !.last_child = Last(kids)]
     ELSE IF c \in ToSet(kids) THEN [h[c] EXCEPT !.next = NextIn(h, kids, c)]
     ELSE h[c]]
-----------------------------------------------------------------------------
(* The calls. A client may start from any node it has got hold of.         *)

Nodes(path) == {Below(heap, Top, path)} \ {Null}

Finish(r) ==
  /\ res' = r.status
  /\ heap' = IF r.status = "dead" THEN heap ELSE r.heap
Stop(status) == res' = status /\ heap' = heap
Write(s, name, a) == \E r \in {SetValue(heap, s, name, a)} : Finish(r)

(* hdf_set_value, hdf_set_value_attr, hdf_set_buf and the formatted ones.  *)
Set(c, s) ==
  /\ c.op = "set"
  /\ Write(s, c.name, [value |-> c.value, link |-> FALSE, from |-> Null, dupl |-> TRUE, attr |-> c.attr])

Symlink(c, s) ==
  /\ c.op = "symlink"
  /\ Write(s, c.name, [value |-> c.value, link |-> TRUE, from |-> Null, dupl |-> TRUE, attr |-> <<>>])

NullWrite == [value |-> NoValue, link |-> FALSE, from |-> Null, dupl |-> FALSE, attr |-> <<>>]

GetNode(c, s) ==
  /\ c.op = "node"
  /\ \E w \in {Walk(heap, s, c.name)} :
       CASE w = Broken -> Stop("dead")
         [] w = Null  -> Write(s, c.name, NullWrite)
         [] OTHER     -> Stop("ok")

(* hdf_set_copy hands the source's own pointer to the destination.         *)
SetCopy(c, s) ==
  /\ c.op = "setcopy"
  /\ \E w \in {Walk(heap, s, c.value)} :
       CASE w = Broken -> Stop("dead")
         [] w = Null \/ (w > 0 /\ heap[w].value = NoValue) -> Stop("none")
         [] OTHER -> Write(s, c.name, [value |-> heap[w].value, from |-> Owner(heap, w),
                                       dupl |-> FALSE, link |-> FALSE, attr |-> <<>>])

SetAttr(c, s) ==
  /\ c.op = "attr"
  /\ \E w \in {Walk(heap, s, c.name)}, a \in {c.attr[1]} :
       CASE w = Broken -> Stop("dead")
         [] w = Null  -> Stop("none")
         [] w > 0 /\ Attr!DeletesMissing(heap[w].attr, a[1], a[2]) -> Stop("dead")
         [] OTHER -> /\ heap' = [heap EXCEPT ![w].attr = Attr!SetAttr(@, a[1], a[2])]
                     /\ res' = "ok"

RemoveTree(c, s) ==
  /\ c.op = "remove"
  /\ heap' = Cut(heap, s, c.name)
  /\ res' = "ok"

Sort(c, s) ==
  /\ c.op = "sort"
  /\ res' = "ok"
  /\ IF Kids(heap, s) = <<>> THEN heap' = heap
     ELSE \E kids \in Orders(Kids(heap, s)) : heap' = Relink(heap, s, kids)

(* hdf_copy; c.value is the path of the source, a node of this data set.   *)
Copy(c, s) ==
  /\ c.op = "copy"
  /\ \E src \in Nodes(c.value), w \in {Walk(heap, s, c.name)} :
       \E r \in {IF w = Null THEN SetValue(heap, s, c.name, NullWrite)
                 ELSE Done(heap, w, "ok")} :
         CASE w = Broken       -> Stop("dead")
           [] r.status # "ok" -> Finish(r)
           [] OTHER           -> \E d \in {CopyNodes(r.heap, r.node, Under(r.heap, src))} : Finish(d)

Init ==
  /\ heap = [c \in {Top} |-> NewNode(NoName, NoValue, FALSE, <<>>)]
  /\ client \in Clients
  /\ call = [op |-> "init"]
  /\ res = "ok"

Next ==
  \E c \in client :
    /\ res # "dead"
    /\ UNCHANGED client
    /\ call' = c
    /\ \E s \in Nodes(c.at) :
         \/ Set(c, s)
         \/ Symlink(c, s)
         \/ GetNode(c, s)
         \/ SetCopy(c, s)
         \/ SetAttr(c, s)
         \/ RemoveTree(c, s)
         \/ Sort(c, s)
         \/ Copy(c, s)

Spec == Init /\ [][Next]_vars
-----------------------------------------------------------------------------
(* Properties.                                                             *)

Live == DOMAIN heap
Pointers == Live \cup {Null}

(* Type invariant.                                                         *)
TypeOK ==
  /\ Live \subseteq Cells
  /\ \A c \in Live :
       /\ heap[c].name \in Names \cup {NoName}
       /\ heap[c].link \in BOOLEAN
       /\ {heap[c].next, heap[c].child, heap[c].shares} \subseteq Pointers

(* No call, whatever came before it, leaves a node lost, in two lists, in  *)
(* a circle or beside another of its name (_set_value, hdf_remove_tree,    *)
(* hdf_sort_obj and hdf_copy all relink the same lists).                   *)
TreeSound ==
  /\ \A p \in Live :
       LET kids == Kids(heap, p)
       IN  /\ IsInjective(kids)
           /\ IsInjective([i \in DOMAIN kids |-> heap[kids[i]].name])
           /\ kids # <<>> => heap[Last(kids)].next = Null
  /\ \A c \in Live :
       Cardinality({p \in Live : c \in ToSet(Kids(heap, p))}) = IF c = Top THEN 0 ELSE 1
  /\ Reach(heap, Top) = Live

(* The shortcuts of a level never go stale: its hash table holds exactly   *)
(* its nodes, last_child is the last of them, and the cache names none     *)
(* that has left it.                                                       *)
ShortcutsSound ==
  \A p \in Live :
    LET kids == Kids(heap, p)
    IN  /\ heap[p].hash \in {NoHash, ToSet(kids)}
        /\ kids # <<>> => heap[p].last_child = Last(kids)
        /\ {heap[p].last_hp, heap[p].last_hs} \subseteq ToSet(kids) \cup {Null}

(* A value that was set is what the same name reads right after, through   *)
(* any links, unless the call made a plain node of a link.                 *)
ReadYourWrites ==
  [][ call'.op = "set" /\ res' = "ok"
        /\ (\A c \in Live : heap[c].link => heap'[c].link)
      => LET w == Walk(heap', Below(heap', Top, call'.at), call'.name)
         IN  w > 0 /\ heap'[w].value = call'.value ]_vars

(* A string that a node points to without owning it belongs to a node that *)
(* is there and still has that very string: none is freed twice or read    *)
(* in the place of another.                                                *)
SharesSound ==
  \A c \in Live :
    heap[c].shares # Null =>
      /\ heap[c].shares \in Live
      /\ heap[heap[c].shares].shares = Null
      /\ heap[heap[c].shares].value = heap[c].value

(* What neo_hdf.h says of hdf_set_copy: it "copies that value to the named *)
(* dest node", so the destination keeps it whatever becomes of the source. *)
CopiesKeepTheirValue == \A c \in Live : heap[c].value # Dangling

Keys(attrs) == {attrs[i][1] : i \in DOMAIN attrs}

(* Writing a value, with attributes or without, never takes an attribute   *)
(* from a node that stays: a write merges, only hdf_set_attr deletes.      *)
AttributesSurvive ==
  [][ call'.op = "set" =>
        \A c \in Live : Keys(heap[c].attr) \subseteq Keys(heap'[c].attr) ]_vars

(* Whatever calls came before, no node is lost or linked twice, no shortcut*)
(* is stale and no string has two owners (_set_value, hdf_remove_tree,     *)
(* hdf_sort_obj, hdf_copy, hdf_set_copy, _dealloc_hdf).                    *)
HeapSound == TypeOK /\ TreeSound /\ ShortcutsSound /\ SharesSound
=============================================================================
