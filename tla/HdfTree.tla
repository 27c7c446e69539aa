------------------------------ MODULE HdfTree ------------------------------
(* What an HDF data set promises (util/neo_hdf.h): a tree of named nodes,  *)
(* each with a value or none, whose levels keep the order of insertion     *)
(* until they are sorted or shortened; a node may instead be a symbolic    *)
(* link, its value then names another node from the top of the data set.  *)
(* There is no linked list, no lookup cache and no hash table here: Hdf    *)
(* has them and must behave as if it had not.                              *)
EXTENDS Integers, Sequences, FiniteSets, FiniteSetsExt, SequencesExt, TLC

CONSTANTS Empty,    \* the empty component of a name such as "a..b" or "a."
          NoValue,  \* the value of a node that has none (a NULL pointer)
          Calls,    \* the calls the clients may make
          MaxHops   \* links a walk follows before it is taken never to end

VARIABLES tree,     \* from the path of a node to its value and link flag
          order,    \* from the path of a node to the names of its children
          call,     \* the last call
          res       \* how it ended: "ok", "bad" (an empty component), "none"
                    \* (not there), "full" (out of memory), or "dead" when it
                    \* does not return

treeVars == <<tree, order, call, res>>

Loop == <<"loop">>    \* no node has this path
Place(p, k) == SubSeq(p, 1, k)
IsLink(t, p) == p \in DOMAIN t /\ t[p].link

(* The path that p means in the tree t once the links on it are replaced  *)
(* by the paths they name, the first of them first. Only prefixes of at    *)
(* least `from` components count: a walk starts at a node it has, however  *)
(* it came by it. `upTo` is 1 when a link at the very end stays (a write   *)
(* replaces it) and 0 when it is followed too (a read).                    *)
RECURSIVE Resolve(_, _, _, _, _)
Resolve(t, p, from, upTo, hops) ==
  LET links == {k \in from .. Len(p) - upTo : IsLink(t, Place(p, k))}
  IN  IF links = {} THEN p
      ELSE IF hops = 0 THEN Loop
      ELSE LET k    == Min(links)
               to   == t[Place(p, k)].value
               rest == SubSeq(p, k + 1, Len(p))
           IN  Resolve(t, IF upTo = 1 /\ to = <<>> THEN <<Empty>> \o rest ELSE to \o rest,
                       0, upTo, hops - 1)

(* What a read and a write of `name` from the node `at` come to.           *)
Read(t, at, name) == Resolve(t, at \o name, Len(at), 0, MaxHops)
Target(t, at, name) ==
  IF name = <<>> THEN at ELSE Resolve(t, at \o name, Len(at), 1, MaxHops)

(* The node a read finds, {} if none.                                      *)
Found(t, at, name) == IF name = <<>> THEN {at} ELSE {Read(t, at, name)} \cap DOMAIN t

Node(value, link) == [value |-> value, link |-> link]
Blank == Node(NoValue, FALSE)

(* The nodes on a path that has no empty component, root first.            *)
Along(p) == {Place(p, k) : k \in 0 .. Len(p)}
BeforeEmpty(p) ==
  LET k == SelectInSeq(p, LAMBDA c : c = Empty) IN IF k = 0 THEN p ELSE Place(p, k - 1)

(* In what follows d is the data set before the call, [tree, order].       *)

(* d with the nodes of the path p that were missing.                       *)
Plant(d, p) ==
  LET new == Along(p) \ DOMAIN d.tree
      kid(q) == {c \in new : Len(c) = Len(q) + 1 /\ Front(c) = q}
  IN  [tree  |-> [q \in new |-> Blank] @@ d.tree,
       order |-> [q \in DOMAIN d.tree \cup new |->
                    (IF q \in new THEN <<>> ELSE d.order[q]) \o
                    (IF kid(q) = {} THEN <<>> ELSE <<Last(CHOOSE c \in kid(q) : TRUE)>>)]]

Become(new) == tree' = new.tree /\ order' = new.order

(* A name that begins with an empty component is refused before anything   *)
(* is looked up.                                                           *)
Refused(name) == name # <<>> /\ Head(name) = Empty

(* A write gives the node at the end of the path its new value and makes   *)
(* the nodes that are missing on the way. An empty component further on,   *)
(* or the end of the memory, stops it where it has got to.                 *)
Put(d, at, name, n) ==
  LET p    == Target(d.tree, at, name)
      made == BeforeEmpty(p)
  IN  \/ /\ Refused(name)
         /\ res' = "bad" /\ Become(d)
      \/ /\ ~Refused(name) /\ made = p
         /\ res' = "ok" /\ Become([Plant(d, p) EXCEPT !.tree[p] = n])
      \/ /\ ~Refused(name) /\ made # p
         /\ res' = "bad" /\ Become(Plant(d, made))
      \/ /\ ~Refused(name) /\ made \notin DOMAIN d.tree
         /\ res' = "full" /\ \E k \in 0 .. Len(made) - 1 : Become(Plant(d, Place(made, k)))
-----------------------------------------------------------------------------
Set(d, c) == c.op = "set" /\ Put(d, c.at, c.name, Node(c.value, FALSE))
Symlink(d, c) == c.op = "symlink" /\ Put(d, c.at, c.name, Node(c.value, TRUE))

(* hdf_get_node creates what is not there.                                 *)
GetNode(d, c) ==
  /\ c.op = "node"
  /\ IF Found(d.tree, c.at, c.name) # {} THEN res' = "ok" /\ Become(d)
     ELSE Put(d, c.at, c.name, Blank)

(* A removal takes the whole subtree, follows no link and forgives a name  *)
(* that is not there.                                                      *)
RemoveTree(d, c) ==
  LET p    == c.at \o c.name
      gone == {q \in DOMAIN d.tree : IsPrefix(p, q)}
      left == DOMAIN d.tree \ gone
  IN  /\ c.op = "remove"
      /\ res' = "ok"
      /\ tree' = [q \in left |-> d.tree[q]]
      /\ order' = [q \in left |->
                     IF p \in gone /\ q = Front(p)
                     THEN SelectSeq(d.order[q], LAMBDA n : n # Last(p)) ELSE d.order[q]]

Sort(d, c) ==
  /\ c.op = "sort"
  /\ res' = "ok"
  /\ tree' = d.tree
  /\ \E kids \in SetToSeqs(ToSet(d.order[c.at])) : order' = [d.order EXCEPT ![c.at] = kids]

(* The copy of a subtree is merged into the destination: every node below  *)
(* the source is written below the destination, new names after those      *)
(* that are there. Nothing is promised when the source holds the           *)
(* destination, or when children are hidden behind a link on either side.  *)
Vague(d, c, into) ==
  \/ IsPrefix(c.value, into)
  \/ IsLink(d.tree, into)
  \/ \E q \in DOMAIN d.tree :
       IsLink(d.tree, q) /\ IsStrictPrefix(c.value, q) /\ d.order[q] # <<>>

(* `from` is the data set before, `d` the one that has the destination.    *)
Graft(from, src, d, into) ==
  LET below   == {q \in DOMAIN from.tree : IsStrictPrefix(src, q)}
      From(p) == src \o SubSeq(p, Len(into) + 1, Len(p))
      To(q)   == into \o SubSeq(q, Len(src) + 1, Len(q))
      new     == {To(q) : q \in below} \ DOMAIN d.tree
      had(p)  == IF p \in new THEN <<>> ELSE d.order[p]
  IN  [tree  |-> [p \in {To(q) : q \in below} |-> from.tree[From(p)]] @@ d.tree,
       order |-> [p \in DOMAIN d.tree \cup new |->
                    IF p \in {To(q) : q \in below \cup {src}}
                    THEN had(p) \o SelectSeq(from.order[From(p)], LAMBDA n : n \notin ToSet(had(p)))
                    ELSE had(p)]]

Copy(d, c) ==
  LET found == Found(d.tree, c.at, c.name)
      into  == IF found # {} THEN CHOOSE p \in found : TRUE ELSE Target(d.tree, c.at, c.name)
  IN  /\ c.op = "copy"
      /\ \/ Vague(d, c, into)
         \/ res' = "full"
         \/ found = {} /\ res' # "ok" /\ Put(d, c.at, c.name, Blank)
         \/ /\ ~Vague(d, c, into) /\ ~Contains(into, Empty)
            /\ res' = "ok" /\ Become(Graft(d, c.value, Plant(d, into), into))

(* A call whose walk never ends takes the process with it.                 *)
Endless(d, c) ==
  \/ c.op \in {"set", "symlink"} /\ ~Refused(c.name) /\ Target(d.tree, c.at, c.name) = Loop
  \/ c.op \in {"node", "copy"} /\ c.name # <<>> /\ Read(d.tree, c.at, c.name) = Loop

TreeInit ==
  /\ tree = (<<>> :> Blank)
  /\ order = (<<>> :> <<>>)
  /\ call = [op |-> "init"]
  /\ res = "ok"

TreeNext ==
  \E c \in Calls, d \in {[tree |-> tree, order |-> order]} :
    /\ res # "dead"
    /\ call' = c
    /\ IF Endless(d, c) THEN res' = "dead" /\ Become(d)
       ELSE \/ Set(d, c) \/ Symlink(d, c) \/ GetNode(d, c)
            \/ RemoveTree(d, c) \/ Sort(d, c) \/ Copy(d, c)

TreeSpec == TreeInit /\ [][TreeNext]_treeVars
=============================================================================
