----------------------------- MODULE HdfProofs -----------------------------
(* No call loses a node, or leaves a shortcut stale or a string with two   *)
(* owners: HeapSound is an invariant of Hdf.                               *)
EXTENDS Hdf, ListLemmas

ListRuns == INSTANCE LoopProofs WITH Body <- Forward
PathRuns == INSTANCE LoopProofs WITH Body <- Enter
WalkRuns == INSTANCE LoopProofs WITH Body <- WalkStep
WriteRuns == INSTANCE LoopProofs WITH Body <- WriteStep
CopyRuns == INSTANCE LoopProofs WITH Body <- CopyStep
-----------------------------------------------------------------------------
(* What holds of every heap between two calls, and between two iterations  *)
(* of the loops inside one.                                                *)

Fields == {"name", "value", "shares", "link", "attr", "next", "child",
           "last_hp", "last_hs", "hash", "last_child"}
Text == Seq(Names \cup {Empty, NoName})

IsHeap(h) ==
  /\ DOMAIN h \subseteq Cells /\ IsFiniteSet(DOMAIN h) /\ Top \in DOMAIN h
  /\ \A c \in DOMAIN h :
       /\ DOMAIN h[c] = Fields
       /\ h[c].name \in Names \cup {NoName}
       /\ h[c].value \in Text \cup {NoValue, Dangling}
       /\ h[c].link \in BOOLEAN

(* l is the list of the children of p.                                     *)
Level(h, p, l) ==
  /\ l \in Seq(DOMAIN h)
  /\ h[p].child = IF l = <<>> THEN Null ELSE l[1]
  /\ \A i \in 1 .. Len(l) : h[l[i]].next = IF i = Len(l) THEN Null ELSE l[i + 1]
  /\ \A i, j \in 1 .. Len(l) : h[l[i]].name = h[l[j]].name => i = j

Children(h, p) == ToSet(Kids(h, p))

(* Every node but the top one is in one list, and none is cut off.         *)
Levels(h) == \A p \in DOMAIN h : Level(h, p, Kids(h, p))
Apart(h) == \A p, q \in DOMAIN h : p # q => Children(h, p) \cap Children(h, q) = {}
Placing(h) ==
  /\ h[Top].next = Null
  /\ \A c \in DOMAIN h : c # Top <=> \E p \in DOMAIN h : c \in Children(h, p)
Joins(h) == \A S \in SUBSET DOMAIN h : Top \in S /\ Closed(h, S) => S = DOMAIN h
Shape(h) == Levels(h) /\ Apart(h) /\ Placing(h) /\ Joins(h)

Shortcuts(h) ==
  \A p \in DOMAIN h :
    /\ h[p].hash \in {NoHash, Children(h, p)}
    /\ Kids(h, p) # <<>> => h[p].last_child = Last(Kids(h, p))
    /\ {h[p].last_hp, h[p].last_hs} \subseteq Children(h, p) \cup {Null}

(* Node o owns the string v.                                               *)
Owns(h, o, v) ==
  /\ o \in DOMAIN h /\ h[o].shares = Null /\ h[o].value = v
  /\ v \notin {NoValue, Dangling}
Shares(h) == \A c \in DOMAIN h : h[c].shares # Null => Owns(h, h[c].shares, h[c].value)

Sound(h) == IsHeap(h) /\ Shape(h) /\ Shortcuts(h) /\ Shares(h)
-----------------------------------------------------------------------------
(* Lists.                                                                  *)

(* An iteration, and the first of none, as the instances of Loop have it.  *)
LEMMA ListAfter ==
  ASSUME NEW x, NEW g, g[0] = x, \A n \in Nat : g[n + 1] = Forward(g[n])
  PROVE  \A n \in Nat : Listing!After(n, x) = g[n]
<1>1. \A n \in Nat : ListRuns!After(n, x) = g[n]
  BY ListRuns!AfterIs
<1> QED
  BY <1>1 DEF Listing!After, ListRuns!After, Listing!Once, ListRuns!Once

LEMMA NullIsNoCell ==
  ASSUME NEW h, IsHeap(h)
  PROVE  Null \notin DOMAIN h /\ DOMAIN h \subseteq Nat /\ Cardinality(DOMAIN h) \in Nat
BY HdfAssumption, FS_CardinalityType DEF IsHeap, Null

LEMMA ListFits ==
  ASSUME NEW h, IsHeap(h), NEW p, NEW l, Level(h, p, l)
  PROVE  Len(l) \in Nat /\ Len(l) <= Cardinality(DOMAIN h)
<1>1. l \in [1 .. Len(l) -> DOMAIN h] /\ Len(l) \in Nat
  BY DEF Level
<1>2. \A i, j \in 1 .. Len(l) : l[i] = l[j] => i = j
  BY DEF Level
<1>3. l \in Injection(1 .. Len(l), DOMAIN h)
  BY <1>1, <1>2 DEF Injection, IsInjective
<1>4. Cardinality(1 .. Len(l)) <= Cardinality(DOMAIN h)
  BY <1>3, FS_Injection DEF IsHeap
<1> QED
  BY <1>1, <1>4, FS_Interval

(* A list that the pointers make up is the one that is found.              *)
LEMMA KidsAre ==
  ASSUME NEW h, IsHeap(h), NEW p, NEW l, Level(h, p, l)
  PROVE  Kids(h, p) = l
<1> DEFINE n == Len(l)
           at(i) == IF i < n THEN l[i + 1] ELSE Null
           seen(i) == SubSeq(l, 1, IF i < n THEN i ELSE n)
           x == [heap |-> h, at |-> h[p].child, seen |-> <<>>]
           g == [i \in Nat |-> [heap |-> h, at |-> at(i), seen |-> seen(i)]]
<1>1. n \in Nat /\ n <= Cardinality(DOMAIN h) /\ Cardinality(DOMAIN h) \in Nat
  BY ListFits, NullIsNoCell
<1>2. g[0] = x
  <2>1. seen(0) = <<>>
    BY <1>1 DEF Level
  <2>2. l = <<>> <=> n = 0
    BY DEF Level
  <2>3. at(0) = h[p].child
    BY <1>1, <2>2 DEF Level
  <2> HIDE DEF seen, at
  <2> QED
    BY <2>1, <2>3
<1>3. ASSUME NEW i \in Nat PROVE g[i + 1] = Forward(g[i])
  <2>1. CASE i < n
    <3>1. at(i) = l[i + 1] /\ l[i + 1] \in DOMAIN h /\ i + 1 \in 1 .. n
      BY <1>1, <2>1 DEF Level
    <3>2. h[l[i + 1]].next = at(i + 1)
      BY <1>1, <2>1, <3>1 DEF Level
    <3>3. Append(seen(i), l[i + 1]) = seen(i + 1)
      BY <1>1, <2>1 DEF Level
    <3> HIDE DEF at, seen, n
    <3>4. g[i] = [heap |-> h, at |-> l[i + 1], seen |-> seen(i)]
      BY <3>1
    <3>5. g[i + 1] = [heap |-> h, at |-> at(i + 1), seen |-> seen(i + 1)]
      OBVIOUS
    <3> HIDE DEF g
    <3> QED
      BY <3>1, <3>2, <3>3, <3>4, <3>5 DEF Forward
  <2>2. CASE ~(i < n)
    <3>1. at(i) = Null /\ at(i + 1) = Null /\ seen(i + 1) = seen(i)
      BY <1>1, <2>2
    <3> HIDE DEF at, seen, n
    <3> QED
      BY <3>1, NullIsNoCell DEF Forward
  <2> QED
    BY <2>1, <2>2
<1>4. SubSeq(l, 1, n) = l
  BY <1>1 DEF Level
<1>5. g[Cardinality(DOMAIN h)].seen = l
  <2>1. seen(Cardinality(DOMAIN h)) = l
    BY <1>1, <1>4
  <2> HIDE DEF seen, at
  <2> QED
    BY <1>1, <2>1
<1>6. Listing!After(Cardinality(DOMAIN h), x) = g[Cardinality(DOMAIN h)]
  <2> HIDE DEF g, x
  <2> QED
    BY <1>1, <1>2, <1>3, ListAfter
<1> HIDE DEF g
<1> QED
  BY <1>5, <1>6 DEF Kids, List

(* h2 has the nodes of h, with the same in the fields K.                   *)
Alike(h, h2, K) == DOMAIN h2 = DOMAIN h /\ \A c \in DOMAIN h, k \in K : h2[c][k] = h[c][k]

LEMMA ChildrenAre ==
  ASSUME NEW h, Levels(h), NEW p \in DOMAIN h
  PROVE  /\ Kids(h, p) \in Seq(DOMAIN h) /\ Len(Kids(h, p)) \in Nat
         /\ Children(h, p) = {Kids(h, p)[i] : i \in 1 .. Len(Kids(h, p))}
         /\ Children(h, p) \subseteq DOMAIN h
         /\ \A i, j \in 1 .. Len(Kids(h, p)) : Kids(h, p)[i] = Kids(h, p)[j] => i = j
         /\ Kids(h, p) = <<>> <=> Len(Kids(h, p)) = 0
         /\ Kids(h, p) # <<>> => Last(Kids(h, p)) \in Children(h, p)
<1>1. PICK l : l = Kids(h, p)
  OBVIOUS
<1>2. /\ l \in Seq(DOMAIN h)
      /\ \A i, j \in 1 .. Len(l) : h[l[i]].name = h[l[j]].name => i = j
  BY <1>1 DEF Levels, Level
<1>3. Children(h, p) = {l[i] : i \in 1 .. Len(l)}
  BY <1>1, <1>2 DEF Children, ToSet
<1>4. Len(l) \in Nat /\ (l = <<>> <=> Len(l) = 0)
  BY <1>2
<1>5. l # <<>> => Last(l) \in Children(h, p)
  BY <1>3, <1>4 DEF Last
<1> QED
  BY <1>1, <1>2, <1>3, <1>4, <1>5

LEMMA ShapeKept ==
  ASSUME NEW h, NEW h2, IsHeap(h), Shape(h), IsHeap(h2), Alike(h, h2, {"child", "next", "name"})
  PROVE  Shape(h2) /\ \A p \in DOMAIN h : Kids(h2, p) = Kids(h, p) /\ Children(h2, p) = Children(h, p)
<1>1. DOMAIN h2 = DOMAIN h
  BY DEF Alike
<1>2. \A c \in DOMAIN h : h2[c].child = h[c].child /\ h2[c].next = h[c].next /\ h2[c].name = h[c].name
  BY DEF Alike
<1>3. ASSUME NEW p \in DOMAIN h PROVE Level(h2, p, Kids(h, p))
  <2>1. Level(h, p, Kids(h, p))
    BY DEF Shape, Levels
  <2>2. \A i \in 1 .. Len(Kids(h, p)) : Kids(h, p)[i] \in DOMAIN h
    BY <2>1 DEF Level
  <2> QED
    BY <1>1, <1>2, <2>1, <2>2 DEF Level
<1>4. \A p \in DOMAIN h : Kids(h2, p) = Kids(h, p)
  BY <1>3, KidsAre
<1>5. \A p \in DOMAIN h : Children(h2, p) = Children(h, p)
  BY <1>4 DEF Children
<1>6. Levels(h2)
  BY <1>1, <1>3, <1>4 DEF Levels
<1>7. Apart(h2) /\ Placing(h2)
  BY <1>1, <1>2, <1>5 DEF Shape, Apart, Placing, IsHeap
<1>8. Joins(h2)
  <2>1. \A S \in SUBSET DOMAIN h : Closed(h2, S) <=> Closed(h, S)
    BY <1>2 DEF Closed
  <2> QED
    BY <1>1, <2>1 DEF Shape, Joins
<1> QED
  BY <1>4, <1>5, <1>6, <1>7, <1>8 DEF Shape

LEMMA ShortcutsKept ==
  ASSUME NEW h, NEW h2, IsHeap(h), Shape(h), Shortcuts(h), IsHeap(h2),
         Alike(h, h2, {"child", "next", "name", "hash", "last_child", "last_hp", "last_hs"})
  PROVE  Shape(h2) /\ Shortcuts(h2)
<1>1. Alike(h, h2, {"child", "next", "name"})
  BY DEF Alike
<1>2. /\ DOMAIN h2 = DOMAIN h
      /\ \A c \in DOMAIN h : /\ h2[c].hash = h[c].hash /\ h2[c].last_child = h[c].last_child
                             /\ h2[c].last_hp = h[c].last_hp /\ h2[c].last_hs = h[c].last_hs
  BY DEF Alike
<1> QED
  BY <1>1, <1>2, ShapeKept DEF Shortcuts

LEMMA SharesKept ==
  ASSUME NEW h, NEW h2, IsHeap(h), Shares(h), Alike(h, h2, {"shares", "value"})
  PROVE  Shares(h2)
BY DEF Alike, Shares, Owns

-----------------------------------------------------------------------------
(* Looking one component up.                                               *)

LEMMA InListIs ==
  ASSUME NEW h, NEW S, NEW l \in Seq(S), NEW n
  PROVE  \/ /\ InList(h, l, n) = 0
            /\ \A i \in 1 .. Len(l) : h[l[i]].name # n
         \/ /\ InList(h, l, n) \in 1 .. Len(l)
            /\ h[l[InList(h, l, n)]].name = n
<1> DEFINE I == {i \in 1 .. Len(l) : h[l[i]].name = n}
<1>1. InList(h, l, n) = IF I # {} THEN Min(I) ELSE 0
  BY DEF InList, SelectInSeq
<1>2. I \in SUBSET Nat
  OBVIOUS
<1>3. I # {} => Min(I) \in I
  BY <1>2, Least
<1> QED
  BY <1>1, <1>3

LEMMA ChildIs ==
  ASSUME NEW h, IsHeap(h), Levels(h), NEW p \in DOMAIN h, NEW n
  PROVE  \/ Child(h, p, n) = Null /\ \A c \in Children(h, p) : h[c].name # n
         \/ Child(h, p, n) \in Children(h, p) /\ h[Child(h, p, n)].name = n
<1> DEFINE l == Kids(h, p)
           i == InList(h, l, n)
<1>1. l \in Seq(DOMAIN h) /\ Children(h, p) = {l[j] : j \in 1 .. Len(l)}
  BY ChildrenAre
<1>2. Child(h, p, n) = IF i = 0 THEN Null ELSE l[i]
  BY DEF Child
<1>3. \/ i = 0 /\ \A j \in 1 .. Len(l) : h[l[j]].name # n
      \/ i \in 1 .. Len(l) /\ h[l[i]].name = n
  BY <1>1, InListIs
<1> HIDE DEF l, i
<1> QED
  BY <1>1, <1>2, <1>3

LEMMA LookupIs ==
  ASSUME NEW h, IsHeap(h), Levels(h), Shortcuts(h), NEW p \in DOMAIN h, NEW n
  PROVE  \/ Lookup(h, p, n) = Null /\ \A c \in Children(h, p) : h[c].name # n
         \/ Lookup(h, p, n) \in Children(h, p) /\ h[Lookup(h, p, n)].name = n
<1>1. CASE h[p].hash = NoHash
  BY <1>1, ChildIs DEF Lookup
<1>2. CASE h[p].hash # NoHash
  <2>1. h[p].hash = Children(h, p)
    BY <1>2 DEF Shortcuts
  <2>2. InHash(h, p, n) = {c \in Children(h, p) : h[c].name = n}
    BY <2>1 DEF InHash
  <2>3. CASE InHash(h, p, n) = {}
    BY <1>2, <2>2, <2>3 DEF Lookup
  <2>4. CASE InHash(h, p, n) # {}
    <3>1. Lookup(h, p, n) \in InHash(h, p, n)
      BY <1>2, <2>4 DEF Lookup
    <3> QED
      BY <2>2, <3>1
  <2> QED
    BY <2>3, <2>4
<1> QED
  BY <1>1, <1>2

(* Where a name is, or where to append it.                                 *)
LEMMA FindIs ==
  ASSUME NEW h, IsHeap(h), Shape(h), Shortcuts(h), NEW p \in DOMAIN h, NEW n
  PROVE  /\ Find(h, p, n).hp # Null =>
              Find(h, p, n).hp \in Children(h, p) /\ Find(h, p, n).hs \in Children(h, p) \cup {Null}
         /\ Find(h, p, n).hp = Null =>
              /\ \A c \in Children(h, p) : h[c].name # n
              /\ Kids(h, p) # <<>> => Find(h, p, n).hs = Last(Kids(h, p))
<1> DEFINE kids == Kids(h, p)
           i == InList(h, kids, n)
<1>1. Levels(h)
  BY DEF Shape
<1>2. Null \notin Children(h, p)
  BY <1>1, ChildrenAre, NullIsNoCell
<1>3. CASE CacheHit(h, p, n)
  <2>1. Find(h, p, n) = [hp |-> h[p].last_hp, hs |-> h[p].last_hs, count |-> 0]
    BY <1>3 DEF Find
  <2> QED
    BY <1>3, <2>1 DEF CacheHit, Shortcuts
<1>4. CASE ~CacheHit(h, p, n) /\ h[p].hash # NoHash
  <2>1. Find(h, p, n) = [hp |-> Lookup(h, p, n), hs |-> Tip(h, p), count |-> 0]
    BY <1>4 DEF Find
  <2>2. Kids(h, p) # <<>> => Tip(h, p) = Last(Kids(h, p))
    BY DEF Tip, Shortcuts
  <2>3. Lookup(h, p, n) \in Children(h, p) => Kids(h, p) # <<>>
    BY <1>1, ChildrenAre
  <2> QED
    BY <1>1, <1>2, <2>1, <2>2, <2>3, LookupIs, ChildrenAre
<1>5. CASE ~CacheHit(h, p, n) /\ h[p].hash = NoHash
  <2>1. Find(h, p, n) =
          IF i # 0 THEN [hp |-> kids[i], hs |-> IF i = 1 THEN Null ELSE kids[i - 1], count |-> i - 1]
          ELSE [hp |-> Null, hs |-> IF kids = <<>> THEN Null ELSE Last(kids), count |-> Len(kids)]
    BY <1>5 DEF Find
  <2>2. kids \in Seq(DOMAIN h) /\ Children(h, p) = {kids[j] : j \in 1 .. Len(kids)}
    BY <1>1, ChildrenAre
  <2>3. \/ i = 0 /\ \A j \in 1 .. Len(kids) : h[kids[j]].name # n
        \/ i \in 1 .. Len(kids)
    BY <2>2, InListIs
  <2> HIDE DEF i, kids
  <2>4. CASE i = 0
    BY <2>1, <2>2, <2>3, <2>4 DEF kids
  <2>5. CASE i # 0
    <3>1. kids[i] \in Children(h, p) /\ (i # 1 => kids[i - 1] \in Children(h, p))
      BY <2>2, <2>3, <2>5
    <3> QED
      BY <1>2, <2>1, <2>5, <3>1
  <2> QED
    BY <2>4, <2>5
<1> QED
  BY <1>3, <1>4, <1>5
-----------------------------------------------------------------------------
(* Walking: what is found is there.                                        *)

LEMMA PathIterates ==
  ASSUME NEW x
  PROVE  Entering!After(0, x) = x /\ \A n \in Nat : Entering!After(n + 1, x) = Enter(Entering!After(n, x))
<1>1. PathRuns!After(0, x) = x /\ \A n \in Nat : PathRuns!After(n + 1, x) = Enter(PathRuns!After(n, x))
  BY PathRuns!AfterStep
<1> QED
  BY <1>1 DEF Entering!After, PathRuns!After, Entering!Once, PathRuns!Once

LEMMA WalkIterates ==
  ASSUME NEW x
  PROVE  Walking!After(0, x) = x /\ \A n \in Nat : Walking!After(n + 1, x) = WalkStep(Walking!After(n, x))
<1>1. WalkRuns!After(0, x) = x /\ \A n \in Nat : WalkRuns!After(n + 1, x) = WalkStep(WalkRuns!After(n, x))
  BY WalkRuns!AfterStep
<1> QED
  BY <1>1 DEF Walking!After, WalkRuns!After, Walking!Once, WalkRuns!Once

LEMMA BelowIs ==
  ASSUME NEW h, IsHeap(h), Levels(h), NEW c \in DOMAIN h, NEW path, Len(path) \in Nat
  PROVE  Below(h, c, path) \in DOMAIN h \cup {Null}
<1> DEFINE x == [heap |-> h, node |-> c, path |-> path]
           at(n) == Entering!After(n, x)
           fits(d) == d.heap = h /\ d.node \in DOMAIN h \cup {Null}
           S == {n \in Nat : fits(at(n))}
<1>1. at(0) = x /\ \A n \in Nat : at(n + 1) = Enter(at(n))
  <2> HIDE DEF x
  <2> QED
    BY PathIterates
<1>2. fits(x)
  OBVIOUS
<1>3. ASSUME NEW d, fits(d) PROVE fits(Enter(d))
  <2>1. d.node # Null => Child(h, d.node, Head(d.path)) \in DOMAIN h \cup {Null}
    BY <1>3, ChildIs, ChildrenAre
  <2> QED
    BY <1>3, <2>1 DEF Enter
<1> HIDE DEF at, fits
<1>4. 0 \in S /\ \A n \in S : n + 1 \in S
  BY <1>1, <1>2, <1>3
<1>5. fits(at(Len(path)))
  BY <1>4, Counting
<1> QED
  BY <1>5 DEF Below, at, fits

(* A walk stands on a node as long as it goes on.                          *)
Walks(h, w) ==
  /\ w = Walker(h, w.node, w.path, w.stage)
  /\ IF w.stage = "ended" THEN w.node \in DOMAIN h \cup {Null, Broken}
     ELSE w.node \in DOMAIN h /\ w.path \in Text

LEMMA FollowIs ==
  ASSUME NEW h, IsHeap(h), NEW c \in DOMAIN h, NEW path \in Text
  PROVE  Walks(h, Follow(h, c, path))
<1>1. CASE ~Leads(h, c)
  BY <1>1 DEF Follow, Walks, Walker
<1>2. CASE Leads(h, c)
  <2>1. h[c].value \in Text
    BY <1>2 DEF Leads, IsHeap
  <2>2. h[c].value \o path \in Text
    BY <2>1 DEF Text
  <2>3. Top \in DOMAIN h
    BY DEF IsHeap
  <2> QED
    BY <1>2, <2>2, <2>3 DEF Follow, Walks, Walker
<1> QED
  BY <1>1, <1>2

LEMMA WalkStepIs ==
  ASSUME NEW h, IsHeap(h), Levels(h), Shortcuts(h), NEW w, Walks(h, w)
  PROVE  Walks(h, WalkStep(w))
<1>1. w.heap = h
  BY DEF Walks, Walker
<1>2. CASE w.stage = "ended"
  BY <1>2 DEF WalkStep
<1>3. CASE w.stage # "ended" /\ w.path = <<>>
  BY <1>1, <1>3 DEF WalkStep, Walks, Walker
<1>4. CASE w.stage # "ended" /\ w.path # <<>>
  <2> DEFINE c == Lookup(h, w.node, Head(w.path))
  <2>1. w.node \in DOMAIN h /\ w.path \in Text
    BY <1>4 DEF Walks
  <2>2. c = Null \/ c \in DOMAIN h
    BY <2>1, LookupIs, ChildrenAre
  <2>3. Tail(w.path) \in Text /\ <<>> \in Text
    BY <1>4, <2>1 DEF Text
  <2> HIDE DEF c
  <2>4. CASE w.stage = "at" /\ h[w.node].link
    BY <1>1, <1>4, <2>1, <2>4, FollowIs DEF WalkStep
  <2>5. CASE ~(w.stage = "at" /\ h[w.node].link) /\ c = Null
    <3>1. WalkStep(w) = Walker(h, Null, w.path, "ended")
      BY <1>1, <1>4, <2>5 DEF WalkStep, c
    <3> QED
      BY <3>1 DEF Walks, Walker
  <2>6. CASE ~(w.stage = "at" /\ h[w.node].link) /\ c # Null
    <3>1. WalkStep(w) = IF Len(w.path) = 1 /\ h[c].link THEN Follow(h, c, <<>>)
                        ELSE Walker(h, c, Tail(w.path), IF Len(w.path) = 1 THEN "in" ELSE "at")
      BY <1>1, <1>4, <2>6 DEF WalkStep, c
    <3>2. Walks(h, Follow(h, c, <<>>))
      BY <2>2, <2>3, <2>6, FollowIs
    <3>3. Walks(h, Walker(h, c, Tail(w.path), IF Len(w.path) = 1 THEN "in" ELSE "at"))
      BY <2>2, <2>3, <2>6 DEF Walks, Walker
    <3> QED
      BY <3>1, <3>2, <3>3
  <2> QED
    BY <2>4, <2>5, <2>6
<1> QED
  BY <1>2, <1>3, <1>4

LEMMA WalkIs ==
  ASSUME NEW h, IsHeap(h), Levels(h), Shortcuts(h), NEW start \in DOMAIN h, NEW path \in Text
  PROVE  Walk(h, start, path) \in DOMAIN h \cup {Null, Broken}
<1> DEFINE x == Walker(h, start, path, "at")
           at(n) == Walking!After(n, x)
           S == {n \in Nat : Walks(h, at(n))}
<1>1. at(0) = x /\ \A n \in Nat : at(n + 1) = WalkStep(at(n))
  <2> HIDE DEF x
  <2> QED
    BY WalkIterates
<1>2. Walks(h, x)
  BY DEF Walks, Walker
<1> HIDE DEF at
<1>3. 0 \in S /\ \A n \in S : n + 1 \in S
  BY <1>1, <1>2, WalkStepIs
<1>4. Walks(h, at(MaxSteps))
  BY <1>3, Counting, HdfAssumption
<1> QED
  BY <1>4 DEF Walk, at, Walks
-----------------------------------------------------------------------------
(* Writing: the places remembered, the values assigned and shared.         *)

LEMMA PointersLead ==
  ASSUME NEW h, IsHeap(h), Levels(h), Placing(h), NEW c \in DOMAIN h
  PROVE  h[c].child \in DOMAIN h \cup {Null} /\ h[c].next \in DOMAIN h \cup {Null}
<1>1. h[c].child \in DOMAIN h \cup {Null}
  <2>1. PICK l : l = Kids(h, c)
    OBVIOUS
  <2>2. l \in Seq(DOMAIN h) /\ h[c].child = IF l = <<>> THEN Null ELSE l[1]
    BY <2>1 DEF Levels, Level
  <2> QED
    BY <2>2
<1>2. CASE c = Top
  BY <1>1, <1>2 DEF Placing
<1>3. CASE c # Top
  <2>1. PICK p \in DOMAIN h : c \in Children(h, p)
    BY <1>3 DEF Placing
  <2>2. PICK l : l = Kids(h, p)
    OBVIOUS
  <2>3. PICK i \in 1 .. Len(l) : c = l[i]
    <3>1. \E i \in 1 .. Len(Kids(h, p)) : c = Kids(h, p)[i]
      BY <2>1, ChildrenAre
    <3> QED
      BY <2>2, <3>1
  <2>4. l \in Seq(DOMAIN h) /\ h[l[i]].next = IF i = Len(l) THEN Null ELSE l[i + 1]
    BY <2>2 DEF Levels, Level
  <2> QED
    BY <1>1, <2>3, <2>4
<1> QED
  BY <1>2, <1>3

LEMMA RememberKeeps ==
  ASSUME NEW h, Sound(h), NEW p \in DOMAIN h, NEW f,
         f.hp # Null => f.hp \in Children(h, p) /\ f.hs \in Children(h, p) \cup {Null}
  PROVE  /\ Sound(Remember(h, p, f))
         /\ Alike(h, Remember(h, p, f), Fields \ {"last_hp", "last_hs"})
<1> DEFINE r == Remember(h, p, f)
<1>1. CASE f.hp = Null
  BY <1>1 DEF Remember, Alike
<1>2. CASE f.hp # Null
  <2>1. r = [h EXCEPT ![p].last_hp = f.hp, ![p].last_hs = f.hs]
    BY <1>2 DEF Remember
  <2>2. DOMAIN r = DOMAIN h /\ \A c \in DOMAIN h : DOMAIN r[c] = Fields
    BY <2>1 DEF Sound, IsHeap
  <2>3. \A c \in DOMAIN h, k \in Fields :
          r[c][k] = IF c = p /\ k = "last_hp" THEN f.hp
                    ELSE IF c = p /\ k = "last_hs" THEN f.hs ELSE h[c][k]
    <3> DEFINE m == [h EXCEPT ![p].last_hp = f.hp]
    <3>1. /\ DOMAIN m = DOMAIN h /\ \A c \in DOMAIN h : DOMAIN m[c] = Fields
          /\ \A c \in DOMAIN h, k \in Fields : m[c][k] = IF c = p /\ k = "last_hp" THEN f.hp ELSE h[c][k]
      BY DEF Sound, IsHeap, Fields
    <3>2. r = [m EXCEPT ![p].last_hs = f.hs]
      BY <2>1
    <3> HIDE DEF m, r
    <3>3. \A c \in DOMAIN h, k \in Fields : r[c][k] = IF c = p /\ k = "last_hs" THEN f.hs ELSE m[c][k]
      BY <3>1, <3>2 DEF Fields
    <3> QED
      BY <3>1, <3>3
  <2> HIDE DEF r
  <2>4. IsHeap(r)
    BY <2>2, <2>3 DEF Sound, IsHeap, Fields
  <2>5. Alike(h, r, Fields \ {"last_hp", "last_hs"})
    BY <2>2, <2>3 DEF Alike
  <2>6. Alike(h, r, {"child", "next", "name"}) /\ Alike(h, r, {"shares", "value"})
    BY <2>5 DEF Alike, Fields
  <2>7. Shape(r) /\ \A q \in DOMAIN h : Kids(r, q) = Kids(h, q) /\ Children(r, q) = Children(h, q)
    BY <2>4, <2>6, ShapeKept DEF Sound
  <2>8. Shares(r)
    BY <2>6, SharesKept DEF Sound
  <2>9. Shortcuts(r)
    BY <1>2, <2>2, <2>3, <2>7 DEF Sound, Shortcuts, Fields
  <2> QED
    BY <2>4, <2>5, <2>7, <2>8, <2>9 DEF Sound, r
<1> QED
  BY <1>1, <1>2

(* What is written fits the heap: a string that is not copied has an owner.*)
Given(h, a) ==
  /\ a.value \in Text \cup {NoValue, Dangling} /\ a.link \in BOOLEAN
  /\ ~a.dupl /\ a.from # Null => Owns(h, a.from, a.value)

LEMMA FreeIs ==
  ASSUME NEW h, IsHeap(h), NEW gone
  PROVE  /\ DOMAIN FreeStrings(h, gone) = DOMAIN h
         /\ \A c \in DOMAIN h :
              /\ DOMAIN FreeStrings(h, gone)[c] = Fields
              /\ \A k \in Fields :
                   FreeStrings(h, gone)[c][k] =
                     IF h[c].shares \in gone /\ k = "value" THEN Dangling
                     ELSE IF h[c].shares \in gone /\ k = "shares" THEN Null
                     ELSE h[c][k]
BY DEF FreeStrings, IsHeap

LEMMA AssignIs ==
  ASSUME NEW h, IsHeap(h), NEW c \in DOMAIN h, NEW a, Given(h, a)
  PROVE  /\ IsHeap(Assign(h, c, a))
         /\ Alike(h, Assign(h, c, a), Fields \ {"value", "shares", "attr", "link"})
<1> DEFINE same == IF a.value = NoValue THEN h[c].value = NoValue
                   ELSE a.from # Null /\ a.from = Owner(h, c)
           mine == h[c].shares = Null /\ h[c].value \notin {NoValue, Dangling}
           h1 == IF mine THEN FreeStrings(h, {c}) ELSE h
           h2 == IF same THEN h
                 ELSE [h1 EXCEPT ![c].value = a.value,
                                 ![c].shares = IF a.dupl THEN Null ELSE a.from]
           r == Assign(h, c, a)
<1>1. DOMAIN h1 = DOMAIN h /\ \A x \in DOMAIN h : DOMAIN h1[x] = Fields
  BY FreeIs DEF IsHeap
<1>2. /\ \A x \in DOMAIN h, k \in Fields \ {"value", "shares"} : h1[x][k] = h[x][k]
      /\ \A x \in DOMAIN h : h1[x].value \in {h[x].value, Dangling}
  BY FreeIs DEF Fields
<1> HIDE DEF h1
<1>3. DOMAIN h2 = DOMAIN h /\ \A x \in DOMAIN h : DOMAIN h2[x] = Fields
  BY <1>1 DEF IsHeap
<1>4. /\ \A x \in DOMAIN h, k \in Fields \ {"value", "shares"} : h2[x][k] = h[x][k]
      /\ \A x \in DOMAIN h : h2[x].value \in {h[x].value, Dangling, a.value}
  <2>1. CASE same
    BY <2>1
  <2>2. CASE ~same
    <3> DEFINE m == [h1 EXCEPT ![c].value = a.value]
    <3>1. /\ DOMAIN m = DOMAIN h /\ \A x \in DOMAIN h : DOMAIN m[x] = Fields
          /\ \A x \in DOMAIN h, k \in Fields : m[x][k] = IF x = c /\ k = "value" THEN a.value ELSE h1[x][k]
      BY <1>1 DEF Fields
    <3>2. h2 = [m EXCEPT ![c].shares = IF a.dupl THEN Null ELSE a.from]
      BY <2>2
    <3> HIDE DEF m, same, h2
    <3>3. \A x \in DOMAIN h, k \in Fields \ {"shares"} : h2[x][k] = m[x][k]
      BY <3>1, <3>2 DEF Fields
    <3> QED
      BY <1>2, <3>1, <3>3 DEF Fields
  <2> QED
    BY <2>1, <2>2
<1>5. r = [h2 EXCEPT ![c].attr = IF @ = <<>> THEN a.attr ELSE Attr!MergeAttr(@, a.attr),
                     ![c].link = a.link]
  BY DEF Assign, h1
<1> HIDE DEF h2, r
<1>6. DOMAIN r = DOMAIN h /\ \A x \in DOMAIN h : DOMAIN r[x] = Fields
  BY <1>3, <1>5
<1>7. /\ \A x \in DOMAIN h, k \in Fields \ {"value", "shares", "attr", "link"} : r[x][k] = h[x][k]
      /\ \A x \in DOMAIN h : r[x].value = h2[x].value /\ r[x].link \in {h[x].link, a.link}
  <2> DEFINE v == IF h2[c].attr = <<>> THEN a.attr ELSE Attr!MergeAttr(h2[c].attr, a.attr)
             m == [h2 EXCEPT ![c].attr = v]
  <2>1. /\ DOMAIN m = DOMAIN h /\ \A x \in DOMAIN h : DOMAIN m[x] = Fields
        /\ \A x \in DOMAIN h, k \in Fields \ {"attr"} : m[x][k] = h2[x][k]
    <3> HIDE DEF v
    <3> QED
      BY <1>3 DEF Fields
  <2>2. r = [m EXCEPT ![c].link = a.link]
    BY <1>5
  <2> HIDE DEF m
  <2>3. \A x \in DOMAIN h, k \in Fields :
          r[x][k] = IF x = c /\ k = "link" THEN a.link ELSE m[x][k]
    BY <2>1, <2>2 DEF Fields
  <2> QED
    BY <1>4, <2>1, <2>3 DEF Fields
<1>8. IsHeap(r)
  BY <1>4, <1>6, <1>7 DEF IsHeap, Given, Fields
<1> QED
  BY <1>6, <1>7, <1>8 DEF Alike, r

LEMMA AssignShares ==
  ASSUME NEW h, IsHeap(h), Shares(h), NEW c \in DOMAIN h, NEW a, Given(h, a)
  PROVE  Shares(Assign(h, c, a))
<1> DEFINE same == IF a.value = NoValue THEN h[c].value = NoValue
                   ELSE a.from # Null /\ a.from = Owner(h, c)
           mine == h[c].shares = Null /\ h[c].value \notin {NoValue, Dangling}
           h1 == IF mine THEN FreeStrings(h, {c}) ELSE h
           h2 == IF same THEN h
                 ELSE [h1 EXCEPT ![c].value = a.value,
                                 ![c].shares = IF a.dupl THEN Null ELSE a.from]
           r == Assign(h, c, a)
<1>1. /\ DOMAIN h1 = DOMAIN h
      /\ \A x \in DOMAIN h : DOMAIN h1[x] = Fields
      /\ \A x \in DOMAIN h :
           IF mine /\ h[x].shares = c THEN h1[x].value = Dangling /\ h1[x].shares = Null
           ELSE h1[x].value = h[x].value /\ h1[x].shares = h[x].shares
  BY FreeIs DEF IsHeap, Fields
<1> HIDE DEF h1
<1>2. ~same => /\ DOMAIN h2 = DOMAIN h
               /\ \A x \in DOMAIN h : DOMAIN h2[x] = Fields
               /\ \A x \in DOMAIN h : x # c => h2[x].value = h1[x].value /\ h2[x].shares = h1[x].shares
               /\ h2[c].value = a.value /\ h2[c].shares = IF a.dupl THEN Null ELSE a.from
  BY <1>1 DEF IsHeap, Fields
<1>3. r = [h2 EXCEPT ![c].attr = IF @ = <<>> THEN a.attr ELSE Attr!MergeAttr(@, a.attr),
                     ![c].link = a.link]
  BY DEF Assign, h1
<1>4. same => h2 = h
  OBVIOUS
<1> HIDE DEF h2, r
<1>5. /\ DOMAIN r = DOMAIN h
      /\ \A x \in DOMAIN h : r[x].value = h2[x].value /\ r[x].shares = h2[x].shares
  <2>1. DOMAIN h2 = DOMAIN h /\ \A x \in DOMAIN h : DOMAIN h2[x] = Fields
    BY <1>2, <1>4 DEF IsHeap
  <2> HIDE DEF same
  <2> QED
    BY <1>3, <2>1 DEF Fields
<1>6. CASE same
  BY <1>4, <1>5, <1>6 DEF Shares, Owns, r
<1>7. CASE ~same
  <2>1. SUFFICES ASSUME NEW x \in DOMAIN h, r[x].shares # Null
                 PROVE  Owns(r, r[x].shares, r[x].value)
    BY <1>5 DEF Shares, r
  <2>2. \A y \in DOMAIN h : y # c => r[y].value = h1[y].value /\ r[y].shares = h1[y].shares
    BY <1>2, <1>5, <1>7
  <2>3. r[c].value = a.value /\ r[c].shares = IF a.dupl THEN Null ELSE a.from
    BY <1>2, <1>5, <1>7
  <2> HIDE DEF same
  <2>4. CASE x # c
    <3>1. ~(mine /\ h[x].shares = c) /\ r[x].value = h[x].value /\ r[x].shares = h[x].shares
      BY <1>1, <2>1, <2>2, <2>4
    <3> DEFINE o == h[x].shares
    <3>2. Owns(h, o, h[x].value)
      BY <2>1, <3>1 DEF Shares
    <3>3. o # c
      BY <3>1, <3>2 DEF Owns
    <3>4. r[o].value = h[o].value /\ r[o].shares = h[o].shares
      BY <1>1, <2>2, <3>2, <3>3, NullIsNoCell DEF Owns
    <3> QED
      BY <1>5, <3>1, <3>2, <3>4 DEF Owns
  <2>5. CASE x = c
    <3> DEFINE o == a.from
    <3>1. ~a.dupl /\ o # Null /\ r[c].shares = o
      BY <2>1, <2>3, <2>5
    <3>2. Owns(h, o, a.value)
      BY <3>1 DEF Given
    <3>3. o # c
      <4>1. SUFFICES ASSUME o = c PROVE FALSE
        OBVIOUS
      <4>2. Owner(h, c) = c
        BY <3>2, <4>1 DEF Owner, Owns
      <4> QED
        BY <1>7, <3>1, <3>2, <4>1, <4>2 DEF same, Owns
    <3>4. r[o].value = h[o].value /\ r[o].shares = h[o].shares
      BY <1>1, <2>2, <3>2, <3>3, NullIsNoCell DEF Owns
    <3> QED
      BY <1>5, <2>3, <2>5, <3>1, <3>2, <3>4 DEF Owns
  <2> QED
    BY <2>4, <2>5
<1> QED
  BY <1>6, <1>7

LEMMA AssignKeeps ==
  ASSUME NEW h, Sound(h), NEW c \in DOMAIN h, NEW a, Given(h, a)
  PROVE  Sound(Assign(h, c, a)) /\ DOMAIN Assign(h, c, a) = DOMAIN h
<1>1. IsHeap(Assign(h, c, a)) /\ Alike(h, Assign(h, c, a), Fields \ {"value", "shares", "attr", "link"})
  BY AssignIs DEF Sound
<1>2. Alike(h, Assign(h, c, a), {"child", "next", "name", "hash", "last_child", "last_hp", "last_hs"})
  BY <1>1 DEF Alike, Fields
<1>3. Shares(Assign(h, c, a))
  BY AssignShares DEF Sound
<1> QED
  BY <1>1, <1>2, <1>3, ShortcutsKept DEF Sound, Alike
-----------------------------------------------------------------------------
(* Writing: a node appended.                                               *)

(* Link before the hash table is brought up to date.                       *)
Hooked(h, p, f, c, node) ==
  LET h1 == [x \in DOMAIN h \cup {c} |-> IF x = c THEN node ELSE h[x]]
      h2 == IF h[p].child = Null THEN [h1 EXCEPT ![p].child = c]
            ELSE [h1 EXCEPT ![f.hs].next = c]
  IN  [h2 EXCEPT ![p].last_child = c]

(* A node that is in no list and has no list yet.                          *)
Unplaced(h, node) ==
  /\ DOMAIN node = Fields
  /\ node.name \in Names \cup {NoName} /\ node.link \in BOOLEAN
  /\ node.value \in Text \cup {NoValue, Dangling}
  /\ {node.next, node.child, node.last_hp, node.last_hs} = {Null} /\ node.hash = NoHash
  /\ node.shares # Null => Owns(h, node.shares, node.value)

(* c can be appended below p, at the place f.                              *)
Appends(h, p, f, c, node) ==
  /\ p \in DOMAIN h /\ c \in Cells \ DOMAIN h /\ Unplaced(h, node)
  /\ Kids(h, p) # <<>> => f.hs = Last(Kids(h, p))
  /\ \A k \in Children(h, p) : h[k].name # node.name

(* r is h with the node at c put after the list l of p.                    *)
Hooks(h, p, c, node, l, r) ==
  /\ DOMAIN r = DOMAIN h \cup {c} /\ \A x \in DOMAIN r : DOMAIN r[x] = Fields
  /\ \A k \in Fields : r[c][k] = node[k]
  /\ \A x \in DOMAIN h, k \in Fields :
       r[x][k] = IF (x = p /\ k = "child" /\ l = <<>>)
                    \/ (l # <<>> /\ x = Last(l) /\ k = "next")
                    \/ (x = p /\ k = "last_child")
                 THEN c ELSE h[x][k]

LEMMA HookedIs ==
  ASSUME NEW h, Sound(h), NEW p, NEW f, NEW c, NEW node, Appends(h, p, f, c, node),
         NEW r, r = Hooked(h, p, f, c, node), NEW l, l = Kids(h, p)
  PROVE  Hooks(h, p, c, node, l, r)
<1> DEFINE h1 == [x \in DOMAIN h \cup {c} |-> IF x = c THEN node ELSE h[x]]
           h2 == IF h[p].child = Null THEN [h1 EXCEPT ![p].child = c]
                 ELSE [h1 EXCEPT ![f.hs].next = c]
           D == DOMAIN h \cup {c}
<1>1. h[p].child = Null <=> l = <<>>
  <2>1. h[p].child = (IF l = <<>> THEN Null ELSE l[1]) /\ (l # <<>> => l[1] \in DOMAIN h)
    <3>1. PICK k : k = Kids(h, p)
      OBVIOUS
    <3>2. k \in Seq(DOMAIN h) /\ h[p].child = IF k = <<>> THEN Null ELSE k[1]
      BY <3>1 DEF Sound, Shape, Levels, Level, Appends
    <3>3. k # <<>> => k[1] \in DOMAIN h
      BY <3>2
    <3> QED
      BY <3>1, <3>2, <3>3
  <2> QED
    BY <2>1, NullIsNoCell DEF Sound
<1>2. l # <<>> => f.hs = Last(l) /\ Last(l) \in DOMAIN h
  BY ChildrenAre DEF Sound, Shape, Appends
<1>3. p \in DOMAIN h /\ c \notin DOMAIN h
  BY DEF Appends
<1>4. /\ DOMAIN h1 = D /\ \A x \in D : DOMAIN h1[x] = Fields
      /\ \A x \in DOMAIN h : h1[x] = h[x]
      /\ h1[c] = node
  BY <1>3 DEF Sound, IsHeap, Appends, Unplaced
<1> HIDE DEF h1
<1>5. CASE l = <<>>
  <2>1. h2 = [h1 EXCEPT ![p].child = c]
    BY <1>1, <1>5
  <2> HIDE DEF h2
  <2>2. /\ DOMAIN h2 = D /\ \A x \in D : DOMAIN h2[x] = Fields
        /\ \A x \in D, k \in Fields : h2[x][k] = IF x = p /\ k = "child" THEN c ELSE h1[x][k]
    BY <1>3, <1>4, <2>1 DEF Fields
  <2>3. r = [h2 EXCEPT ![p].last_child = c]
    BY DEF Hooked, h1, h2
  <2>4. /\ DOMAIN r = D /\ \A x \in D : DOMAIN r[x] = Fields
        /\ \A x \in D, k \in Fields : r[x][k] = IF x = p /\ k = "last_child" THEN c ELSE h2[x][k]
    BY <1>3, <2>2, <2>3 DEF Fields
  <2> HIDE DEF D
  <2>5. \A k \in Fields : r[c][k] = node[k]
    BY <1>3, <1>4, <2>2, <2>4 DEF D
  <2>6. \A x \in DOMAIN h, k \in Fields :
          r[x][k] = IF (x = p /\ k = "child") \/ (x = p /\ k = "last_child") THEN c ELSE h[x][k]
    BY <1>4, <2>2, <2>4 DEF D
  <2> QED
    BY <1>5, <2>4, <2>5, <2>6 DEF D, Hooks
<1>6. CASE l # <<>>
  <2> DEFINE e == Last(l)
  <2>1. h2 = [h1 EXCEPT ![e].next = c] /\ e \in DOMAIN h
    BY <1>1, <1>2, <1>6
  <2>3. r = [h2 EXCEPT ![p].last_child = c]
    BY DEF Hooked, h1, h2
  <2> HIDE DEF h2, e
  <2>2. /\ DOMAIN h2 = D /\ \A x \in D : DOMAIN h2[x] = Fields
        /\ \A x \in D, k \in Fields : h2[x][k] = IF x = e /\ k = "next" THEN c ELSE h1[x][k]
    BY <1>3, <1>4, <2>1 DEF Fields
  <2>4. /\ DOMAIN r = D /\ \A x \in D : DOMAIN r[x] = Fields
        /\ \A x \in D, k \in Fields : r[x][k] = IF x = p /\ k = "last_child" THEN c ELSE h2[x][k]
    BY <1>3, <2>2, <2>3 DEF Fields
  <2> HIDE DEF D
  <2>5. \A k \in Fields : r[c][k] = node[k]
    BY <1>3, <1>4, <2>1, <2>2, <2>4 DEF D
  <2>6. \A x \in DOMAIN h, k \in Fields :
          r[x][k] = IF (x = e /\ k = "next") \/ (x = p /\ k = "last_child") THEN c ELSE h[x][k]
    BY <1>4, <2>2, <2>4 DEF D
  <2> QED
    BY <1>6, <2>4, <2>5, <2>6 DEF D, e, Hooks
<1> QED
  BY <1>5, <1>6

LEMMA HookedShape ==
  ASSUME NEW h, Sound(h), NEW p, NEW f, NEW c, NEW node, Appends(h, p, f, c, node),
         NEW r, r = Hooked(h, p, f, c, node)
  PROVE  /\ IsHeap(r) /\ Shape(r)
         /\ Kids(r, p) = Append(Kids(h, p), c) /\ Children(r, p) = Children(h, p) \cup {c}
         /\ Kids(r, c) = <<>> /\ Children(r, c) = {}
         /\ \A q \in DOMAIN h \ {p} : Kids(r, q) = Kids(h, q) /\ Children(r, q) = Children(h, q)
<1>0. PICK l : l = Kids(h, p)
  OBVIOUS
<1> USE <1>0
<1>1. /\ DOMAIN r = DOMAIN h \cup {c} /\ \A x \in DOMAIN r : DOMAIN r[x] = Fields
      /\ \A k \in Fields : r[c][k] = node[k]
      /\ \A x \in DOMAIN h, k \in Fields :
           r[x][k] = IF (x = p /\ k = "child" /\ l = <<>>)
                        \/ (l # <<>> /\ x = Last(l) /\ k = "next")
                        \/ (x = p /\ k = "last_child")
                     THEN c ELSE h[x][k]
  <2>1. Hooks(h, p, c, node, l, r)
    BY HookedIs
  <2> QED
    BY <2>1 DEF Hooks
<1>2. /\ r[c].child = Null /\ r[c].next = Null /\ r[c].name = node.name
      /\ r[c].value = node.value /\ r[c].link = node.link
  <2>1. \A k \in Fields : r[c][k] = node[k]
    BY <1>1
  <2>2. /\ r[c].child = node.child /\ r[c].next = node.next /\ r[c].name = node.name
        /\ r[c].value = node.value /\ r[c].link = node.link
    BY <2>1 DEF Fields
  <2> QED
    BY <2>2 DEF Appends, Unplaced
<1>3. \A x \in DOMAIN h :
        /\ r[x].child = IF x = p /\ l = <<>> THEN c ELSE h[x].child
        /\ r[x].next = IF l # <<>> /\ x = Last(l) THEN c ELSE h[x].next
        /\ r[x].name = h[x].name /\ r[x].value = h[x].value /\ r[x].link = h[x].link
  <2>1. SUFFICES ASSUME NEW x \in DOMAIN h
                 PROVE  /\ r[x].child = IF x = p /\ l = <<>> THEN c ELSE h[x].child
                        /\ r[x].next = IF l # <<>> /\ x = Last(l) THEN c ELSE h[x].next
                        /\ r[x].name = h[x].name /\ r[x].value = h[x].value
                        /\ r[x].link = h[x].link
    OBVIOUS
  <2>2. \A k \in Fields :
          r[x][k] = IF (x = p /\ k = "child" /\ l = <<>>)
                       \/ (l # <<>> /\ x = Last(l) /\ k = "next")
                       \/ (x = p /\ k = "last_child")
                    THEN c ELSE h[x][k]
    BY <1>1
  <2> QED
    BY <2>2 DEF Fields
<1>4. p \in DOMAIN h /\ c \notin DOMAIN h /\ c \in Cells /\ c # Null
  BY HdfAssumption DEF Appends, Null
<1>5. Null \notin DOMAIN h /\ Top \in DOMAIN h
  BY NullIsNoCell DEF Sound, IsHeap
<1>6. IsHeap(r)
  <2>1. DOMAIN r \subseteq Cells /\ IsFiniteSet(DOMAIN r) /\ Top \in DOMAIN r
    BY <1>1, <1>4, FS_AddElement DEF Sound, IsHeap
  <2>2. ASSUME NEW x \in DOMAIN r
        PROVE  /\ DOMAIN r[x] = Fields
               /\ r[x].name \in Names \cup {NoName}
               /\ r[x].value \in Text \cup {NoValue, Dangling}
               /\ r[x].link \in BOOLEAN
    <3>1. CASE x = c
      BY <1>1, <1>2, <3>1 DEF Appends, Unplaced
    <3>2. CASE x \in DOMAIN h
      BY <1>1, <1>3, <3>2 DEF Sound, IsHeap
    <3> QED
      BY <1>1, <3>1, <3>2
  <2> QED
    BY <2>1, <2>2 DEF IsHeap
<1>7. Level(r, c, <<>>)
  BY <1>2 DEF Level
<1>8. ASSUME NEW q \in DOMAIN h \ {p} PROVE Level(r, q, Kids(h, q))
  <2>1. PICK k : k = Kids(h, q)
    OBVIOUS
  <2>2. Level(h, q, k)
    BY <2>1 DEF Sound, Shape, Levels
  <2>3. \A i \in 1 .. Len(k) : k[i] \in DOMAIN h /\ (l # <<>> => k[i] # Last(l))
    <3>1. \A i \in 1 .. Len(k) : k[i] \in Children(h, q) /\ k[i] \in DOMAIN h
      BY <2>1, ChildrenAre DEF Sound, Shape
    <3>2. l # <<>> => Last(l) \in Children(h, p)
      BY <1>4, ChildrenAre DEF Sound, Shape
    <3> QED
      BY <1>4, <3>1, <3>2 DEF Sound, Shape, Apart
  <2>4. k \in Seq(DOMAIN r)
    BY <1>1, <2>2 DEF Level
  <2>5. Level(r, q, k)
    BY <1>3, <2>2, <2>3, <2>4 DEF Level
  <2> QED
    BY <2>1, <2>5
<1>9. Level(r, p, Append(l, c))
  <2>1. PICK k : k = l
    OBVIOUS
  <2>2. Level(h, p, k)
    BY <1>4, <2>1 DEF Sound, Shape, Levels
  <2>3. \A i \in 1 .. Len(k) : k[i] \in DOMAIN h /\ h[k[i]].name # node.name
    BY <1>4, <2>1, ChildrenAre DEF Sound, Shape, Appends
  <2>4. \A i, j \in 1 .. Len(k) : k[i] = k[j] => i = j
    BY <1>4, <2>1, ChildrenAre DEF Sound, Shape
  <2>5. Len(k) \in Nat /\ (k = <<>> <=> Len(k) = 0) /\ k \in Seq(DOMAIN h)
    BY <2>2 DEF Level
  <2> DEFINE m == Append(k, c)
  <2>6. /\ m \in Seq(DOMAIN r) /\ Len(m) = Len(k) + 1 /\ m # <<>>
        /\ \A i \in 1 .. Len(k) : m[i] = k[i]
        /\ m[Len(k) + 1] = c
    BY <1>1, <2>5
  <2> HIDE DEF m
  <2>7. r[p].child = m[1]
    <3>1. CASE k = <<>>
      BY <1>3, <1>4, <2>1, <2>5, <2>6, <3>1
    <3>2. CASE k # <<>>
      <4>1. h[p].child = k[1] /\ 1 \in 1 .. Len(k)
        BY <2>2, <2>5, <3>2 DEF Level
      <4> QED
        BY <1>3, <1>4, <2>1, <2>6, <3>2, <4>1
    <3> QED
      BY <3>1, <3>2
  <2>8. ASSUME NEW i \in 1 .. Len(m)
        PROVE  r[m[i]].next = IF i = Len(m) THEN Null ELSE m[i + 1]
    <3>1. CASE i = Len(m)
      BY <1>2, <2>5, <2>6, <3>1
    <3>2. CASE i = Len(k) /\ i # Len(m)
      <4>1. m[i] = Last(l) /\ l # <<>> /\ m[i] \in DOMAIN h
        BY <2>1, <2>3, <2>5, <2>6, <3>2 DEF Last
      <4> QED
        BY <1>3, <2>5, <2>6, <3>2, <4>1
    <3>3. CASE i < Len(k)
      <4>1. i \in 1 .. Len(k) /\ Len(k) \in 1 .. Len(k) /\ i + 1 \in 1 .. Len(k) /\ i # Len(k)
        BY <2>5, <3>3
      <4>2. m[i] = k[i] /\ m[i] \in DOMAIN h /\ m[i] # Last(k) /\ m[i + 1] = k[i + 1]
        BY <2>3, <2>4, <2>6, <4>1 DEF Last
      <4>3. h[k[i]].next = k[i + 1]
        BY <2>2, <4>1 DEF Level
      <4> QED
        BY <1>3, <2>1, <2>5, <2>6, <4>1, <4>2, <4>3
    <3> QED
      BY <2>5, <2>6, <3>1, <3>2, <3>3
  <2>9. ASSUME NEW i \in 1 .. Len(m), NEW j \in 1 .. Len(m), r[m[i]].name = r[m[j]].name
        PROVE  i = j
    <3>1. \A n \in 1 .. Len(k) : r[m[n]].name = h[k[n]].name
      BY <1>3, <2>3, <2>6
    <3>2. r[m[Len(k) + 1]].name = node.name
      BY <1>2, <2>6
    <3>3. \A n, o \in 1 .. Len(k) : h[k[n]].name = h[k[o]].name => n = o
      BY <2>2 DEF Level
    <3> QED
      BY <2>3, <2>5, <2>6, <2>9, <3>1, <3>2, <3>3
  <2>10. Level(r, p, m)
    BY <2>6, <2>7, <2>8, <2>9 DEF Level
  <2> QED
    BY <2>1, <2>10 DEF m
<1>10. /\ Kids(r, p) = Append(l, c) /\ Kids(r, c) = <<>>
       /\ \A q \in DOMAIN h \ {p} : Kids(r, q) = Kids(h, q)
  BY <1>6, <1>7, <1>8, <1>9, KidsAre
<1>11. Levels(r)
  BY <1>1, <1>7, <1>8, <1>9, <1>10 DEF Levels
<1>12. \A q \in DOMAIN h \ {p} : Children(r, q) = Children(h, q)
  BY <1>10 DEF Children
<1>13. Children(r, c) = {}
  BY <1>10 DEF Children, ToSet
<1>14. Children(r, p) = Children(h, p) \cup {c}
  <2>1. l \in Seq(DOMAIN h) /\ Len(l) \in Nat
    BY <1>4, ChildrenAre DEF Sound, Shape
  <2>2. ToSet(Append(l, c)) = ToSet(l) \cup {c}
    <3> DEFINE m == Append(l, c)
    <3>1. DOMAIN l = 1 .. Len(l) /\ DOMAIN m = 1 .. Len(l) + 1
      BY <2>1
    <3>2. (\A i \in 1 .. Len(l) : m[i] = l[i]) /\ m[Len(l) + 1] = c
      BY <2>1
    <3> HIDE DEF m
    <3>3. ToSet(m) \subseteq ToSet(l) \cup {c}
      BY <2>1, <3>1, <3>2 DEF ToSet
    <3>4. ToSet(l) \subseteq ToSet(m) /\ c \in ToSet(m)
      BY <2>1, <3>1, <3>2 DEF ToSet
    <3> QED
      BY <3>3, <3>4 DEF m
  <2> QED
    BY <1>10, <2>2 DEF Children
<1>15. \A q \in DOMAIN h : Children(h, q) \subseteq DOMAIN h
  BY ChildrenAre DEF Sound, Shape
<1>16. Apart(r)
  BY <1>1, <1>4, <1>12, <1>13, <1>14, <1>15 DEF Sound, Shape, Apart
<1>17. Placing(r)
  <2>1. r[Top].next = Null
    <3>1. l # <<>> => Last(l) # Top
      <4>1. l # <<>> => Last(l) \in Children(h, p)
        BY <1>4, ChildrenAre DEF Sound, Shape
      <4> QED
        BY <1>4, <1>5, <4>1 DEF Sound, Shape, Placing
    <3> QED
      BY <1>3, <1>5, <3>1 DEF Sound, Shape, Placing
  <2>2. \A x \in DOMAIN r : x # Top <=> \E q \in DOMAIN r : x \in Children(r, q)
    <3>1. \A x \in DOMAIN h : x # Top <=> \E q \in DOMAIN h : x \in Children(h, q)
      BY DEF Sound, Shape, Placing
    <3>2. c # Top
      BY <1>4, <1>5
    <3>3. \A x \in DOMAIN h : (\E q \in DOMAIN r : x \in Children(r, q)) <=> \E q \in DOMAIN h : x \in Children(h, q)
      BY <1>1, <1>4, <1>12, <1>13, <1>14
    <3> QED
      BY <1>1, <1>4, <1>14, <3>1, <3>2, <3>3
  <2> QED
    BY <2>1, <2>2 DEF Placing
<1>18. Joins(r)
  <2>1. SUFFICES ASSUME NEW S \in SUBSET DOMAIN r, Top \in S, Closed(r, S) PROVE S = DOMAIN r
    BY DEF Joins
  <2> DEFINE Old == S \ {c}
  <2>2. \A x \in DOMAIN h : /\ h[x].child \in DOMAIN h \cup {Null}
                            /\ h[x].next \in DOMAIN h \cup {Null}
    BY PointersLead DEF Sound, Shape
  <2>3. h[p].child = Null \/ l # <<>>
    <3>1. Level(h, p, l)
      BY <1>4 DEF Sound, Shape, Levels
    <3> QED
      BY <3>1 DEF Level
  <2>4. l # <<>> => Last(l) \in DOMAIN h /\ h[Last(l)].next = Null
    <3>1. PICK k : k = l
      OBVIOUS
    <3>2. Level(h, p, k)
      BY <1>4, <3>1 DEF Sound, Shape, Levels
    <3>3. k # <<>> => Len(k) \in 1 .. Len(k) /\ k[Len(k)] \in DOMAIN h
      BY <3>2 DEF Level
    <3> QED
      BY <3>1, <3>2, <3>3 DEF Level, Last
  <2>5. Closed(h, Old)
    <3>1. SUFFICES ASSUME NEW x \in Old
                   PROVE  h[x].child \in Old \cup {Null} /\ h[x].next \in Old \cup {Null}
      BY DEF Closed
    <3>2. x \in DOMAIN h /\ x \in S
      BY <1>1
    <3>3. r[x].child \in S \cup {Null} /\ r[x].next \in S \cup {Null}
      BY <2>1, <3>2 DEF Closed
    <3>4. h[x].child \in Old \cup {Null}
      BY <1>3, <1>4, <2>2, <2>3, <3>2, <3>3
    <3>5. h[x].next \in Old \cup {Null}
      BY <1>3, <1>4, <2>2, <2>4, <3>2, <3>3
    <3> QED
      BY <3>4, <3>5
  <2>6. Old = DOMAIN h
    <3>1. Old \in SUBSET DOMAIN h /\ Top \in Old
      BY <1>1, <1>4, <1>5, <2>1
    <3> HIDE DEF Old
    <3> QED
      BY <2>5, <3>1 DEF Sound, Shape, Joins
  <2>7. c \in S
    <3>1. CASE l = <<>>
      <4>1. p \in S /\ r[p].child = c
        BY <1>3, <1>4, <2>6, <3>1
      <4> QED
        BY <1>4, <2>1, <4>1 DEF Closed
    <3>2. CASE l # <<>>
      <4>1. Last(l) \in S /\ r[Last(l)].next = c
        BY <1>3, <2>4, <2>6, <3>2
      <4> QED
        BY <1>4, <2>1, <4>1 DEF Closed
    <3> QED
      BY <3>1, <3>2
  <2> QED
    BY <1>1, <2>6, <2>7
<1> QED
  BY <1>6, <1>10, <1>11, <1>12, <1>13, <1>14, <1>16, <1>17, <1>18 DEF Shape

(* The strings of h belong to the same nodes in h2.                        *)
OwnersStay(h, h2) == \A o, v : Owns(h, o, v) => Owns(h2, o, v)

(* A sound heap with one node more.                                        *)
Gains(h, c, h2) == Sound(h2) /\ DOMAIN h2 = DOMAIN h \cup {c} /\ OwnersStay(h, h2)

LEMMA LinkKeeps ==
  ASSUME NEW h, Sound(h), NEW p, NEW f, NEW c, NEW node, Appends(h, p, f, c, node),
         NEW r, r = Link(h, p, f, c, node)
  PROVE  Gains(h, c, r)
<1>1. PICK g : g = Hooked(h, p, f, c, node)
  OBVIOUS
<1>2. r = [g EXCEPT ![p].hash = Indexed(@, f.count, Kids(g, p))]
  <2>1. Link(h, p, f, c, node)
          = [Hooked(h, p, f, c, node)
               EXCEPT ![p].hash = Indexed(@, f.count, Kids(Hooked(h, p, f, c, node), p))]
    BY Zenon DEF Link, Hooked
  <2> QED
    BY <1>1, <2>1, Zenon
<1>3. /\ IsHeap(g) /\ Shape(g)
      /\ Kids(g, p) = Append(Kids(h, p), c) /\ Children(g, p) = Children(h, p) \cup {c}
      /\ Kids(g, c) = <<>> /\ Children(g, c) = {}
      /\ \A q \in DOMAIN h \ {p} : Kids(g, q) = Kids(h, q) /\ Children(g, q) = Children(h, q)
  BY <1>1, HookedShape
<1>4. Hooks(h, p, c, node, Kids(h, p), g)
  BY <1>1, HookedIs
<1>5. p \in DOMAIN h /\ c \notin DOMAIN h /\ p # c
  BY DEF Appends
<1>6. DOMAIN g = DOMAIN h \cup {c} /\ \A x \in DOMAIN g : DOMAIN g[x] = Fields
  BY <1>4 DEF Hooks
<1> DEFINE new == Indexed(g[p].hash, f.count, Kids(g, p))
<1>7. r = [g EXCEPT ![p].hash = new]
  BY <1>2
<1> HIDE DEF new
<1>8. /\ DOMAIN r = DOMAIN g /\ \A x \in DOMAIN g : DOMAIN r[x] = Fields
      /\ \A x \in DOMAIN g, k \in Fields : r[x][k] = IF x = p /\ k = "hash" THEN new ELSE g[x][k]
  BY <1>5, <1>6, <1>7 DEF Fields
<1>9. IsHeap(r)
  BY <1>3, <1>8 DEF IsHeap, Fields
<1>10. Alike(g, r, {"child", "next", "name"})
  BY <1>8 DEF Alike, Fields
<1>11. Shape(r) /\ \A q \in DOMAIN g : Kids(r, q) = Kids(g, q) /\ Children(r, q) = Children(g, q)
  BY <1>3, <1>9, <1>10, ShapeKept
<1>12. \A x \in DOMAIN h : /\ r[x].shares = h[x].shares /\ r[x].value = h[x].value
                           /\ r[x].last_hp = h[x].last_hp /\ r[x].last_hs = h[x].last_hs
                           /\ x # p => r[x].hash = h[x].hash /\ r[x].last_child = h[x].last_child
  BY <1>4, <1>6, <1>8 DEF Hooks, Fields
<1>13. /\ r[p].last_child = c /\ r[p].hash = new /\ g[p].hash = h[p].hash
       /\ r[c].shares = node.shares /\ r[c].value = node.value
       /\ r[c].hash = NoHash /\ r[c].last_hp = Null /\ r[c].last_hs = Null
  BY <1>4, <1>5, <1>6, <1>8 DEF Hooks, Fields, Appends, Unplaced
<1>14. \A o, v : Owns(h, o, v) => Owns(r, o, v)
  BY <1>6, <1>8, <1>12 DEF Owns
<1>15. Shares(r)
  <2>1. SUFFICES ASSUME NEW x \in DOMAIN r, r[x].shares # Null
                 PROVE  Owns(h, r[x].shares, r[x].value)
    BY <1>14 DEF Shares
  <2>2. CASE x = c
    BY <1>13, <2>1, <2>2 DEF Appends, Unplaced
  <2>3. CASE x \in DOMAIN h
    BY <1>12, <2>1, <2>3 DEF Sound, Shares
  <2> QED
    BY <1>6, <1>8, <2>2, <2>3
<1>16. Shortcuts(r)
  <2>1. SUFFICES ASSUME NEW q \in DOMAIN r
                 PROVE  /\ r[q].hash \in {NoHash, Children(r, q)}
                        /\ Kids(r, q) # <<>> => r[q].last_child = Last(Kids(r, q))
                        /\ {r[q].last_hp, r[q].last_hs} \subseteq Children(r, q) \cup {Null}
    BY DEF Shortcuts
  <2>2. CASE q \in DOMAIN h \ {p}
    <3>1. Kids(r, q) = Kids(h, q) /\ Children(r, q) = Children(h, q)
      BY <1>3, <1>6, <1>11, <2>2
    <3> QED
      BY <1>12, <2>2, <3>1 DEF Sound, Shortcuts
  <2>3. CASE q = c
    BY <1>3, <1>6, <1>11, <1>13, <2>3
  <2>4. CASE q = p
    <3>1. /\ Kids(r, p) = Append(Kids(h, p), c) /\ Children(r, p) = Children(h, p) \cup {c}
          /\ Children(g, p) = Children(r, p) /\ Kids(g, p) = Kids(r, p)
      BY <1>3, <1>5, <1>6, <1>11
    <3>2. Last(Append(Kids(h, p), c)) = c
      <4>1. Kids(h, p) \in Seq(DOMAIN h)
        BY <1>5, ChildrenAre DEF Sound, Shape
      <4> QED
        BY <4>1 DEF Last
    <3>3. ToSet(Kids(g, p)) = Children(r, p)
      BY <3>1 DEF Children
    <3>4. new \in {NoHash, Children(r, p)}
      <4>1. h[p].hash \in {NoHash, Children(h, p)}
        BY <1>5 DEF Sound, Shortcuts
      <4> QED
        BY <1>13, <3>1, <3>2, <3>3, <4>1 DEF new, Indexed
    <3>5. {r[p].last_hp, r[p].last_hs} \subseteq Children(h, p) \cup {Null}
      BY <1>5, <1>12 DEF Sound, Shortcuts
    <3> QED
      BY <1>13, <2>4, <3>1, <3>2, <3>4, <3>5
  <2> QED
    BY <1>6, <1>8, <2>2, <2>3, <2>4
<1> QED
  BY <1>6, <1>8, <1>9, <1>11, <1>14, <1>15, <1>16 DEF Sound, OwnersStay, Gains
-----------------------------------------------------------------------------
(* Writing: from one component to the next.                                *)

LEMMA WriteIterates ==
  ASSUME NEW x
  PROVE  Writing!After(0, x) = x /\ \A n \in Nat : Writing!After(n + 1, x) = WriteStep(Writing!After(n, x))
<1>1. WriteRuns!After(0, x) = x /\ \A n \in Nat : WriteRuns!After(n + 1, x) = WriteStep(WriteRuns!After(n, x))
  BY WriteRuns!AfterStep
<1> QED
  BY <1>1 DEF Writing!After, WriteRuns!After, Writing!Once, WriteRuns!Once

(* A write stands on a node, with a component ahead, as long as it goes on;*)
(* no node of h is lost on the way.                                        *)
Writings(h, a, w) ==
  /\ w = Writer(w.heap, w.node, w.path, a, w.status)
  /\ Sound(w.heap) /\ DOMAIN h \subseteq DOMAIN w.heap
  /\ w.status \in {"on", "ok"} => w.node \in DOMAIN w.heap
  /\ w.status = "on" => w.path \in Text /\ w.path # <<>> /\ Given(w.heap, a)

LEMMA WritesIs ==
  ASSUME NEW h, NEW g, Sound(g), DOMAIN h \subseteq DOMAIN g, NEW c \in DOMAIN g,
         NEW path \in Text, path # <<>>, NEW a, Given(g, a)
  PROVE  Writings(h, a, Writes(g, c, path, a))
BY DEF Writings, Writes, Writer

LEMMA NodeForIs ==
  ASSUME NEW h, NEW a, Given(h, a), NEW path \in Text, path # <<>>, Head(path) # Empty
  PROVE  Unplaced(h, NodeFor(path, a)) /\ NodeFor(path, a).name = Head(path)
<1> DEFINE n == NewNode(Head(path), a.value, a.link, a.attr)
           m == NewNode(Head(path), NoValue, FALSE, <<>>)
           s == IF a.dupl THEN Null ELSE a.from
<1>1. Head(path) \in Names \cup {NoName}
  BY DEF Text
<1>2. DOMAIN n = Fields /\ DOMAIN m = Fields
  BY DEF NewNode, Fields
<1>3. CASE Len(path) > 1
  BY <1>1, <1>2, <1>3 DEF NodeFor, NewNode, Unplaced
<1>4. CASE ~(Len(path) > 1)
  <2> DEFINE r == [n EXCEPT !.shares = s]
  <2>1. NodeFor(path, a) = r
    BY <1>4 DEF NodeFor
  <2>2. /\ DOMAIN r = Fields /\ r.shares = s
        /\ \A k \in Fields \ {"shares"} : r[k] = n[k]
    BY <1>2 DEF Fields
  <2> HIDE DEF r
  <2>3. /\ r.name = Head(path) /\ r.value = a.value /\ r.link = a.link
        /\ r.next = Null /\ r.child = Null /\ r.last_hp = Null /\ r.last_hs = Null /\ r.hash = NoHash
    BY <2>2 DEF Fields, NewNode
  <2>4. s # Null => Owns(h, s, a.value)
    BY DEF Given
  <2> HIDE DEF s
  <2> QED
    BY <1>1, <2>1, <2>2, <2>3, <2>4 DEF Unplaced, Given
<1> QED
  BY <1>3, <1>4

LEMMA FreshIs ==
  ASSUME NEW h, ~Full(h)
  PROVE  Fresh(h) \in Cells \ DOMAIN h
<1>1. Cells \ DOMAIN h \in SUBSET Nat /\ Cells \ DOMAIN h # {}
  BY HdfAssumption DEF Full
<1> QED
  BY <1>1, Least DEF Fresh

LEMMA GivenKept ==
  ASSUME NEW h, NEW a, Given(h, a), NEW h2, OwnersStay(h, h2)
  PROVE  Given(h2, a)
BY DEF Given, OwnersStay

LEMMA WriteStepIs ==
  ASSUME NEW h, NEW a, NEW w, Writings(h, a, w)
  PROVE  Writings(h, a, WriteStep(w))
<1>1. CASE w.status # "on"
  BY <1>1 DEF WriteStep
<1>2. CASE w.status = "on"
  <2>1. PICK g : g = w.heap
    OBVIOUS
  <2>2. PICK p : p = w.node
    OBVIOUS
  <2>3. PICK path : path = w.path
    OBVIOUS
  <2>4. PICK f : f = Find(g, p, Head(path))
    OBVIOUS
  <2>5. w.what = a /\ DOMAIN h \subseteq DOMAIN g
    BY <2>1 DEF Writings, Writer
  <2>6. Sound(g) /\ p \in DOMAIN g /\ path \in Text /\ path # <<>> /\ Given(g, a)
    BY <1>2, <2>1, <2>2, <2>3 DEF Writings
  <2>7. /\ f.hp # Null => f.hp \in Children(g, p) /\ f.hs \in Children(g, p) \cup {Null}
        /\ f.hp = Null => /\ \A k \in Children(g, p) : g[k].name # Head(path)
                          /\ Kids(g, p) # <<>> => f.hs = Last(Kids(g, p))
    BY <2>4, <2>6, FindIs DEF Sound
  <2>9. Len(path) # 1 => Tail(path) \in Text /\ Tail(path) # <<>>
    <3>1. Len(path) \in Nat \ {0}
      BY <2>6 DEF Text
    <3>2. Tail(path) \in Text /\ Len(Tail(path)) = Len(path) - 1
      BY <2>6 DEF Text
    <3>3. \A t : t = <<>> => Len(t) = 0
      OBVIOUS
    <3> QED
      BY <3>1, <3>2, <3>3
  <2>10. \A k, s : s \notin {"on", "ok"} => Writings(h, a, Writer(g, k, path, a, s))
    BY <2>5, <2>6 DEF Writings, Writer
  <2>11. ASSUME NEW r, NEW c, Sound(r), DOMAIN g \subseteq DOMAIN r, c \in DOMAIN r,
                Len(path) # 1 => Given(r, a)
         PROVE  Writings(h, a, Writer(r, c, Tail(path), a, IF Len(path) = 1 THEN "ok" ELSE "on"))
    BY <2>5, <2>9, <2>11 DEF Writings, Writer
  <2>12. CASE g[p].link
    <3>1. CASE Leads(g, p)
      <4>1. WriteStep(w) = Writes(g, Top, Joined(g[p].value, path), a)
        BY <1>2, <2>1, <2>2, <2>3, <2>5, <2>12, <3>1 DEF WriteStep
      <4>2. g[p].value \in Text
        BY <2>6, <3>1 DEF Leads, Sound, IsHeap
      <4>3. Joined(g[p].value, path) \in Text /\ Joined(g[p].value, path) # <<>>
        <5>1. PICK v : v = IF g[p].value = <<>> THEN <<Empty>> ELSE g[p].value
          OBVIOUS
        <5>2. v \in Text
          <6>1. <<Empty>> \in Text
            BY DEF Text
          <6> QED
            BY <4>2, <5>1, <6>1
        <5>3. Len(path) \in Nat \ {0} /\ Len(v) \in Nat
          BY <2>6, <5>2 DEF Text
        <5>4. v \o path \in Text /\ Len(v \o path) = Len(v) + Len(path)
          BY <2>6, <5>2 DEF Text
        <5>5. v \o path # <<>>
          BY <5>3, <5>4
        <5> QED
          BY <5>1, <5>4, <5>5 DEF Joined
      <4>4. Top \in DOMAIN g
        BY <2>6 DEF Sound, IsHeap
      <4> QED
        BY <2>5, <2>6, <4>1, <4>3, <4>4, WritesIs
    <3>2. CASE ~Leads(g, p)
      <4>1. WriteStep(w) = Writer(g, Null, path, a, "dead")
        BY <1>2, <2>1, <2>2, <2>3, <2>5, <2>12, <3>2 DEF WriteStep
      <4> QED
        BY <2>10, <4>1
    <3> QED
      BY <3>1, <3>2
  <2>13. CASE ~g[p].link /\ Head(path) = Empty
    <3>1. WriteStep(w) = Writer(g, Null, path, a, "bad")
      BY <1>2, <2>1, <2>2, <2>3, <2>5, <2>13 DEF WriteStep
    <3> QED
      BY <2>10, <3>1
  <2>14. CASE ~g[p].link /\ Head(path) # Empty /\ f.hp = Null /\ Full(g)
    <3>1. WriteStep(w) = Writer(g, Null, path, a, "full")
      BY <1>2, <2>1, <2>2, <2>3, <2>4, <2>5, <2>14 DEF WriteStep
    <3> QED
      BY <2>10, <3>1
  <2>15. CASE ~g[p].link /\ Head(path) # Empty /\ f.hp = Null /\ ~Full(g)
    <3>1. PICK c : c = Fresh(g)
      OBVIOUS
    <3>2. PICK node : node = NodeFor(path, a)
      OBVIOUS
    <3>3. PICK r : r = Link(g, p, f, c, node)
      OBVIOUS
    <3>4. WriteStep(w) = Writer(r, c, Tail(path), a, IF Len(path) = 1 THEN "ok" ELSE "on")
      BY <1>2, <2>1, <2>2, <2>3, <2>4, <2>5, <2>15, <3>1, <3>2, <3>3 DEF WriteStep, Remember
    <3>5. Appends(g, p, f, c, node)
      BY <2>6, <2>7, <2>15, <3>1, <3>2, FreshIs, NodeForIs DEF Appends
    <3>6. Gains(g, c, r)
      BY <2>6, <3>3, <3>5, LinkKeeps
    <3>7. Given(r, a)
      BY <2>6, <3>6, GivenKept DEF Gains
    <3> QED
      BY <2>11, <3>4, <3>6, <3>7 DEF Gains
  <2>16. CASE ~g[p].link /\ Head(path) # Empty /\ f.hp # Null
    <3>1. PICK r : r = Remember(g, p, f)
      OBVIOUS
    <3>2. Sound(r) /\ Alike(g, r, Fields \ {"last_hp", "last_hs"})
      BY <2>6, <2>7, <2>16, <3>1, RememberKeeps
    <3>3. DOMAIN r = DOMAIN g /\ \A x \in DOMAIN g : r[x].shares = g[x].shares /\ r[x].value = g[x].value
      BY <3>2 DEF Alike, Fields
    <3>4. Given(r, a)
      BY <2>6, <3>3 DEF Given, Owns
    <3>5. f.hp \in DOMAIN g
      BY <2>6, <2>7, <2>16, ChildrenAre DEF Sound, Shape
    <3>6. CASE Len(path) = 1
      <4>1. WriteStep(w) = Writer(Assign(r, f.hp, a), f.hp, Tail(path), a, "ok")
        BY <1>2, <2>1, <2>2, <2>3, <2>4, <2>5, <2>16, <3>1, <3>6 DEF WriteStep
      <4>2. Sound(Assign(r, f.hp, a)) /\ DOMAIN Assign(r, f.hp, a) = DOMAIN g
        BY <3>2, <3>3, <3>4, <3>5, AssignKeeps
      <4> QED
        BY <2>11, <3>5, <3>6, <4>1, <4>2
    <3>7. CASE Len(path) # 1
      <4>1. WriteStep(w) = Writer(r, f.hp, Tail(path), a, "on")
        BY <1>2, <2>1, <2>2, <2>3, <2>4, <2>5, <2>16, <3>1, <3>7 DEF WriteStep
      <4> QED
        BY <2>11, <3>2, <3>3, <3>4, <3>5, <3>7, <4>1
    <3> QED
      BY <3>6, <3>7
  <2> QED
    BY <2>12, <2>13, <2>14, <2>15, <2>16
<1> QED
  BY <1>1, <1>2

(* A write keeps the heap sound and its nodes where they are.              *)
LEMMA SetValueKeeps ==
  ASSUME NEW h, Sound(h), NEW start \in DOMAIN h, NEW path \in Text, NEW a, Given(h, a),
         NEW r, r = SetValue(h, start, path, a)
  PROVE  /\ Sound(r.heap) /\ DOMAIN h \subseteq DOMAIN r.heap
         /\ r.status = "ok" => r.node \in DOMAIN r.heap
         /\ r.status # "on"
<1> DEFINE x == Writes(h, start, path, a)
           at(n) == Writing!After(n, x)
           w == at(MaxSteps)
           S == {n \in Nat : Writings(h, a, at(n))}
<1>1. CASE path = <<>>
  <2>1. r = Done(Assign(h, start, a), start, "ok")
    BY <1>1 DEF SetValue, Written
  <2> QED
    BY <2>1, AssignKeeps DEF Done
<1>2. CASE path # <<>>
  <2>1. at(0) = x /\ \A n \in Nat : at(n + 1) = WriteStep(at(n))
    <3> HIDE DEF x
    <3> QED
      BY WriteIterates
  <2>2. Writings(h, a, x)
    BY <1>2, WritesIs
  <2>3. r = Done(w.heap, w.node, IF w.status = "on" THEN "dead" ELSE w.status)
    BY <1>2 DEF SetValue, Written
  <2> HIDE DEF at
  <2>4. 0 \in S /\ \A n \in S : n + 1 \in S
    BY <2>1, <2>2, WriteStepIs
  <2>5. Writings(h, a, w)
    BY <2>4, Counting, HdfAssumption
  <2> QED
    BY <2>3, <2>5 DEF Done, Writings
<1> QED
  BY <1>1, <1>2
-----------------------------------------------------------------------------
(* Copying: the nested calls stand on nodes that are there.                *)

LEMMA CopyIterates ==
  ASSUME NEW x
  PROVE  Copying!After(0, x) = x /\ \A n \in Nat : Copying!After(n + 1, x) = CopyStep(Copying!After(n, x))
<1>1. CopyRuns!After(0, x) = x /\ \A n \in Nat : CopyRuns!After(n + 1, x) = CopyStep(CopyRuns!After(n, x))
  BY CopyRuns!AfterStep
<1> QED
  BY <1>1 DEF Copying!After, CopyRuns!After, Copying!Once, CopyRuns!Once

(* A node, and a place in the list below one.                              *)
PlacesOf(D) == D \X (D \cup {Null})
Frames(h) == PlacesOf(DOMAIN h)

LEMMA PlacesAre ==
  ASSUME NEW D
  PROVE  /\ \A d \in D, c \in D \cup {Null} : <<d, c>> \in PlacesOf(D)
         /\ \A x \in PlacesOf(D) : x[1] \in D /\ x[2] \in D \cup {Null} /\ x = <<x[1], x[2]>>
BY DEF PlacesOf

LEMMA FramesAre ==
  ASSUME NEW h
  PROVE  /\ \A d \in DOMAIN h, c \in DOMAIN h \cup {Null} : <<d, c>> \in Frames(h)
         /\ \A x \in Frames(h) : x[1] \in DOMAIN h /\ x[2] \in DOMAIN h \cup {Null} /\ x = <<x[1], x[2]>>
BY PlacesAre DEF Frames

(* The outer calls have a node to go on from.                              *)
Nested(h, stack) ==
  /\ stack \in Seq(Frames(h)) /\ stack # <<>>
  /\ \A i \in 1 .. Len(stack) - 1 : stack[i][2] # Null

Copies(h, w) ==
  /\ w = Copier(w.heap, w.stack, w.status)
  /\ Sound(w.heap) /\ DOMAIN h \subseteq DOMAIN w.heap
  /\ w.status = "on" => Nested(w.heap, w.stack)

LEMMA Deeper ==
  ASSUME NEW h, NEW stack, Nested(h, stack), Last(stack)[2] # Null,
         NEW h2, DOMAIN h \subseteq DOMAIN h2, NEW x \in Frames(h2)
  PROVE  Nested(h2, Append(stack, x))
<1>1. Frames(h) \subseteq Frames(h2)
  <2>1. SUFFICES ASSUME NEW y \in Frames(h) PROVE y \in Frames(h2)
    OBVIOUS
  <2>2. y[1] \in DOMAIN h2 /\ y[2] \in DOMAIN h2 \cup {Null} /\ y = <<y[1], y[2]>>
    BY FramesAre
  <2> QED
    BY <2>2, FramesAre
<1>2. stack \in Seq(Frames(h2)) /\ Len(stack) \in Nat \ {0}
  BY <1>1 DEF Nested
<1>3. PICK m : m = Append(stack, x)
  OBVIOUS
<1>4. /\ m \in Seq(Frames(h2)) /\ m # <<>> /\ Len(m) = Len(stack) + 1
      /\ \A i \in 1 .. Len(stack) : m[i] = stack[i]
  BY <1>2, <1>3
<1>5. stack[Len(stack)][2] # Null /\ \A i \in 1 .. Len(stack) - 1 : stack[i][2] # Null
  BY DEF Nested, Last
<1>6. \A i \in 1 .. Len(m) - 1 : m[i][2] # Null
  BY <1>2, <1>4, <1>5
<1> QED
  BY <1>3, <1>4, <1>6 DEF Nested

LEMMA Shallower ==
  ASSUME NEW h, NEW stack, Nested(h, stack), Front(stack) # <<>>, NEW x \in Frames(h)
  PROVE  /\ Last(Front(stack)) \in Frames(h) /\ Last(Front(stack))[2] # Null
         /\ Nested(h, Append(Front(Front(stack)), x))
<1>1. stack \in Seq(Frames(h)) /\ Len(stack) \in Nat \ {0}
  BY DEF Nested
<1>2. PICK o : o = Front(stack)
  OBVIOUS
<1>3. /\ o \in Seq(Frames(h)) /\ Len(o) = Len(stack) - 1
      /\ \A i \in 1 .. Len(o) : o[i] = stack[i] /\ o[i] \in Frames(h)
  BY <1>1, <1>2 DEF Front
<1>4. Len(o) \in Nat \ {0}
  BY <1>1, <1>2, <1>3
<1>5. \A i \in 1 .. Len(o) : o[i][2] # Null
  BY <1>3 DEF Nested
<1>6. Last(o) \in Frames(h) /\ Last(o)[2] # Null
  BY <1>3, <1>4, <1>5 DEF Last
<1>7. PICK q : q = Front(o)
  OBVIOUS
<1>8. /\ q \in Seq(Frames(h)) /\ Len(q) = Len(o) - 1
      /\ \A i \in 1 .. Len(q) : q[i] = o[i]
  BY <1>3, <1>4, <1>7 DEF Front
<1>9. PICK m : m = Append(q, x)
  OBVIOUS
<1>10. /\ m \in Seq(Frames(h)) /\ m # <<>> /\ Len(m) = Len(q) + 1
       /\ \A i \in 1 .. Len(q) : m[i] = q[i]
  BY <1>8, <1>9
<1>11. \A i \in 1 .. Len(m) - 1 : m[i][2] # Null
  BY <1>4, <1>5, <1>8, <1>10
<1> QED
  BY <1>2, <1>6, <1>7, <1>9, <1>10, <1>11 DEF Nested

LEMMA CopyStepIs ==
  ASSUME NEW h, NEW w, Copies(h, w)
  PROVE  Copies(h, CopyStep(w))
<1>1. CASE w.status # "on"
  BY <1>1 DEF CopyStep, Descend
<1>2. CASE w.status = "on"
  <2>1. PICK g : g = w.heap
    OBVIOUS
  <2>2. PICK stack : stack = w.stack
    OBVIOUS
  <2>3. PICK dest : dest = Last(stack)[1]
    OBVIOUS
  <2>4. PICK st : st = Last(stack)[2]
    OBVIOUS
  <2>5. Sound(g) /\ DOMAIN h \subseteq DOMAIN g /\ Nested(g, stack)
    BY <1>2, <2>1, <2>2 DEF Copies
  <2>6. Last(stack) \in Frames(g)
    <3>1. stack \in Seq(Frames(g)) /\ Len(stack) \in Nat \ {0}
      BY <2>5 DEF Nested
    <3> QED
      BY <3>1 DEF Last
  <2>7. dest \in DOMAIN g /\ st \in DOMAIN g \cup {Null}
    BY <2>3, <2>4, <2>6, FramesAre
  <2>8. CASE st # Null
    <3>1. PICK a : a = [value |-> g[st].value, from |-> Owner(g, st), dupl |-> TRUE,
                        link |-> g[st].link, attr |-> g[st].attr]
      OBVIOUS
    <3>2. PICK r : r = SetValue(g, dest, <<g[st].name>>, a)
      OBVIOUS
    <3>3. CopyStep(w) = IF r.status # "ok" THEN Copier(r.heap, stack, r.status)
                        ELSE Copier(r.heap, Append(stack, <<r.node, Under(r.heap, st)>>), "on")
      BY <1>2, <2>1, <2>2, <2>3, <2>4, <2>8, <3>1, <3>2 DEF CopyStep, Descend
    <3>4. Given(g, a)
      BY <2>5, <2>7, <2>8, <3>1 DEF Given, Sound, IsHeap
    <3>5. <<g[st].name>> \in Text
      BY <2>5, <2>7, <2>8 DEF Sound, IsHeap, Text
    <3>6. /\ Sound(r.heap) /\ DOMAIN g \subseteq DOMAIN r.heap
          /\ r.status = "ok" => r.node \in DOMAIN r.heap
          /\ r.status # "on"
      BY <2>5, <2>7, <3>2, <3>4, <3>5, SetValueKeeps
    <3>7. CASE r.status # "ok"
      BY <2>5, <3>3, <3>6, <3>7 DEF Copies, Copier
    <3>8. CASE r.status = "ok"
      <4>1. Under(r.heap, st) \in DOMAIN r.heap \cup {Null}
        BY <2>7, <2>8, <3>6, PointersLead DEF Under, Sound, Shape
      <4>2. <<r.node, Under(r.heap, st)>> \in Frames(r.heap)
        BY <3>6, <3>8, <4>1, FramesAre
      <4>3. Nested(r.heap, Append(stack, <<r.node, Under(r.heap, st)>>))
        BY <2>4, <2>5, <2>8, <3>6, <4>2, Deeper
      <4> QED
        BY <2>5, <3>3, <3>6, <3>8, <4>3 DEF Copies, Copier
    <3> QED
      BY <3>7, <3>8
  <2>9. CASE st = Null /\ Front(stack) = <<>>
    <3>1. CopyStep(w) = Copier(g, stack, "ok")
      BY <1>2, <2>1, <2>2, <2>4, <2>9 DEF CopyStep, Descend
    <3> QED
      BY <2>5, <3>1 DEF Copies, Copier
  <2>10. CASE st = Null /\ Front(stack) # <<>>
    <3>1. PICK o : o = Last(Front(stack))
      OBVIOUS
    <3>2. PICK after : after = <<o[1], g[o[2]].next>>
      OBVIOUS
    <3>3. CopyStep(w) = Copier(g, Append(Front(Front(stack)), after), "on")
      BY <1>2, <2>1, <2>2, <2>4, <2>10, <3>1, <3>2 DEF CopyStep, Descend
    <3>4. o \in Frames(g) /\ o[2] # Null
      BY <2>5, <2>6, <2>10, <3>1, Shallower
    <3>5. after \in Frames(g)
      <4>1. o[1] \in DOMAIN g /\ o[2] \in DOMAIN g
        BY <3>4, FramesAre
      <4>2. g[o[2]].next \in DOMAIN g \cup {Null}
        BY <2>5, <4>1, PointersLead DEF Sound, Shape
      <4> QED
        BY <3>2, <4>1, <4>2, FramesAre
    <3>6. Nested(g, Append(Front(Front(stack)), after))
      BY <2>5, <2>10, <3>5, Shallower
    <3> QED
      BY <2>5, <3>3, <3>6 DEF Copies, Copier
  <2> QED
    BY <2>8, <2>9, <2>10
<1> QED
  BY <1>1, <1>2

LEMMA CopyNodesKeeps ==
  ASSUME NEW h, Sound(h), NEW dest \in DOMAIN h, NEW st \in DOMAIN h \cup {Null},
         NEW r, r = CopyNodes(h, dest, st)
  PROVE  Sound(r.heap)
<1> DEFINE x == Copier(h, <<<<dest, st>>>>, "on")
           at(n) == Copying!After(n, x)
           w == at(MaxSteps)
           S == {n \in Nat : Copies(h, at(n))}
<1>1. at(0) = x /\ \A n \in Nat : at(n + 1) = CopyStep(at(n))
  <2> HIDE DEF x
  <2> QED
    BY CopyIterates
<1>2. Copies(h, x)
  <2>1. Nested(h, <<<<dest, st>>>>)
    <3>1. <<dest, st>> \in Frames(h)
      BY FramesAre
    <3> QED
      BY <3>1 DEF Nested
  <2> QED
    BY <2>1 DEF Copies, Copier
<1>3. r = Done(w.heap, dest, IF w.status = "on" THEN "dead" ELSE w.status)
  BY DEF CopyNodes, Copied
<1> HIDE DEF at
<1>4. 0 \in S /\ \A n \in S : n + 1 \in S
  BY <1>1, <1>2, CopyStepIs
<1>5. Copies(h, w)
  BY <1>4, Counting, HdfAssumption
<1> QED
  BY <1>3, <1>5 DEF Done, Copies
-----------------------------------------------------------------------------
(* Sorting: the same nodes in another order.                               *)

(* The pointers of a level stay in it.                                     *)
LEMMA PointersStay ==
  ASSUME NEW h, Levels(h), NEW p \in DOMAIN h
  PROVE  /\ h[p].child \in Children(h, p) \cup {Null}
         /\ \A x \in Children(h, p) : h[x].next \in Children(h, p) \cup {Null}
<1>1. PICK l : l = Kids(h, p)
  OBVIOUS
<1>2. Level(h, p, l) /\ Len(l) \in Nat
  BY <1>1 DEF Levels, Level
<1>3. \A x : x \in Children(h, p) <=> \E i \in 1 .. Len(l) : x = l[i]
  <2>1. \A x : x \in Children(h, p) <=> \E i \in 1 .. Len(Kids(h, p)) : x = Kids(h, p)[i]
    BY ChildrenAre
  <2> QED
    BY <1>1, <2>1
<1>4. l # <<>> => 1 \in 1 .. Len(l)
  BY <1>2 DEF Level
<1>5. h[p].child \in Children(h, p) \cup {Null}
  BY <1>2, <1>3, <1>4 DEF Level
<1>6. ASSUME NEW x \in Children(h, p) PROVE h[x].next \in Children(h, p) \cup {Null}
  <2>1. PICK i \in 1 .. Len(l) : x = l[i]
    BY <1>3
  <2>2. i # Len(l) => i + 1 \in 1 .. Len(l)
    BY <1>2
  <2>3. h[l[i]].next = IF i = Len(l) THEN Null ELSE l[i + 1]
    BY <1>2 DEF Level
  <2> QED
    BY <1>3, <2>1, <2>2, <2>3
<1> QED
  BY <1>5, <1>6

(* Where the head of a list leads, the whole list does.                    *)
LEMMA AlongList ==
  ASSUME NEW h, IsHeap(h), Levels(h), NEW p \in DOMAIN h, NEW S, Closed(h, S),
         h[p].child \in S \cup {Null}
  PROVE  Children(h, p) \subseteq S
<1>1. PICK l : l = Kids(h, p)
  OBVIOUS
<1>2. l \in Seq(DOMAIN h) /\ Len(l) \in Nat /\ Level(h, p, l)
  BY <1>1 DEF Levels, Level
<1>3. \A x \in Children(h, p) : \E i \in 1 .. Len(l) : x = l[i]
  <2>1. \A x \in Children(h, p) : \E i \in 1 .. Len(Kids(h, p)) : x = Kids(h, p)[i]
    BY ChildrenAre
  <2> QED
    BY <1>1, <2>1
<1>4. \A i \in 1 .. Len(l) : l[i] # Null
  BY <1>2, NullIsNoCell
<1> DEFINE N == {n \in Nat : n + 1 \in 1 .. Len(l) => l[n + 1] \in S}
<1>5. 0 \in N
  <2>1. l # <<>> => h[p].child = l[1]
    BY <1>2 DEF Level
  <2> QED
    BY <1>2, <1>4, <2>1
<1>6. ASSUME NEW n \in N PROVE n + 1 \in N
  <2>1. SUFFICES ASSUME (n + 1) + 1 \in 1 .. Len(l) PROVE l[(n + 1) + 1] \in S
    OBVIOUS
  <2>2. n + 1 \in 1 .. Len(l) /\ n + 1 # Len(l)
    BY <1>2, <2>1
  <2>3. l[n + 1] \in S /\ h[l[n + 1]].next = l[(n + 1) + 1]
    BY <1>2, <2>2 DEF Level
  <2>4. h[l[n + 1]].next \in S \cup {Null}
    BY <2>3 DEF Closed
  <2> QED
    BY <1>4, <2>1, <2>3, <2>4
<1>7. \A n \in Nat : n \in N
  <2>1. N \subseteq Nat
    OBVIOUS
  <2> HIDE DEF N
  <2> QED
    BY <1>5, <1>6, <2>1, Counting
<1>8. ASSUME NEW i \in 1 .. Len(l) PROVE l[i] \in S
  <2>1. i - 1 \in Nat /\ (i - 1) + 1 = i
    BY <1>2
  <2>2. i - 1 \in N
    <3> HIDE DEF N
    <3> QED
      BY <1>7, <2>1
  <2> QED
    BY <2>1, <2>2
<1> QED
  BY <1>3, <1>8

(* A set of nodes that no pointer enters from outside, but for the child   *)
(* pointer of p, is not reached without p.                                 *)
LEMMA NoneWithout ==
  ASSUME NEW h, IsHeap(h), Shape(h), NEW p \in DOMAIN h, NEW x \in Children(h, p)
  PROVE  p \notin Children(h, p)
<1> DEFINE K == Children(h, p)
           S == DOMAIN h \ K
<1>1. SUFFICES ASSUME p \in K PROVE FALSE
  OBVIOUS
<1>2. Top \in S
  BY DEF Shape, Placing, IsHeap
<1>3. Closed(h, S)
  <2>1. SUFFICES ASSUME NEW c \in S
                 PROVE  h[c].child \in S \cup {Null} /\ h[c].next \in S \cup {Null}
    BY DEF Closed
  <2>2. c \in DOMAIN h /\ c # p /\ c \notin K
    BY <1>1
  <2>3. Children(h, c) \subseteq S
    BY <2>2, ChildrenAre DEF Shape, Apart
  <2>4. h[c].child \in S \cup {Null}
    BY <2>2, <2>3, PointersStay DEF Shape
  <2>5. CASE c = Top
    BY <2>4, <2>5 DEF Shape, Placing
  <2>6. CASE c # Top
    <3>1. PICK q \in DOMAIN h : c \in Children(h, q)
      BY <2>2, <2>6 DEF Shape, Placing
    <3>2. q # p
      BY <2>2, <3>1
    <3>3. Children(h, q) \subseteq S
      BY <3>2, ChildrenAre DEF Shape, Apart
    <3> QED
      BY <2>4, <3>1, <3>3, PointersStay DEF Shape
  <2> QED
    BY <2>5, <2>6
<1>4. S \in SUBSET DOMAIN h
  OBVIOUS
<1> HIDE DEF S
<1>5. S = DOMAIN h
  BY <1>2, <1>3, <1>4 DEF Shape, Joins
<1> QED
  BY <1>1, <1>5 DEF S

(* r is h with the list of p in the order k.                               *)
Reorders(h, p, k, r) ==
  /\ DOMAIN r = DOMAIN h /\ \A c \in DOMAIN h : DOMAIN r[c] = Fields
  /\ r[p].child = k[1] /\ r[p].last_child = Last(k)
  /\ \A c \in DOMAIN h \ {p} : r[c].child = h[c].child /\ r[c].last_child = h[c].last_child
  /\ \A i \in 1 .. Len(k) : r[k[i]].next = IF i = Len(k) THEN Null ELSE k[i + 1]
  /\ \A c \in DOMAIN h \ ToSet(k) : r[c].next = h[c].next
  /\ \A c \in DOMAIN h, f \in Fields \ {"child", "last_child", "next"} : r[c][f] = h[c][f]

LEMMA OrderIs ==
  ASSUME NEW h, IsHeap(h), Levels(h), NEW p \in DOMAIN h, Kids(h, p) # <<>>,
         NEW k \in Orders(Kids(h, p))
  PROVE  /\ k \in Seq(DOMAIN h) /\ k # <<>> /\ Len(k) \in Nat \ {0}
         /\ ToSet(k) = Children(h, p)
         /\ \A i, j \in 1 .. Len(k) : k[i] = k[j] => i = j
<1>1. PICK l : l = Kids(h, p)
  OBVIOUS
<1>2. /\ l \in Seq(DOMAIN h) /\ Len(l) \in Nat \ {0}
      /\ ToSet(l) \subseteq DOMAIN h /\ ToSet(l) = Children(h, p)
  <2>1. l \in Seq(DOMAIN h) /\ Len(l) \in Nat \ {0} /\ Children(h, p) \subseteq DOMAIN h
    BY <1>1, ChildrenAre
  <2> QED
    BY <1>1, <2>1 DEF Children
<1>3. /\ k \in [DOMAIN l -> ToSet(l)] /\ ToSet(k) = ToSet(l)
      /\ \A i, j \in DOMAIN k : k[i] = k[j] => i = j
  BY <1>1 DEF Orders, IsInjective
<1>4. DOMAIN l = 1 .. Len(l)
  BY <1>2
<1>5. k \in [1 .. Len(l) -> DOMAIN h]
  BY <1>2, <1>3, <1>4
<1>6. k \in Seq(DOMAIN h) /\ Len(k) = Len(l)
  BY <1>2, <1>5
<1> QED
  BY <1>2, <1>3, <1>4, <1>6

LEMMA RelinkIs ==
  ASSUME NEW h, IsHeap(h), Shape(h), NEW p \in DOMAIN h, Kids(h, p) # <<>>,
         NEW k \in Orders(Kids(h, p)), NEW r, r = Relink(h, p, k)
  PROVE  Reorders(h, p, k, r)
<1>1. /\ k \in Seq(DOMAIN h) /\ k # <<>> /\ Len(k) \in Nat \ {0}
      /\ ToSet(k) = Children(h, p)
      /\ \A i, j \in 1 .. Len(k) : k[i] = k[j] => i = j
  BY OrderIs DEF Shape
<1>2. \A i \in 1 .. Len(k) : k[i] \in DOMAIN h /\ k[i] \in ToSet(k)
  BY <1>1 DEF ToSet
<1>3. p \notin ToSet(k)
  BY <1>1, <1>2, NoneWithout
<1>4. ASSUME NEW i \in 1 .. Len(k)
      PROVE  NextIn(h, k, k[i]) = IF i = Len(k) THEN Null ELSE k[i + 1]
  <2> DEFINE I == {j \in 1 .. Len(k) : k[j] = k[i]}
             n == IF I # {} THEN Min(I) ELSE 0
  <2>1. NextIn(h, k, k[i]) = IF n = Len(k) THEN Null ELSE k[n + 1]
    BY DEF NextIn, SelectInSeq
  <2>2. I = {i}
    BY <1>1
  <2>3. {i} \in SUBSET Nat /\ {i} # {}
    OBVIOUS
  <2>4. Min({i}) = i
    BY <2>3, Least
  <2> HIDE DEF I
  <2>5. n = i
    BY <2>2, <2>4
  <2> QED
    BY <2>1, <2>5
<1>5. DOMAIN r = DOMAIN h
  BY DEF Relink
<1>6. /\ r[p] = [h[p] EXCEPT !.child = k[1], !.last_child = Last(k)]
      /\ \A c \in DOMAIN h \ {p} :
           r[c] = IF c \in ToSet(k) THEN [h[c] EXCEPT !.next = NextIn(h, k, c)] ELSE h[c]
  BY DEF Relink
<1>7. \A c \in DOMAIN h : DOMAIN r[c] = Fields
  BY <1>6 DEF IsHeap
<1>8. /\ r[p].child = k[1] /\ r[p].last_child = Last(k)
      /\ \A f \in Fields \ {"child", "last_child"} : r[p][f] = h[p][f]
  BY <1>6 DEF IsHeap, Fields
<1>9. \A c \in DOMAIN h \ {p} :
        /\ \A f \in Fields \ {"next"} : r[c][f] = h[c][f]
        /\ r[c].next = IF c \in ToSet(k) THEN NextIn(h, k, c) ELSE h[c].next
  BY <1>6 DEF IsHeap, Fields
<1>10. \A i \in 1 .. Len(k) : r[k[i]].next = IF i = Len(k) THEN Null ELSE k[i + 1]
  BY <1>2, <1>3, <1>4, <1>9
<1>11. \A c \in DOMAIN h \ ToSet(k) : r[c].next = h[c].next
  BY <1>8, <1>9 DEF Fields
<1>12. \A c \in DOMAIN h \ {p} : r[c].child = h[c].child /\ r[c].last_child = h[c].last_child
  BY <1>9 DEF Fields
<1>13. \A c \in DOMAIN h, f \in Fields \ {"child", "last_child", "next"} : r[c][f] = h[c][f]
  BY <1>8, <1>9
<1> QED
  BY <1>5, <1>7, <1>8, <1>10, <1>11, <1>12, <1>13 DEF Reorders

LEMMA RelinkKeeps ==
  ASSUME NEW h, Sound(h), NEW p \in DOMAIN h, Kids(h, p) # <<>>,
         NEW k \in Orders(Kids(h, p)), NEW r, r = Relink(h, p, k)
  PROVE  Sound(r)
<1> DEFINE K == Children(h, p)
<1>1. Reorders(h, p, k, r)
  BY RelinkIs DEF Sound
<1>2. /\ k \in Seq(DOMAIN h) /\ k # <<>> /\ Len(k) \in Nat \ {0}
      /\ ToSet(k) = K
      /\ \A i, j \in 1 .. Len(k) : k[i] = k[j] => i = j
  BY OrderIs DEF Sound, Shape
<1>3. \A i \in 1 .. Len(k) : k[i] \in DOMAIN h /\ k[i] \in K
  <2>1. \A i \in 1 .. Len(k) : k[i] \in DOMAIN h /\ k[i] \in ToSet(k)
    BY <1>2 DEF ToSet
  <2> QED
    BY <1>2, <2>1
<1>4. \A x \in K : \E i \in 1 .. Len(k) : x = k[i]
  <2>1. \A x \in ToSet(k) : \E i \in 1 .. Len(k) : x = k[i]
    BY <1>2 DEF ToSet
  <2> QED
    BY <1>2, <2>1
<1>5. p \notin K /\ k[1] \in K
  BY <1>2, <1>3, NoneWithout DEF Sound
<1>6. DOMAIN r = DOMAIN h /\ \A c \in DOMAIN h :
        /\ DOMAIN r[c] = Fields
        /\ r[c].name = h[c].name /\ r[c].value = h[c].value /\ r[c].link = h[c].link
        /\ r[c].shares = h[c].shares /\ r[c].hash = h[c].hash
        /\ r[c].last_hp = h[c].last_hp /\ r[c].last_hs = h[c].last_hs
  BY <1>1 DEF Reorders, Fields
<1>7. \A c \in DOMAIN h \ K : r[c].next = h[c].next
  <2>1. \A c \in DOMAIN h \ ToSet(k) : r[c].next = h[c].next
    BY <1>1 DEF Reorders
  <2> QED
    BY <1>2, <2>1
<1>8. IsHeap(r)
  BY <1>6 DEF Sound, IsHeap
<1>9. Level(r, p, k)
  <2>1. ASSUME NEW i \in 1 .. Len(k), NEW j \in 1 .. Len(k), r[k[i]].name = r[k[j]].name
        PROVE  i = j
    <3>1. h[k[i]].name = h[k[j]].name
      BY <1>3, <1>6, <2>1
    <3>2. \A x, y \in K : h[x].name = h[y].name => x = y
      <4>1. PICK l : l = Kids(h, p)
        OBVIOUS
      <4>2. \A x \in K : \E n \in 1 .. Len(l) : x = l[n]
        <5>1. \A x \in K : \E n \in 1 .. Len(Kids(h, p)) : x = Kids(h, p)[n]
          BY ChildrenAre DEF Sound, Shape
        <5> QED
          BY <4>1, <5>1
      <4>3. \A n, m \in 1 .. Len(l) : h[l[n]].name = h[l[m]].name => n = m
        BY <4>1 DEF Sound, Shape, Levels, Level
      <4> QED
        BY <4>2, <4>3
    <3> QED
      BY <1>2, <1>3, <3>1, <3>2
  <2>2. k \in Seq(DOMAIN r)
    BY <1>2, <1>6
  <2> QED
    BY <1>1, <1>2, <2>1, <2>2 DEF Level, Reorders
<1>10. ASSUME NEW q \in DOMAIN h \ {p} PROVE Level(r, q, Kids(h, q))
  <2>1. PICK l : l = Kids(h, q)
    OBVIOUS
  <2>2. Level(h, q, l)
    BY <2>1 DEF Sound, Shape, Levels
  <2>3. \A i \in 1 .. Len(l) : l[i] \in DOMAIN h /\ l[i] \notin K
    <3>1. \A i \in 1 .. Len(l) : l[i] \in Children(h, q) /\ l[i] \in DOMAIN h
      BY <2>1, ChildrenAre DEF Sound, Shape
    <3> QED
      BY <3>1 DEF Sound, Shape, Apart
  <2>4. l \in Seq(DOMAIN r)
    BY <1>6, <2>2 DEF Level
  <2>5. r[q].child = h[q].child
    BY <1>1 DEF Reorders
  <2>6. Level(r, q, l)
    BY <1>6, <1>7, <2>2, <2>3, <2>4, <2>5 DEF Level
  <2> QED
    BY <2>1, <2>6
<1>11. Kids(r, p) = k /\ \A q \in DOMAIN h \ {p} : Kids(r, q) = Kids(h, q)
  BY <1>8, <1>9, <1>10, KidsAre
<1>12. \A q \in DOMAIN h : Children(r, q) = Children(h, q)
  BY <1>2, <1>11 DEF Children
<1>13. Levels(r)
  BY <1>6, <1>9, <1>10, <1>11 DEF Levels
<1>14. Apart(r)
  BY <1>6, <1>12 DEF Sound, Shape, Apart
<1>15. Placing(r)
  <2>1. Top \in DOMAIN h /\ Top \notin K /\ h[Top].next = Null
    BY DEF Sound, Shape, Placing, IsHeap
  <2>2. \A x \in DOMAIN h : x # Top <=> \E q \in DOMAIN h : x \in Children(h, q)
    BY DEF Sound, Shape, Placing
  <2> QED
    BY <1>6, <1>7, <1>12, <2>1, <2>2 DEF Placing
<1>16. Joins(r)
  <2>1. SUFFICES ASSUME NEW S \in SUBSET DOMAIN h, Top \in S, Closed(r, S) PROVE S = DOMAIN h
    BY <1>6 DEF Joins
  <2>2. \A x \in S : r[x].child \in S \cup {Null} /\ r[x].next \in S \cup {Null}
    BY <2>1 DEF Closed
  <2>3. \A x \in DOMAIN h \ {p} : r[x].child = h[x].child
    BY <1>1 DEF Reorders
  <2>4. CASE p \in S
    <3>1. r[p].child \in S \cup {Null}
      BY <2>2, <2>4
    <3>2. K \subseteq S
      BY <1>6, <1>8, <1>12, <1>13, <2>1, <3>1, AlongList
    <3>3. Closed(h, S)
      <4>1. SUFFICES ASSUME NEW x \in S
                     PROVE  h[x].child \in S \cup {Null} /\ h[x].next \in S \cup {Null}
        BY DEF Closed
      <4>2. h[x].child \in S \cup {Null}
        BY <2>2, <2>3, <3>2, PointersStay DEF Sound, Shape
      <4>3. h[x].next \in S \cup {Null}
        BY <1>7, <2>2, <3>2, PointersStay DEF Sound, Shape
      <4> QED
        BY <4>2, <4>3
    <3> QED
      BY <2>1, <3>3 DEF Sound, Shape, Joins
  <2>5. CASE p \notin S
    <3> DEFINE R == S \ K
    <3>1. Top \in R /\ R \in SUBSET DOMAIN h
      BY <2>1 DEF Sound, Shape, Placing, IsHeap
    <3>2. Closed(h, R)
      <4>1. SUFFICES ASSUME NEW x \in R
                     PROVE  h[x].child \in R \cup {Null} /\ h[x].next \in R \cup {Null}
        BY DEF Closed
      <4>2. x \in DOMAIN h /\ x \in S /\ x # p /\ x \notin K
        BY <2>5
      <4>3. h[x].child \in S \cup {Null} /\ h[x].next \in S \cup {Null}
        BY <1>7, <2>2, <2>3, <4>2
      <4>4. h[x].child \notin K
        <5>1. h[x].child \in Children(h, x) \cup {Null}
          BY <4>2, PointersStay DEF Sound, Shape
        <5>2. Null \notin K
          BY <1>3, <1>4, NullIsNoCell DEF Sound
        <5> QED
          BY <4>2, <5>1, <5>2 DEF Sound, Shape, Apart
      <4>5. h[x].next \notin K
        <5>1. Null \notin K
          BY <1>3, <1>4, NullIsNoCell DEF Sound
        <5>2. CASE x = Top
          BY <5>1, <5>2 DEF Sound, Shape, Placing
        <5>3. CASE x # Top
          <6>1. PICK q \in DOMAIN h : x \in Children(h, q)
            BY <4>2, <5>3 DEF Sound, Shape, Placing
          <6>2. q # p
            BY <4>2, <6>1
          <6>3. h[x].next \in Children(h, q) \cup {Null}
            BY <6>1, PointersStay DEF Sound, Shape
          <6> QED
            BY <5>1, <6>2, <6>3 DEF Sound, Shape, Apart
        <5> QED
          BY <5>2, <5>3
      <4> QED
        BY <4>3, <4>4, <4>5
    <3> HIDE DEF R
    <3>3. R = DOMAIN h
      BY <3>1, <3>2 DEF Sound, Shape, Joins
    <3> QED
      BY <2>5, <3>3 DEF R
  <2> QED
    BY <2>4, <2>5
<1>17. Shortcuts(r)
  <2>1. SUFFICES ASSUME NEW q \in DOMAIN h
                 PROVE  /\ r[q].hash \in {NoHash, Children(r, q)}
                        /\ Kids(r, q) # <<>> => r[q].last_child = Last(Kids(r, q))
                        /\ {r[q].last_hp, r[q].last_hs} \subseteq Children(r, q) \cup {Null}
    BY <1>6 DEF Shortcuts
  <2>2. r[q].hash = h[q].hash /\ r[q].last_hp = h[q].last_hp /\ r[q].last_hs = h[q].last_hs
    BY <1>6
  <2>3. Kids(r, q) # <<>> => r[q].last_child = Last(Kids(r, q))
    BY <1>1, <1>11 DEF Sound, Shortcuts, Reorders
  <2> QED
    BY <1>12, <2>2, <2>3 DEF Sound, Shortcuts
<1>18. Shares(r)
  BY <1>6 DEF Sound, Shares, Owns
<1> QED
  BY <1>8, <1>13, <1>14, <1>15, <1>16, <1>17, <1>18 DEF Sound, Shape
-----------------------------------------------------------------------------
(* Removing: a node taken out of its list.                                 *)

(* r is h with v in the field f of c.                                      *)
Puts(h, c, f, v, r) ==
  /\ DOMAIN r = DOMAIN h /\ \A x \in DOMAIN h : DOMAIN r[x] = Fields
  /\ \A x \in DOMAIN h, k \in Fields : r[x][k] = IF x = c /\ k = f THEN v ELSE h[x][k]

(* CutAt before the node is freed.                                         *)
Taken(h, lp, i) ==
  LET kids == Kids(h, lp)
      hp   == kids[i]
      h1   == IF h[lp].hash = NoHash THEN h
              ELSE [h EXCEPT ![lp].hash = @ \ InHash(h, lp, h[hp].name)]
      h2   == IF i = 1 THEN [h1 EXCEPT ![lp].child = h[hp].next]
              ELSE [h1 EXCEPT ![kids[i - 1]].next = h[hp].next,
                              ![lp].last_child = LastAfter(@, hp, kids[i - 1])]
  IN  [Unlinked(h2, hp) EXCEPT ![lp].last_hp = Null, ![lp].last_hs = Null]

(* g is h with the node at i taken out of the list l of p.                 *)
Takes(h, p, l, i, g) ==
  /\ DOMAIN g = DOMAIN h /\ \A c \in DOMAIN h : DOMAIN g[c] = Fields
  /\ \A c \in DOMAIN h, f \in {"name", "value", "shares", "link"} : g[c][f] = h[c][f]
  /\ \A c \in DOMAIN h : g[c].child = IF c = p /\ i = 1 THEN h[l[i]].next ELSE h[c].child
  /\ \A c \in DOMAIN h :
       g[c].next = IF c = l[i] THEN Null
                   ELSE IF i > 1 /\ c = l[i - 1] THEN h[l[i]].next ELSE h[c].next
  /\ \A c \in DOMAIN h \ {p}, f \in {"hash", "last_child", "last_hp", "last_hs"} : g[c][f] = h[c][f]
  /\ g[p].last_hp = Null /\ g[p].last_hs = Null
  /\ g[p].hash = IF h[p].hash = NoHash THEN NoHash
                 ELSE h[p].hash \ InHash(h, p, h[l[i]].name)
  /\ g[p].last_child = IF i > 1 /\ h[p].last_child = l[i] THEN l[i - 1] ELSE h[p].last_child

LEMMA TakenIs ==
  ASSUME NEW h, IsHeap(h), Levels(h), NEW p \in DOMAIN h, NEW l, l = Kids(h, p),
         NEW i \in 1 .. Len(l), NEW g, g = Taken(h, p, i)
  PROVE  Takes(h, p, l, i, g)
<1> DEFINE e == Kids(h, p)[i]
           b == Kids(h, p)[i - 1]
           y == h[e].next
           old == h[p].hash \ InHash(h, p, h[e].name)
           hash == IF h[p].hash = NoHash THEN NoHash ELSE old
           h1 == IF h[p].hash = NoHash THEN h ELSE [h EXCEPT ![p].hash = @ \ InHash(h, p, h[e].name)]
           h2 == IF i = 1 THEN [h1 EXCEPT ![p].child = y]
                 ELSE [h1 EXCEPT ![b].next = y, ![p].last_child = LastAfter(@, e, b)]
           h3 == Unlinked(h2, e)
           h4 == [h3 EXCEPT ![p].last_hp = Null]
           h5 == [h3 EXCEPT ![p].last_hp = Null, ![p].last_hs = Null]
<1>1. e = l[i]
  OBVIOUS
<1>2. b = l[i - 1]
  OBVIOUS
<1>7. y = h[e].next
  OBVIOUS
<1>9. g = h5
  BY Zenon DEF Taken
<1> HIDE DEF h2, h3, h4, h5, e, b, y
<1>3. PICK D : D = DOMAIN h
  OBVIOUS
<1>4. l \in Seq(DOMAIN h) /\ Len(l) \in Nat /\ \A j, k \in 1 .. Len(l) : l[j] = l[k] => j = k
  BY ChildrenAre
<1>5. p \in D /\ e \in D /\ (i > 1 => b \in D /\ b # e)
  <2>1. i > 1 => i - 1 \in 1 .. Len(l) /\ i - 1 # i
    BY <1>4
  <2> QED
    BY <1>1, <1>2, <1>3, <1>4, <2>1
<1>6. Puts(h, p, "hash", hash, h1)
  <2>1. CASE h[p].hash = NoHash
    <3>1. h1 = h /\ hash = h[p].hash
      BY <2>1
    <3> HIDE DEF h1, hash
    <3> QED
      BY <3>1 DEF Puts, IsHeap, Fields
  <2>2. CASE h[p].hash # NoHash
    <3>1. h1 = [h EXCEPT ![p].hash = old] /\ hash = old
      BY <2>2
    <3> HIDE DEF h1, hash, old
    <3> QED
      BY <3>1 DEF Puts, IsHeap, Fields
  <2> QED
    BY <2>1, <2>2
<1>8. PICK last : last = LastAfter(h[p].last_child, e, b)
  OBVIOUS
<1> HIDE DEF hash, h1
<1>10. /\ DOMAIN h2 = D /\ \A x \in D : DOMAIN h2[x] = Fields
       /\ \A x \in D, k \in Fields :
            h2[x][k] = IF x = p /\ k = "child" /\ i = 1 THEN y
                       ELSE IF x = b /\ k = "next" /\ i # 1 THEN y
                       ELSE IF x = p /\ k = "last_child" /\ i # 1 THEN last
                       ELSE h1[x][k]
  <2>1. CASE i = 1
    BY <1>3, <1>5, <1>6, <2>1 DEF Puts, Fields, h2
  <2>2. CASE i # 1
    <3> DEFINE m == [h1 EXCEPT ![b].next = y]
    <3>1. b \in D
      BY <1>5, <2>2
    <3>2. Puts(h1, b, "next", y, m)
      BY <1>3, <1>6, <3>1 DEF Puts, Fields
    <3>3. m[p].last_child = h[p].last_child
      BY <1>3, <1>5, <1>6, <3>2 DEF Puts, Fields
    <3>4. h2 = [m EXCEPT ![p].last_child = LastAfter(@, e, b)]
      BY <2>2 DEF h2
    <3> HIDE DEF m
    <3>5. h2 = [m EXCEPT ![p].last_child = last]
      BY <1>8, <3>3, <3>4
    <3>6. Puts(m, p, "last_child", last, h2)
      BY <1>3, <1>5, <1>6, <3>2, <3>5 DEF Puts, Fields
    <3> QED
      BY <1>3, <1>6, <2>2, <3>2, <3>6 DEF Puts
  <2> QED
    BY <2>1, <2>2
<1>11. Puts(h2, e, "next", Null, h3)
  BY <1>5, <1>10 DEF Puts, Fields, Unlinked, h3
<1>12. Puts(h3, p, "last_hp", Null, h4)
  BY <1>5, <1>10, <1>11 DEF Puts, Fields, h4
<1>13. Puts(h4, p, "last_hs", Null, h5)
  <2>1. h5 = [h4 EXCEPT ![p].last_hs = Null]
    BY DEF h4, h5
  <2> QED
    BY <1>5, <1>10, <1>11, <1>12, <2>1 DEF Puts, Fields
<1>14. /\ DOMAIN g = D /\ \A x \in D : DOMAIN g[x] = Fields
       /\ \A x \in D, k \in Fields :
            g[x][k] = IF x = p /\ k \in {"last_hp", "last_hs"} THEN Null
                      ELSE IF x = e /\ k = "next" THEN Null ELSE h2[x][k]
  BY <1>5, <1>9, <1>10, <1>11, <1>12, <1>13 DEF Puts
<1>15. \A x \in D, k \in Fields : h1[x][k] = IF x = p /\ k = "hash" THEN hash ELSE h[x][k]
  BY <1>3, <1>6 DEF Puts
<1>16. last = IF h[p].last_child = e THEN b ELSE h[p].last_child
  BY <1>8 DEF LastAfter
<1>17. \A c \in D, f \in {"name", "value", "shares", "link"} : g[c][f] = h[c][f]
  BY <1>10, <1>14, <1>15 DEF Fields
<1>18. \A c \in D : g[c].child = IF c = p /\ i = 1 THEN y ELSE h[c].child
  BY <1>10, <1>14, <1>15 DEF Fields
<1>19. \A c \in D : g[c].next = IF c = e THEN Null ELSE IF i # 1 /\ c = b THEN y ELSE h[c].next
  BY <1>10, <1>14, <1>15 DEF Fields
<1>20. \A c \in D \ {p}, f \in {"hash", "last_child", "last_hp", "last_hs"} : g[c][f] = h[c][f]
  BY <1>10, <1>14, <1>15 DEF Fields
<1>21. g[p].last_hp = Null /\ g[p].last_hs = Null /\ g[p].hash = hash
  BY <1>5, <1>10, <1>14, <1>15 DEF Fields
<1>22. g[p].last_child = IF i # 1 THEN last ELSE h[p].last_child
  BY <1>5, <1>10, <1>14, <1>15 DEF Fields
<1>23. i > 1 <=> i # 1
  BY <1>4
<1> QED
  BY <1>1, <1>2, <1>3, <1>7, <1>14, <1>16, <1>17, <1>18, <1>19, <1>20, <1>21, <1>22, <1>23 DEF Takes, hash

(* What is left of the level, once the node at i is out of it.             *)
LEMMA LevelTaken ==
  ASSUME NEW h, IsHeap(h), Levels(h), NEW p \in DOMAIN h, NEW l, l = Kids(h, p),
         NEW i \in 1 .. Len(l), NEW g, Takes(h, p, l, i, g)
  PROVE  Level(g, p, RemoveAt(l, i))
<1>1. PICK m : m = RemoveAt(l, i)
  OBVIOUS
<1>2. /\ l \in Seq(DOMAIN h) /\ Len(l) \in Nat /\ Level(h, p, l)
      /\ \A j, k \in 1 .. Len(l) : l[j] = l[k] => j = k
  BY ChildrenAre DEF Levels
<1>3. /\ m \in Seq(DOMAIN h) /\ Len(m) = Len(l) - 1
      /\ \A j \in 1 .. Len(l) - 1 : m[j] = IF j < i THEN l[j] ELSE l[j + 1]
  BY <1>1, <1>2, RemoveAtKeeps
<1>4. \A j \in 1 .. Len(l) : l[j] \in DOMAIN h
  BY <1>2
<1>5. \A j \in 1 .. Len(l) : h[l[j]].next = IF j = Len(l) THEN Null ELSE l[j + 1]
  BY <1>2 DEF Level
<1>6. \A j \in 1 .. Len(l) :
        g[l[j]].next = IF j = i THEN Null ELSE IF j = i - 1 THEN h[l[i]].next ELSE h[l[j]].next
  <2>1. \A c \in DOMAIN h :
          g[c].next = IF c = l[i] THEN Null
                      ELSE IF i > 1 /\ c = l[i - 1] THEN h[l[i]].next ELSE h[c].next
    BY DEF Takes
  <2>2. \A j \in 1 .. Len(l) : (l[j] = l[i] <=> j = i) /\ (i > 1 /\ l[j] = l[i - 1] <=> j = i - 1)
    <3>1. i > 1 => i - 1 \in 1 .. Len(l)
      BY <1>2
    <3> QED
      BY <1>2, <3>1
  <2> QED
    BY <1>4, <2>1, <2>2
<1>7. m \in Seq(DOMAIN g)
  BY <1>3 DEF Takes
<1>8. g[p].child = IF m = <<>> THEN Null ELSE m[1]
  <2>1. g[p].child = IF i = 1 THEN h[l[i]].next ELSE h[p].child
    BY DEF Takes
  <2>2. m = <<>> <=> Len(m) = 0
    BY <1>3
  <2>3. h[p].child = l[1]
    BY <1>2 DEF Level
  <2> QED
    BY <1>2, <1>3, <1>5, <2>1, <2>2, <2>3
<1>9. ASSUME NEW j \in 1 .. Len(m)
      PROVE  g[m[j]].next = IF j = Len(m) THEN Null ELSE m[j + 1]
  <2>1. CASE j < i - 1
    <3>1. j \in 1 .. Len(l) /\ j # i /\ j # i - 1 /\ j # Len(l) /\ j # Len(m) /\ j + 1 < i
      BY <1>2, <1>3, <2>1
    <3>2. m[j] = l[j] /\ m[j + 1] = l[j + 1]
      BY <1>2, <1>3, <3>1
    <3> QED
      BY <1>5, <1>6, <3>1, <3>2
  <2>2. CASE j = i - 1
    <3>1. j \in 1 .. Len(l) /\ (i = Len(l) <=> j = Len(m)) /\ j # i
      BY <1>2, <1>3, <2>2
    <3>2. m[j] = l[j] /\ (j # Len(m) => m[j + 1] = l[i + 1])
      BY <1>2, <1>3, <2>2, <3>1
    <3> QED
      BY <1>5, <1>6, <2>2, <3>1, <3>2
  <2>3. CASE j >= i
    <3>1. j + 1 \in 1 .. Len(l) /\ (j + 1 = Len(l) <=> j = Len(m)) /\ j + 1 # i /\ j + 1 # i - 1
      BY <1>2, <1>3, <2>3
    <3>2. m[j] = l[j + 1] /\ (j # Len(m) => m[j + 1] = l[(j + 1) + 1])
      BY <1>2, <1>3, <2>3, <3>1
    <3> QED
      BY <1>5, <1>6, <3>1, <3>2
  <2> QED
    BY <1>2, <1>3, <2>1, <2>2, <2>3
<1>10. ASSUME NEW j \in 1 .. Len(m), NEW k \in 1 .. Len(m), g[m[j]].name = g[m[k]].name
       PROVE  j = k
  <2> DEFINE j1 == IF j < i THEN j ELSE j + 1
             k1 == IF k < i THEN k ELSE k + 1
  <2>1. j1 \in 1 .. Len(l) /\ m[j] = l[j1]
    BY <1>2, <1>3
  <2>2. k1 \in 1 .. Len(l) /\ m[k] = l[k1]
    BY <1>2, <1>3
  <2>3. h[l[j1]].name = h[l[k1]].name
    BY <1>4, <1>10, <2>1, <2>2 DEF Takes
  <2>4. j1 = k1
    <3> HIDE DEF j1, k1
    <3> QED
      BY <1>2, <2>1, <2>2, <2>3 DEF Level
  <2> QED
    BY <1>2, <1>3, <2>4
<1> QED
  BY <1>1, <1>7, <1>8, <1>9, <1>10 DEF Level

(* A heap in which e alone, besides the top node, is in no list.           *)
Loose(g, e) ==
  /\ IsHeap(g) /\ Levels(g) /\ Apart(g) /\ e \in DOMAIN g \ {Top}
  /\ g[e].next = Null /\ g[Top].next = Null
  /\ \A c \in DOMAIN g : c \notin {Top, e} <=> \E q \in DOMAIN g : c \in Children(g, q)

LEMMA TakenLoose ==
  ASSUME NEW h, IsHeap(h), Shape(h), NEW p \in DOMAIN h, NEW l, l = Kids(h, p),
         NEW i \in 1 .. Len(l), NEW g, Takes(h, p, l, i, g)
  PROVE  /\ Loose(g, l[i])
         /\ Kids(g, p) = RemoveAt(l, i) /\ Children(g, p) = Children(h, p) \ {l[i]}
         /\ \A q \in DOMAIN h \ {p} : Kids(g, q) = Kids(h, q) /\ Children(g, q) = Children(h, q)
<1>1. PICK e : e = l[i]
  OBVIOUS
<1>2. PICK m : m = RemoveAt(l, i)
  OBVIOUS
<1>3. /\ l \in Seq(DOMAIN h) /\ Len(l) \in Nat
      /\ \A j, k \in 1 .. Len(l) : l[j] = l[k] => j = k
  BY ChildrenAre DEF Shape
<1>4. \A x : x \in Children(h, p) <=> \E j \in 1 .. Len(l) : x = l[j]
  <2>1. Levels(h)
    BY DEF Shape
  <2>2. Children(h, p) = {Kids(h, p)[j] : j \in 1 .. Len(Kids(h, p))}
    BY <2>1, ChildrenAre
  <2>3. \A x : x \in Children(h, p) <=> \E j \in 1 .. Len(Kids(h, p)) : x = Kids(h, p)[j]
    BY <2>2
  <2> QED
    BY <2>3
<1>5. e \in Children(h, p) /\ e \in DOMAIN h
  BY <1>1, <1>3, <1>4
<1>6. /\ DOMAIN g = DOMAIN h
      /\ \A c \in DOMAIN h : /\ DOMAIN g[c] = Fields
                             /\ g[c].name = h[c].name /\ g[c].value = h[c].value
                             /\ g[c].link = h[c].link
                             /\ c # p => g[c].child = h[c].child
                             /\ c \notin Children(h, p) => g[c].next = h[c].next
  <2>1. \A c \in DOMAIN h : c \notin Children(h, p) => c # l[i] /\ ~(i > 1 /\ c = l[i - 1])
    <3>1. i > 1 => i - 1 \in 1 .. Len(l)
      BY <1>3
    <3> QED
      BY <1>4, <3>1
  <2> QED
    BY <2>1 DEF Takes
<1>7. IsHeap(g)
  BY <1>6 DEF IsHeap
<1>8. Level(g, p, m)
  BY <1>2, LevelTaken DEF Shape
<1>9. ASSUME NEW q \in DOMAIN h \ {p} PROVE Level(g, q, Kids(h, q))
  <2>1. PICK k : k = Kids(h, q)
    OBVIOUS
  <2>2. Level(h, q, k)
    BY <2>1 DEF Shape, Levels
  <2>3. \A j \in 1 .. Len(k) : k[j] \in DOMAIN h /\ k[j] \notin Children(h, p)
    <3>1. \A j \in 1 .. Len(k) : k[j] \in Children(h, q) /\ k[j] \in DOMAIN h
      BY <2>1, ChildrenAre DEF Shape
    <3> QED
      BY <3>1 DEF Shape, Apart
  <2>4. k \in Seq(DOMAIN g)
    BY <1>6, <2>2 DEF Level
  <2>5. Level(g, q, k)
    BY <1>6, <2>2, <2>3, <2>4 DEF Level
  <2> QED
    BY <2>1, <2>5
<1>10. Kids(g, p) = m /\ \A q \in DOMAIN h \ {p} : Kids(g, q) = Kids(h, q)
  BY <1>7, <1>8, <1>9, KidsAre
<1>11. Levels(g)
  BY <1>6, <1>8, <1>9, <1>10 DEF Levels
<1>12. \A q \in DOMAIN h \ {p} : Children(g, q) = Children(h, q)
  BY <1>10 DEF Children
<1>13. Children(g, p) = Children(h, p) \ {e}
  <2>1. /\ Len(m) = Len(l) - 1
        /\ \A j \in 1 .. Len(l) - 1 : m[j] = IF j < i THEN l[j] ELSE l[j + 1]
    BY <1>2, <1>3, RemoveAtKeeps
  <2>2. \A x : x \in Children(g, p) <=> \E j \in 1 .. Len(m) : x = m[j]
    <3>1. \A x : x \in Children(g, p) <=> \E j \in 1 .. Len(Kids(g, p)) : x = Kids(g, p)[j]
      BY <1>6, <1>11, ChildrenAre
    <3> QED
      BY <1>10, <3>1
  <2>3. ASSUME NEW x \in Children(g, p) PROVE x \in Children(h, p) \ {e}
    <3>1. PICK j \in 1 .. Len(m) : x = m[j]
      BY <2>2
    <3>2. PICK k \in 1 .. Len(l) : x = l[k] /\ k # i
      BY <1>3, <2>1, <3>1
    <3> QED
      BY <1>1, <1>3, <1>4, <3>2
  <2>4. ASSUME NEW x \in Children(h, p) \ {e} PROVE x \in Children(g, p)
    <3>1. PICK k \in 1 .. Len(l) : x = l[k] /\ k # i
      BY <1>1, <1>4
    <3>2. PICK j \in 1 .. Len(m) : j = IF k < i THEN k ELSE k - 1
      BY <1>3, <2>1, <3>1
    <3>3. m[j] = l[k]
      BY <1>3, <2>1, <3>1, <3>2
    <3> QED
      BY <2>2, <3>1, <3>3
  <2> QED
    BY <2>3, <2>4
<1>14. Apart(g)
  BY <1>6, <1>12, <1>13 DEF Shape, Apart
<1>15. /\ Top \in DOMAIN h /\ h[Top].next = Null
       /\ \A c \in DOMAIN h : c # Top <=> \E q \in DOMAIN h : c \in Children(h, q)
  BY DEF Shape, Placing, IsHeap
<1>16. e # Top /\ Top \notin Children(h, p)
  BY <1>5, <1>15
<1>17. g[e].next = Null /\ g[Top].next = Null
  BY <1>1, <1>5, <1>6, <1>15, <1>16 DEF Takes
<1>18. \A q \in DOMAIN h \ {p} : e \notin Children(h, q)
  BY <1>5 DEF Shape, Apart
<1>19. \A c \in DOMAIN g : c \notin {Top, e} <=> \E q \in DOMAIN g : c \in Children(g, q)
  BY <1>6, <1>12, <1>13, <1>15, <1>18
<1> QED
  BY <1>1, <1>2, <1>5, <1>6, <1>7, <1>10, <1>11, <1>12, <1>13, <1>14, <1>16, <1>17, <1>19 DEF Loose
-----------------------------------------------------------------------------
(* Removing: a node freed, with what is below it.                          *)

LEMMA GoneIs ==
  ASSUME NEW g, NEW e, Loose(g, e), NEW G, G = Reach(g, e)
  PROVE  /\ G \subseteq DOMAIN g /\ e \in G /\ Top \notin G /\ Closed(g, G)
         /\ \A q \in G : Children(g, q) \subseteq G
         /\ \A q \in DOMAIN g \ G : Children(g, q) \cap G = {}
<1>1. G \subseteq DOMAIN g /\ e \in G
  BY DEF Reach, Loose
<1>2. \A S \in SUBSET DOMAIN g : e \in S /\ Closed(g, S) => G \subseteq S
  BY DEF Reach
<1>3. /\ IsHeap(g) /\ Levels(g) /\ Apart(g) /\ e \in DOMAIN g /\ e # Top
      /\ g[e].next = Null /\ g[Top].next = Null
      /\ \A c \in DOMAIN g : c \notin {Top, e} <=> \E q \in DOMAIN g : c \in Children(g, q)
  BY DEF Loose
<1>4. \A c \in DOMAIN g : g[c].child \in Children(g, c) \cup {Null} /\ Children(g, c) \subseteq DOMAIN g
  BY <1>3, PointersStay, ChildrenAre
<1>5. \A c \in DOMAIN g : \/ g[c].next = Null
                          \/ \E q \in DOMAIN g : c \in Children(g, q) /\ g[c].next \in Children(g, q)
  <2>1. SUFFICES ASSUME NEW c \in DOMAIN g, g[c].next # Null
                 PROVE  \E q \in DOMAIN g : c \in Children(g, q) /\ g[c].next \in Children(g, q)
    OBVIOUS
  <2>2. PICK q \in DOMAIN g : c \in Children(g, q)
    BY <1>3, <2>1
  <2>3. g[c].next \in Children(g, q) \cup {Null}
    BY <1>3, <2>2, PointersStay
  <2> QED
    BY <2>1, <2>2, <2>3
<1>6. Top \notin G
  <2> DEFINE S == DOMAIN g \ {Top}
  <2>1. Closed(g, S)
    <3>1. \A q \in DOMAIN g : Children(g, q) \subseteq S
      BY <1>3, <1>4
    <3>2. \A c \in S : g[c].child \in S \cup {Null} /\ g[c].next \in S \cup {Null}
      BY <1>4, <1>5, <3>1
    <3> QED
      BY <3>2 DEF Closed
  <2>2. S \in SUBSET DOMAIN g /\ e \in S
    BY <1>3
  <2> HIDE DEF S
  <2>3. G \subseteq S
    BY <1>2, <2>1, <2>2
  <2> QED
    BY <2>3 DEF S
<1>7. Closed(g, G)
  <2>1. SUFFICES ASSUME NEW c \in G, NEW y \in {g[c].child, g[c].next}, y # Null PROVE y \in G
    BY DEF Closed
  <2>2. y \in DOMAIN g
    BY <1>1, <1>4, <1>5, <2>1
  <2>3. ASSUME NEW S \in SUBSET DOMAIN g, e \in S, Closed(g, S) PROVE y \in S
    <3>1. c \in S
      BY <1>2, <2>3
    <3> QED
      BY <2>1, <2>3, <3>1 DEF Closed
  <2> QED
    BY <2>2, <2>3 DEF Reach
<1>8. \A q \in G : Children(g, q) \subseteq G
  <2>1. SUFFICES ASSUME NEW q \in G PROVE Children(g, q) \subseteq G
    OBVIOUS
  <2>2. q \in DOMAIN g /\ g[q].child \in G \cup {Null}
    BY <1>1, <1>7 DEF Closed
  <2> QED
    BY <1>3, <1>7, <2>2, AlongList
<1>9. \A q \in DOMAIN g \ G : Children(g, q) \cap G = {}
  <2> DEFINE S == {x \in G : x = e \/ \E q \in G : x \in Children(g, q)}
  <2>1. Closed(g, S)
    <3>1. SUFFICES ASSUME NEW c \in S, NEW y \in {g[c].child, g[c].next}, y # Null PROVE y \in S
      BY DEF Closed
    <3>2. c \in G /\ c \in DOMAIN g /\ y \in G
      BY <1>1, <1>7, <3>1 DEF Closed
    <3>3. CASE y = g[c].child
      <4>1. y \in Children(g, c)
        BY <1>4, <3>1, <3>2, <3>3
      <4> QED
        BY <3>2, <4>1
    <3>4. CASE y = g[c].next
      <4>1. c # e
        BY <1>3, <3>1, <3>4
      <4>2. PICK q \in G : c \in Children(g, q)
        BY <4>1
      <4>3. y \in Children(g, q)
        BY <1>1, <1>3, <3>1, <3>4, <4>2, PointersStay
      <4> QED
        BY <3>2, <4>2, <4>3
    <3> QED
      BY <3>3, <3>4
  <2>2. S \in SUBSET DOMAIN g /\ e \in S
    BY <1>1
  <2>3. G \subseteq S
    <3> HIDE DEF S
    <3> QED
      BY <1>2, <2>1, <2>2
  <2>4. SUFFICES ASSUME NEW q \in DOMAIN g \ G, NEW x \in Children(g, q), x \in G PROVE FALSE
    OBVIOUS
  <2>5. x # e
    BY <1>1, <1>3, <2>4
  <2>6. PICK o \in G : x \in Children(g, o)
    BY <2>3, <2>4, <2>5
  <2> QED
    BY <1>1, <1>3, <2>4, <2>6 DEF Apart
<1> QED
  BY <1>1, <1>6, <1>7, <1>8, <1>9

(* r is g without the nodes G, their strings freed.                        *)
Frees(g, G, r) ==
  /\ DOMAIN r = DOMAIN g \ G
  /\ \A c \in DOMAIN r, k \in Fields \ {"value", "shares"} : r[c][k] = g[c][k]
  /\ \A c \in DOMAIN r :
       IF g[c].shares \in G THEN r[c].value = Dangling /\ r[c].shares = Null
       ELSE r[c].value = g[c].value /\ r[c].shares = g[c].shares

LEMMA DeallocIs ==
  ASSUME NEW g, NEW e, Loose(g, e), NEW G, G = Reach(g, e), NEW r, r = Dealloc(g, e)
  PROVE  /\ IsHeap(r) /\ Levels(r) /\ Apart(r) /\ Placing(r) /\ Frees(g, G, r)
         /\ \A c \in DOMAIN r : Kids(r, c) = Kids(g, c) /\ Children(r, c) = Children(g, c)
<1> DEFINE R == DOMAIN g \ G
<1>1. /\ IsHeap(g) /\ Levels(g) /\ Apart(g) /\ e \in DOMAIN g /\ e # Top
      /\ g[Top].next = Null
      /\ \A c \in DOMAIN g : c \notin {Top, e} <=> \E q \in DOMAIN g : c \in Children(g, q)
  BY DEF Loose
<1>2. /\ G \subseteq DOMAIN g /\ e \in G /\ Top \notin G
      /\ \A q \in G : Children(g, q) \subseteq G
      /\ \A q \in DOMAIN g \ G : Children(g, q) \cap G = {}
  BY GoneIs
<1>3. PICK f : f = FreeStrings(g, G)
  OBVIOUS
<1>4. /\ DOMAIN f = DOMAIN g
      /\ \A c \in DOMAIN g :
           /\ DOMAIN f[c] = Fields
           /\ \A k \in Fields :
                f[c][k] = IF g[c].shares \in G /\ k = "value" THEN Dangling
                          ELSE IF g[c].shares \in G /\ k = "shares" THEN Null ELSE g[c][k]
  BY <1>1, <1>3, FreeIs
<1>5. r = [x \in R |-> f[x]]
  BY <1>3 DEF Dealloc, Restrict
<1>6. /\ DOMAIN r = R
      /\ \A c \in R :
           /\ DOMAIN r[c] = Fields
           /\ \A k \in Fields \ {"value", "shares"} : r[c][k] = g[c][k]
           /\ IF g[c].shares \in G THEN r[c].value = Dangling /\ r[c].shares = Null
              ELSE r[c].value = g[c].value /\ r[c].shares = g[c].shares
  BY <1>4, <1>5 DEF Fields
<1>7. \A c \in R : /\ r[c].child = g[c].child /\ r[c].next = g[c].next /\ r[c].name = g[c].name
                   /\ r[c].link = g[c].link
  BY <1>6 DEF Fields
<1>8. IsHeap(r)
  <2>1. IsFiniteSet(R)
    BY <1>1, FS_Subset DEF IsHeap
  <2> QED
    BY <1>1, <1>2, <1>6, <1>7, <2>1 DEF IsHeap
<1>9. ASSUME NEW q \in R PROVE Level(r, q, Kids(g, q))
  <2>1. PICK l : l = Kids(g, q)
    OBVIOUS
  <2>2. Level(g, q, l)
    BY <1>1, <2>1 DEF Levels
  <2>3. \A i \in 1 .. Len(l) : l[i] \in R
    <3>1. \A i \in 1 .. Len(l) : l[i] \in Children(g, q) /\ l[i] \in DOMAIN g
      BY <1>1, <2>1, ChildrenAre
    <3> QED
      BY <1>2, <3>1
  <2>4. l \in Seq(R)
    BY <2>2, <2>3 DEF Level
  <2> HIDE DEF R
  <2>5. Level(r, q, l)
    BY <1>6, <1>7, <2>2, <2>3, <2>4 DEF Level
  <2> QED
    BY <2>1, <2>5
<1>10. \A q \in R : Kids(r, q) = Kids(g, q)
  BY <1>8, <1>9, KidsAre
<1>11. \A q \in R : Children(r, q) = Children(g, q)
  BY <1>10 DEF Children
<1>12. Levels(r)
  BY <1>6, <1>9, <1>10 DEF Levels
<1>13. Apart(r)
  BY <1>1, <1>6, <1>11 DEF Apart
<1>14. Placing(r)
  <2>1. r[Top].next = Null
    BY <1>1, <1>2, <1>7 DEF IsHeap
  <2>2. ASSUME NEW c \in R PROVE c # Top <=> \E q \in R : c \in Children(g, q)
    <3>1. c \in DOMAIN g /\ c \notin G /\ c # e
      BY <1>2
    <3>2. \A q \in DOMAIN g : c \in Children(g, q) => q \in R
      BY <1>2, <3>1
    <3> QED
      BY <1>1, <3>1, <3>2
  <2> QED
    BY <1>6, <1>11, <2>1, <2>2 DEF Placing
<1>15. Frees(g, G, r)
  BY <1>6 DEF Frees
<1> HIDE DEF R
<1>16. DOMAIN r = R
  BY <1>6
<1> QED
  BY <1>8, <1>10, <1>11, <1>12, <1>13, <1>14, <1>15, <1>16
-----------------------------------------------------------------------------
(* Removing: the tree and its shortcuts without the node.                  *)

(* The pointers of the other levels are left alone.                        *)
LEMMA OthersStay ==
  ASSUME NEW h, IsHeap(h), Shape(h), NEW p \in DOMAIN h, NEW l, l = Kids(h, p),
         NEW i \in 1 .. Len(l), NEW g, Takes(h, p, l, i, g)
  PROVE  /\ DOMAIN g = DOMAIN h
         /\ \A c \in DOMAIN h : /\ c # p => g[c].child = h[c].child
                                /\ c \notin Children(h, p) => g[c].next = h[c].next
<1>1. Len(l) \in Nat /\ \A j \in 1 .. Len(l) : l[j] \in Children(h, p)
  <2>1. /\ Len(Kids(h, p)) \in Nat
        /\ \A j \in 1 .. Len(Kids(h, p)) : Kids(h, p)[j] \in Children(h, p)
    BY ChildrenAre DEF Shape
  <2> QED
    BY <2>1
<1>2. \A c \in DOMAIN h : c \notin Children(h, p) => c # l[i] /\ ~(i > 1 /\ c = l[i - 1])
  <2>1. i > 1 => i - 1 \in 1 .. Len(l)
    BY <1>1
  <2> QED
    BY <1>1, <2>1
<1> QED
  BY <1>2 DEF Takes

(* A node is not below itself: the parent survives.                        *)
LEMMA ParentStays ==
  ASSUME NEW h, IsHeap(h), Shape(h), NEW p \in DOMAIN h, NEW l, l = Kids(h, p),
         NEW i \in 1 .. Len(l), NEW g, Takes(h, p, l, i, g), NEW G, G = Reach(g, l[i])
  PROVE  p \notin G
<1> DEFINE S == DOMAIN h \ G
<1>1. SUFFICES ASSUME p \in G PROVE FALSE
  OBVIOUS
<1>2. PICK e : e = l[i]
  OBVIOUS
<1>3. /\ Loose(g, e) /\ Children(g, p) = Children(h, p) \ {e} /\ DOMAIN g = DOMAIN h
      /\ \A q \in DOMAIN h \ {p} : Children(g, q) = Children(h, q)
  BY <1>2, TakenLoose, OthersStay
<1>4. /\ G \subseteq DOMAIN h /\ e \in G /\ Top \notin G
      /\ \A q \in G : Children(g, q) \subseteq G
      /\ \A q \in DOMAIN h \ G : Children(g, q) \cap G = {}
  BY <1>2, <1>3, GoneIs
<1>5. Children(h, p) \subseteq G
  BY <1>1, <1>3, <1>4
<1>6. Null \notin G
  BY <1>4, NullIsNoCell
<1>7. Levels(h) /\ Placing(h)
  BY DEF Shape
<1>8. ASSUME NEW q \in DOMAIN h \ G PROVE Children(h, q) \subseteq S
  <2>1. Children(h, q) \subseteq DOMAIN h /\ q # p
    BY <1>1, <1>7, <1>8, ChildrenAre
  <2> QED
    BY <1>3, <1>4, <1>8, <2>1
<1>9. \A q \in G : Children(h, q) \subseteq G
  BY <1>3, <1>4, <1>5
<1>10. Closed(h, S)
  <2>1. SUFFICES ASSUME NEW c \in S PROVE h[c].child \in S \cup {Null} /\ h[c].next \in S \cup {Null}
    BY DEF Closed
  <2>2. h[c].child \in S \cup {Null}
    <3>1. h[c].child \in Children(h, c) \cup {Null}
      BY <1>7, PointersStay
    <3> QED
      BY <1>8, <3>1
  <2>3. h[c].next \in S \cup {Null}
    <3>1. CASE c = Top
      BY <1>7, <3>1 DEF Placing
    <3>2. CASE c # Top
      <4>1. PICK q \in DOMAIN h : c \in Children(h, q)
        BY <1>7, <3>2 DEF Placing
      <4>2. q \notin G
        BY <1>9, <4>1
      <4>3. h[c].next \in Children(h, q) \cup {Null}
        BY <1>7, <4>1, PointersStay
      <4> QED
        BY <1>8, <4>2, <4>3
    <3> QED
      BY <3>1, <3>2
  <2> QED
    BY <2>2, <2>3
<1>11. Top \in S /\ S \in SUBSET DOMAIN h
  BY <1>4 DEF IsHeap
<1>12. S = DOMAIN h
  <2> HIDE DEF S
  <2> QED
    BY <1>10, <1>11 DEF Shape, Joins
<1> QED
  BY <1>4, <1>12

(* What is left still hangs together.                                      *)
LEMMA CutJoins ==
  ASSUME NEW h, IsHeap(h), Shape(h), NEW p \in DOMAIN h, NEW l, l = Kids(h, p),
         NEW i \in 1 .. Len(l), NEW g, Takes(h, p, l, i, g), NEW r, r = Dealloc(g, l[i])
  PROVE  Joins(r)
<1> DEFINE K == Children(h, p)
<1>1. PICK e : e = l[i]
  OBVIOUS
<1>2. PICK G : G = Reach(g, e)
  OBVIOUS
<1>3. /\ Loose(g, e) /\ Children(g, p) = K \ {e} /\ DOMAIN g = DOMAIN h
      /\ \A c \in DOMAIN h : /\ c # p => g[c].child = h[c].child
                             /\ c \notin K => g[c].next = h[c].next
  BY <1>1, TakenLoose, OthersStay
<1>4. e \in K
  <2>1. \A j \in 1 .. Len(Kids(h, p)) : Kids(h, p)[j] \in Children(h, p)
    BY ChildrenAre DEF Shape
  <2> QED
    BY <1>1, <2>1
<1>5. G \subseteq DOMAIN h /\ e \in G /\ Top \notin G /\ Closed(g, G) /\ p \notin G
  BY <1>1, <1>2, <1>3, GoneIs, ParentStays
<1>6. /\ IsHeap(r) /\ Levels(r) /\ DOMAIN r = DOMAIN h \ G
      /\ \A c \in DOMAIN r : r[c].child = g[c].child /\ r[c].next = g[c].next
      /\ \A c \in DOMAIN r : Children(r, c) = Children(g, c)
  <2>1. r = Dealloc(g, e)
    BY <1>1
  <2>2. /\ IsHeap(r) /\ Levels(r) /\ Frees(g, G, r)
        /\ \A c \in DOMAIN r : Children(r, c) = Children(g, c)
    BY <1>2, <1>3, <2>1, DeallocIs
  <2>3. \A c \in DOMAIN r : r[c].child = g[c].child /\ r[c].next = g[c].next
    BY <2>2 DEF Frees, Fields
  <2> QED
    BY <1>3, <2>2, <2>3 DEF Frees
<1>7. Levels(h) /\ Placing(h) /\ Apart(h) /\ Joins(h)
  BY DEF Shape
<1>8. Null \notin K
  <2>1. K \subseteq DOMAIN h
    BY <1>7, ChildrenAre
  <2> HIDE DEF K
  <2> QED
    BY <2>1, NullIsNoCell
<1>9. SUFFICES ASSUME NEW S \in SUBSET DOMAIN r, Top \in S, Closed(r, S) PROVE S = DOMAIN r
  BY DEF Joins
<1>10. \A x \in S : r[x].child \in S \cup {Null} /\ r[x].next \in S \cup {Null}
  BY <1>9 DEF Closed
<1>11. \A x \in G : g[x].child \in G \cup {Null} /\ g[x].next \in G \cup {Null}
  BY <1>5 DEF Closed
<1>12. \A x \in K : h[x].next \in K \cup {Null}
  BY <1>7, PointersStay
<1>13. h[p].child \in K \cup {Null}
  BY <1>7, PointersStay
<1>14. CASE p \in S
  <2> DEFINE W == S \cup G
  <2>1. Children(r, p) \subseteq S
    <3>1. p \in DOMAIN r /\ r[p].child \in S \cup {Null}
      BY <1>10, <1>14
    <3> QED
      BY <1>6, <1>9, <3>1, AlongList
  <2>2. K \subseteq W
    <3>1. Children(r, p) = K \ {e}
      BY <1>3, <1>6, <1>14
    <3> HIDE DEF K
    <3> QED
      BY <1>5, <2>1, <3>1
  <2> HIDE DEF K
  <2>3. Closed(h, W)
    <3>1. SUFFICES ASSUME NEW x \in W PROVE h[x].child \in W \cup {Null} /\ h[x].next \in W \cup {Null}
      BY DEF Closed
    <3>2. x \in DOMAIN h
      BY <1>5, <1>6
    <3>3. g[x].child \in W \cup {Null} /\ g[x].next \in W \cup {Null}
      BY <1>6, <1>10, <1>11
    <3>4. h[x].child \in W \cup {Null}
      BY <1>3, <1>13, <2>2, <3>2, <3>3
    <3>5. h[x].next \in W \cup {Null}
      BY <1>3, <1>12, <2>2, <3>2, <3>3
    <3> QED
      BY <3>4, <3>5
  <2>4. W \in SUBSET DOMAIN h /\ Top \in W
    BY <1>5, <1>6, <1>9
  <2>5. W = DOMAIN h
    <3> HIDE DEF W
    <3> QED
      BY <1>7, <2>3, <2>4 DEF Joins
  <2> QED
    BY <1>6, <2>5
<1>15. CASE p \notin S
  <2> DEFINE R == S \ K
  <2> HIDE DEF K
  <2>1. Top \in R /\ R \in SUBSET DOMAIN h
    BY <1>6, <1>7, <1>9 DEF Placing, IsHeap, K
  <2>2. Closed(h, R)
    <3>1. SUFFICES ASSUME NEW x \in R PROVE h[x].child \in R \cup {Null} /\ h[x].next \in R \cup {Null}
      BY DEF Closed
    <3>2. x \in DOMAIN h /\ x \in S /\ x # p /\ x \notin K
      BY <1>6, <1>15
    <3>3. h[x].child \in S \cup {Null} /\ h[x].next \in S \cup {Null}
      BY <1>3, <1>6, <1>10, <3>2
    <3>4. h[x].child \notin K
      <4>1. h[x].child \in Children(h, x) \cup {Null}
        BY <1>7, <3>2, PointersStay
      <4>2. Children(h, x) \cap K = {}
        BY <1>7, <3>2 DEF Apart, K
      <4> QED
        BY <1>8, <4>1, <4>2
    <3>5. h[x].next \notin K
      <4>1. CASE x = Top
        BY <1>7, <1>8, <4>1 DEF Placing
      <4>2. CASE x # Top
        <5>1. PICK q \in DOMAIN h : x \in Children(h, q)
          BY <1>7, <3>2, <4>2 DEF Placing
        <5>2. Children(h, q) \cap K = {}
          BY <1>7, <3>2, <5>1 DEF Apart, K
        <5>3. h[x].next \in Children(h, q) \cup {Null}
          BY <1>7, <5>1, PointersStay
        <5> QED
          BY <1>8, <5>2, <5>3
      <4> QED
        BY <4>1, <4>2
    <3> QED
      BY <3>3, <3>4, <3>5
  <2>3. R = DOMAIN h
    <3> HIDE DEF R
    <3> QED
      BY <1>7, <2>1, <2>2 DEF Joins
  <2> QED
    BY <1>15, <2>3
<1> QED
  BY <1>14, <1>15

LEMMA CutShortcuts ==
  ASSUME NEW h, IsHeap(h), Shape(h), Shortcuts(h), NEW p \in DOMAIN h, NEW l, l = Kids(h, p),
         NEW i \in 1 .. Len(l), NEW g, Takes(h, p, l, i, g), NEW r, r = Dealloc(g, l[i])
  PROVE  Shortcuts(r)
<1>1. PICK e : e = l[i]
  OBVIOUS
<1>2. PICK G : G = Reach(g, e)
  OBVIOUS
<1>3. PICK m : m = RemoveAt(l, i)
  OBVIOUS
<1>4. /\ Loose(g, e) /\ Kids(g, p) = m /\ Children(g, p) = Children(h, p) \ {e}
      /\ DOMAIN g = DOMAIN h
      /\ \A q \in DOMAIN h \ {p} : Kids(g, q) = Kids(h, q) /\ Children(g, q) = Children(h, q)
  BY <1>1, <1>3, TakenLoose, OthersStay
<1>5. /\ Frees(g, G, r)
      /\ \A c \in DOMAIN r : Kids(r, c) = Kids(g, c) /\ Children(r, c) = Children(g, c)
  <2>1. r = Dealloc(g, e)
    BY <1>1
  <2> QED
    BY <1>2, <1>4, <2>1, DeallocIs
<1>6. /\ DOMAIN r \subseteq DOMAIN h
      /\ \A c \in DOMAIN r : /\ r[c].hash = g[c].hash /\ r[c].last_child = g[c].last_child
                             /\ r[c].last_hp = g[c].last_hp /\ r[c].last_hs = g[c].last_hs
  BY <1>4, <1>5 DEF Frees, Fields
<1>7. /\ l \in Seq(DOMAIN h) /\ Len(l) \in Nat /\ Level(h, p, l)
      /\ \A j, k \in 1 .. Len(l) : l[j] = l[k] => j = k
      /\ \A x : x \in Children(h, p) <=> \E j \in 1 .. Len(l) : x = l[j]
  <2>1. Levels(h)
    BY DEF Shape
  <2>2. /\ Kids(h, p) \in Seq(DOMAIN h) /\ Len(Kids(h, p)) \in Nat
        /\ \A j, k \in 1 .. Len(Kids(h, p)) : Kids(h, p)[j] = Kids(h, p)[k] => j = k
    BY <2>1, ChildrenAre
  <2>3. \A x : x \in Children(h, p) <=> \E j \in 1 .. Len(Kids(h, p)) : x = Kids(h, p)[j]
    BY <2>1, ChildrenAre
  <2>4. Level(h, p, l)
    BY <2>1 DEF Levels
  <2> QED
    BY <2>2, <2>3, <2>4
<1>8. /\ h[p].hash \in {NoHash, Children(h, p)} /\ h[p].last_child = l[Len(l)]
  BY <1>7 DEF Shortcuts, Last
<1>9. /\ g[p].hash = IF h[p].hash = NoHash THEN NoHash ELSE h[p].hash \ InHash(h, p, h[e].name)
      /\ g[p].last_child = IF i > 1 /\ h[p].last_child = l[i] THEN l[i - 1] ELSE h[p].last_child
      /\ g[p].last_hp = Null /\ g[p].last_hs = Null
  BY <1>1 DEF Takes
<1>10. g[p].hash \in {NoHash, Children(h, p) \ {e}}
  <2>1. CASE h[p].hash = NoHash
    BY <1>9, <2>1
  <2>2. CASE h[p].hash # NoHash
    <3>1. h[p].hash = Children(h, p)
      BY <1>8, <2>2
    <3>2. e \in Children(h, p) /\ \A x \in Children(h, p) : h[x].name = h[e].name => x = e
      <4>1. \A j, k \in 1 .. Len(l) : h[l[j]].name = h[l[k]].name => j = k
        BY <1>7 DEF Level
      <4> QED
        BY <1>1, <1>7, <4>1
    <3>3. InHash(h, p, h[e].name) = {e}
      BY <3>1, <3>2 DEF InHash
    <3> QED
      BY <1>9, <2>2, <3>1, <3>3
  <2> QED
    BY <2>1, <2>2
<1>11. /\ m \in Seq(DOMAIN h) /\ Len(m) = Len(l) - 1
       /\ \A j \in 1 .. Len(l) - 1 : m[j] = IF j < i THEN l[j] ELSE l[j + 1]
  <2>1. l \in Seq(DOMAIN h)
    BY <1>7
  <2> QED
    BY <1>3, <2>1, RemoveAtKeeps
<1>12. m # <<>> => g[p].last_child = Last(m)
  <2>1. SUFFICES ASSUME m # <<>> PROVE g[p].last_child = Last(m)
    OBVIOUS
  <2>2. Len(l) > 1
    BY <1>7, <2>1, <1>11
  <2>3. Last(m) = m[Len(l) - 1]
    BY <1>11 DEF Last
  <2>4. m[Len(l) - 1] = IF Len(l) - 1 < i THEN l[Len(l) - 1] ELSE l[Len(l)]
    <3>1. Len(l) - 1 \in 1 .. Len(l) - 1 /\ (Len(l) - 1) + 1 = Len(l)
      BY <1>7, <2>2
    <3> QED
      BY <1>11, <3>1
  <2>5. CASE i = Len(l)
    BY <1>7, <1>8, <1>9, <2>2, <2>3, <2>4, <2>5
  <2>6. CASE i # Len(l)
    <3>1. ~(Len(l) - 1 < i) /\ Len(l) \in 1 .. Len(l)
      BY <1>7, <2>2, <2>6
    <3>2. l[Len(l)] # l[i]
      BY <1>7, <2>6, <3>1
    <3> QED
      BY <1>8, <1>9, <2>3, <2>4, <3>1, <3>2
  <2> QED
    BY <2>5, <2>6
<1>13. SUFFICES ASSUME NEW q \in DOMAIN r
               PROVE  /\ r[q].hash \in {NoHash, Children(r, q)}
                      /\ Kids(r, q) # <<>> => r[q].last_child = Last(Kids(r, q))
                      /\ {r[q].last_hp, r[q].last_hs} \subseteq Children(r, q) \cup {Null}
  BY DEF Shortcuts
<1>14. CASE q = p
  BY <1>4, <1>5, <1>6, <1>9, <1>10, <1>12, <1>14
<1>15. CASE q # p
  <2>1. /\ r[q].hash = h[q].hash /\ r[q].last_child = h[q].last_child
        /\ r[q].last_hp = h[q].last_hp /\ r[q].last_hs = h[q].last_hs
    BY <1>6, <1>15 DEF Takes
  <2>2. Kids(r, q) = Kids(h, q) /\ Children(r, q) = Children(h, q)
    BY <1>4, <1>5, <1>6, <1>15
  <2> QED
    BY <1>6, <2>1, <2>2 DEF Shortcuts
<1> QED
  BY <1>14, <1>15

LEMMA CutShares ==
  ASSUME NEW h, IsHeap(h), Shares(h), NEW g, DOMAIN g = DOMAIN h,
         \A c \in DOMAIN h, f \in {"value", "shares"} : g[c][f] = h[c][f],
         NEW G, G \subseteq DOMAIN h, NEW r, Frees(g, G, r)
  PROVE  Shares(r)
<1>1. Null \notin G
  BY NullIsNoCell
<1>2. \A c \in DOMAIN h : g[c].value = h[c].value /\ g[c].shares = h[c].shares
  OBVIOUS
<1>3. /\ DOMAIN r = DOMAIN h \ G
      /\ \A c \in DOMAIN r :
           IF h[c].shares \in G THEN r[c].value = Dangling /\ r[c].shares = Null
           ELSE r[c].value = h[c].value /\ r[c].shares = h[c].shares
  BY <1>2 DEF Frees
<1>4. SUFFICES ASSUME NEW c \in DOMAIN r, r[c].shares # Null PROVE Owns(r, r[c].shares, r[c].value)
  BY DEF Shares
<1>5. h[c].shares \notin G /\ r[c].shares = h[c].shares /\ r[c].value = h[c].value
  BY <1>3, <1>4
<1>6. Owns(h, r[c].shares, r[c].value)
  BY <1>3, <1>4, <1>5 DEF Shares
<1>7. PICK o : o = r[c].shares
  OBVIOUS
<1>8. o \in DOMAIN r /\ r[o].shares = Null /\ r[o].value = h[o].value
  BY <1>1, <1>3, <1>5, <1>6, <1>7 DEF Owns
<1> QED
  BY <1>6, <1>7, <1>8 DEF Owns

(* hdf_remove_tree, once it has found the node, and before.                *)
LEMMA CutAtKeeps ==
  ASSUME NEW h, Sound(h), NEW p \in DOMAIN h, NEW i \in 1 .. Len(Kids(h, p)),
         NEW r, r = CutAt(h, p, i)
  PROVE  Sound(r)
<1>1. PICK l : l = Kids(h, p)
  OBVIOUS
<1>2. PICK g : g = Taken(h, p, i)
  OBVIOUS
<1>3. r = Dealloc(g, l[i])
  <2>1. CutAt(h, p, i) = Dealloc(Taken(h, p, i), Kids(h, p)[i])
    BY Zenon DEF CutAt, Taken
  <2> QED
    BY <1>1, <1>2, <2>1, Zenon
<1>4. PICK e : e = l[i]
  OBVIOUS
<1>5. PICK G : G = Reach(g, e)
  OBVIOUS
<1>6. IsHeap(h) /\ Shape(h) /\ Levels(h) /\ Shortcuts(h) /\ Shares(h)
  BY DEF Sound, Shape
<1>7. i \in 1 .. Len(l)
  BY <1>1
<1>8. Takes(h, p, l, i, g)
  BY <1>1, <1>2, <1>6, <1>7, TakenIs
<1>9. Loose(g, e) /\ DOMAIN g = DOMAIN h
  BY <1>1, <1>4, <1>6, <1>7, <1>8, TakenLoose, OthersStay
<1>10. IsHeap(r) /\ Levels(r) /\ Apart(r) /\ Placing(r) /\ Frees(g, G, r)
  <2>1. r = Dealloc(g, e)
    BY <1>3, <1>4
  <2> QED
    BY <1>5, <1>9, <2>1, DeallocIs
<1>11. Joins(r)
  BY <1>1, <1>3, <1>6, <1>7, <1>8, CutJoins
<1>12. Shortcuts(r)
  BY <1>1, <1>3, <1>6, <1>7, <1>8, CutShortcuts
<1>13. Shares(r)
  <2>1. G \subseteq DOMAIN h
    BY <1>5, <1>9, GoneIs
  <2>2. \A c \in DOMAIN h, f \in {"value", "shares"} : g[c][f] = h[c][f]
    BY <1>8 DEF Takes
  <2> QED
    BY <1>6, <1>9, <1>10, <2>1, <2>2, CutShares
<1> QED
  BY <1>10, <1>11, <1>12, <1>13 DEF Sound, Shape

LEMMA CutKeeps ==
  ASSUME NEW h, Sound(h), NEW start \in DOMAIN h, NEW path \in Path, NEW r, r = Cut(h, start, path)
  PROVE  Sound(r)
<1>1. PICK lp : lp = Below(h, start, Front(path))
  OBVIOUS
<1>2. PICK i : i = InList(h, Kids(h, lp), Last(path))
  OBVIOUS
<1>3. r = IF path = <<>> \/ lp = Null \/ i = 0 THEN h ELSE CutAt(h, lp, i)
  BY <1>1, <1>2 DEF Cut
<1>4. CASE path = <<>> \/ lp = Null \/ i = 0
  BY <1>3, <1>4
<1>5. CASE ~(path = <<>> \/ lp = Null \/ i = 0)
  <2>1. IsHeap(h) /\ Levels(h)
    BY DEF Sound, Shape
  <2>2. Len(Front(path)) \in Nat
    BY <1>5 DEF Front, Path
  <2>3. lp \in DOMAIN h
    BY <1>1, <1>5, <2>1, <2>2, BelowIs
  <2>4. i \in 1 .. Len(Kids(h, lp))
    <3>1. Kids(h, lp) \in Seq(DOMAIN h)
      BY <2>1, <2>3, ChildrenAre
    <3> QED
      BY <1>2, <1>5, <3>1, InListIs
  <2> QED
    BY <1>3, <1>5, <2>3, <2>4, CutAtKeeps
<1> QED
  BY <1>4, <1>5
-----------------------------------------------------------------------------
(* The calls.                                                              *)

HdfInv == Sound(heap) /\ client \in Clients

LEMMA NodesAre ==
  ASSUME Sound(heap), NEW path, Len(path) \in Nat, NEW s \in Nodes(path)
  PROVE  s \in DOMAIN heap
<1>1. IsHeap(heap) /\ Levels(heap) /\ Top \in DOMAIN heap
  BY DEF Sound, Shape, IsHeap
<1>2. Below(heap, Top, path) \in DOMAIN heap \cup {Null}
  BY <1>1, BelowIs
<1> QED
  BY <1>2 DEF Nodes

LEMMA WriteKeeps ==
  ASSUME Sound(heap), NEW s \in DOMAIN heap, NEW name \in Text, NEW a, Given(heap, a),
         Write(s, name, a)
  PROVE  Sound(heap')
<1>1. PICK r : r = SetValue(heap, s, name, a) /\ Finish(r)
  BY DEF Write
<1>2. Sound(r.heap)
  BY <1>1, SetValueKeeps
<1>3. heap' = heap \/ heap' = r.heap
  BY <1>1 DEF Finish
<1> QED
  BY <1>2, <1>3

(* Where the name leads, when the call goes on.                            *)
LEMMA WalkEnds ==
  ASSUME Sound(heap), NEW s \in DOMAIN heap, NEW path \in Text, NEW w, w = Walk(heap, s, path)
  PROVE  w = Broken \/ w = Null \/ (w \in DOMAIN heap /\ w > 0)
<1>1. IsHeap(heap) /\ Levels(heap) /\ Shortcuts(heap)
  BY DEF Sound, Shape
<1>2. w \in DOMAIN heap \cup {Null, Broken}
  BY <1>1, WalkIs
<1>3. \A x \in DOMAIN heap : x > 0
  <2>1. \A x \in Cells : x \in Nat \ {0}
    BY HdfAssumption, Zenon
  <2> QED
    BY <1>1, <2>1 DEF IsHeap
<1> QED
  BY <1>2, <1>3

LEMMA PathIsText == Path \subseteq Text /\ \A p \in Path : Len(p) \in Nat
BY DEF Path, Text

LEMMA SetKeeps ==
  ASSUME Sound(heap), NEW s \in DOMAIN heap, NEW c, c.name \in Path,
         c.value \in {NoValue} \cup Path, Set(c, s)
  PROVE  Sound(heap')
<1> DEFINE a == [value |-> c.value, link |-> FALSE, from |-> Null, dupl |-> TRUE, attr |-> c.attr]
<1>1. Given(heap, a)
  BY PathIsText DEF Given
<1>2. Write(s, c.name, a)
  BY DEF Set
<1> HIDE DEF a
<1> QED
  BY <1>1, <1>2, PathIsText, WriteKeeps

LEMMA SymlinkKeeps ==
  ASSUME Sound(heap), NEW s \in DOMAIN heap, NEW c, c.name \in Path,
         c.value \in {NoValue} \cup Path, Symlink(c, s)
  PROVE  Sound(heap')
<1> DEFINE a == [value |-> c.value, link |-> TRUE, from |-> Null, dupl |-> TRUE, attr |-> <<>>]
<1>1. Given(heap, a)
  BY PathIsText DEF Given
<1>2. Write(s, c.name, a)
  BY DEF Symlink
<1> HIDE DEF a
<1> QED
  BY <1>1, <1>2, PathIsText, WriteKeeps

LEMMA GetNodeKeeps ==
  ASSUME Sound(heap), NEW s \in DOMAIN heap, NEW c, c.name \in Path, GetNode(c, s)
  PROVE  Sound(heap')
<1>1. heap' = heap \/ Write(s, c.name, NullWrite)
  BY DEF GetNode, Stop
<1>2. Given(heap, NullWrite)
  BY DEF Given, NullWrite
<1> QED
  BY <1>1, <1>2, PathIsText, WriteKeeps

LEMMA OwnerOwns ==
  ASSUME NEW h, Shares(h), NEW c \in DOMAIN h, Owner(h, c) # Null
  PROVE  Owns(h, Owner(h, c), h[c].value)
BY DEF Owner, Owns, Shares

LEMMA SetCopyKeeps ==
  ASSUME Sound(heap), NEW s \in DOMAIN heap, NEW c, c.name \in Path, c.value \in Path, SetCopy(c, s)
  PROVE  Sound(heap')
<1>1. PICK w : w = Walk(heap, s, c.value)
  OBVIOUS
<1> DEFINE a == [value |-> heap[w].value, from |-> Owner(heap, w), dupl |-> FALSE,
                 link |-> FALSE, attr |-> <<>>]
<1>2. w = Broken \/ w = Null \/ (w \in DOMAIN heap /\ w > 0)
  BY <1>1, PathIsText, WalkEnds
<1>3. Stop("dead") \/ Stop("none") \/ (w # Broken /\ w # Null /\ Write(s, c.name, a))
  <2>1. CASE w = Broken
    BY <1>1, <2>1 DEF SetCopy
  <2>2. CASE w # Broken /\ (w = Null \/ (w > 0 /\ heap[w].value = NoValue))
    BY <1>1, <2>2 DEF SetCopy
  <2>3. CASE w # Broken /\ ~(w = Null \/ (w > 0 /\ heap[w].value = NoValue))
    BY <1>1, <2>3 DEF SetCopy
  <2> QED
    BY <2>1, <2>2, <2>3
<1>4. CASE Stop("dead") \/ Stop("none")
  BY <1>4 DEF Stop
<1>5. CASE w # Broken /\ w # Null /\ Write(s, c.name, a)
  <2>1. w \in DOMAIN heap
    BY <1>2, <1>5
  <2>2. Given(heap, a)
    <3>1. heap[w].value \in Text \cup {NoValue, Dangling}
      BY <2>1 DEF Sound, IsHeap
    <3>2. Owner(heap, w) # Null => Owns(heap, Owner(heap, w), heap[w].value)
      BY <2>1, OwnerOwns DEF Sound
    <3> QED
      BY <3>1, <3>2 DEF Given
  <2> HIDE DEF a
  <2> QED
    BY <1>5, <2>2, PathIsText, WriteKeeps
<1> QED
  BY <1>3, <1>4, <1>5

LEMMA AttrKeeps ==
  ASSUME NEW h, Sound(h), NEW w \in DOMAIN h, NEW x, NEW r, r = [h EXCEPT ![w].attr = x]
  PROVE  Sound(r)
<1>1. /\ DOMAIN r = DOMAIN h
      /\ \A c \in DOMAIN h : DOMAIN r[c] = Fields /\ \A k \in Fields \ {"attr"} : r[c][k] = h[c][k]
  BY DEF Sound, IsHeap, Fields
<1>2. IsHeap(h) /\ Shape(h) /\ Shortcuts(h) /\ Shares(h)
  BY DEF Sound
<1>3. IsHeap(r)
  BY <1>1, <1>2 DEF IsHeap, Fields
<1>4. Alike(h, r, {"child", "next", "name", "hash", "last_child", "last_hp", "last_hs"})
  BY <1>1 DEF Alike, Fields
<1>5. Alike(h, r, {"shares", "value"})
  BY <1>1 DEF Alike, Fields
<1> QED
  BY <1>2, <1>3, <1>4, <1>5, ShortcutsKept, SharesKept DEF Sound

LEMMA SetAttrKeeps ==
  ASSUME Sound(heap), NEW s \in DOMAIN heap, NEW c, c.name \in Path, SetAttr(c, s)
  PROVE  Sound(heap')
<1>1. PICK w : w = Walk(heap, s, c.name)
  OBVIOUS
<1>2. PICK a : a = c.attr[1]
  OBVIOUS
<1>3. w = Broken \/ w = Null \/ (w \in DOMAIN heap /\ w > 0)
  BY <1>1, PathIsText, WalkEnds
<1>4. \/ heap' = heap
      \/ w # Broken /\ w # Null /\ heap' = [heap EXCEPT ![w].attr = Attr!SetAttr(@, a[1], a[2])]
  <2>1. CASE w = Broken
    BY <1>1, <2>1 DEF SetAttr, Stop
  <2>2. CASE w = Null
    BY <1>1, <2>2 DEF SetAttr, Stop, Null, Broken
  <2>3. CASE w # Broken /\ w # Null
    <3>1. CASE w > 0 /\ Attr!DeletesMissing(heap[w].attr, a[1], a[2])
      BY <1>1, <1>2, <2>3, <3>1 DEF SetAttr, Stop
    <3>2. CASE ~(w > 0 /\ Attr!DeletesMissing(heap[w].attr, a[1], a[2]))
      BY <1>1, <1>2, <2>3, <3>2 DEF SetAttr
    <3> QED
      BY <3>1, <3>2
  <2> QED
    BY <2>1, <2>2, <2>3
<1>5. CASE w # Broken /\ w # Null /\ heap' = [heap EXCEPT ![w].attr = Attr!SetAttr(@, a[1], a[2])]
  <2>1. PICK x : x = Attr!SetAttr(heap[w].attr, a[1], a[2])
    OBVIOUS
  <2>2. heap' = [heap EXCEPT ![w].attr = x]
    BY <1>5, <2>1
  <2> QED
    BY <1>3, <1>5, <2>2, AttrKeeps
<1> QED
  BY <1>4, <1>5

LEMMA RemoveTreeKeeps ==
  ASSUME Sound(heap), NEW s \in DOMAIN heap, NEW c, c.name \in Path, RemoveTree(c, s)
  PROVE  Sound(heap')
BY CutKeeps DEF RemoveTree

LEMMA SortKeeps ==
  ASSUME Sound(heap), NEW s \in DOMAIN heap, NEW c, Sort(c, s)
  PROVE  Sound(heap')
<1>1. CASE Kids(heap, s) = <<>>
  BY <1>1 DEF Sort
<1>2. CASE Kids(heap, s) # <<>>
  <2>1. PICK k \in Orders(Kids(heap, s)) : heap' = Relink(heap, s, k)
    BY <1>2 DEF Sort
  <2> QED
    BY <1>2, <2>1, RelinkKeeps
<1> QED
  BY <1>1, <1>2

LEMMA CopyKeeps ==
  ASSUME Sound(heap), NEW s \in DOMAIN heap, NEW c, c.name \in Path, c.value \in Path, Copy(c, s)
  PROVE  Sound(heap')
<1>1. PICK src \in Nodes(c.value), w \in {Walk(heap, s, c.name)} :
        \E r \in {IF w = Null THEN SetValue(heap, s, c.name, NullWrite) ELSE Done(heap, w, "ok")} :
          CASE w = Broken       -> Stop("dead")
            [] r.status # "ok" -> Finish(r)
            [] OTHER           -> \E d \in {CopyNodes(r.heap, r.node, Under(r.heap, src))} : Finish(d)
  BY DEF Copy
<1>2. PICK r : /\ r = IF w = Null THEN SetValue(heap, s, c.name, NullWrite) ELSE Done(heap, w, "ok")
               /\ CASE w = Broken       -> Stop("dead")
                    [] r.status # "ok" -> Finish(r)
                    [] OTHER           -> \E d \in {CopyNodes(r.heap, r.node, Under(r.heap, src))} : Finish(d)
  BY <1>1
<1>3. src \in DOMAIN heap
  BY PathIsText, NodesAre
<1>4. w = Broken \/ w = Null \/ (w \in DOMAIN heap /\ w > 0)
  BY <1>1, PathIsText, WalkEnds
<1>5. \/ Stop("dead")
      \/ Finish(r) /\ w # Broken
      \/ /\ w # Broken /\ r.status = "ok"
         /\ \E d : d = CopyNodes(r.heap, r.node, Under(r.heap, src)) /\ Finish(d)
  <2>1. CASE w = Broken
    <3>1. r.status = "ok"
      BY <1>2, <2>1 DEF Done, Null, Broken
    <3> QED
      BY <1>2, <2>1, <3>1
  <2>2. CASE w # Broken /\ r.status # "ok"
    BY <1>2, <2>2
  <2>3. CASE w # Broken /\ r.status = "ok"
    BY <1>2, <2>3
  <2> QED
    BY <2>1, <2>2, <2>3
<1>6. ASSUME w # Broken
      PROVE  /\ Sound(r.heap) /\ DOMAIN heap \subseteq DOMAIN r.heap
             /\ r.status = "ok" => r.node \in DOMAIN r.heap
  <2>1. CASE w = Null
    <3>1. Given(heap, NullWrite)
      BY DEF Given, NullWrite
    <3>2. c.name \in Text
      BY PathIsText
    <3>3. r = SetValue(heap, s, c.name, NullWrite)
      BY <1>2, <2>1
    <3> QED
      BY <3>1, <3>2, <3>3, SetValueKeeps
  <2>2. CASE w # Null
    BY <1>2, <1>4, <1>6, <2>2 DEF Done
  <2> QED
    BY <2>1, <2>2
<1>7. CASE Stop("dead")
  BY <1>7 DEF Stop
<1>8. CASE Finish(r) /\ w # Broken
  BY <1>6, <1>8 DEF Finish
<1>9. CASE /\ w # Broken /\ r.status = "ok"
           /\ \E d : d = CopyNodes(r.heap, r.node, Under(r.heap, src)) /\ Finish(d)
  <2>1. PICK d : d = CopyNodes(r.heap, r.node, Under(r.heap, src)) /\ Finish(d)
    BY <1>9
  <2>2. PICK h : h = r.heap
    OBVIOUS
  <2>3. Sound(h) /\ r.node \in DOMAIN h /\ src \in DOMAIN h
    BY <1>3, <1>6, <1>9, <2>2
  <2>4. Under(h, src) \in DOMAIN h \cup {Null}
    <3>1. Levels(h)
      BY <2>3 DEF Sound, Shape
    <3>2. h[src].child \in Children(h, src) \cup {Null} /\ Children(h, src) \subseteq DOMAIN h
      BY <2>3, <3>1, PointersStay, ChildrenAre
    <3> QED
      BY <3>2 DEF Under
  <2>5. Sound(d.heap)
    BY <2>1, <2>2, <2>3, <2>4, CopyNodesKeeps
  <2> QED
    BY <2>1, <2>5 DEF Finish
<1> QED
  BY <1>5, <1>7, <1>8, <1>9

LEMMA InitSound ==
  ASSUME Init
  PROVE  HdfInv
<1>1. /\ DOMAIN heap = {Top} /\ DOMAIN heap[Top] = Fields
      /\ heap[Top].name = NoName /\ heap[Top].value = NoValue /\ heap[Top].link = FALSE
      /\ heap[Top].next = Null /\ heap[Top].child = Null /\ heap[Top].shares = Null
      /\ heap[Top].last_hp = Null /\ heap[Top].last_hs = Null /\ heap[Top].hash = NoHash
  BY DEF Init, NewNode, Fields
<1>2. IsHeap(heap)
  <2>1. Top \in Cells
    BY HdfAssumption DEF Top
  <2> QED
    BY <1>1, <2>1, FS_Singleton DEF IsHeap
<1>3. Level(heap, Top, <<>>)
  BY <1>1 DEF Level
<1>4. Kids(heap, Top) = <<>> /\ Children(heap, Top) = {}
  <2>1. Kids(heap, Top) = <<>>
    BY <1>2, <1>3, KidsAre
  <2> QED
    BY <2>1 DEF Children, ToSet
<1>5. Levels(heap) /\ Apart(heap) /\ Placing(heap)
  BY <1>1, <1>3, <1>4 DEF Levels, Apart, Placing
<1>6. Joins(heap)
  BY <1>1 DEF Joins
<1>7. Shortcuts(heap) /\ Shares(heap)
  BY <1>1, <1>4 DEF Shortcuts, Shares
<1> QED
  BY <1>2, <1>5, <1>6, <1>7 DEF HdfInv, Sound, Shape, Init

LEMMA NextSound ==
  ASSUME HdfInv, Next
  PROVE  HdfInv'
<1>1. Sound(heap) /\ client \in Clients
  BY DEF HdfInv
<1>2. PICK c \in client : UNCHANGED client /\ \E s \in Nodes(c.at) :
        \/ Set(c, s) \/ Symlink(c, s) \/ GetNode(c, s) \/ SetCopy(c, s)
        \/ SetAttr(c, s) \/ RemoveTree(c, s) \/ Sort(c, s) \/ Copy(c, s)
  BY DEF Next
<1>3. PICK s \in Nodes(c.at) :
        \/ Set(c, s) \/ Symlink(c, s) \/ GetNode(c, s) \/ SetCopy(c, s)
        \/ SetAttr(c, s) \/ RemoveTree(c, s) \/ Sort(c, s) \/ Copy(c, s)
  BY <1>2
<1>4. /\ c.at \in Seq(Names) /\ c.name \in Path
      /\ c.value \in Path \/ (c.value = NoValue /\ c.op \notin {"setcopy", "copy"})
  BY <1>1, <1>2, HdfAssumption, Zenon
<1> SUFFICES Sound(heap')
  BY <1>1, <1>2 DEF HdfInv
<1>5. s \in DOMAIN heap
  <2>1. Len(c.at) \in Nat
    BY <1>4
  <2> QED
    BY <1>1, <1>3, <2>1, NodesAre
<1>6. CASE Set(c, s)
  BY <1>1, <1>4, <1>5, <1>6, SetKeeps
<1>7. CASE Symlink(c, s)
  BY <1>1, <1>4, <1>5, <1>7, SymlinkKeeps
<1>8. CASE GetNode(c, s)
  BY <1>1, <1>4, <1>5, <1>8, GetNodeKeeps
<1>9. CASE SetCopy(c, s)
  <2>1. c.value \in Path
    BY <1>4, <1>9 DEF SetCopy
  <2> QED
    BY <1>1, <1>4, <1>5, <1>9, <2>1, SetCopyKeeps
<1>10. CASE SetAttr(c, s)
  BY <1>1, <1>4, <1>5, <1>10, SetAttrKeeps
<1>11. CASE RemoveTree(c, s)
  BY <1>1, <1>4, <1>5, <1>11, RemoveTreeKeeps
<1>12. CASE Sort(c, s)
  BY <1>1, <1>5, <1>12, SortKeeps
<1>13. CASE Copy(c, s)
  <2>1. c.value \in Path
    BY <1>4, <1>13 DEF Copy
  <2> QED
    BY <1>1, <1>4, <1>5, <1>13, <2>1, CopyKeeps
<1> QED
  BY <1>3, <1>6, <1>7, <1>8, <1>9, <1>10, <1>11, <1>12, <1>13

LEMMA SoundIs ==
  ASSUME Sound(heap)
  PROVE  HeapSound
<1>1. /\ IsHeap(heap) /\ Levels(heap) /\ Apart(heap) /\ Placing(heap) /\ Joins(heap)
      /\ Shortcuts(heap) /\ Shares(heap)
  BY DEF Sound, Shape
<1>2. \A p \in Live : Children(heap, p) \subseteq Live
  BY <1>1, ChildrenAre DEF Live
<1>3. TypeOK
  <2>1. SUFFICES ASSUME NEW c \in Live
                 PROVE  /\ heap[c].next \in Pointers /\ heap[c].child \in Pointers
                        /\ heap[c].shares \in Pointers
    BY <1>1 DEF TypeOK, IsHeap, Live
  <2>2. heap[c].child \in Pointers
    BY <1>1, <1>2, PointersStay DEF Live, Pointers
  <2>3. heap[c].next \in Pointers
    <3>1. CASE c = Top
      BY <1>1, <3>1 DEF Placing, Pointers
    <3>2. CASE c # Top
      <4>1. PICK q \in Live : c \in Children(heap, q)
        BY <1>1, <3>2 DEF Placing, Live
      <4> QED
        BY <1>1, <1>2, <4>1, PointersStay DEF Live, Pointers
    <3> QED
      BY <3>1, <3>2
  <2>4. heap[c].shares \in Pointers
    BY <1>1 DEF Shares, Owns, Live, Pointers
  <2> QED
    BY <2>2, <2>3, <2>4
<1>4. TreeSound
  <2>1. ASSUME NEW p \in Live, NEW kids, kids = Kids(heap, p)
        PROVE  /\ IsInjective(kids)
               /\ IsInjective([i \in DOMAIN kids |-> heap[kids[i]].name])
               /\ kids # <<>> => heap[Last(kids)].next = Null
    <3>1. /\ kids \in Seq(Live) /\ Len(kids) \in Nat /\ DOMAIN kids = 1 .. Len(kids)
          /\ \A i \in 1 .. Len(kids) :
               heap[kids[i]].next = IF i = Len(kids) THEN Null ELSE kids[i + 1]
          /\ \A i, j \in 1 .. Len(kids) : heap[kids[i]].name = heap[kids[j]].name => i = j
      BY <1>1, <2>1 DEF Levels, Level, Live
    <3>2. IsInjective(kids)
      BY <3>1 DEF IsInjective
    <3>3. IsInjective([i \in DOMAIN kids |-> heap[kids[i]].name])
      BY <3>1 DEF IsInjective
    <3>4. kids # <<>> => heap[Last(kids)].next = Null
      <4>1. kids \in Seq(Live)
        BY <3>1
      <4>2. kids # <<>> => Len(kids) \in Nat \ {0}
        BY <4>1, EmptySeq
      <4>3. kids # <<>> => Len(kids) \in 1 .. Len(kids)
        BY <4>2
      <4> QED
        BY <3>1, <4>3 DEF Last
    <3> QED
      BY <3>2, <3>3, <3>4
  <2>2. ASSUME NEW c \in Live
        PROVE  Cardinality({p \in Live : c \in ToSet(Kids(heap, p))}) = IF c = Top THEN 0 ELSE 1
    <3> DEFINE P == {p \in Live : c \in ToSet(Kids(heap, p))}
    <3>1. \A p : p \in P <=> p \in Live /\ c \in Children(heap, p)
      BY DEF Children
    <3> HIDE DEF P
    <3>2. CASE c = Top
      <4>1. P = {}
        BY <1>1, <3>1, <3>2 DEF Placing, Live
      <4> QED
        BY <3>2, <4>1, FS_EmptySet DEF P
    <3>3. CASE c # Top
      <4>1. PICK q \in Live : c \in Children(heap, q)
        BY <1>1, <3>3 DEF Placing, Live
      <4>2. P = {q}
        BY <1>1, <3>1, <4>1 DEF Apart, Live
      <4> QED
        BY <3>3, <4>2, FS_Singleton DEF P
    <3> QED
      BY <3>2, <3>3
  <2>3. Reach(heap, Top) = Live
    <3>1. \A S \in SUBSET DOMAIN heap : Top \in S /\ Closed(heap, S) => S = DOMAIN heap
      BY <1>1 DEF Joins
    <3>2. \A x \in DOMAIN heap :
            \A S \in SUBSET DOMAIN heap : Top \in S /\ Closed(heap, S) => x \in S
      BY <3>1
    <3> QED
      BY <3>2 DEF Reach, Live
  <2> QED
    BY <2>1, <2>2, <2>3 DEF TreeSound
<1>5. ShortcutsSound
  BY <1>1 DEF ShortcutsSound, Shortcuts, Children, Live
<1>6. SharesSound
  BY <1>1 DEF SharesSound, Shares, Owns, Live
<1> QED
  BY <1>3, <1>4, <1>5, <1>6 DEF HeapSound

(* Whatever programs call, however many cells, names and iterations there  *)
(* are: no node is lost or linked twice, no shortcut of a level is stale   *)
(* and no string has two owners (util/neo_hdf.c: _set_value, _walk_hdf,    *)
(* hdf_set_copy, hdf_copy, hdf_sort_obj, hdf_remove_tree, _dealloc_hdf).   *)
THEOREM HeapIsSound == Spec => []HeapSound
<1>1. Init => HdfInv
  BY InitSound
<1>2. HdfInv /\ [Next]_vars => HdfInv'
  <2>1. HdfInv /\ UNCHANGED vars => HdfInv'
    BY DEF HdfInv, vars
  <2> QED
    BY <2>1, NextSound
<1>3. HdfInv => HeapSound
  BY SoundIs DEF HdfInv
<1> QED
  BY <1>1, <1>2, <1>3, PTL DEF Spec
=============================================================================
