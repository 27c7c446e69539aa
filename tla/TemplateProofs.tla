--------------------------- MODULE TemplateProofs ---------------------------
(* Safety of the template parser of cs/csparse.c, for all texts over all    *)
(* alphabets of commands: no node of the tree is lost, however the blocks   *)
(* and the included texts nest.                                             *)
EXTENDS CsParse, ListLemmas
-----------------------------------------------------------------------------
(* A pointer of the tree is a node and a field; a node that was made has    *)
(* one pointer to it.                                                       *)
Ids(p) == 1 .. Len(p.nodes)
Pointers(p) == Ids(p) \X Fields
At(p, x) == p.nodes[x[1]][x[2]]

IsNode(n) ==
  /\ DOMAIN n = {"op", "arg", "escape"} \cup Fields
  /\ \A f \in Fields : n[f] \in Nat

Parts == {"nodes", "next", "current", "stack", "next_stack", "is_modified", "macros", "inputs",
          "texts", "depth", "audit", "err", "recovered"}
States == Anywhere

IsEntry(e) ==
  /\ DOMAIN e = {"state", "tree", "next_tree", "escape"}
  /\ e.state \in States

IsInput(x) == DOMAIN x = {"kind", "stack"}

IsList(s) == \E S : s \in Seq(S)

Typed(p) ==
  /\ DOMAIN p = Parts
  /\ IsList(p.nodes) /\ \A id \in Ids(p) : IsNode(p.nodes[id])
  /\ IsList(p.stack) /\ \A i \in 1 .. Len(p.stack) : IsEntry(p.stack[i])
  /\ IsList(p.inputs) /\ \A i \in 1 .. Len(p.inputs) : IsInput(p.inputs[i])

(* Every pointer leads to a node that no other leads to, and every node but *)
(* the first has one.                                                       *)
Whole(p) ==
  /\ 1 \in Ids(p)
  /\ \A x \in Pointers(p) : At(p, x) \in Ids(p) \cup {Null}
  /\ \A x, y \in Pointers(p) : At(p, x) = At(p, y) /\ At(p, x) # Null => x = y
  /\ \A id \in Ids(p) : id # Root => \E x \in Pointers(p) : At(p, x) = id

IsEmpty(p, x) == x \in Pointers(p) /\ At(p, x) = Null

(* The pointers that the commands which close the open block e, or begin    *)
(* its next part, will have parse->next point at.                           *)
Outer(e) == IF e.next_tree # Null THEN e.next_tree ELSE e.tree
Waiting(e) ==
  {<<Outer(e), "next">>} \cup IF e.state = "IF" THEN {<<e.tree, "case_1">>} ELSE {}

(* They are empty, and parse->next and the other open blocks have others.   *)
BlockFits(p, i) ==
  LET e == p.stack[i]
  IN  /\ e.state # "GLOBAL"
      /\ e.state # "IF" => e.next_tree = Null
      /\ e.tree # Null
      /\ \A x \in Waiting(e) : IsEmpty(p, x) /\ x # p.next

Nesting(p) ==
  /\ Len(p.stack) >= 1 /\ p.stack[1].state = "GLOBAL"
  /\ \A i \in 2 .. Len(p.stack) : BlockFits(p, i)
  /\ \A i, j \in 2 .. Len(p.stack) : i # j => Waiting(p.stack[i]) \cap Waiting(p.stack[j]) = {}

(* The included texts that are being read.                                  *)
Included(s) == {i \in DOMAIN s : s[i].kind \in {"include", "include!"}}
Bounded(p) ==
  /\ p.depth \in Nat /\ p.depth <= MAX_STACK_DEPTH
  /\ Cardinality(Included(p.inputs)) <= p.depth

Sane(p) == Typed(p) /\ Whole(p) /\ Bounded(p)
Good(p) == Sane(p) /\ IsEmpty(p, p.next) /\ Nesting(p)

Running(p) == p.err = NoError

ParserInv ==
  /\ program \in DOMAIN Programs
  /\ Sane(parse)
  /\ Running(parse) => Good(parse)
-----------------------------------------------------------------------------
(* What Link does, pointer by pointer.                                      *)
Links(p, node, field, q) ==
  /\ DOMAIN q = Parts
  /\ IsList(q.nodes) /\ Len(q.nodes) = Len(p.nodes) + 1
  /\ \A id \in Ids(q) : IsNode(q.nodes[id])
  /\ \A x \in Pointers(p) : At(q, x) = IF x = p.next THEN Len(q.nodes) ELSE At(p, x)
  /\ \A f \in Fields : At(q, <<Len(q.nodes), f>>) = Null
  /\ q.next = <<Len(q.nodes), field>> /\ q.current = Len(q.nodes)
  /\ \A k \in Parts \ {"nodes", "next", "current"} : q[k] = p[k]

IsBlank(n) == IsNode(n) /\ \A f \in Fields : n[f] = Null

LEMMA NodeIsBlank ==
  ASSUME NEW op, NEW arg, NEW esc
  PROVE  IsBlank(Node(op, arg, esc))
BY DEF Node, IsBlank, IsNode, Fields, Null

LEMMA NodeAltered ==
  ASSUME NEW n, IsNode(n), NEW b \in Fields, NEW v \in Nat, NEW m, m = [n EXCEPT ![b] = v]
  PROVE  IsNode(m) /\ \A f \in Fields : m[f] = IF f = b THEN v ELSE n[f]
<1>1. DOMAIN m = DOMAIN n /\ \A f \in DOMAIN n : m[f] = IF f = b THEN v ELSE n[f]
  OBVIOUS
<1>2. Fields \subseteq DOMAIN n
  BY DEF IsNode
<1> QED
  BY <1>1, <1>2 DEF IsNode

LEMMA LinkLinks ==
  ASSUME NEW p, Typed(p), IsEmpty(p, p.next), NEW node, IsBlank(node), NEW field,
         NEW q, q = Link(p, node, field)
  PROVE  Links(p, node, field, q)
<1> DEFINE a == p.next[1]
           b == p.next[2]
           id == Len(p.nodes) + 1
           old == [p.nodes EXCEPT ![a][b] = id]
           S == {p.nodes[i] : i \in Ids(p)} \cup {old[i] : i \in Ids(p)} \cup {node}
<1>1. a \in Ids(p) /\ b \in Fields /\ p.next = <<a, b>>
  BY DEF IsEmpty, Pointers
<1>2. p.nodes \in Seq(S) /\ Len(p.nodes) \in Nat
  BY DEF Typed, IsList, Ids
<1>3. old \in Seq(S) /\ Len(old) = Len(p.nodes)
  <2>1. DOMAIN p.nodes = Ids(p) /\ DOMAIN old = Ids(p)
    BY <1>2 DEF Ids
  <2>2. old \in [Ids(p) -> S]
    <3>1. \A i \in Ids(p) : old[i] \in S
      OBVIOUS
    <3> HIDE DEF S
    <3> QED
      BY <2>1, <3>1
  <2> HIDE DEF S, old
  <2> QED
    BY <1>2, <2>2 DEF Ids
<1>4. q.nodes = Append(old, node)
  BY DEF Typed, Link, Parts
<1>5. /\ Len(q.nodes) = id /\ q.nodes \in Seq(S)
      /\ \A i \in Ids(p) : q.nodes[i] = old[i]
      /\ q.nodes[id] = node
  <2>1. node \in S
    OBVIOUS
  <2> HIDE DEF S, old
  <2> QED
    BY <1>2, <1>3, <1>4, <2>1 DEF Ids
<1>6. \A i \in Ids(p) : old[i] = IF i = a THEN [p.nodes[i] EXCEPT ![b] = id] ELSE p.nodes[i]
  BY <1>1, <1>2 DEF Ids
<1>7. /\ DOMAIN q = Parts /\ q.next = <<id, field>> /\ q.current = id
      /\ \A k \in Parts \ {"nodes", "next", "current"} : q[k] = p[k]
  BY DEF Typed, Link, Parts
<1>8. id = Len(p.nodes) + 1 /\ id \in Nat /\ Ids(q) = Ids(p) \cup {id}
  BY <1>2, <1>5 DEF Ids
<1> HIDE DEF S, old, a, b, id
<1>9. \A i \in Ids(p) : IsNode(p.nodes[i])
  BY DEF Typed
<1>10. /\ IsNode(q.nodes[a])
       /\ \A f \in Fields : q.nodes[a][f] = IF f = b THEN id ELSE p.nodes[a][f]
  <2>1. q.nodes[a] = [p.nodes[a] EXCEPT ![b] = id]
    BY <1>1, <1>5, <1>6
  <2> QED
    BY <1>1, <1>8, <1>9, <2>1, NodeAltered
<1>11. \A i \in Ids(p) : i # a => q.nodes[i] = p.nodes[i]
  BY <1>5, <1>6
<1>12. \A i \in Ids(q) : IsNode(q.nodes[i])
  BY <1>5, <1>8, <1>9, <1>10, <1>11 DEF IsBlank
<1>13. \A x \in Pointers(p) : At(q, x) = IF x = p.next THEN id ELSE At(p, x)
  <2> SUFFICES ASSUME NEW x \in Pointers(p)
               PROVE  At(q, x) = IF x = p.next THEN id ELSE At(p, x)
    OBVIOUS
  <2>1. x[1] \in Ids(p) /\ x[2] \in Fields /\ x = <<x[1], x[2]>>
    BY DEF Pointers
  <2>2. CASE x[1] = a
    <3>1. x = p.next <=> x[2] = b
      BY <1>1, <2>1, <2>2
    <3> QED
      BY <1>10, <2>1, <2>2, <3>1 DEF At
  <2>3. CASE x[1] # a
    <3>1. x # p.next
      BY <1>1, <2>1, <2>3
    <3> QED
      BY <1>11, <2>1, <2>3, <3>1 DEF At
  <2> QED
    BY <2>2, <2>3
<1>14. \A f \in Fields : At(q, <<id, f>>) = Null
  BY <1>5 DEF At, IsBlank
<1>15. IsList(q.nodes)
  BY <1>5 DEF IsList
<1> QED
  BY <1>5, <1>7, <1>8, <1>12, <1>13, <1>14, <1>15 DEF Links

(* A pointer that nobody waits for.                                         *)
Spare(p, x) ==
  IsEmpty(p, x) /\ x # p.next /\ \A i \in 2 .. Len(p.stack) : x \notin Waiting(p.stack[i])

(* q is p but for the parts K.                                              *)
Same(p, q, K) == DOMAIN q = Parts /\ \A k \in Parts \ K : q[k] = p[k]

LEMMA LinkKeeps ==
  ASSUME NEW p, Good(p), NEW node, NEW field \in Fields, NEW q, Links(p, node, field, q)
  PROVE  /\ Good(q) /\ q.current # Null
         /\ \A f \in Fields \ {field} : Spare(q, <<q.current, f>>)
         /\ \A x : Spare(p, x) => Spare(q, x)
<1> DEFINE id == Len(q.nodes)
<1>1. Len(p.nodes) \in Nat
  BY DEF Good, Sane, Typed, IsList
<1>2. id = Len(p.nodes) + 1 /\ id \in Nat /\ Ids(q) = Ids(p) \cup {id} /\ id \notin Ids(p)
  BY <1>1 DEF Links, Ids
<1>3. \A x : x \in Pointers(q) <=> x \in Pointers(p) \/ \E f \in Fields : x = <<id, f>>
  BY <1>2 DEF Pointers
<1>4. /\ q.next = <<id, field>> /\ q.current = id
      /\ \A x \in Pointers(p) : At(q, x) = IF x = p.next THEN id ELSE At(p, x)
      /\ \A f \in Fields : At(q, <<id, f>>) = Null
  BY DEF Links
<1>5. /\ q.stack = p.stack /\ q.inputs = p.inputs /\ q.depth = p.depth
      /\ DOMAIN q = Parts
  BY DEF Links, Parts
<1>6. Typed(q)
  BY <1>5 DEF Links, Good, Sane, Typed
<1>7. Bounded(q)
  BY <1>5 DEF Good, Sane, Bounded
<1>8. p.next \in Pointers(p) /\ At(p, p.next) = Null
  BY DEF Good, IsEmpty
<1> HIDE DEF id
<1>9. \A f \in Fields : <<id, f>> \notin Pointers(p)
  BY <1>2 DEF Pointers
<1>10. /\ 1 \in Ids(p) /\ Null \notin Ids(p) /\ Null \notin Ids(q)
       /\ \A x \in Pointers(p) : At(p, x) \in Ids(p) \cup {Null}
       /\ \A x, y \in Pointers(p) : At(p, x) = At(p, y) /\ At(p, x) # Null => x = y
       /\ \A k \in Ids(p) : k # Root => \E x \in Pointers(p) : At(p, x) = k
  BY <1>1, <1>2 DEF Good, Sane, Whole, Ids, Null
<1>11. Whole(q)
  <2>1. \A x \in Pointers(q) : At(q, x) \in Ids(q) \cup {Null}
    BY <1>2, <1>3, <1>4, <1>10
  <2>2. ASSUME NEW x \in Pointers(q), NEW y \in Pointers(q), At(q, x) = At(q, y), At(q, x) # Null
        PROVE  x = y
    <3>1. x \in Pointers(p) /\ y \in Pointers(p)
      BY <1>3, <1>4, <2>2
    <3>2. CASE At(q, x) = id
      <4>1. \A z \in Pointers(p) : z # p.next => At(q, z) # id
        BY <1>2, <1>4, <1>10
      <4> QED
        BY <2>2, <3>1, <3>2, <4>1
    <3>3. CASE At(q, x) # id
      BY <1>4, <1>10, <2>2, <3>1, <3>3
    <3> QED
      BY <3>2, <3>3
  <2>3. ASSUME NEW k \in Ids(q), k # Root PROVE \E x \in Pointers(q) : At(q, x) = k
    <3>1. CASE k = id
      BY <1>3, <1>4, <1>8, <3>1
    <3>2. CASE k # id
      BY <1>2, <1>3, <1>4, <1>8, <1>10, <2>3, <3>2
    <3> QED
      BY <3>1, <3>2
  <2> QED
    BY <1>2, <1>10, <2>1, <2>2, <2>3 DEF Whole
<1>12. IsEmpty(q, q.next)
  BY <1>3, <1>4 DEF IsEmpty
<1>13. \A i \in 2 .. Len(q.stack) : \A x \in Waiting(q.stack[i]) : IsEmpty(q, x) /\ x \in Pointers(p)
  BY <1>3, <1>4, <1>5 DEF Good, Nesting, BlockFits, IsEmpty
<1>14. Nesting(q)
  <2>1. \A i \in 2 .. Len(q.stack) : BlockFits(q, i)
    BY <1>4, <1>5, <1>9, <1>13 DEF Good, Nesting, BlockFits
  <2> QED
    BY <1>5, <2>1 DEF Good, Nesting
<1>15. \A f \in Fields \ {field} : Spare(q, <<id, f>>)
  BY <1>3, <1>4, <1>9, <1>13 DEF Spare, IsEmpty
<1>16. \A x : Spare(p, x) => Spare(q, x)
  BY <1>3, <1>4, <1>5, <1>9 DEF Spare, IsEmpty
<1>17. q.current # Null
  BY <1>1, <1>2, <1>4 DEF Null
<1> QED
  BY <1>4, <1>6, <1>7, <1>11, <1>12, <1>14, <1>15, <1>16, <1>17 DEF Good, Sane

(* The command that closes a block, or begins its next part: parse->next    *)
(* goes to one of the pointers the block waits for.                         *)
LEMMA CloseKeeps ==
  ASSUME NEW p, Good(p), Len(p.stack) > 1, NEW x \in Waiting(p.stack[Len(p.stack)]),
         NEW q, Same(p, q, {"next", "current", "stack"}), q.next = x,
         q.stack = SubSeq(p.stack, 1, Len(p.stack) - 1)
  PROVE  Good(q) /\ \A y \in Waiting(p.stack[Len(p.stack)]) : y # x => Spare(q, y)
<1> DEFINE n == Len(p.stack)
<1>1. PICK S : p.stack \in Seq(S)
  BY DEF Good, Sane, Typed, IsList
<1>2. /\ n \in Nat /\ n > 1 /\ Len(q.stack) = n - 1 /\ q.stack \in Seq(S)
      /\ \A i \in 1 .. n - 1 : q.stack[i] = p.stack[i]
  BY <1>1
<1>3. /\ q.nodes = p.nodes /\ q.inputs = p.inputs /\ q.depth = p.depth /\ DOMAIN q = Parts
  BY DEF Same, Parts
<1>4. /\ Pointers(q) = Pointers(p) /\ Ids(q) = Ids(p)
      /\ \A y : At(q, y) = At(p, y) /\ (IsEmpty(q, y) <=> IsEmpty(p, y))
  BY <1>3 DEF Pointers, Ids, At, IsEmpty
<1>5. Typed(q)
  <2>1. \A k \in 1 .. n - 1 : IsEntry(q.stack[k])
    BY <1>2 DEF Good, Sane, Typed
  <2>2. \A k \in 1 .. Len(q.stack) : IsEntry(q.stack[k])
    BY <1>2, <2>1
  <2>3. IsList(q.stack)
    BY <1>2 DEF IsList
  <2> HIDE DEF n
  <2> QED
    BY <1>3, <1>4, <2>2, <2>3 DEF Good, Sane, Typed
<1>6. Whole(q)
  BY <1>4 DEF Good, Sane, Whole
<1>7. Bounded(q)
  BY <1>3 DEF Good, Sane, Bounded
<1>8. /\ \A y \in Waiting(p.stack[n]) : IsEmpty(p, y)
      /\ \A i \in 2 .. n - 1 : Waiting(p.stack[i]) \cap Waiting(p.stack[n]) = {}
  <2>1. n \in 2 .. n /\ \A i \in 2 .. n - 1 : i \in 2 .. n /\ i # n
    BY <1>2
  <2>2. /\ \A i \in 2 .. n : BlockFits(p, i)
        /\ \A i, j \in 2 .. n : i # j => Waiting(p.stack[i]) \cap Waiting(p.stack[j]) = {}
    BY DEF Good, Nesting
  <2> HIDE DEF n
  <2> QED
    BY <2>1, <2>2 DEF BlockFits
<1>9. \A i \in 2 .. n - 1 : BlockFits(q, i)
  BY <1>2, <1>4, <1>8 DEF Good, Nesting, BlockFits
<1>10. Nesting(q)
  <2>1. \A i, j \in 2 .. n - 1 : i # j => Waiting(q.stack[i]) \cap Waiting(q.stack[j]) = {}
    <3>1. \A k \in 2 .. n - 1 : q.stack[k] = p.stack[k] /\ k \in 2 .. n
      BY <1>2
    <3>2. \A i, j \in 2 .. n : i # j => Waiting(p.stack[i]) \cap Waiting(p.stack[j]) = {}
      BY DEF Good, Nesting
    <3> HIDE DEF n
    <3> QED
      BY <3>1, <3>2
  <2>2. n - 1 >= 1 /\ q.stack[1].state = "GLOBAL"
    BY <1>2 DEF Good, Nesting
  <2> HIDE DEF n
  <2> QED
    BY <1>2, <1>9, <2>1, <2>2 DEF Nesting
<1>11. \A y \in Waiting(p.stack[n]) : y # x => Spare(q, y)
  BY <1>2, <1>4, <1>8 DEF Spare
<1> QED
  BY <1>4, <1>5, <1>6, <1>7, <1>8, <1>10, <1>11 DEF Good, Sane

(* The command that opens a block.                                          *)
LEMMA OpenKeeps ==
  ASSUME NEW p, Good(p), NEW e, IsEntry(e), e.state # "GLOBAL", e.tree # Null,
         e.state # "IF" => e.next_tree = Null, \A x \in Waiting(e) : Spare(p, x),
         NEW q, Same(p, q, {"stack", "is_modified"}), q.stack = Append(p.stack, e)
  PROVE  Good(q)
<1> DEFINE n == Len(p.stack)
<1>1. PICK S : p.stack \in Seq(S)
  BY DEF Good, Sane, Typed, IsList
<1>2. /\ n \in Nat /\ n >= 1 /\ Len(q.stack) = n + 1 /\ q.stack \in Seq(S \cup {e})
      /\ \A i \in 1 .. n : q.stack[i] = p.stack[i]
      /\ q.stack[n + 1] = e
  <2>1. p.stack \in Seq(S \cup {e})
    BY <1>1
  <2> QED
    BY <2>1 DEF Good, Nesting
<1>3. /\ q.nodes = p.nodes /\ q.inputs = p.inputs /\ q.depth = p.depth /\ DOMAIN q = Parts
      /\ q.next = p.next
  BY DEF Same, Parts
<1>4. /\ Pointers(q) = Pointers(p) /\ Ids(q) = Ids(p)
      /\ \A y : At(q, y) = At(p, y) /\ (IsEmpty(q, y) <=> IsEmpty(p, y))
  BY <1>3 DEF Pointers, Ids, At, IsEmpty
<1>5. Typed(q)
  <2>1. \A i \in 1 .. Len(q.stack) : i \in 1 .. n \/ i = n + 1
    BY <1>2
  <2>2. \A i \in 1 .. Len(q.stack) : IsEntry(q.stack[i])
    BY <1>2, <2>1 DEF Good, Sane, Typed
  <2> QED
    BY <1>2, <1>3, <1>4, <2>2 DEF Good, Sane, Typed, IsList
<1>6. Whole(q)
  BY <1>4 DEF Good, Sane, Whole
<1>7. Bounded(q)
  BY <1>3 DEF Good, Sane, Bounded
<1>8. \A i \in 2 .. n + 1 : i \in 2 .. n \/ i = n + 1
  BY <1>2
<1>9. \A i \in 2 .. n + 1 : BlockFits(q, i)
  <2>1. \A i \in 2 .. n : BlockFits(q, i)
    BY <1>2, <1>3, <1>4 DEF Good, Nesting, BlockFits
  <2>2. BlockFits(q, n + 1)
    BY <1>2, <1>3, <1>4 DEF BlockFits, Spare
  <2> QED
    BY <1>8, <2>1, <2>2
<1>10. ASSUME NEW i \in 2 .. n + 1, NEW j \in 2 .. n + 1, i # j
       PROVE  Waiting(q.stack[i]) \cap Waiting(q.stack[j]) = {}
  <2>1. \A k \in 2 .. n : Waiting(p.stack[k]) \cap Waiting(e) = {}
    BY DEF Spare
  <2>2. \A k \in 2 .. n : q.stack[k] = p.stack[k]
    BY <1>2
  <2>3. \A k, m \in 2 .. n : k # m => Waiting(p.stack[k]) \cap Waiting(p.stack[m]) = {}
    BY DEF Good, Nesting
  <2> HIDE DEF n
  <2>4. CASE i \in 2 .. n /\ j \in 2 .. n
    BY <1>10, <2>2, <2>3, <2>4
  <2>5. CASE i = n + 1 \/ j = n + 1
    BY <1>2, <1>8, <1>10, <2>1, <2>2, <2>5
  <2> QED
    BY <1>8, <2>4, <2>5
<1>11. Nesting(q)
  <2>1. q.stack[1].state = "GLOBAL"
    BY <1>2 DEF Good, Nesting
  <2>2. \A i, j \in 2 .. n + 1 : i # j => Waiting(q.stack[i]) \cap Waiting(q.stack[j]) = {}
    BY <1>10
  <2>3. Len(q.stack) = n + 1 /\ n + 1 >= 1
    BY <1>2
  <2> HIDE DEF n
  <2> QED
    BY <1>9, <2>1, <2>2, <2>3 DEF Nesting
<1> QED
  BY <1>3, <1>4, <1>5, <1>6, <1>7, <1>11 DEF Good, Sane

(* What a handler leaves alone when it links nothing.                       *)
Aside == {"current", "next_stack", "is_modified", "macros", "inputs", "texts", "depth", "err",
          "recovered"}

LEMMA AsideKeeps ==
  ASSUME NEW p, NEW q, Same(p, q, Aside), Bounded(q), IsList(q.inputs),
         \A i \in 1 .. Len(q.inputs) : IsInput(q.inputs[i])
  PROVE  /\ Sane(p) => Sane(q)
         /\ Good(p) => Good(q)
         /\ Good(p) => \A x : Spare(p, x) => Spare(q, x)
<1>1. q.nodes = p.nodes /\ q.next = p.next /\ q.stack = p.stack /\ DOMAIN q = Parts
  BY DEF Same, Aside, Parts
<1>2. /\ Pointers(q) = Pointers(p) /\ Ids(q) = Ids(p)
      /\ \A y : At(q, y) = At(p, y) /\ (IsEmpty(q, y) <=> IsEmpty(p, y))
  BY <1>1 DEF Pointers, Ids, At, IsEmpty
<1>3. Typed(p) => Typed(q)
  BY <1>1, <1>2 DEF Typed
<1>4. Whole(p) => Whole(q)
  BY <1>2 DEF Whole
<1>5. \A i : BlockFits(p, i) => BlockFits(q, i)
  BY <1>1, <1>2 DEF BlockFits
<1>6. Nesting(p) => Nesting(q)
  BY <1>1, <1>5 DEF Nesting
<1>7. \A x : Spare(p, x) => Spare(q, x)
  BY <1>1, <1>2 DEF Spare
<1> QED
  BY <1>1, <1>2, <1>3, <1>4, <1>6, <1>7 DEF Good, Sane

LEMMA FlagsKeep ==
  ASSUME NEW p, Sane(p), NEW q, Same(p, q, Aside \ {"inputs", "depth"})
  PROVE  /\ Sane(q)
         /\ Good(p) => Good(q)
         /\ Good(p) => \A x : Spare(p, x) => Spare(q, x)
<1>1. q.inputs = p.inputs /\ q.depth = p.depth /\ Same(p, q, Aside)
  BY DEF Same, Aside, Parts
<1>2. /\ Bounded(q) /\ IsList(q.inputs)
      /\ \A i \in 1 .. Len(q.inputs) : IsInput(q.inputs[i])
  BY <1>1 DEF Sane, Typed, Bounded
<1> QED
  BY <1>1, <1>2, AsideKeeps

LEMMA FailKeeps ==
  ASSUME NEW p, Sane(p), NEW e, NEW q, q = Fail(p, e)
  PROVE  Sane(q) /\ q.err = e /\ (Good(p) => Good(q))
<1>1. DOMAIN p = Parts
  BY DEF Sane, Typed
<1>2. q.err = e /\ Same(p, q, Aside \ {"inputs", "depth"})
  BY <1>1 DEF Fail, Same, Aside, Parts
<1> QED
  BY <1>2, FlagsKeep
-----------------------------------------------------------------------------
(* What has to hold once a command is handled: an error may be one that an  *)
(* include takes for a missing file, and parsing goes on.                   *)
Reached(q, c) ==
  /\ Sane(q)
  /\ q.err = "NOT_FOUND" => Good(q)
  /\ Running(q) => Good(Push(Pop(q, c), c))

Opening == DOMAIN Blocks \cup {"else"}
Closing == DOMAIN Closes \cup {"else"}

Errors == {"PARSE", "MAX_RECURSION", "ASSERT"}

LEMMA ErrorKinds ==
  ASSUME NEW p
  PROVE  /\ Running(p) => p.err # "NOT_FOUND"
         /\ p.err \in Errors => ~Running(p) /\ p.err # "NOT_FOUND"
BY DEF Running, Errors, NoError

LEMMA PlainReached ==
  ASSUME NEW q, Good(q), NEW c, c.op \notin Opening \cup Closing
  PROVE  Reached(q, c)
BY DEF Reached, Push, Pop, Opening, Closing, Good

LEMMA FailReached ==
  ASSUME NEW p, Sane(p), NEW c, NEW e \in Errors
  PROVE  Reached(Fail(p, e), c)
<1>1. PICK q : q = Fail(p, e)
  OBVIOUS
<1>2. Sane(q) /\ q.err \in Errors
  BY <1>1, FailKeeps
<1>3. Reached(q, c)
  BY <1>2, ErrorKinds DEF Reached
<1> QED
  BY <1>1, <1>3

LEMMA NewLink ==
  ASSUME NEW p, Good(p), NEW op, NEW arg, NEW esc, NEW field \in Fields,
         NEW q, q = Link(p, Node(op, arg, esc), field)
  PROVE  /\ Good(q) /\ Sane(q) /\ DOMAIN q = Parts
         /\ q.current = Len(q.nodes) /\ q.current # Null
         /\ \A f \in Fields \ {field} : Spare(q, <<q.current, f>>)
         /\ \A x : Spare(p, x) => Spare(q, x)
         /\ \A k \in Parts \ {"nodes", "next", "current"} : q[k] = p[k]
<1>1. Links(p, Node(op, arg, esc), field, q)
  BY LinkLinks, NodeIsBlank DEF Good, Sane
<1>2. Len(p.nodes) \in Nat
  BY DEF Good, Sane, Typed, IsList
<1>3. q.current = Len(q.nodes) /\ q.current # Null
  BY <1>1, <1>2 DEF Links, Null
<1>4. /\ Good(q)
      /\ \A f \in Fields \ {field} : Spare(q, <<q.current, f>>)
      /\ \A x : Spare(p, x) => Spare(q, x)
  BY <1>1, LinkKeeps
<1> QED
  BY <1>1, <1>3, <1>4 DEF Links, Good

LEMMA LeafReached ==
  ASSUME NEW p, Good(p), NEW c, c.op \notin Opening \cup Closing, NEW mode
  PROVE  Reached(LeafParse(p, c, mode), c)
<1>1. CASE c.bad
  BY <1>1, FailReached DEF LeafParse, Good, Errors
<1>2. CASE ~c.bad
  <2>1. PICK q : q = Link(p, Node(c.op, c.arg, mode), "next")
    OBVIOUS
  <2>2. Good(q) /\ Sane(q)
    BY <2>1, NewLink DEF Fields
  <2> QED
    BY <1>2, <2>1, <2>2, PlainReached DEF LeafParse
<1> QED
  BY <1>1, <1>2

(* What Push does with the block that a command opens.                      *)
LEMMA PushKeeps ==
  ASSUME NEW p, Good(p), NEW c, c.op \in Opening, p.current # Null,
         Spare(p, <<p.current, "next">>),
         c.op = "if" => Spare(p, <<p.current, "case_1">>)
  PROVE  Good(Push(p, c))
<1>1. PICK e : e = [state |-> IF c.op = "else" THEN "ELSE" ELSE Blocks[c.op],
                    tree |-> p.current, next_tree |-> Null,
                    escape |-> IF p.is_modified THEN p.next_stack ELSE p.stack[Len(p.stack)].escape]
  OBVIOUS
<1>2. PICK q : q = Push(p, c)
  OBVIOUS
<1>3. DOMAIN p = Parts
  BY DEF Good, Sane, Typed
<1>4. Same(p, q, {"stack", "is_modified"}) /\ q.stack = Append(p.stack, e)
  BY <1>1, <1>2, <1>3 DEF Push, Same, Parts, Opening
<1>5. /\ e.state \in States /\ e.state # "GLOBAL"
      /\ e.state = "IF" => c.op = "if"
  BY <1>1 DEF Opening, Blocks, States, Anywhere
<1>6. IsEntry(e) /\ e.tree = p.current /\ e.next_tree = Null
  BY <1>1, <1>5 DEF IsEntry
<1>7. \A x \in Waiting(e) : Spare(p, x)
  BY <1>5, <1>6 DEF Waiting, Outer
<1> QED
  BY <1>2, <1>4, <1>5, <1>6, <1>7, OpenKeeps

LEMMA BlockReached ==
  ASSUME NEW p, Good(p), NEW c, c.op \in DOMAIN Blocks, NEW esc,
         NEW q, q = Link(p, Node(c.op, c.arg, esc), "case_0"),
         NEW r, Same(q, r, {"next_stack", "is_modified", "macros"})
  PROVE  Reached(r, c) /\ Sane(r)
<1>1. /\ Good(q) /\ Sane(q) /\ q.current # Null
      /\ Spare(q, <<q.current, "next">>) /\ Spare(q, <<q.current, "case_1">>)
  BY NewLink DEF Fields
<1>2. /\ Same(q, r, Aside \ {"inputs", "depth"}) /\ r.current = q.current
  BY DEF Same, Aside, Parts
<1>3. /\ Good(r) /\ Sane(r)
      /\ Spare(r, <<r.current, "next">>) /\ Spare(r, <<r.current, "case_1">>)
  BY <1>1, <1>2, FlagsKeep
<1>4. c.op \in Opening /\ c.op \notin Closing
  BY DEF Opening, Closing, Blocks, Closes
<1>5. Pop(r, c) = r
  BY <1>4 DEF Pop, Closing
<1> QED
  BY <1>1, <1>2, <1>3, <1>4, <1>5, PushKeeps DEF Reached

(* Pointers and flags aside, it is the nodes, the blocks and the texts that *)
(* a sane parser is about.                                                  *)
LEMMA SaneFollows ==
  ASSUME NEW p, Sane(p), NEW q, Same(p, q, Parts \ {"nodes", "stack", "inputs", "depth"})
  PROVE  Sane(q)
<1>1. /\ q.nodes = p.nodes /\ q.stack = p.stack /\ q.inputs = p.inputs /\ q.depth = p.depth
      /\ DOMAIN q = Parts
  BY DEF Same, Parts
<1>2. Ids(q) = Ids(p) /\ Pointers(q) = Pointers(p) /\ \A x : At(q, x) = At(p, x)
  BY <1>1 DEF Ids, Pointers, At
<1> QED
  BY <1>1, <1>2 DEF Sane, Typed, Whole, Bounded

(* The block that is open when a command has the state it needs.            *)
LEMMA TopFits ==
  ASSUME NEW p, Good(p), p.stack = parse.stack, Top.state # "GLOBAL"
  PROVE  /\ Len(p.stack) \in Nat /\ Len(p.stack) > 1 /\ p.stack[Len(p.stack)] = Top
         /\ IsEntry(Top) /\ BlockFits(p, Len(p.stack))
         /\ Outer(Top) # Null
         /\ Top.state # "IF" => Outer(Top) = Top.tree
<1>1. Len(p.stack) \in Nat /\ Len(p.stack) >= 1 /\ p.stack[Len(p.stack)] = Top
  BY DEF Good, Sane, Typed, IsList, Nesting, Top
<1>2. p.stack[1].state = "GLOBAL"
  BY DEF Good, Nesting
<1>3. Len(p.stack) > 1
  BY <1>1, <1>2
<1>4. BlockFits(p, Len(p.stack))
  BY <1>1, <1>3 DEF Good, Nesting
<1>5. IsEntry(Top)
  BY <1>1 DEF Good, Sane, Typed
<1> QED
  BY <1>1, <1>3, <1>4, <1>5 DEF BlockFits, Outer

LEMMA PopKeeps ==
  ASSUME NEW p, Good(p), p.stack = parse.stack, Top.state # "GLOBAL", NEW x \in Waiting(Top),
         NEW q, Same(p, q, {"next", "current"}), q.next = x, NEW c, c.op \in Closing,
         NEW r, r = Pop(q, c)
  PROVE  /\ Sane(q) /\ Good(r) /\ r.current = Outer(Top)
         /\ \A y \in Waiting(Top) : y # x => Spare(r, y)
         /\ \A k \in Parts \ {"next", "current", "stack"} : r[k] = p[k]
<1>1. Sane(q)
  BY SaneFollows DEF Good, Same, Parts
<1>2. q.stack = p.stack /\ DOMAIN q = Parts
  BY DEF Same, Parts
<1>3. /\ Same(p, r, {"next", "current", "stack"}) /\ r.next = x
      /\ r.stack = SubSeq(p.stack, 1, Len(p.stack) - 1)
  BY <1>2 DEF Pop, Same, Parts, Closing
<1>4. r.current = Outer(Top)
  BY <1>2, TopFits DEF Pop, Closing, Outer, Parts
<1> QED
  BY <1>1, <1>3, <1>4, TopFits, CloseKeeps DEF Same

(* The states in which a block may be closed.                               *)
LEMMA ClosedStates ==
  ASSUME NEW op \in DOMAIN Closes
  PROVE  /\ op \in Closing /\ op \notin Opening
         /\ AllowedState(op) = Closes[op]
         /\ "GLOBAL" \notin Closes[op]
         /\ op # "endif" => "IF" \notin Closes[op]
<1>1. DOMAIN Closes = {"endif", "endeach", "endwith", "enddef", "endloop", "endalt", "endescape"}
  BY DEF Closes
<1>2. op \in Closing /\ op \notin Opening /\ AllowedState(op) = Closes[op]
  BY <1>1 DEF Closing, Opening, Blocks, AllowedState
<1>3. CASE op = "endif"
  BY <1>2, <1>3 DEF Closes
<1>4. CASE op \in {"endeach", "endwith", "enddef"}
  BY <1>2, <1>4 DEF Closes
<1>5. CASE op \in {"endloop", "endalt", "endescape"}
  BY <1>2, <1>5 DEF Closes
<1> QED
  BY <1>1, <1>3, <1>4, <1>5

LEMMA CloseReached ==
  ASSUME NEW p, Good(p), p.stack = parse.stack, Running(p), NEW c, c.op \in DOMAIN Closes,
         Top.state \in AllowedState(c.op),
         NEW q, q = IF c.op = "endif" THEN EndifParse(p) ELSE EndParse(p)
  PROVE  Reached(q, c)
<1>1. /\ Top.state # "GLOBAL" /\ c.op \in Closing /\ c.op \notin Opening
      /\ c.op # "endif" => Top.state # "IF"
  BY ClosedStates
<1>2. DOMAIN p = Parts
  BY DEF Good, Sane, Typed
<1>3. Same(p, q, {"next", "current"}) /\ q.next = <<Outer(Top), "next">>
  <2>1. CASE c.op = "endif"
    BY <1>2, <2>1 DEF EndifParse, Same, Parts, Outer
  <2>2. CASE c.op # "endif"
    <3>1. Outer(Top) = Top.tree
      BY <1>1, <2>2, TopFits
    <3> QED
      BY <1>2, <2>2, <3>1 DEF EndParse, Same, Parts
  <2> QED
    BY <2>1, <2>2
<1>4. PICK r : r = Pop(q, c)
  OBVIOUS
<1>5. <<Outer(Top), "next">> \in Waiting(Top)
  BY DEF Waiting
<1>6. Sane(q) /\ Good(r)
  BY <1>1, <1>3, <1>4, <1>5, PopKeeps
<1>7. Push(r, c) = r
  BY <1>1 DEF Push, Opening
<1>8. q.err = p.err
  BY <1>3 DEF Same, Parts
<1> QED
  BY <1>4, <1>6, <1>7, <1>8, ErrorKinds DEF Reached

LEMMA ElseReached ==
  ASSUME NEW p, Good(p), p.stack = parse.stack, Running(p), NEW c, c.op = "else",
         Top.state \in AllowedState(c.op), NEW q, q = ElseParse(p)
  PROVE  Reached(q, c)
<1>1. Top.state = "IF" /\ c.op \in Closing /\ c.op \in Opening
  BY DEF AllowedState, Closes, Closing, Opening
<1>2. DOMAIN p = Parts
  BY DEF Good, Sane, Typed
<1>3. Same(p, q, {"next", "current"}) /\ q.next = <<Top.tree, "case_1">>
  BY <1>2 DEF ElseParse, Same, Parts
<1>4. <<Top.tree, "case_1">> \in Waiting(Top) /\ <<Outer(Top), "next">> \in Waiting(Top)
  BY <1>1 DEF Waiting
<1>5. PICK r : r = Pop(q, c)
  OBVIOUS
<1>6. Top.state # "GLOBAL"
  BY <1>1
<1>7. /\ Sane(q) /\ Good(r) /\ r.current = Outer(Top)
      /\ \A y \in Waiting(Top) : y # <<Top.tree, "case_1">> => Spare(r, y)
  <2>1. PICK x : x = <<Top.tree, "case_1">>
    OBVIOUS
  <2>2. x \in Waiting(Top) /\ q.next = x
    BY <1>3, <1>4, <2>1
  <2>3. Sane(q) /\ Good(r)
    BY <1>1, <1>3, <1>5, <1>6, <2>2, PopKeeps
  <2>5. r.current = Outer(Top)
    <3>1. q.stack = p.stack /\ DOMAIN q = Parts
      BY <1>3 DEF Same, Parts
    <3>2. q.stack[Len(q.stack)] = Top
      BY <1>6, <3>1, TopFits
    <3> QED
      BY <1>1, <1>5, <3>1, <3>2 DEF Pop, Closing, Outer, Parts
  <2>4. \A y \in Waiting(Top) : y # x => Spare(r, y)
    BY <1>1, <1>3, <1>5, <1>6, <2>2, PopKeeps
  <2> QED
    BY <2>1, <2>3, <2>4, <2>5
<1>8. Spare(r, <<r.current, "next">>)
  BY <1>4, <1>7
<1>9. r.current # Null
  BY <1>6, <1>7, TopFits
<1>10. Good(Push(r, c))
  BY <1>1, <1>7, <1>8, <1>9, PushKeeps
<1>11. q.err = p.err
  BY <1>3 DEF Same, Parts
<1> QED
  BY <1>5, <1>7, <1>10, <1>11, ErrorKinds DEF Reached

(* A change of the last item, as one more after those before it.            *)
LEMMA LastAltered ==
  ASSUME NEW S, NEW s \in Seq(S), Len(s) > 0, NEW e, NEW t, t = [s EXCEPT ![Len(s)] = e]
  PROVE  t = Append(SubSeq(s, 1, Len(s) - 1), e)
<1>1. PICK n : n = Len(s)
  OBVIOUS
<1>2. PICK T : T = S \cup {e}
  OBVIOUS
<1>3. /\ s \in Seq(T) /\ n \in Nat /\ n > 0 /\ e \in T /\ Len(s) = n
      /\ \A i \in 1 .. n : s[i] \in T
  BY <1>1, <1>2
<1>4. PICK f : f = SubSeq(s, 1, n - 1)
  OBVIOUS
<1>5. f \in Seq(T) /\ Len(f) = n - 1 /\ \A i \in 1 .. n - 1 : f[i] = s[i]
  <2>1. 1 \in 1 .. n + 1 /\ n - 1 \in 0 .. n /\ \A i \in 1 .. n - 1 : s[i] \in T
    BY <1>3
  <2> QED
    BY <1>3, <1>4, <2>1, SubSeqProperties
<1>6. PICK u : u = Append(f, e)
  OBVIOUS
<1>7. u \in Seq(T) /\ Len(u) = n /\ u[n] = e /\ \A i \in 1 .. n - 1 : u[i] = f[i]
  BY <1>3, <1>5, <1>6
<1>8. t \in Seq(T) /\ Len(t) = n /\ \A i \in 1 .. n : t[i] = IF i = n THEN e ELSE s[i]
  <2>1. s \in [1 .. n -> T]
    BY <1>3
  <2>2. t \in [1 .. n -> T] /\ \A i \in 1 .. n : t[i] = IF i = n THEN e ELSE s[i]
    BY <1>1, <1>3, <2>1
  <2> QED
    BY <1>3, <2>2
<1>9. \A i \in 1 .. n : t[i] = u[i]
  BY <1>3, <1>5, <1>7, <1>8
<1>10. t = u
  BY <1>3, <1>7, <1>8, <1>9, SeqEqual
<1> QED
  BY <1>1, <1>4, <1>6, <1>10

(* An item that is changed twice has its last value.                        *)
LEMMA TwiceAltered ==
  ASSUME NEW s, NEW n \in DOMAIN s, NEW a, NEW b,
         NEW t, t = [s EXCEPT ![n] = a], NEW u, u = [t EXCEPT ![n] = b], s = [i \in DOMAIN s |-> s[i]]
  PROVE  u = [s EXCEPT ![n] = b]
OBVIOUS

(* What elif does to the open block and to the pointers, with or without an *)
(* error in its argument: as if the block were closed, and opened again     *)
(* with the new part.                                                       *)
Closed(p) ==
  [p EXCEPT !.next = <<Top.tree, "case_1">>, !.stack = SubSeq(p.stack, 1, Len(p.stack) - 1)]
Prolonged(id) == [Top EXCEPT !.next_tree = Outer(Top), !.tree = id]

LEMMA BlockAlike ==
  ASSUME NEW p, NEW s, DOMAIN p = Parts, Same(p, s, {"stack"}), NEW c, NEW mode,
         NEW q, q = Block(p, c, mode), NEW r, r = Block(s, c, mode)
  PROVE  Same(q, r, {"stack"}) /\ DOMAIN q = Parts /\ q.stack = p.stack
<1>1. /\ s.nodes = p.nodes /\ s.next = p.next /\ DOMAIN s = Parts
      /\ \A k \in Parts \ {"stack"} : s[k] = p[k]
  BY DEF Same, Parts
<1>2. CASE c.bad
  BY <1>1, <1>2 DEF Block, Fail, Same, Parts
<1>3. CASE ~c.bad
  <2>1. PICK node : node = Node(c.op, c.arg, mode)
    OBVIOUS
  <2>2. q = Link(p, node, "case_0") /\ r = Link(s, node, "case_0")
    BY <1>3, <2>1 DEF Block
  <2>3. DOMAIN q = Parts /\ DOMAIN r = Parts /\ q.stack = p.stack
    BY <1>1, <2>2 DEF Link, Parts
  <2>4. q.nodes = r.nodes /\ q.next = r.next /\ q.current = r.current
    BY <1>1, <2>2 DEF Link, Parts
  <2>5. \A k \in Parts \ {"nodes", "next", "current"} : q[k] = p[k] /\ r[k] = s[k]
    BY <1>1, <2>2 DEF Link
  <2> QED
    BY <1>1, <2>3, <2>4, <2>5 DEF Same
<1> QED
  BY <1>2, <1>3

LEMMA ElifSteps ==
  ASSUME NEW p, Good(p), p.stack = parse.stack, NEW c, c.op = "elif", Top.state = "IF",
         NEW q, q = ElifParse(p, c), NEW p0, p0 = Closed(p), NEW r, r = Block(p0, c, Undef)
  PROVE  /\ Same(p, p0, {"next", "stack"}) /\ p0.next = <<Top.tree, "case_1">>
         /\ p0.stack = SubSeq(p.stack, 1, Len(p.stack) - 1)
         /\ Same(r, q, {"stack"}) /\ q.stack = Append(p0.stack, Prolonged(q.current))
<1>1. DOMAIN p = Parts
  BY DEF Good, Sane, Typed
<1>2. PICK n : n = Len(p.stack)
  OBVIOUS
<1>3. PICK S : p.stack \in Seq(S)
  BY DEF Good, Sane, Typed, IsList
<1>4. n \in Nat /\ n > 1 /\ p.stack[n] = Top /\ IsEntry(Top)
  BY <1>2, TopFits
<1>5. PICK x : x = <<Top.tree, "case_1">>
  OBVIOUS
<1>6. PICK p1 : p1 = [p EXCEPT !.stack[n].next_tree = Outer(Top), !.next = x]
  OBVIOUS
<1>7. PICK q1 : q1 = Block(p1, c, Undef)
  OBVIOUS
<1>8. q = [q1 EXCEPT !.stack[n].tree = q1.current]
  <2>1. n = Len(parse.stack)
    BY <1>2
  <2> QED
    BY <1>5, <1>6, <1>7, <2>1 DEF ElifParse, IfParse, Outer
<1>9. PICK e1 : e1 = [Top EXCEPT !.next_tree = Outer(Top)]
  OBVIOUS
<1>10. /\ Same(p, p1, {"stack", "next"}) /\ p1.next = x
       /\ p1.stack = [p.stack EXCEPT ![n] = e1]
  BY <1>1, <1>4, <1>6, <1>9 DEF Same, Parts
<1>11. /\ Same(p, p0, {"next", "stack"}) /\ p0.next = x
       /\ p0.stack = SubSeq(p.stack, 1, Len(p.stack) - 1)
  BY <1>1, <1>5 DEF Closed, Same, Parts
<1>12. Same(p1, p0, {"stack"}) /\ DOMAIN p1 = Parts
  <2>1. \A k \in Parts \ {"stack", "next"} : p1[k] = p[k] /\ p0[k] = p[k]
    BY <1>10, <1>11 DEF Same
  <2>2. p1.next = p0.next
    BY <1>10, <1>11
  <2> QED
    BY <1>10, <1>11, <2>1, <2>2 DEF Same
<1>13. Same(q1, r, {"stack"}) /\ DOMAIN q1 = Parts /\ q1.stack = p1.stack
  BY <1>7, <1>12, BlockAlike
<1>14. /\ \A k \in Parts \ {"stack"} : q[k] = q1[k]
       /\ DOMAIN q = Parts
       /\ q.stack = [q1.stack EXCEPT ![n] = [q1.stack[n] EXCEPT !.tree = q1.current]]
  BY <1>8, <1>13 DEF Parts
<1>15. q.current = q1.current
  BY <1>14 DEF Parts
<1>16. Same(r, q, {"stack"})
  BY <1>13, <1>14 DEF Same
<1>17. n \in DOMAIN p.stack /\ p.stack = [i \in DOMAIN p.stack |-> p.stack[i]]
  BY <1>2, <1>3, <1>4
<1>18. PICK e : e = [Top EXCEPT !.next_tree = Outer(Top), !.tree = q.current]
  OBVIOUS
<1>19. q1.stack[n] = e1 /\ e = [e1 EXCEPT !.tree = q1.current]
  BY <1>9, <1>10, <1>13, <1>15, <1>17, <1>18 DEF IsEntry
<1>20. q.stack = [q1.stack EXCEPT ![n] = e] /\ q1.stack = [p.stack EXCEPT ![n] = e1]
  BY <1>10, <1>13, <1>14, <1>19
<1>21. q.stack = [p.stack EXCEPT ![n] = e]
  BY <1>17, <1>20, TwiceAltered
<1>22. q.stack = Append(p0.stack, e)
  BY <1>2, <1>3, <1>4, <1>11, <1>21, LastAltered
<1> QED
  BY <1>5, <1>11, <1>16, <1>18, <1>22 DEF Prolonged

LEMMA OneMore ==
  ASSUME NEW S, NEW s \in Seq(S), NEW e, NEW t, t = Append(s, e)
  PROVE  /\ t \in Seq(S \cup {e}) /\ Len(s) \in Nat /\ Len(t) = Len(s) + 1
         /\ \A i \in 1 .. Len(s) : t[i] = s[i]
         /\ t[Len(s) + 1] = e
<1>1. s \in Seq(S \cup {e})
  OBVIOUS
<1> QED
  BY <1>1

(* A block more is all that a sane parser has to hear of.                   *)
LEMMA EntryKeeps ==
  ASSUME NEW p, Sane(p), NEW e, IsEntry(e),
         NEW q, Same(p, q, {"stack"}), q.stack = Append(p.stack, e)
  PROVE  Sane(q)
<1>1. q.nodes = p.nodes /\ q.inputs = p.inputs /\ q.depth = p.depth /\ DOMAIN q = Parts
  BY DEF Same, Parts
<1>2. Ids(q) = Ids(p) /\ Pointers(q) = Pointers(p) /\ \A z : At(q, z) = At(p, z)
  BY <1>1 DEF Ids, Pointers, At
<1>3. Whole(q)
  BY <1>2 DEF Sane, Whole
<1>4. Bounded(q)
  BY <1>1 DEF Sane, Bounded
<1>5. PICK S : p.stack \in Seq(S)
  BY DEF Sane, Typed, IsList
<1>6. /\ q.stack \in Seq(S \cup {e}) /\ Len(p.stack) \in Nat /\ Len(q.stack) = Len(p.stack) + 1
      /\ \A i \in 1 .. Len(p.stack) : q.stack[i] = p.stack[i]
      /\ q.stack[Len(p.stack) + 1] = e
  BY <1>5, OneMore
<1>7. \A i \in 1 .. Len(q.stack) : IsEntry(q.stack[i])
  <2>1. \A i \in 1 .. Len(q.stack) : i \in 1 .. Len(p.stack) \/ i = Len(p.stack) + 1
    BY <1>6
  <2> QED
    BY <1>6, <2>1 DEF Sane, Typed
<1>8. IsList(q.stack)
  BY <1>6 DEF IsList
<1>9. Typed(q)
  BY <1>1, <1>2, <1>7, <1>8 DEF Sane, Typed
<1> QED
  BY <1>3, <1>4, <1>9 DEF Sane

(* The same without a name for the result.                                  *)
LEMMA Failed ==
  ASSUME NEW p, Sane(p), NEW e
  PROVE  Sane(Fail(p, e)) /\ Fail(p, e).err = e
BY FailKeeps

LEMMA ElifReached ==
  ASSUME NEW p, Good(p), p.stack = parse.stack, Running(p), NEW c, c.op = "elif",
         Top.state \in AllowedState(c.op), NEW q, q = ElifParse(p, c)
  PROVE  Reached(q, c)
<1>1. Top.state = "IF" /\ c.op \notin Closing \cup Opening
  BY DEF AllowedState, Closes, Closing, Opening, Blocks
<1>2. PICK x : x = <<Top.tree, "case_1">>
  OBVIOUS
<1>3. PICK y : y = <<Outer(Top), "next">>
  OBVIOUS
<1>4. PICK closed : closed = Closed(p)
  OBVIOUS
<1>5. PICK r : r = Block(closed, c, Undef)
  OBVIOUS
<1>6. PICK entry : entry = Prolonged(q.current)
  OBVIOUS
<1>7. /\ Same(p, closed, {"next", "stack"}) /\ closed.next = x
      /\ closed.stack = SubSeq(p.stack, 1, Len(p.stack) - 1)
      /\ Same(r, q, {"stack"}) /\ q.stack = Append(closed.stack, entry)
  BY <1>1, <1>2, <1>4, <1>5, <1>6, ElifSteps
<1>8. /\ Len(p.stack) > 1 /\ p.stack[Len(p.stack)] = Top
      /\ IsEntry(Top) /\ Outer(Top) # Null
  BY <1>1, TopFits
<1>9. x \in Waiting(Top) /\ y \in Waiting(Top) /\ x # y
  BY <1>1, <1>2, <1>3 DEF Waiting
<1>10. Same(p, closed, {"next", "current", "stack"})
  BY <1>7 DEF Same
<1>11. Good(closed) /\ \A z \in Waiting(Top) : z # x => Spare(closed, z)
  BY <1>7, <1>8, <1>9, <1>10, CloseKeeps
<1>12. DOMAIN closed = Parts
  BY <1>7 DEF Same, Parts
<1>13. /\ entry.state = "IF" /\ entry.tree = q.current
       /\ entry.next_tree = Outer(Top) /\ IsEntry(entry) /\ Outer(entry) = Outer(Top)
  BY <1>1, <1>6, <1>8 DEF IsEntry, Outer, Prolonged
<1>14. CASE c.bad
  <2>1. r = Fail(closed, "PARSE")
    BY <1>5, <1>14 DEF Block
  <2>2. Sane(r) /\ r.err = "PARSE" /\ "PARSE" \in Errors
    <3>1. Sane(closed)
      BY <1>11 DEF Good
    <3> QED
      BY <2>1, <3>1, Failed DEF Errors
  <2>3. r.stack = closed.stack
    BY <1>12, <2>1 DEF Fail, Parts
  <2>4. Sane(q)
    BY <1>7, <1>13, <2>2, <2>3, EntryKeeps
  <2>5. q.err \in Errors
    BY <1>7, <2>2 DEF Same, Parts
  <2> QED
    BY <2>4, <2>5, ErrorKinds DEF Reached
<1>15. CASE ~c.bad
  <2>1. r = Link(closed, Node(c.op, c.arg, Undef), "case_0")
    BY <1>5, <1>15 DEF Block
  <2>2. "case_0" \in Fields /\ "case_1" \in Fields \ {"case_0"}
    BY DEF Fields
  <2>3. /\ Good(r) /\ r.current # Null /\ Spare(r, <<r.current, "case_1">>)
        /\ \A z : Spare(closed, z) => Spare(r, z)
        /\ \A k \in Parts \ {"nodes", "next", "current"} : r[k] = closed[k]
    <3>1. PICK node : node = Node(c.op, c.arg, Undef)
      OBVIOUS
    <3>2. r = Link(closed, node, "case_0") /\ IsBlank(node)
      BY <2>1, <3>1, NodeIsBlank
    <3>3. Links(closed, node, "case_0", r)
      BY <1>11, <3>2, LinkLinks DEF Good, Sane
    <3>4. Good(r) /\ r.current # Null /\ \A z : Spare(closed, z) => Spare(r, z)
      BY <1>11, <2>2, <3>3, LinkKeeps
    <3>5. \A f \in Fields \ {"case_0"} : Spare(r, <<r.current, f>>)
      BY <1>11, <2>2, <3>3, LinkKeeps
    <3>6. \A k \in Parts \ {"nodes", "next", "current"} : r[k] = closed[k]
      BY <3>3 DEF Links
    <3> QED
      BY <2>2, <3>4, <3>5, <3>6
  <2>4. r.stack = closed.stack
    BY <1>12, <2>3 DEF Parts
  <2>5. q.current = r.current
    BY <1>7, <2>4 DEF Same, Parts
  <2>6. Spare(r, y)
    BY <1>9, <1>11, <2>3
  <2>7. \A z \in Waiting(entry) : Spare(r, z)
    BY <1>3, <1>13, <2>3, <2>5, <2>6 DEF Waiting
  <2>8. Same(r, q, {"stack", "is_modified"}) /\ q.stack = Append(r.stack, entry)
    BY <1>7, <2>4 DEF Same
  <2>9. Good(q)
    BY <1>13, <2>3, <2>5, <2>7, <2>8, OpenKeeps
  <2> QED
    BY <1>1, <2>9, PlainReached
<1> QED
  BY <1>14, <1>15

-----------------------------------------------------------------------------
(* Texts that are entered and left.                                         *)
LEMMA IncludedFinite ==
  ASSUME NEW S, NEW s \in Seq(S)
  PROVE  IsFiniteSet(Included(s)) /\ Cardinality(Included(s)) \in Nat
<1>1. Included(s) \subseteq 1 .. Len(s) /\ Len(s) \in Nat
  BY DEF Included
<1>2. IsFiniteSet(1 .. Len(s))
  BY <1>1, FS_Interval
<1>3. IsFiniteSet(Included(s))
  BY <1>1, <1>2, FS_Subset
<1> QED
  BY <1>3, FS_CardinalityType

LEMMA IncludedShorter ==
  ASSUME NEW S, NEW s \in Seq(S), NEW m \in 0 .. Len(s), NEW t, t = SubSeq(s, 1, m)
  PROVE  /\ t \in Seq(S) /\ Len(t) = m /\ \A i \in 1 .. m : t[i] = s[i]
         /\ Included(t) \subseteq Included(s)
         /\ Cardinality(Included(t)) <= Cardinality(Included(s))
         /\ m < Len(s) /\ Len(s) \in Included(s) =>
              Cardinality(Included(t)) < Cardinality(Included(s))
<1>1. t \in Seq(S) /\ Len(t) = m /\ m \in Nat /\ \A i \in 1 .. m : t[i] = s[i]
  BY SubSeqProperties
<1>2. Included(t) \subseteq Included(s)
  BY <1>1 DEF Included
<1>3. IsFiniteSet(Included(s)) /\ Cardinality(Included(s)) \in Nat /\ Cardinality(Included(t)) \in Nat
  BY <1>1, IncludedFinite
<1>4. Cardinality(Included(t)) <= Cardinality(Included(s))
  BY <1>2, <1>3, FS_Subset
<1>5. ASSUME m < Len(s), Len(s) \in Included(s)
      PROVE  Cardinality(Included(t)) < Cardinality(Included(s))
  <2>1. Len(s) \notin Included(t)
    BY <1>1, <1>5 DEF Included
  <2>2. Cardinality(Included(t)) # Cardinality(Included(s))
    BY <1>2, <1>3, <1>5, <2>1, FS_Subset
  <2> QED
    BY <1>3, <1>4, <2>2
<1> QED
  BY <1>1, <1>2, <1>4, <1>5

LEMMA EnterKeeps ==
  ASSUME NEW p, Sane(p), NEW kind, NEW q, q = Enter(p, kind),
         kind \in {"include", "include!"} => Cardinality(Included(p.inputs)) < p.depth
  PROVE  Sane(q) /\ (Good(p) => Good(q)) /\ q.err = p.err
<1>1. DOMAIN p = Parts
  BY DEF Sane, Typed
<1>2. PICK x : x = [kind |-> kind, stack |-> Len(p.stack)]
  OBVIOUS
<1>3. Same(p, q, {"inputs"}) /\ q.inputs = Append(p.inputs, x)
  BY <1>1, <1>2 DEF Enter, Same, Parts
<1>4. Same(p, q, Aside) /\ q.depth = p.depth /\ q.err = p.err
  BY <1>3 DEF Same, Aside, Parts
<1>5. PICK S : p.inputs \in Seq(S)
  BY DEF Sane, Typed, IsList
<1>6. PICK n : n = Len(p.inputs)
  OBVIOUS
<1>7. /\ q.inputs \in Seq(S \cup {x}) /\ n \in Nat /\ Len(q.inputs) = n + 1
      /\ \A i \in 1 .. n : q.inputs[i] = p.inputs[i]
      /\ q.inputs[n + 1] = x
  BY <1>3, <1>5, <1>6, OneMore
<1>8. IsList(q.inputs)
  BY <1>7 DEF IsList
<1>9. \A i \in 1 .. Len(q.inputs) : i \in 1 .. n \/ i = n + 1
  BY <1>7
<1>10. IsInput(x) /\ x.kind = kind
  BY <1>2 DEF IsInput
<1>11. \A i \in 1 .. Len(q.inputs) : IsInput(q.inputs[i])
  BY <1>6, <1>7, <1>9, <1>10 DEF Sane, Typed
<1>12. PICK I, J : I = Included(p.inputs) /\ J = Included(q.inputs)
  OBVIOUS
<1>13. IsFiniteSet(I) /\ Cardinality(I) \in Nat
  BY <1>5, <1>12, IncludedFinite
<1>14. J = IF kind \in {"include", "include!"} THEN I \cup {n + 1} ELSE I
  <2>1. DOMAIN p.inputs = 1 .. n /\ DOMAIN q.inputs = 1 .. n + 1
    BY <1>5, <1>6, <1>7
  <2>2. \A i : i \in 1 .. n + 1 <=> i \in 1 .. n \/ i = n + 1
    BY <1>7
  <2>3. \A i : i \in J <=> i \in I \/ (i = n + 1 /\ kind \in {"include", "include!"})
    BY <1>7, <1>10, <1>12, <2>1, <2>2 DEF Included
  <2> QED
    BY <2>3
<1>15. Cardinality(J) <= p.depth /\ p.depth \in Nat /\ p.depth <= MAX_STACK_DEPTH
  <2>1. p.depth \in Nat /\ p.depth <= MAX_STACK_DEPTH /\ Cardinality(I) <= p.depth
    BY <1>12 DEF Sane, Bounded
  <2>2. CASE kind \in {"include", "include!"}
    <3>1. Cardinality(J) <= Cardinality(I) + 1
      <4>1. J = I \cup {n + 1}
        BY <1>14, <2>2
      <4> QED
        BY <1>13, <4>1, FS_AddElement
    <3>2. Cardinality(I) < p.depth
      BY <1>12, <2>2
    <3>3. Cardinality(J) \in Nat
      BY <1>7, <1>12, IncludedFinite
    <3> QED
      BY <1>13, <2>1, <3>1, <3>2, <3>3
  <2>3. CASE kind \notin {"include", "include!"}
    BY <1>14, <2>1, <2>3
  <2> QED
    BY <2>1, <2>2, <2>3
<1>16. Bounded(q)
  BY <1>4, <1>12, <1>15 DEF Bounded
<1> QED
  BY <1>4, <1>8, <1>11, <1>16, AsideKeeps

LEMMA ShorterKeeps ==
  ASSUME MAX_STACK_DEPTH \in Nat, NEW p, Sane(p), NEW q, Same(p, q, {"inputs", "depth", "err", "recovered"}),
         NEW m \in 0 .. Len(p.inputs), q.inputs = SubSeq(p.inputs, 1, m),
         q.depth \in Nat, q.depth <= p.depth, Cardinality(Included(q.inputs)) <= q.depth
  PROVE  Sane(q) /\ (Good(p) => Good(q))
<1>1. PICK S : p.inputs \in Seq(S)
  BY DEF Sane, Typed, IsList
<1>2. q.inputs \in Seq(S) /\ Len(q.inputs) = m /\ \A i \in 1 .. m : q.inputs[i] = p.inputs[i]
  BY <1>1, IncludedShorter
<1>3. IsList(q.inputs)
  BY <1>2 DEF IsList
<1>4. \A i \in 1 .. m : i \in 1 .. Len(p.inputs)
  BY <1>1
<1>5. \A i \in 1 .. Len(q.inputs) : IsInput(q.inputs[i])
  BY <1>2, <1>4 DEF Sane, Typed
<1>6. p.depth \in Nat /\ p.depth <= MAX_STACK_DEPTH
  BY DEF Sane, Bounded
<1>7. Bounded(q)
  <2>1. q.depth <= MAX_STACK_DEPTH
    BY <1>6
  <2> QED
    BY <2>1 DEF Bounded
<1>8. Same(p, q, Aside)
  BY DEF Same, Aside
<1> QED
  BY <1>3, <1>5, <1>7, <1>8, AsideKeeps

(* An include counts itself before it reads its file.                       *)
LEMMA IncludeReached ==
  ASSUME MAX_STACK_DEPTH \in Nat, NEW p, Good(p), Running(p),
         NEW c, c.op \in {"include", "include!"}
  PROVE  Reached(IncludeParse(p, c), c)
<1> DEFINE q == IncludeParse(p, c)
<1>1. c.op \notin Opening \cup Closing
  BY DEF Opening, Closing, Blocks, Closes
<1>2. DOMAIN p = Parts /\ Sane(p) /\ p.depth \in Nat /\ Cardinality(Included(p.inputs)) <= p.depth
  BY DEF Good, Sane, Typed, Bounded
<1>3. CASE c.bad
  BY <1>2, <1>3, FailReached DEF IncludeParse, Errors
<1>4. CASE ~c.bad /\ c.arg = "unset" /\ c.op = "include"
  <2>1. q = p
    BY <1>4 DEF IncludeParse
  <2> QED
    BY <1>1, <1>2, <2>1, PlainReached
<1>5. CASE ~c.bad /\ ~(c.arg = "unset" /\ c.op = "include") /\ p.depth >= MAX_STACK_DEPTH
  <2>1. q = Fail(p, "MAX_RECURSION")
    BY <1>5 DEF IncludeParse
  <2> QED
    BY <1>2, <2>1, FailReached DEF Errors
<1>6. CASE ~c.bad /\ ~(c.arg = "unset" /\ c.op = "include") /\ ~(p.depth >= MAX_STACK_DEPTH)
  <2>1. PICK r : r = [p EXCEPT !.depth = @ + 1]
    OBVIOUS
  <2>2. Same(p, r, Aside) /\ r.inputs = p.inputs /\ r.depth = p.depth + 1
    BY <1>2, <2>1 DEF Same, Aside, Parts
  <2>3. PICK k : k = Cardinality(Included(p.inputs))
    OBVIOUS
  <2>4. k \in Nat
    <3>1. PICK S : p.inputs \in Seq(S)
      BY DEF Good, Sane, Typed, IsList
    <3> QED
      BY <2>3, <3>1, IncludedFinite
  <2>5. k < r.depth /\ r.depth \in Nat /\ r.depth <= MAX_STACK_DEPTH
    BY <1>2, <1>6, <2>2, <2>3, <2>4
  <2>6. Bounded(r)
    <3>1. k <= r.depth
      BY <2>4, <2>5
    <3> QED
      BY <2>2, <2>3, <2>5, <3>1 DEF Bounded
  <2>7. Good(r) /\ Sane(r)
    <3>1. IsList(r.inputs) /\ \A i \in 1 .. Len(r.inputs) : IsInput(r.inputs[i])
      BY <2>2 DEF Good, Sane, Typed
    <3> QED
      BY <1>2, <2>2, <2>6, <3>1, AsideKeeps
  <2>8. q = CASE c.arg = "unset" -> Fail(r, "ASSERT")
              [] c.arg = "missing" -> IF c.op = "include" THEN r ELSE Fail(r, "NOT_FOUND")
              [] OTHER -> Enter(r, c.op)
    BY <1>6, <2>1 DEF IncludeParse
  <2>9. CASE c.arg = "unset"
    <3>1. q = Fail(r, "ASSERT")
      BY <2>8, <2>9
    <3> QED
      BY <2>7, <3>1, FailReached DEF Errors
  <2>10. CASE c.arg = "missing" /\ c.op = "include"
    <3>1. q = r
      BY <2>8, <2>10
    <3> QED
      BY <1>1, <2>7, <3>1, PlainReached
  <2>11. CASE c.arg = "missing" /\ c.op # "include"
    <3>1. q = Fail(r, "NOT_FOUND")
      BY <2>8, <2>11
    <3>2. Sane(q) /\ Good(q)
      BY <2>7, <3>1, FailKeeps
    <3> QED
      BY <1>1, <3>2, PlainReached
  <2>12. CASE c.arg \notin {"unset", "missing"}
    <3>1. q = Enter(r, c.op)
      BY <2>8, <2>12
    <3>2. Cardinality(Included(r.inputs)) < r.depth
      BY <2>2, <2>3, <2>5
    <3>3. Sane(q) /\ Good(q)
      BY <2>7, <3>1, <3>2, EnterKeeps
    <3> QED
      BY <1>1, <3>3, PlainReached
  <2> QED
    BY <2>9, <2>10, <2>11, <2>12
<1> QED
  BY <1>3, <1>4, <1>5, <1>6

LEMMA EvarReached ==
  ASSUME NEW p, Good(p), Running(p),
         NEW c, c.op \in {"evar", "evar!"}
  PROVE  Reached(EvarParse(p, c), c)
<1> DEFINE q == EvarParse(p, c)
<1>1. c.op \notin Opening \cup Closing
  BY DEF Opening, Closing, Blocks, Closes
<1>2. Sane(p)
  BY DEF Good
<1>3. CASE c.bad
  BY <1>2, <1>3, FailReached DEF EvarParse, Errors
<1>4. CASE ~c.bad /\ c.arg = "missing" /\ c.op = "evar!"
  <2>1. q = Fail(p, "NOT_FOUND")
    BY <1>4 DEF EvarParse
  <2>2. Sane(q) /\ Good(q)
    BY <1>2, <2>1, FailKeeps
  <2> QED
    BY <1>1, <2>2, PlainReached
<1>5. CASE ~c.bad /\ ~(c.arg = "missing" /\ c.op = "evar!")
  <2>1. PICK r : r = Link(p, Node("evar", c.arg, Undef), "next")
    OBVIOUS
  <2>2. Good(r) /\ Sane(r)
    <3>1. PICK node : node = Node("evar", c.arg, Undef)
      OBVIOUS
    <3>2. r = Link(p, node, "next") /\ IsBlank(node)
      BY <2>1, <3>1, NodeIsBlank
    <3>3. Links(p, node, "next", r)
      BY <3>2, LinkLinks DEF Good, Sane
    <3>4. Good(r)
      BY <3>3, LinkKeeps DEF Fields
    <3> QED
      BY <3>4 DEF Good
  <2>3. q = IF c.arg = "missing" THEN r ELSE Enter(r, "evar")
    BY <1>5, <2>1 DEF EvarParse
  <2>4. Good(Enter(r, "evar")) /\ Sane(Enter(r, "evar"))
    BY <2>2, EnterKeeps
  <2>5. Good(q) /\ Sane(q)
    BY <2>2, <2>3, <2>4
  <2> QED
    BY <1>1, <2>5, PlainReached
<1> QED
  BY <1>3, <1>4, <1>5

(* The other commands that open a block.                                    *)
LEMMA BlockHandled ==
  ASSUME NEW p, Good(p), NEW c, c.op \in DOMAIN Blocks, NEW mode
  PROVE  Reached(Block(p, c, mode), c)
<1>1. CASE c.bad
  BY <1>1, FailReached DEF Block, Good, Errors
<1>2. CASE ~c.bad
  <2>1. PICK q : q = Link(p, Node(c.op, c.arg, mode), "case_0")
    OBVIOUS
  <2>2. DOMAIN q = Parts
    BY <2>1, NewLink DEF Fields
  <2>3. Same(q, q, {"next_stack", "is_modified", "macros"})
    BY <2>2 DEF Same
  <2>4. Reached(q, c)
    BY <2>1, <2>3, BlockReached
  <2> QED
    BY <1>2, <2>1, <2>4 DEF Block
<1> QED
  BY <1>1, <1>2

LEMMA LoopReached ==
  ASSUME NEW p, Good(p), NEW c, c.op \in DOMAIN Blocks
  PROVE  Reached(LoopParse(p, c), c)
<1>1. PICK q : q = Link(p, Node(c.op, c.arg, Undef), "case_0")
  OBVIOUS
<1>2. DOMAIN q = Parts
  BY <1>1, NewLink DEF Fields
<1>3. Same(q, q, {"next_stack", "is_modified", "macros"})
  BY <1>2 DEF Same
<1>4. Reached(q, c) /\ Sane(q)
  BY <1>1, <1>3, BlockReached
<1>5. Reached(Fail(q, "PARSE"), c)
  BY <1>4, FailReached DEF Errors
<1> QED
  BY <1>1, <1>4, <1>5 DEF LoopParse

LEMMA EscapeReached ==
  ASSUME NEW p, Good(p), NEW c, c.op \in DOMAIN Blocks
  PROVE  Reached(EscapeParse(p, c), c)
<1>1. CASE c.bad
  BY <1>1, FailReached DEF EscapeParse, Good, Errors
<1>2. CASE ~c.bad
  <2>1. PICK q : q = Link(p, Node(c.op, c.arg, Undef), "case_0")
    OBVIOUS
  <2>2. DOMAIN q = Parts
    BY <2>1, NewLink DEF Fields
  <2>3. PICK r : r = [q EXCEPT !.next_stack = c.arg, !.is_modified = TRUE]
    OBVIOUS
  <2>4. Same(q, r, {"next_stack", "is_modified", "macros"})
    BY <2>2, <2>3 DEF Same, Parts
  <2>5. Reached(r, c)
    BY <2>1, <2>4, BlockReached
  <2> QED
    BY <1>2, <2>1, <2>3, <2>5 DEF EscapeParse
<1> QED
  BY <1>1, <1>2

LEMMA DefReached ==
  ASSUME NEW p, Good(p), NEW c, c.op \in DOMAIN Blocks
  PROVE  Reached(DefParse(p, c), c)
<1>1. PICK q : q = [p EXCEPT !.next_stack = Undef, !.is_modified = TRUE]
  OBVIOUS
<1>2. Same(p, q, Aside \ {"inputs", "depth"})
  BY <1>1 DEF Same, Aside, Parts, Good, Sane, Typed
<1>3. Good(q) /\ Sane(q)
  BY <1>2, FlagsKeep DEF Good
<1>4. Reached(Fail(q, "PARSE"), c)
  BY <1>3, FailReached DEF Errors
<1>5. PICK r : r = Link(q, Node(c.op, c.arg, Undef), "case_0")
  OBVIOUS
<1>6. DOMAIN r = Parts
  BY <1>3, <1>5, NewLink DEF Fields
<1>7. PICK m : m = [k \in DOMAIN r.macros \cup {c.arg} |->
                       IF k = c.arg THEN r.current ELSE r.macros[k]]
  OBVIOUS
<1>8. PICK s : s = [r EXCEPT !.macros = m]
  OBVIOUS
<1>9. Same(r, s, {"next_stack", "is_modified", "macros"})
  BY <1>6, <1>8 DEF Same, Parts
<1>10. Reached(s, c)
  BY <1>3, <1>5, <1>9, BlockReached
<1> QED
  BY <1>1, <1>4, <1>5, <1>7, <1>8, <1>10 DEF DefParse

LEMMA CallReached ==
  ASSUME NEW p, Good(p), NEW c, c.op \notin Opening \cup Closing
  PROVE  Reached(CallParse(p, c), c)
<1>1. Reached(Fail(p, "PARSE"), c)
  BY FailReached DEF Errors, Good
<1>2. Reached(p, c)
  BY PlainReached
<1>3. PICK mode : mode = Top.escape
  OBVIOUS
<1>4. Reached(LeafParse(p, c, mode), c)
  BY LeafReached
<1> QED
  BY <1>1, <1>2, <1>3, <1>4 DEF CallParse, LeafParse

(* What every handler leaves behind.                                        *)
LEMMA HandlerReached ==
  ASSUME MAX_STACK_DEPTH \in Nat, NEW p, Good(p), p.stack = parse.stack, Running(p),
         NEW c, c.op \in Handled, Top.state \in AllowedState(c.op)
  PROVE  Reached(Handler(p, c), c)
<1>1. /\ DOMAIN Closes = {"endif", "endeach", "endwith", "enddef", "endloop", "endalt", "endescape"}
      /\ DOMAIN Blocks = {"if", "each", "with", "def", "loop", "alt", "escape"}
  BY DEF Closes, Blocks
<1>2. PICK op : op = c.op
  OBVIOUS
<1>3. CASE op \in DOMAIN Closes
  <2>1. PICK q : q = IF c.op = "endif" THEN EndifParse(p) ELSE EndParse(p)
    OBVIOUS
  <2>2. Reached(q, c)
    BY <1>2, <1>3, <2>1, CloseReached
  <2>3. Handler(p, c) = q
    BY <1>1, <1>2, <1>3, <2>1 DEF Handler
  <2> QED
    BY <2>2, <2>3
<1>4. CASE op \in {"else", "elif"}
  <2>1. op = "else" => Reached(ElseParse(p), c) /\ Handler(p, c) = ElseParse(p)
    BY <1>1, <1>2, ElseReached DEF Handler
  <2>2. op = "elif" => Reached(ElifParse(p, c), c) /\ Handler(p, c) = ElifParse(p, c)
    BY <1>1, <1>2, ElifReached DEF Handler
  <2> QED
    BY <1>4, <2>1, <2>2
<1>5. CASE op \in DOMAIN Blocks
  <2>1. op \in {"if", "each", "with"} => Handler(p, c) = Block(p, c, Undef)
    BY <1>1, <1>2 DEF Handler, IfParse, EachWithParse
  <2>2. op = "alt" => Handler(p, c) = Block(p, c, Top.escape)
    BY <1>1, <1>2 DEF Handler, AltParse
  <2>3. /\ op = "loop" => Handler(p, c) = LoopParse(p, c)
        /\ op = "escape" => Handler(p, c) = EscapeParse(p, c)
        /\ op = "def" => Handler(p, c) = DefParse(p, c)
    BY <1>1, <1>2 DEF Handler
  <2> QED
    BY <1>1, <1>2, <1>5, <2>1, <2>2, <2>3, BlockHandled, LoopReached, EscapeReached, DefReached
<1>6. CASE op \in {"include", "include!", "evar", "evar!"}
  <2>1. op \in {"include", "include!"} => Handler(p, c) = IncludeParse(p, c)
    BY <1>1, <1>2 DEF Handler
  <2>2. op \in {"evar", "evar!"} => Handler(p, c) = EvarParse(p, c)
    BY <1>1, <1>2 DEF Handler
  <2> QED
    BY <1>2, <1>6, <2>1, <2>2, IncludeReached, EvarReached
<1>7. CASE op \in {"call", "comment", "name", "var", "uvar", "lvar", "linclude", "content", "set"}
  <2>1. c.op \notin Opening \cup Closing
    BY <1>1, <1>2, <1>7 DEF Opening, Closing
  <2>2. /\ op = "call" => Handler(p, c) = CallParse(p, c)
        /\ op = "comment" => Handler(p, c) = p
    BY <1>1, <1>2 DEF Handler
  <2>3. op \notin {"call", "comment"} => \E mode : Handler(p, c) = LeafParse(p, c, mode)
    BY <1>1, <1>2, <1>7
    DEF Handler, NameParse, VarParse, LvarParse, LincludeParse, ContentTypeParse, SetParse
  <2> QED
    BY <2>1, <2>2, <2>3, CallReached, PlainReached, LeafReached
<1> QED
  BY <1>1, <1>2, <1>3, <1>4, <1>5, <1>6, <1>7 DEF Handled

-----------------------------------------------------------------------------
(* An error leaves the texts down to the include that takes it for its      *)
(* missing file.                                                            *)
LEMMA SettleKeeps ==
  ASSUME MAX_STACK_DEPTH \in Nat, NEW p, Sane(p), Running(p) \/ p.err = "NOT_FOUND" => Good(p),
         NEW q, q = Settle(p)
  PROVE  Sane(q) /\ (Running(q) => Good(q))
<1>1. CASE Running(p)
  BY <1>1 DEF Settle, Running
<1>2. CASE ~Running(p)
  <2>1. q = Unwind(p, p.err)
    BY <1>2 DEF Settle, Running
  <2>2. PICK S : p.inputs \in Seq(S)
    BY DEF Sane, Typed, IsList
  <2>3. PICK optional : optional = {i \in DOMAIN p.inputs : p.inputs[i].kind = "include"}
    OBVIOUS
  <2>4. PICK kept : kept = IF p.err = "NOT_FOUND" /\ optional # {} THEN Max(optional) ELSE 0
    OBVIOUS
  <2>5. kept \in 0 .. Len(p.inputs) /\ (kept > 0 => p.err = "NOT_FOUND")
    <3>1. optional \subseteq 1 .. Len(p.inputs) /\ Len(p.inputs) \in Nat
      BY <2>2, <2>3
    <3>2. IsFiniteSet(optional)
      <4>1. IsFiniteSet(1 .. Len(p.inputs))
        BY <3>1, FS_Interval
      <4> QED
        BY <3>1, <4>1, FS_Subset
    <3>3. optional # {} => Max(optional) \in optional
      <4>1. SUFFICES ASSUME optional # {} PROVE Max(optional) \in optional
        OBVIOUS
      <4>2. PICK m \in optional : \A n \in optional : n <= m
        BY <3>1, <3>2, <4>1, FiniteHasLast
      <4>3. \A n \in optional : m >= n
        BY <3>1, <4>2
      <4> QED
        BY <4>3 DEF Max
    <3>4. CASE p.err = "NOT_FOUND" /\ optional # {}
      <4>1. kept \in 1 .. Len(p.inputs)
        BY <2>4, <3>1, <3>3, <3>4
      <4> QED
        BY <3>1, <3>4, <4>1
    <3>5. CASE ~(p.err = "NOT_FOUND" /\ optional # {})
      <4>1. kept = 0
        BY <2>4, <3>5
      <4> QED
        BY <3>1, <4>1
    <3> QED
      BY <3>4, <3>5
  <2>6. PICK m : m = Max({kept - 1, 0})
    OBVIOUS
  <2>7. m \in 0 .. Len(p.inputs)
    <3>1. Len(p.inputs) \in Nat
      BY <2>2
    <3>2. kept - 1 \in Int /\ kept \in Nat /\ kept <= Len(p.inputs)
      BY <2>5, <3>1
    <3>3. PICK x \in {kept - 1, 0} : \A y \in {kept - 1, 0} : x >= y
      <4>1. CASE kept - 1 >= 0
        BY <3>2, <4>1
      <4>2. CASE ~(kept - 1 >= 0)
        BY <3>2, <4>2
      <4> QED
        BY <4>1, <4>2
    <3>4. m \in {kept - 1, 0} /\ \A y \in {kept - 1, 0} : m >= y
      BY <2>6, <3>3 DEF Max
    <3> QED
      BY <3>1, <3>2, <3>4
  <2>8. q = [p EXCEPT !.inputs = SubSeq(@, 1, m),
                      !.err = IF kept > 0 THEN NoError ELSE p.err,
                      !.recovered = @ \/ kept > 0]
    BY <2>1, <2>3, <2>4, <2>6 DEF Unwind
  <2>9. DOMAIN p = Parts
    BY DEF Sane, Typed
  <2>10. /\ Same(p, q, {"inputs", "err", "recovered"}) /\ q.inputs = SubSeq(p.inputs, 1, m)
         /\ q.err = IF kept > 0 THEN NoError ELSE p.err
    BY <2>8, <2>9 DEF Same, Parts
  <2>11. Same(p, q, {"inputs", "depth", "err", "recovered"}) /\ q.depth = p.depth
    BY <2>10 DEF Same, Parts
  <2>12. q.depth \in Nat /\ q.depth <= p.depth /\ Cardinality(Included(q.inputs)) <= q.depth
    <3>1. /\ Cardinality(Included(q.inputs)) <= Cardinality(Included(p.inputs))
          /\ q.inputs \in Seq(S)
      BY <2>2, <2>7, <2>10, IncludedShorter
    <3>2. Cardinality(Included(q.inputs)) \in Nat /\ Cardinality(Included(p.inputs)) \in Nat
      BY <2>2, <3>1, IncludedFinite
    <3>3. p.depth \in Nat /\ Cardinality(Included(p.inputs)) <= p.depth
      BY DEF Sane, Bounded
    <3> QED
      BY <2>11, <3>1, <3>2, <3>3
  <2>13. Sane(q) /\ (Good(p) => Good(q))
    BY <2>7, <2>10, <2>11, <2>12, ShorterKeeps
  <2>14. Running(q) => p.err = "NOT_FOUND"
    BY <1>2, <2>5, <2>10 DEF Running
  <2> QED
    BY <2>13, <2>14
<1> QED
  BY <1>1, <1>2

LEMMA LiteralKeeps ==
  ASSUME Good(parse), Running(parse), NEW p, p = Literal(parse)
  PROVE  /\ Good(p) /\ Sane(p) /\ Running(p) /\ DOMAIN p = Parts
         /\ p.stack = parse.stack /\ p.inputs = parse.inputs /\ p.depth = parse.depth
<1>1. p = Link(parse, Node("literal", None, Undef), "next")
  BY DEF Literal
<1>2. /\ Good(p) /\ Sane(p) /\ DOMAIN p = Parts
      /\ \A k \in Parts \ {"nodes", "next", "current"} : p[k] = parse[k]
  BY <1>1, NewLink DEF Fields
<1>3. p.stack = parse.stack /\ p.inputs = parse.inputs /\ p.depth = parse.depth /\ p.err = parse.err
  BY <1>2 DEF Parts
<1> QED
  BY <1>2, <1>3 DEF Running

LEMMA ReadCommandKeeps ==
  ASSUME ParserInv, NEW c \in Programs[program].commands, ReadCommand(c)
  PROVE  ParserInv'
<1>1. MAX_STACK_DEPTH \in Nat /\ c.op \in Handled
  BY CsParseAssumption DEF ParserInv
<1>2. Good(parse) /\ Running(parse)
  BY DEF ParserInv, ReadCommand, Reading, Running
<1>3. PICK p : p = Literal(parse)
  OBVIOUS
<1>4. Good(p) /\ Sane(p) /\ Running(p) /\ p.stack = parse.stack
  BY <1>2, <1>3, LiteralKeeps
<1>5. PICK q : q = IF Top.state \in AllowedState(c.op) THEN Handler(p, c) ELSE Fail(p, "PARSE")
  OBVIOUS
<1>6. Reached(q, c)
  <2>1. CASE Top.state \in AllowedState(c.op)
    BY <1>1, <1>4, <1>5, <2>1, HandlerReached
  <2>2. CASE Top.state \notin AllowedState(c.op)
    BY <1>4, <1>5, <2>2, FailReached DEF Errors
  <2> QED
    BY <2>1, <2>2
<1>7. PICK r : r = IF ~Running(q) THEN q ELSE Push(Pop(q, c), c)
  OBVIOUS
<1>8. parse' = Settle(r)
  BY <1>3, <1>5, <1>7 DEF ReadCommand, Running
<1>9. Sane(r) /\ (Running(r) \/ r.err = "NOT_FOUND" => Good(r))
  <2>1. CASE Running(q)
    BY <1>6, <1>7, <2>1 DEF Reached, Good
  <2>2. CASE ~Running(q)
    BY <1>6, <1>7, <2>2 DEF Reached
  <2> QED
    BY <2>1, <2>2
<1>10. Sane(parse') /\ (Running(parse') => Good(parse'))
  BY <1>1, <1>8, <1>9, SettleKeeps
<1>11. program' = program
  BY DEF ReadCommand
<1> QED
  BY <1>10, <1>11 DEF ParserInv, Running

LEMMA BadTagKeeps ==
  ASSUME ParserInv, BadTag
  PROVE  ParserInv'
<1>1. MAX_STACK_DEPTH \in Nat
  BY CsParseAssumption
<1>2. Good(parse) /\ Running(parse)
  BY DEF ParserInv, BadTag, Reading, Running
<1>3. PICK p : p = Literal(parse)
  OBVIOUS
<1>4. Sane(p)
  BY <1>2, <1>3, LiteralKeeps
<1>5. PICK q : q = Fail(p, "PARSE")
  OBVIOUS
<1>6. Sane(q) /\ q.err \in Errors
  BY <1>4, <1>5, FailKeeps DEF Errors
<1>7. Running(q) \/ q.err = "NOT_FOUND" => Good(q)
  BY <1>6, ErrorKinds
<1>8. parse' = Settle(q)
  BY <1>3, <1>5 DEF BadTag
<1>9. Sane(parse') /\ (Running(parse') => Good(parse'))
  BY <1>1, <1>6, <1>7, <1>8, SettleKeeps
<1> QED
  BY <1>9 DEF ParserInv, Running, BadTag

LEMMA EndOfTextKeeps ==
  ASSUME ParserInv, EndOfText
  PROVE  ParserInv'
<1>1. MAX_STACK_DEPTH \in Nat
  BY CsParseAssumption
<1>2. Good(parse) /\ Running(parse) /\ parse.inputs # <<>>
  BY DEF ParserInv, EndOfText, Reading, Running
<1>3. PICK p : p = Literal(parse)
  OBVIOUS
<1>4. /\ Good(p) /\ Sane(p) /\ DOMAIN p = Parts /\ p.inputs # <<>>
  BY <1>2, <1>3, LiteralKeeps
<1>5. CASE parse' = Settle(Fail(p, "PARSE"))
  <2>1. PICK q : q = Fail(p, "PARSE")
    OBVIOUS
  <2>2. Sane(q) /\ q.err \in Errors
    BY <1>4, <2>1, FailKeeps DEF Errors
  <2>3. Running(q) \/ q.err = "NOT_FOUND" => Good(q)
    BY <2>2, ErrorKinds
  <2>4. Sane(parse') /\ (Running(parse') => Good(parse'))
    BY <1>1, <1>5, <2>1, <2>2, <2>3, SettleKeeps
  <2> QED
    BY <2>4 DEF ParserInv, Running, EndOfText
<1>6. PICK n : n = Len(p.inputs)
  OBVIOUS
<1>7. PICK kind : kind = p.inputs[n].kind
  OBVIOUS
<1>8. CASE parse' = [p EXCEPT !.inputs = SubSeq(@, 1, Len(@) - 1),
                              !.depth = IF kind \in {"include", "include!"} THEN @ - 1 ELSE @]
  <2>1. PICK q : q = parse'
    OBVIOUS
  <2>2. /\ Same(p, q, {"inputs", "depth", "err", "recovered"}) /\ q.inputs = SubSeq(p.inputs, 1, n - 1)
        /\ q.depth = IF kind \in {"include", "include!"} THEN p.depth - 1 ELSE p.depth
    BY <1>4, <1>6, <1>8, <2>1 DEF Same, Parts
  <2>3. PICK S : p.inputs \in Seq(S)
    BY <1>4 DEF Sane, Typed, IsList
  <2>4. n \in Nat /\ n > 0 /\ n - 1 \in 0 .. n /\ DOMAIN p.inputs = 1 .. n /\ Len(p.inputs) = n
    BY <1>4, <1>6, <2>3
  <2>5. PICK I, J : I = Cardinality(Included(p.inputs)) /\ J = Cardinality(Included(q.inputs))
    OBVIOUS
  <2>6. /\ q.inputs \in Seq(S) /\ J <= I
        /\ n \in Included(p.inputs) => J < I
    <3>1. PICK m : m = n - 1
      OBVIOUS
    <3>2. m \in 0 .. Len(p.inputs) /\ q.inputs = SubSeq(p.inputs, 1, m) /\ m < Len(p.inputs)
      BY <2>2, <2>4, <3>1
    <3>3. /\ q.inputs \in Seq(S)
          /\ Cardinality(Included(q.inputs)) <= Cardinality(Included(p.inputs))
      BY <2>3, <3>2, IncludedShorter
    <3>4. Len(p.inputs) \in Included(p.inputs) =>
            Cardinality(Included(q.inputs)) < Cardinality(Included(p.inputs))
      BY <2>3, <3>2, IncludedShorter
    <3> QED
      BY <2>4, <2>5, <3>3, <3>4
  <2>7. I \in Nat /\ J \in Nat
    BY <2>3, <2>5, <2>6, IncludedFinite
  <2>8. n \in Included(p.inputs) <=> kind \in {"include", "include!"}
    BY <1>7, <2>4 DEF Included
  <2>9. p.depth \in Nat /\ I <= p.depth
    BY <1>4, <2>5 DEF Sane, Bounded
  <2>10. q.depth \in Nat /\ q.depth <= p.depth /\ J <= q.depth
    <3>1. CASE kind \in {"include", "include!"}
      BY <2>2, <2>6, <2>7, <2>8, <2>9, <3>1
    <3>2. CASE kind \notin {"include", "include!"}
      BY <2>2, <2>6, <2>7, <2>9, <3>2
    <3> QED
      BY <3>1, <3>2
  <2>11. Sane(q) /\ Good(q)
    BY <1>1, <1>4, <2>2, <2>4, <2>5, <2>10, ShorterKeeps
  <2> QED
    BY <2>1, <2>11 DEF ParserInv, EndOfText
<1> QED
  BY <1>3, <1>5, <1>6, <1>7, <1>8 DEF EndOfText

LEMMA ParseTextKeeps ==
  ASSUME ParserInv, ParseText
  PROVE  ParserInv'
<1>1. Good(parse) /\ Sane(parse)
  BY DEF ParserInv, ParseText, Running
<1>2. PICK q : q = Enter(parse, "text")
  OBVIOUS
<1>3. Good(q) /\ Sane(q)
  BY <1>1, <1>2, EnterKeeps
<1>4. PICK r : r = [q EXCEPT !.texts = @ + 1]
  OBVIOUS
<1>5. DOMAIN q = Parts
  BY <1>3 DEF Sane, Typed
<1>6. Same(q, r, Aside \ {"inputs", "depth"})
  BY <1>4, <1>5 DEF Same, Aside, Parts
<1>7. Good(r) /\ Sane(r)
  BY <1>3, <1>6, FlagsKeep
<1>8. parse' = r /\ program' = program
  BY <1>2, <1>4 DEF ParseText
<1> QED
  BY <1>7, <1>8 DEF ParserInv

LEMMA ParserInvInit ==
  ASSUME Init
  PROVE  ParserInv
<1>1. PICK mode, audit : parse = CsInit(mode, audit)
  BY DEF Init
<1>2. PICK n : n = Node("literal", None, Undef)
  OBVIOUS
<1>3. IsBlank(n)
  BY <1>2, NodeIsBlank
<1>4. PICK e : e = [state |-> "GLOBAL", tree |-> Root, next_tree |-> Null, escape |-> mode]
  OBVIOUS
<1>5. IsEntry(e) /\ e.state = "GLOBAL"
  BY <1>4 DEF IsEntry, States, Anywhere
<1>6. /\ DOMAIN parse = Parts /\ parse.nodes = <<n>> /\ parse.next = <<1, "next">>
      /\ parse.stack = <<e>> /\ parse.inputs = <<>> /\ parse.depth = 0
  BY <1>1, <1>2, <1>4 DEF CsInit, Parts, Root
<1>7. IsList(parse.nodes) /\ Ids(parse) = {1} /\ parse.nodes[1] = n
  <2>1. parse.nodes \in Seq({n})
    BY <1>6
  <2>2. IsList(parse.nodes)
    BY <2>1 DEF IsList
  <2>3. Len(parse.nodes) = 1 /\ parse.nodes[1] = n
    BY <1>6
  <2>4. 1 .. 1 = {1}
    OBVIOUS
  <2> QED
    BY <2>2, <2>3, <2>4 DEF Ids
<1>8. IsList(parse.stack) /\ Len(parse.stack) = 1 /\ parse.stack[1] = e
  <2>1. parse.stack \in Seq({e})
    BY <1>6
  <2>2. IsList(parse.stack)
    BY <2>1 DEF IsList
  <2>3. Len(parse.stack) = 1 /\ parse.stack[1] = e
    BY <1>6
  <2> QED
    BY <2>2, <2>3
<1>9. IsList(parse.inputs) /\ Len(parse.inputs) = 0 /\ Included(parse.inputs) = {}
  <2>1. parse.inputs \in Seq({})
    BY <1>6
  <2> QED
    BY <1>6, <2>1 DEF IsList, Included
<1>10. Typed(parse)
  BY <1>3, <1>5, <1>6, <1>7, <1>8, <1>9 DEF Typed, IsBlank
<1>11. \A x \in Pointers(parse) : At(parse, x) = Null
  BY <1>3, <1>7 DEF Pointers, At, IsBlank
<1>12. Whole(parse)
  BY <1>7, <1>11 DEF Whole, Root
<1>13. Bounded(parse)
  <2>1. MAX_STACK_DEPTH \in Nat /\ Cardinality({}) = 0
    BY CsParseAssumption, FS_EmptySet
  <2>2. 0 \in Nat /\ 0 <= MAX_STACK_DEPTH /\ 0 <= 0
    BY <2>1
  <2> QED
    BY <1>6, <1>9, <2>1, <2>2 DEF Bounded
<1>14. IsEmpty(parse, parse.next)
  BY <1>6, <1>7, <1>11 DEF IsEmpty, Pointers, Fields
<1>15. Nesting(parse)
  BY <1>5, <1>8 DEF Nesting
<1>16. program \in DOMAIN Programs
  BY DEF Init
<1> QED
  BY <1>10, <1>12, <1>13, <1>14, <1>15, <1>16 DEF ParserInv, Good, Sane

(* The invariant of the parser: while it runs, parse->next and the pointers *)
(* that the open blocks will go back to are empty and differ from each      *)
(* other, so that linking overwrites nothing.                               *)
THEOREM ParserInvariant == Spec => []ParserInv
<1>1. Init => ParserInv
  BY ParserInvInit
<1>2. ParserInv /\ [Next]_vars => ParserInv'
  <2> SUFFICES ASSUME ParserInv, [Next]_vars PROVE ParserInv'
    OBVIOUS
  <2>1. ASSUME NEW c \in Programs[program].commands, ReadCommand(c) PROVE ParserInv'
    BY <2>1, ReadCommandKeeps
  <2>2. CASE BadTag
    BY <2>2, BadTagKeeps
  <2>3. CASE EndOfText
    BY <2>3, EndOfTextKeeps
  <2>4. CASE ParseText
    BY <2>4, ParseTextKeeps
  <2>5. CASE UNCHANGED vars
    <3>1. parse' = parse /\ program' = program
      BY <2>5 DEF vars
    <3> QED
      BY <3>1 DEF ParserInv
  <2> QED
    BY <2>1, <2>2, <2>3, <2>4, <2>5 DEF Next
<1> QED
  BY <1>1, <1>2, PTL DEF Spec

(* No node is lost: each but the first is pointed at exactly once, since    *)
(* every pointer leads to a node that no other leads to (Whole).            *)
LEMMA NodesAreKept ==
  ASSUME ParserInv
  PROVE  NoNodeLost
<1>1. Typed(parse) /\ Whole(parse)
  BY DEF ParserInv, Sane
<1>2. Len(parse.nodes) \in Nat /\ DOMAIN parse.nodes = Ids(parse)
  BY <1>1 DEF Typed, IsList, Ids
<1>3. parse.err = NoError => parse.nodes[parse.next[1]][parse.next[2]] = Null
  BY DEF ParserInv, Running, Good, IsEmpty, At
<1>4. ASSUME NEW id \in 2 .. Len(parse.nodes)
      PROVE  Cardinality({x \in (DOMAIN parse.nodes) \X Fields :
                            parse.nodes[x[1]][x[2]] = id}) = 1
  <2>1. (DOMAIN parse.nodes) \X Fields = Pointers(parse)
    BY <1>2 DEF Pointers
  <2>2. id \in Ids(parse) /\ id # Root /\ id # Null
    BY <1>2 DEF Ids, Root, Null
  <2>3. PICK x \in Pointers(parse) : At(parse, x) = id
    BY <1>1, <2>2 DEF Whole
  <2>4. \A y \in Pointers(parse) : At(parse, y) = id => y = x
    BY <1>1, <2>2, <2>3 DEF Whole
  <2>5. {y \in Pointers(parse) : At(parse, y) = id} = {x}
    BY <2>3, <2>4
  <2>6. {y \in (DOMAIN parse.nodes) \X Fields :
           parse.nodes[y[1]][y[2]] = id} = {x}
    BY <2>1, <2>5 DEF At
  <2> QED
    BY <2>6, FS_Singleton
<1> QED
  BY <1>3, <1>4 DEF NoNodeLost

(* The parser is sound, for every alphabet of commands, every text over it  *)
(* and every limit: no node of the tree is lost, and includes are bounded.  *)
THEOREM ParserIsSound == Spec => []ParserSound
<1>1. ParserInv => NoNodeLost
  BY NodesAreKept
<1>2. ParserInv => NestingBounded
  BY DEF ParserInv, Sane, Bounded, Included, NestingBounded
<1>3. ParserInv => ParserSound
  BY <1>1, <1>2 DEF ParserSound
<1> QED
  BY <1>3, ParserInvariant, PTL
=============================================================================
