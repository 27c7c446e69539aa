----------------------------- MODULE UtilProofs -----------------------------
(* Safety of two small parts of util/, for any number of threads, names,   *)
(* filters and faults: the error codes and chains of neo_err.c, and the    *)
(* subprocess filters of filter.c.                                         *)
EXTENDS Errors, FiniteSetTheorems, WellFoundedInduction, TLAPS

CONSTANTS NumFilters, MaxFaults
VARIABLES held, files, child, result, faults

F == INSTANCE Filter
-----------------------------------------------------------------------------
(* The thread that holds InitLock, if it has not failed, is the one thread  *)
(* between mLock and mUnlock; the names it has registered are the first of  *)
(* Names; and no registration has begun when nobody registers.              *)
Holding == {"again", "list", "register", "unlock"}
Places == Holding \cup {"test", "lock", "ready", "failed"}
Registered(k) ==
  /\ Len(registry.names) = k
  /\ \A i \in 1 .. k : /\ registry.code[Names[i]] \in 1 .. k
                       /\ registry.names[registry.code[Names[i]]] = Names[i]

ErrorsTypeOK ==
  /\ registry \in [names : Seq(Codes), code : [Codes -> Nat], inited : BOOLEAN,
                   lock : Threads \cup {NoLock}, next : Nat \ {0}]
  /\ at \in [Threads -> Places]
  /\ err \in [Threads -> [codes : Seq(Nat), internal : BOOLEAN]]
  /\ heap \in [nodes : Nat, faults : Nat]

NotBegun == registry.lock = NoLock \/ at[registry.lock] \in Holding \ {"register"}
InitLockInv ==
  /\ \A t \in Threads : at[t] \in Holding => registry.lock = t
  /\ NotBegun => registry.next = 1
RegistryInv ==
  /\ registry.inited => Registered(Len(Names))
  /\ \A t \in Threads :
       /\ at[t] \in {"list", "register"} => ~registry.inited
       /\ at[t] \in {"unlock", "ready"} => registry.inited
       /\ at[t] = "register" => registry.next - 1 <= Len(Names) /\ Registered(registry.next - 1)
ChainsInv ==
  /\ \A t \in Threads : err[t] # None => at[t] = "ready"
  /\ ChainsExact
NodesInv == IsFiniteSet(Nodes) /\ ErrorsAccounted

ErrorsInv == ErrorsTypeOK /\ InitLockInv /\ RegistryInv /\ ChainsInv /\ NodesInv

(* The parts of the invariant that only the statements of nerr_init can     *)
(* disturb are kept by each of them (neo_err.c, nerr_init).                 *)
LEMMA RegistryStep ==
  ASSUME ErrorsAssumption, ErrorsTypeOK, InitLockInv, RegistryInv, NEW t \in Threads, InitCall(t)
  PROVE  /\ (ErrorsTypeOK /\ InitLockInv /\ RegistryInv)'
         /\ err' = err /\ heap'.nodes = heap.nodes
         /\ registry.inited => registry'.code = registry.code
         /\ \A u \in Threads : at[u] = "ready" => at'[u] = "ready"
<1>0. /\ NoLock \notin Threads /\ Names \in Seq(Codes) /\ Len(Names) \in Nat
      /\ \A i \in 1 .. Len(Names) : Names[i] \in Codes
  BY DEF ErrorsAssumption
<1>1. CASE Test(t)
  <2>1. registry' = registry /\ err' = err /\ heap' = heap
    BY <1>1 DEF Test
  <2>2. /\ at[t] = "test" /\ at' \in [Threads -> Places]
        /\ at'[t] = IF registry.inited THEN "ready" ELSE "lock"
        /\ \A u \in Threads \ {t} : at'[u] = at[u]
    BY <1>1 DEF Test, ErrorsTypeOK, Places, Holding
  <2>3. ErrorsTypeOK'
    BY <2>1, <2>2 DEF ErrorsTypeOK
  <2>4. NotBegun' => NotBegun
    BY <1>0, <2>1, <2>2 DEF NotBegun, Holding, ErrorsTypeOK
  <2>5. InitLockInv'
    BY <2>1, <2>2, <2>4 DEF InitLockInv, Holding
  <2>6. RegistryInv'
    BY <2>1, <2>2 DEF RegistryInv, Registered
  <2> QED BY <2>1, <2>2, <2>3, <2>5, <2>6
<1>2. CASE LockInit(t)
  <2>1. err' = err /\ heap' = heap /\ registry' = [registry EXCEPT !.lock = t] /\ registry.lock = NoLock
    BY <1>2 DEF LockInit
  <2>2. /\ at[t] = "lock" /\ at' \in [Threads -> Places]
        /\ at'[t] = "again"
        /\ \A u \in Threads \ {t} : at'[u] = at[u]
    BY <1>2 DEF LockInit, ErrorsTypeOK, Places, Holding
  <2>3. ErrorsTypeOK'
    BY <2>1, <2>2 DEF ErrorsTypeOK
  <2>4. /\ registry'.lock = t /\ registry'.next = registry.next /\ registry'.inited = registry.inited
        /\ registry'.names = registry.names /\ registry'.code = registry.code
    BY <2>1 DEF ErrorsTypeOK
  <2>5. InitLockInv'
    BY <1>0, <2>1, <2>2, <2>4 DEF InitLockInv, NotBegun, Holding
  <2>6. RegistryInv'
    BY <2>2, <2>4 DEF RegistryInv, Registered
  <2> QED BY <2>1, <2>2, <2>3, <2>4, <2>5, <2>6
<1>3. CASE TestAgain(t)
  <2>1. registry' = registry /\ err' = err /\ heap' = heap
    BY <1>3 DEF TestAgain
  <2>2. /\ at[t] = "again" /\ at' \in [Threads -> Places]
        /\ at'[t] = IF registry.inited THEN "unlock" ELSE "list"
        /\ \A u \in Threads \ {t} : at'[u] = at[u]
    BY <1>3 DEF TestAgain, ErrorsTypeOK, Places, Holding
  <2>3. ErrorsTypeOK'
    BY <2>1, <2>2 DEF ErrorsTypeOK
  <2>4. registry.lock = t /\ registry.next = 1
    BY <2>2 DEF InitLockInv, NotBegun, Holding
  <2>5. InitLockInv'
    BY <2>1, <2>2, <2>4 DEF InitLockInv, Holding
  <2>6. RegistryInv'
    BY <2>1, <2>2 DEF RegistryInv, Registered
  <2> QED BY <2>1, <2>2, <2>3, <2>5, <2>6
<1>4. CASE NewList(t)
  <2>1. err' = err /\ heap' = heap /\ registry' = [registry EXCEPT !.names = <<>>]
    BY <1>4 DEF NewList
  <2>2. /\ at[t] = "list" /\ at' \in [Threads -> Places]
        /\ at'[t] = "register"
        /\ \A u \in Threads \ {t} : at'[u] = at[u]
    BY <1>4 DEF NewList, ErrorsTypeOK, Places, Holding
  <2>3. /\ registry'.lock = registry.lock /\ registry'.next = registry.next /\ registry'.inited = registry.inited
        /\ registry'.names = <<>> /\ registry'.code = registry.code
    BY <2>1 DEF ErrorsTypeOK
  <2>4. ErrorsTypeOK'
    <3>1. <<>> \in Seq(Codes)
      OBVIOUS
    <3> QED BY <2>1, <2>2, <3>1 DEF ErrorsTypeOK
  <2>5. registry.lock = t /\ registry.next = 1 /\ ~registry.inited
    BY <2>2 DEF InitLockInv, NotBegun, Holding, RegistryInv
  <2>6. InitLockInv'
    BY <2>2, <2>3, <2>5 DEF InitLockInv, Holding
  <2>7. ASSUME NEW u \in Threads, at'[u] \in Holding \ {"again"} PROVE u = t
    BY <2>2, <2>5, <2>7 DEF InitLockInv, Holding
  <2>8. \A u \in Threads : at'[u] # "ready"
    BY <2>2, <2>5 DEF RegistryInv
  <2>9. Registered(0)'
    BY <2>3 DEF Registered
  <2>10. RegistryInv'
    BY <1>0, <2>2, <2>3, <2>5, <2>7, <2>8, <2>9 DEF RegistryInv, Holding
  <2> QED BY <2>1, <2>2, <2>3, <2>4, <2>6, <2>10
<1>5. CASE Register(t)
  <2>0. PICK k, n : k = registry.next - 1 /\ n = Names[registry.next]
    OBVIOUS
  <2>1. /\ err' = err /\ heap' = heap /\ at' = at /\ at[t] = "register" /\ registry.next <= Len(Names)
        /\ registry' = [registry EXCEPT !.names = Append(@, n), !.code[n] = Len(registry.names) + 1, !.next = @ + 1]
    BY <1>5, <2>0 DEF Register
  <2>2. registry.next \in Nat \ {0} /\ n \in Codes /\ k \in Nat /\ k + 1 = registry.next
    BY <1>0, <2>0, <2>1 DEF ErrorsTypeOK
  <2>3. registry.lock = t /\ ~registry.inited /\ Registered(k)
    BY <2>0, <2>1 DEF InitLockInv, Holding, RegistryInv
  <2>4. /\ registry'.lock = registry.lock /\ registry'.next = registry.next + 1 /\ registry'.inited = registry.inited
        /\ registry'.names = Append(registry.names, n)
        /\ registry'.code = [registry.code EXCEPT ![n] = Len(registry.names) + 1]
    BY <2>1 DEF ErrorsTypeOK
  <2>5. /\ registry.names \in Seq(Codes) /\ registry'.names \in Seq(Codes) /\ Len(registry'.names) = k + 1
        /\ registry'.names[k + 1] = n
        /\ \A j \in 1 .. k : registry'.names[j] = registry.names[j]
    BY <2>2, <2>3, <2>4 DEF ErrorsTypeOK, Registered
  <2>6. /\ registry'.code \in [Codes -> Nat] /\ registry'.code[n] = k + 1
        /\ \A m \in Codes \ {n} : registry'.code[m] = registry.code[m]
    BY <2>2, <2>3, <2>4 DEF ErrorsTypeOK, Registered
  <2>7. ErrorsTypeOK'
    <3>1. registry' \in [names : Seq(Codes), code : [Codes -> Nat], inited : BOOLEAN,
                         lock : Threads \cup {NoLock}, next : Nat \ {0}]
      <4>1. registry' = [names |-> registry'.names, code |-> registry'.code, inited |-> registry.inited,
                         lock |-> registry.lock, next |-> registry.next + 1]
        BY <2>1 DEF ErrorsTypeOK
      <4>2. /\ registry.next + 1 \in Nat \ {0} /\ registry.inited \in BOOLEAN
            /\ registry.lock \in Threads \cup {NoLock}
        BY <2>2 DEF ErrorsTypeOK
      <4> QED BY <2>5, <2>6, <4>1, <4>2
    <3> QED BY <2>1, <3>1 DEF ErrorsTypeOK
  <2>8. InitLockInv'
    BY <1>0, <2>1, <2>3, <2>4 DEF InitLockInv, NotBegun, Holding
  <2>9. Registered(k + 1)'
    <3> SUFFICES ASSUME NEW i \in 1 .. k + 1
                 PROVE  /\ registry'.code[Names[i]] \in 1 .. k + 1
                        /\ registry'.names[registry'.code[Names[i]]] = Names[i]
      BY <2>5, <2>2 DEF Registered
    <3>1. Names[i] \in Codes
      BY <1>0, <2>0, <2>1, <2>2
    <3>2. CASE Names[i] = n
      <4>1. registry'.code[Names[i]] = k + 1
        BY <2>6, <3>2
      <4> QED BY <2>2, <2>5, <3>2, <4>1
    <3>3. CASE Names[i] # n
      <4>1. i \in 1 .. k
        BY <2>0, <2>2, <3>3
      <4>2. registry.code[Names[i]] \in 1 .. k /\ registry.names[registry.code[Names[i]]] = Names[i]
        BY <2>3, <4>1 DEF Registered
      <4>3. registry'.code[Names[i]] = registry.code[Names[i]]
        BY <2>6, <3>1, <3>3
      <4>4. registry'.names[registry.code[Names[i]]] = registry.names[registry.code[Names[i]]]
        BY <2>5, <4>2
      <4>5. registry.code[Names[i]] \in 1 .. k + 1
        BY <2>2, <4>2
      <4> QED BY <4>2, <4>3, <4>4, <4>5
    <3> QED BY <3>2, <3>3
  <2>10. \A u \in Threads : /\ at'[u] \notin {"unlock", "ready"}
                            /\ at'[u] \in {"list", "register"} => u = t
    BY <2>1, <2>3 DEF InitLockInv, RegistryInv, Holding
  <2>11. registry'.next - 1 = k + 1 /\ k + 1 <= Len(Names)
    BY <2>1, <2>2, <2>4
  <2>12. RegistryInv'
    <3>1. Registered(registry.next - 1)'
      BY <2>9, <2>11
    <3> QED BY <2>3, <2>4, <2>10, <2>11, <3>1 DEF RegistryInv
  <2> QED BY <2>1, <2>3, <2>7, <2>8, <2>12
<1>6. CASE RegisterFails(t)
  <2>1. /\ registry' = registry /\ err' = err /\ heap' = [heap EXCEPT !.faults = @ + 1]
        /\ at[t] \in {"list", "register"}
    BY <1>6 DEF RegisterFails
  <2>2. /\ at' \in [Threads -> Places]
        /\ at'[t] = "failed"
        /\ \A u \in Threads \ {t} : at'[u] = at[u]
    BY <1>6 DEF RegisterFails, ErrorsTypeOK, Places, Holding
  <2>3. ErrorsTypeOK'
    BY <2>1, <2>2 DEF ErrorsTypeOK
  <2>4. registry.lock = t /\ ~registry.inited
    BY <2>1 DEF InitLockInv, Holding, RegistryInv
  <2>5. InitLockInv'
    BY <1>0, <2>1, <2>2, <2>4 DEF InitLockInv, NotBegun, Holding
  <2>6. RegistryInv'
    BY <2>1, <2>2 DEF RegistryInv, Registered
  <2>7. heap'.nodes = heap.nodes
    BY <2>1 DEF ErrorsTypeOK
  <2> QED BY <2>1, <2>2, <2>3, <2>5, <2>6, <2>7
<1>7. CASE Inited(t)
  <2>1. /\ err' = err /\ heap' = heap /\ registry' = [registry EXCEPT !.inited = TRUE, !.next = 1]
        /\ at[t] = "register" /\ registry.next > Len(Names)
    BY <1>7 DEF Inited
  <2>2. /\ at' \in [Threads -> Places]
        /\ at'[t] = "unlock"
        /\ \A u \in Threads \ {t} : at'[u] = at[u]
    BY <1>7 DEF Inited, ErrorsTypeOK, Places, Holding
  <2>3. /\ registry'.lock = registry.lock /\ registry'.next = 1 /\ registry'.inited
        /\ registry'.names = registry.names /\ registry'.code = registry.code
    BY <2>1 DEF ErrorsTypeOK
  <2>4. ErrorsTypeOK'
    <3>1. 1 \in Nat \ {0}
      OBVIOUS
    <3> QED BY <2>1, <2>2, <3>1 DEF ErrorsTypeOK
  <2>5. registry.lock = t
    BY <2>1 DEF InitLockInv, Holding
  <2>6. InitLockInv'
    BY <2>2, <2>3, <2>5 DEF InitLockInv, Holding
  <2>7. registry.next - 1 = Len(Names)
    BY <1>0, <2>1 DEF ErrorsTypeOK, RegistryInv
  <2>8. Registered(Len(Names))
    BY <2>1, <2>7 DEF RegistryInv
  <2>9. Registered(Len(Names))'
    BY <2>3, <2>8 DEF Registered
  <2>10. \A u \in Threads : at'[u] \notin {"list", "register"}
    BY <2>2, <2>5 DEF InitLockInv, Holding
  <2>11. RegistryInv'
    BY <2>3, <2>9, <2>10 DEF RegistryInv
  <2> QED BY <2>1, <2>2, <2>3, <2>4, <2>6, <2>11
<1>8. CASE UnlockInit(t)
  <2>1. err' = err /\ heap' = heap /\ registry' = [registry EXCEPT !.lock = NoLock]
    BY <1>8 DEF UnlockInit
  <2>2. /\ at[t] = "unlock" /\ at' \in [Threads -> Places]
        /\ at'[t] = "ready"
        /\ \A u \in Threads \ {t} : at'[u] = at[u]
    BY <1>8 DEF UnlockInit, ErrorsTypeOK, Places, Holding
  <2>3. /\ registry'.lock = NoLock /\ registry'.next = registry.next /\ registry'.inited = registry.inited
        /\ registry'.names = registry.names /\ registry'.code = registry.code
    BY <2>1 DEF ErrorsTypeOK
  <2>4. ErrorsTypeOK'
    BY <2>1, <2>2 DEF ErrorsTypeOK
  <2>5. registry.lock = t /\ registry.next = 1
    BY <2>2 DEF InitLockInv, NotBegun, Holding
  <2>6. InitLockInv'
    BY <2>2, <2>3, <2>5 DEF InitLockInv, Holding
  <2>7. RegistryInv'
    BY <2>2, <2>3 DEF RegistryInv, Registered
  <2> QED BY <2>1, <2>2, <2>3, <2>4, <2>6, <2>7
<1> QED BY <1>1, <1>2, <1>3, <1>4, <1>5, <1>6, <1>7, <1>8 DEF InitCall
(* The nodes are the pairs of a thread and a place in its chain.            *)
LEMMA NodesMember ==
  ErrorsTypeOK => Nodes = {x \in Threads \X Nat : x[2] \in 1 .. Len(err[x[1]].codes)}
<1> SUFFICES ASSUME ErrorsTypeOK
             PROVE  Nodes = {x \in Threads \X Nat : x[2] \in 1 .. Len(err[x[1]].codes)}
  OBVIOUS
<1>1. \A t \in Threads : DOMAIN err[t].codes = 1 .. Len(err[t].codes) /\ Len(err[t].codes) \in Nat
  BY DEF ErrorsTypeOK
<1>2. ASSUME NEW x \in Nodes
      PROVE  x \in Threads \X Nat /\ x[2] \in 1 .. Len(err[x[1]].codes)
  <2>1. PICK t \in Threads : x \in {t} \X DOMAIN err[t].codes
    BY <1>2 DEF Nodes
  <2>2. x = <<t, x[2]>> /\ x[1] = t /\ x[2] \in 1 .. Len(err[t].codes)
    BY <1>1, <2>1
  <2>3. x[2] \in Nat
    BY <1>1, <2>2
  <2> QED BY <2>2, <2>3
<1>3. ASSUME NEW x \in Threads \X Nat, x[2] \in 1 .. Len(err[x[1]].codes)
      PROVE  x \in Nodes
  <2>1. x = <<x[1], x[2]>> /\ x[1] \in Threads
    OBVIOUS
  <2>2. x \in {x[1]} \X DOMAIN err[x[1]].codes
    BY <1>1, <1>3, <2>1
  <2> QED BY <2>1, <2>2 DEF Nodes
<1> QED BY <1>2, <1>3

(* A chain that becomes longer by a node has one node more (_err_alloc).    *)
LEMMA NodeAdded ==
  ASSUME ErrorsTypeOK, ErrorsTypeOK', NodesInv, NEW t \in Threads,
         Len(err'[t].codes) = Len(err[t].codes) + 1,
         \A u \in Threads \ {t} : err'[u] = err[u],
         heap'.nodes = heap.nodes + 1
  PROVE  NodesInv'
<1>0. PICK n \in Nat : n = Len(err[t].codes)
  BY DEF ErrorsTypeOK
<1>1. Nodes' = {x \in Threads \X Nat : x[2] \in 1 .. Len(err'[x[1]].codes)}
  <2>1. (ErrorsTypeOK => Nodes = {x \in Threads \X Nat : x[2] \in 1 .. Len(err[x[1]].codes)})'
    BY NodesMember, PTL
  <2> QED BY <2>1
<1>2. Nodes = {x \in Threads \X Nat : x[2] \in 1 .. Len(err[x[1]].codes)}
  BY NodesMember
<1>3. Nodes' = Nodes \cup {<<t, n + 1>>}
  <2>1. ASSUME NEW x \in Threads \X Nat
        PROVE  x \in Nodes' <=> x \in Nodes \/ x = <<t, n + 1>>
    <3>1. CASE x[1] = t
      BY <1>0, <1>1, <1>2, <3>1
    <3>2. CASE x[1] # t
      BY <1>1, <1>2, <3>2
    <3> QED BY <3>1, <3>2
  <2>2. <<t, n + 1>> \in Threads \X Nat
    BY <1>0
  <2> QED BY <1>1, <1>2, <2>1, <2>2
<1>4. <<t, n + 1>> \notin Nodes
  BY <1>0, <1>2
<1>5. IsFiniteSet(Nodes') /\ Cardinality(Nodes') = Cardinality(Nodes) + 1
  BY <1>3, <1>4, FS_AddElement DEF NodesInv
<1> QED BY <1>5 DEF NodesInv, ErrorsAccounted

(* A chain that is freed takes all its nodes with it (_err_free).           *)
LEMMA NodesFreed ==
  ASSUME ErrorsTypeOK, NodesInv, NEW t \in Threads, Free(t)
  PROVE  NodesInv' /\ heap'.nodes \in Nat
<1>0. PICK n \in Nat : n = Len(err[t].codes)
  BY DEF ErrorsTypeOK
<1>1. /\ err' \in [Threads -> [codes : Seq(Nat), internal : BOOLEAN]]
      /\ err'[t].codes = <<>> /\ \A u \in Threads \ {t} : err'[u] = err[u]
  <2>1. None \in [codes : Seq(Nat), internal : BOOLEAN] /\ None.codes = <<>>
    BY DEF None
  <2> QED BY <2>1 DEF Free, ErrorsTypeOK
<1>2. Nodes = {x \in Threads \X Nat : x[2] \in 1 .. Len(err[x[1]].codes)}
  BY NodesMember
<1>3. Nodes' = Nodes \ ({t} \X (1 .. n))
  <2>1. \A u \in Threads : DOMAIN err'[u].codes = 1 .. Len(err'[u].codes)
    BY <1>1
  <2>2. DOMAIN err'[t].codes = {}
    BY <1>1
  <2>3. Nodes' = UNION {{u} \X DOMAIN err'[u].codes : u \in Threads}
    BY DEF Nodes
  <2>4. Nodes = UNION {{u} \X DOMAIN err[u].codes : u \in Threads}
    BY DEF Nodes
  <2>5. DOMAIN err[t].codes = 1 .. n
    BY <1>0 DEF ErrorsTypeOK
  <2>6. ASSUME NEW x \in Nodes' PROVE x \in Nodes /\ x \notin {t} \X (1 .. n)
    <3>1. PICK u \in Threads : x \in {u} \X DOMAIN err'[u].codes
      BY <2>3, <2>6
    <3>2. u # t
      BY <2>2, <3>1
    <3>3. x \in {u} \X DOMAIN err[u].codes
      BY <1>1, <3>1, <3>2
    <3>4. x[1] = u
      BY <3>1
    <3> QED BY <2>4, <3>2, <3>3, <3>4
  <2>7. ASSUME NEW x \in Nodes, x \notin {t} \X (1 .. n) PROVE x \in Nodes'
    <3>1. PICK u \in Threads : x \in {u} \X DOMAIN err[u].codes
      BY <2>4, <2>7
    <3>2. u # t
      BY <2>5, <2>7, <3>1
    <3>3. x \in {u} \X DOMAIN err'[u].codes
      BY <1>1, <3>1, <3>2
    <3> QED BY <2>3, <3>3
  <2> QED BY <2>6, <2>7
<1>4. {t} \X (1 .. n) \subseteq Nodes
  BY <1>0, <1>2
<1>5. IsFiniteSet({t} \X (1 .. n)) /\ Cardinality({t} \X (1 .. n)) = n
  <2>1. IsFiniteSet({t}) /\ Cardinality({t}) = 1
    BY FS_Singleton
  <2>2. IsFiniteSet(1 .. n) /\ Cardinality(1 .. n) = n
    BY FS_Interval
  <2>3. /\ IsFiniteSet({t} \X (1 .. n))
        /\ Cardinality({t} \X (1 .. n)) = Cardinality({t}) * Cardinality(1 .. n)
    BY <2>1, <2>2, FS_Product
  <2> QED BY <2>1, <2>2, <2>3
<1>6. Nodes \cap ({t} \X (1 .. n)) = {t} \X (1 .. n)
  BY <1>4
<1>7. IsFiniteSet(Nodes') /\ Cardinality(Nodes') = Cardinality(Nodes) - n
  <2>1. IsFiniteSet(Nodes)
    BY DEF NodesInv
  <2>2. /\ IsFiniteSet(Nodes \ ({t} \X (1 .. n)))
        /\ Cardinality(Nodes \ ({t} \X (1 .. n)))
             = Cardinality(Nodes) - Cardinality(Nodes \cap ({t} \X (1 .. n)))
    BY <2>1, FS_Difference
  <2> QED BY <1>3, <1>5, <1>6, <2>2
<1>8. Cardinality(Nodes') \in Nat
  BY <1>7, FS_CardinalityType
<1>9. heap'.nodes = heap.nodes - n
  BY <1>0 DEF Free, ErrorsTypeOK
<1> QED BY <1>7, <1>8, <1>9 DEF NodesInv, ErrorsAccounted
(* A thread's own error becomes a chain of the right codes, and the others  *)
(* keep theirs (neo_err.c, nerr_raise, nerr_pass, nerr_handle).             *)
LEMMA ErrorStep ==
  ASSUME ErrorsAssumption, ErrorsInv, NEW t \in Threads, Ready(t),
         ErrorsTypeOK', NodesInv',
         \A u \in Threads \ {t} : err'[u] = err[u],
         \A i \in DOMAIN err'[t].codes :
           err'[t].codes[i] = registry.code[Pass] <=> i < Len(err'[t].codes) \/ err'[t].internal
  PROVE  ErrorsInv'
<1>1. registry' = registry /\ at' = at /\ at[t] = "ready"
  BY DEF Ready
<1>2. InitLockInv' /\ RegistryInv'
  BY <1>1 DEF ErrorsInv, InitLockInv, NotBegun, RegistryInv, Registered
<1>3. ChainsExact'
  BY <1>1 DEF ErrorsInv, ChainsInv, ChainsExact
<1>4. ChainsInv'
  BY <1>1, <1>3 DEF ErrorsInv, ChainsInv
<1> QED BY <1>2, <1>4 DEF ErrorsInv

(* Every code is that of its own name once a thread has been let go.        *)
LEMMA CodesKnown ==
  ASSUME ErrorsAssumption, ErrorsTypeOK, RegistryInv, NEW t \in Threads, at[t] = "ready", NEW n \in Codes
  PROVE  /\ registry.code[n] \in 1 .. Len(registry.names)
         /\ registry.names[registry.code[n]] = n
         /\ n # Pass => registry.code[n] # registry.code[Pass]
<1>1. Registered(Len(Names))
  BY DEF RegistryInv
<1>2. ASSUME NEW m \in Codes
      PROVE  registry.code[m] \in 1 .. Len(registry.names) /\ registry.names[registry.code[m]] = m
  <2>1. PICK i \in 1 .. Len(Names) : Names[i] = m
    BY DEF ErrorsAssumption, Codes, Range
  <2> QED BY <1>1, <2>1 DEF Registered
<1>3. Pass \in Codes
  BY DEF Pass, Codes, Range, ErrorsAssumption
<1> QED BY <1>2, <1>3

(* What _err_alloc does to the memory, with and without success.            *)
LEMMA HeapGrows ==
  ASSUME heap \in [nodes : Nat, faults : Nat], Allocate
  PROVE  heap' \in [nodes : Nat, faults : Nat] /\ heap'.nodes = heap.nodes + 1
BY DEF Allocate

(* The same when there is no memory.                                        *)
LEMMA HeapFails ==
  ASSUME heap \in [nodes : Nat, faults : Nat], NoMemory
  PROVE  heap' \in [nodes : Nat, faults : Nat] /\ heap'.nodes = heap.nodes
BY DEF NoMemory

(* nerr_raise: a new chain, or INTERNAL_ERR.                                *)
LEMMA RaiseStep ==
  ASSUME ErrorsAssumption, ErrorsInv, NEW t \in Threads, NEW n \in Codes \ {Pass}, Raise(t, n)
  PROVE  ErrorsInv'
<1>0. /\ Ready(t) /\ at[t] = "ready" /\ registry' = registry /\ at' = at /\ err[t] = None
      /\ ErrorsTypeOK /\ RegistryInv /\ NodesInv
  BY DEF Raise, Ready, ErrorsInv
<1>1. registry.code[n] \in Nat /\ registry.code[n] # registry.code[Pass]
  <2>1. registry.code \in [Codes -> Nat]
    BY <1>0 DEF ErrorsTypeOK
  <2> QED BY <1>0, <2>1, CodesKnown
<1>2. CASE Allocate /\ err' = [err EXCEPT ![t].codes = <<registry.code[n]>>]
  <2>1. /\ err' \in [Threads -> [codes : Seq(Nat), internal : BOOLEAN]]
        /\ err'[t].codes = <<registry.code[n]>> /\ err'[t].internal = FALSE
        /\ \A u \in Threads \ {t} : err'[u] = err[u]
    <3>1. <<registry.code[n]>> \in Seq(Nat)
      BY <1>1
    <3>2. err \in [Threads -> [codes : Seq(Nat), internal : BOOLEAN]] /\ err[t].internal = FALSE
      BY <1>0 DEF ErrorsTypeOK, None
    <3> QED BY <1>2, <3>1, <3>2
  <2>2. heap' \in [nodes : Nat, faults : Nat] /\ heap'.nodes = heap.nodes + 1
    BY <1>0, <1>2, HeapGrows DEF ErrorsTypeOK
  <2>3. ErrorsTypeOK'
    BY <1>0, <2>1, <2>2 DEF ErrorsTypeOK
  <2>4. Len(err'[t].codes) = Len(err[t].codes) + 1
    BY <1>0, <2>1 DEF None
  <2>5. NodesInv'
    BY <1>0, <2>1, <2>2, <2>3, <2>4, NodeAdded
  <2>6. \A i \in DOMAIN err'[t].codes :
          err'[t].codes[i] = registry.code[Pass] <=> i < Len(err'[t].codes) \/ err'[t].internal
    BY <1>1, <2>1
  <2> QED BY <1>0, <2>1, <2>3, <2>5, <2>6, ErrorStep
<1>3. CASE NoMemory /\ err' = [err EXCEPT ![t].internal = TRUE]
  <2>1. /\ err' \in [Threads -> [codes : Seq(Nat), internal : BOOLEAN]]
        /\ err'[t].codes = err[t].codes
        /\ \A u \in Threads \ {t} : err'[u] = err[u]
    BY <1>0, <1>3 DEF ErrorsTypeOK
  <2>2. heap' \in [nodes : Nat, faults : Nat] /\ heap'.nodes = heap.nodes
    BY <1>0, <1>3, HeapFails DEF ErrorsTypeOK
  <2>3. ErrorsTypeOK'
    BY <1>0, <2>1, <2>2 DEF ErrorsTypeOK
  <2>4. \A u \in Threads : err'[u].codes = err[u].codes
    BY <2>1
  <2>5. NodesInv'
    BY <1>0, <2>2, <2>4 DEF NodesInv, Nodes, ErrorsAccounted
  <2>6. DOMAIN err'[t].codes = {}
    BY <1>0, <2>1 DEF None
  <2> QED BY <1>0, <2>1, <2>3, <2>5, <2>6, ErrorStep
<1> QED BY <1>2, <1>3 DEF Raise

(* nerr_pass: a node in front of the chain, or the chain as it was.         *)
LEMMA PassOnStep ==
  ASSUME ErrorsAssumption, ErrorsInv, NEW t \in Threads, PassOn(t)
  PROVE  ErrorsInv'
<1>0. /\ Ready(t) /\ at[t] = "ready" /\ registry' = registry /\ at' = at /\ err[t] # None
      /\ ErrorsTypeOK /\ RegistryInv /\ NodesInv /\ ChainsExact
  BY DEF PassOn, Ready, ErrorsInv, ChainsInv
<1>1. PICK c, s : c = registry.code[Pass] /\ s = err[t].codes
  OBVIOUS
<1>2. c \in Nat /\ s \in Seq(Nat) /\ err[t].internal \in BOOLEAN
  <2>1. Pass \in Codes
    BY DEF Pass, Codes, Range, ErrorsAssumption
  <2> QED BY <1>0, <1>1, <2>1 DEF ErrorsTypeOK
<1>3. CASE Allocate /\ err' = [err EXCEPT ![t].codes = <<c>> \o @]
  <2>1. <<c>> \o s \in Seq(Nat) /\ Len(<<c>> \o s) = Len(s) + 1
    BY <1>2
  <2>2. (<<c>> \o s)[1] = c /\ \A i \in 2 .. Len(s) + 1 : (<<c>> \o s)[i] = s[i - 1]
    BY <1>2
  <2>3. /\ err' \in [Threads -> [codes : Seq(Nat), internal : BOOLEAN]]
        /\ err'[t].codes = <<c>> \o s /\ err'[t].internal = err[t].internal
        /\ \A u \in Threads \ {t} : err'[u] = err[u]
    BY <1>0, <1>1, <1>3, <2>1 DEF ErrorsTypeOK
  <2>4. heap' \in [nodes : Nat, faults : Nat] /\ heap'.nodes = heap.nodes + 1
    BY <1>0, <1>3, HeapGrows DEF ErrorsTypeOK
  <2>5. ErrorsTypeOK'
    BY <1>0, <2>3, <2>4 DEF ErrorsTypeOK
  <2>6. NodesInv'
    BY <1>0, <1>1, <2>1, <2>3, <2>4, <2>5, NodeAdded
  <2>7. s = <<>> => err[t].internal
    BY <1>0, <1>1, <1>2 DEF None, ErrorsTypeOK
  <2>8. ASSUME NEW i \in DOMAIN err'[t].codes
        PROVE  err'[t].codes[i] = registry.code[Pass] <=> i < Len(err'[t].codes) \/ err'[t].internal
    <3>1. i \in 1 .. Len(s) + 1
      BY <2>1, <2>3
    <3>2. CASE i = 1
      BY <1>1, <1>2, <2>1, <2>2, <2>3, <2>7, <3>2
    <3>3. CASE i # 1
      <4>1. i \in 2 .. Len(s) + 1 /\ i - 1 \in 1 .. Len(s)
        BY <1>2, <3>1, <3>3
      <4>2. s[i - 1] = c <=> i - 1 < Len(s) \/ err[t].internal
        BY <1>0, <1>1, <1>2, <4>1, SMTT(30) DEF ChainsExact
      <4>3. i - 1 < Len(s) <=> i < Len(s) + 1
        BY <1>2, <4>1
      <4> QED BY <1>1, <2>1, <2>2, <2>3, <4>1, <4>2, <4>3
    <3> QED BY <3>2, <3>3
  <2> QED BY <1>0, <2>3, <2>5, <2>6, <2>8, ErrorStep
<1>4. CASE NoMemory /\ UNCHANGED err
  <2>1. heap' \in [nodes : Nat, faults : Nat] /\ heap'.nodes = heap.nodes
    BY <1>0, <1>4, HeapFails DEF ErrorsTypeOK
  <2>2. ErrorsTypeOK'
    BY <1>0, <1>4, <2>1 DEF ErrorsTypeOK
  <2>3. NodesInv'
    BY <1>0, <1>4, <2>1 DEF NodesInv, Nodes, ErrorsAccounted
  <2>4. \A i \in DOMAIN err'[t].codes :
          err'[t].codes[i] = registry.code[Pass] <=> i < Len(err'[t].codes) \/ err'[t].internal
    BY <1>0, <1>4 DEF ChainsExact
  <2> QED BY <1>0, <1>4, <2>2, <2>3, <2>4, ErrorStep
<1> QED BY <1>1, <1>3, <1>4 DEF PassOn

(* nerr_ignore and nerr_handle: the chain is freed.                         *)
LEMMA FreeStep ==
  ASSUME ErrorsAssumption, ErrorsInv, NEW t \in Threads, Ready(t), Free(t)
  PROVE  ErrorsInv'
<1>0. registry' = registry /\ at' = at /\ ErrorsTypeOK /\ NodesInv
  BY DEF Ready, ErrorsInv
<1>1. NodesInv' /\ heap'.nodes \in Nat
  BY <1>0, NodesFreed
<1>2. /\ err' \in [Threads -> [codes : Seq(Nat), internal : BOOLEAN]]
      /\ err'[t].codes = <<>> /\ \A u \in Threads \ {t} : err'[u] = err[u]
  <2>1. None \in [codes : Seq(Nat), internal : BOOLEAN] /\ None.codes = <<>>
    BY DEF None
  <2> QED BY <1>0, <2>1 DEF Free, ErrorsTypeOK
<1>3. heap' \in [nodes : Nat, faults : Nat]
  BY <1>0, <1>1 DEF Free, ErrorsTypeOK
<1>4. ErrorsTypeOK'
  BY <1>0, <1>2, <1>3 DEF ErrorsTypeOK
<1>5. DOMAIN err'[t].codes = {}
  BY <1>2
<1> QED BY <1>1, <1>2, <1>4, <1>5, ErrorStep

(* nerr_handle of INTERNAL_ERR by itself.                                   *)
LEMMA HandleInternalStep ==
  ASSUME ErrorsAssumption, ErrorsInv, NEW t \in Threads, HandleInternal(t)
  PROVE  ErrorsInv'
<1>0. /\ Ready(t) /\ registry' = registry /\ at' = at /\ ErrorsTypeOK /\ NodesInv
      /\ heap' = heap /\ err[t].codes = <<>>
  BY DEF HandleInternal, Ready, ErrorsInv
<1>1. /\ err' \in [Threads -> [codes : Seq(Nat), internal : BOOLEAN]]
      /\ err'[t].codes = <<>> /\ \A u \in Threads \ {t} : err'[u] = err[u]
  <2>1. None \in [codes : Seq(Nat), internal : BOOLEAN] /\ None.codes = <<>>
    BY DEF None
  <2> QED BY <1>0, <2>1 DEF HandleInternal, ErrorsTypeOK
<1>2. ErrorsTypeOK'
  BY <1>0, <1>1 DEF ErrorsTypeOK
<1>3. \A u \in Threads : err'[u].codes = err[u].codes
  BY <1>0, <1>1
<1>4. NodesInv'
  BY <1>0, <1>3 DEF NodesInv, Nodes, ErrorsAccounted
<1>5. DOMAIN err'[t].codes = {}
  BY <1>1
<1> QED BY <1>0, <1>1, <1>2, <1>4, <1>5, ErrorStep

(* A statement of nerr_init leaves the errors there are as they are.        *)
LEMMA InitCallStep ==
  ASSUME ErrorsAssumption, ErrorsInv, NEW t \in Threads, InitCall(t)
  PROVE  ErrorsInv'
<1>1. /\ (ErrorsTypeOK /\ InitLockInv /\ RegistryInv)'
      /\ err' = err /\ heap'.nodes = heap.nodes
      /\ registry.inited => registry'.code = registry.code
      /\ \A u \in Threads : at[u] = "ready" => at'[u] = "ready"
  BY RegistryStep DEF ErrorsInv
<1>2. NodesInv'
  BY <1>1 DEF ErrorsInv, NodesInv, Nodes, ErrorsAccounted
<1>3. \A u \in Threads : err'[u] # None => at'[u] = "ready"
  BY <1>1 DEF ErrorsInv, ChainsInv
<1>4. ASSUME NEW u \in Threads, NEW i \in DOMAIN err'[u].codes
      PROVE  err'[u].codes[i] = registry'.code[Pass] <=> i < Len(err'[u].codes) \/ err'[u].internal
  <2>1. err[u] # None
    BY <1>1, <1>4 DEF None
  <2>2. registry.inited
    BY <2>1 DEF ErrorsInv, ChainsInv, RegistryInv
  <2> QED BY <1>1, <2>2 DEF ErrorsInv, ChainsInv, ChainsExact
<1>5. ChainsInv'
  BY <1>3, <1>4 DEF ChainsInv, ChainsExact
<1> QED BY <1>1, <1>2, <1>5 DEF ErrorsInv

(* The invariant holds before any call.                                     *)
LEMMA ErrorsInvInit ==
  ASSUME ErrorsAssumption, ErrorsInit
  PROVE  ErrorsInv
<1>1. ErrorsTypeOK
  <2>1. <<>> \in Seq(Codes) /\ <<>> \in Seq(Nat) /\ 1 \in Nat \ {0}
    OBVIOUS
  <2> QED BY <2>1 DEF ErrorsInit, ErrorsTypeOK, Places, Holding, None
<1>2. InitLockInv /\ RegistryInv
  BY DEF ErrorsInit, InitLockInv, NotBegun, RegistryInv, Holding
<1>3. \A t \in Threads : err[t] = None /\ DOMAIN err[t].codes = {}
  BY DEF ErrorsInit, None
<1>4. ChainsInv
  BY <1>3 DEF ChainsInv, ChainsExact
<1>5. Nodes = {}
  BY <1>3 DEF Nodes
<1>6. NodesInv
  BY <1>5, FS_EmptySet DEF ErrorsInit, NodesInv, ErrorsAccounted
<1> QED BY <1>1, <1>2, <1>4, <1>6 DEF ErrorsInv

(* What holds of the registry, the lock and the chains after every step of  *)
(* every thread (neo_err.c).                                                *)
THEOREM ErrorsInvariant == ErrorsAssumption => (ErrorsSpec => []ErrorsInv)
<1> SUFFICES ASSUME ErrorsAssumption PROVE ErrorsSpec => []ErrorsInv
  OBVIOUS
<1>1. ErrorsInit => ErrorsInv
  BY ErrorsInvInit
<1>2. ErrorsInv /\ [ErrorsNext]_evars => ErrorsInv'
  <2> SUFFICES ASSUME ErrorsInv, [ErrorsNext]_evars PROVE ErrorsInv'
    OBVIOUS
  <2>1. CASE UNCHANGED evars
    BY <2>1 DEF evars, ErrorsInv, ErrorsTypeOK, InitLockInv, NotBegun, RegistryInv, Registered, ChainsInv,
                ChainsExact, NodesInv, Nodes, ErrorsAccounted
  <2>2. ASSUME NEW t \in Threads, InitCall(t) PROVE ErrorsInv'
    BY <2>2, InitCallStep
  <2>3. ASSUME NEW t \in Threads, PassOn(t) PROVE ErrorsInv'
    BY <2>3, PassOnStep
  <2>4. ASSUME NEW t \in Threads, Ignore(t) PROVE ErrorsInv'
    BY <2>4, FreeStep DEF Ignore
  <2>5. ASSUME NEW t \in Threads, HandleInternal(t) PROVE ErrorsInv'
    BY <2>5, HandleInternalStep
  <2>6. ASSUME NEW t \in Threads, NEW c, Handle(t, c) PROVE ErrorsInv'
    BY <2>6, FreeStep DEF Handle
  <2>7. ASSUME NEW t \in Threads, NEW n \in Codes \ {Pass}, Raise(t, n) PROVE ErrorsInv'
    BY <2>7, RaiseStep
  <2> QED BY <2>1, <2>2, <2>3, <2>4, <2>5, <2>6, <2>7 DEF ErrorsNext
<1> QED BY <1>1, <1>2, PTL DEF ErrorsSpec

(* However many threads come to nerr_init at once and whichever allocations *)
(* fail: a thread that was let go finds each code under its own name, every *)
(* node belongs to one chain, and a chain says what was raised (neo_err.c,  *)
(* nerr_init, nerr_raise, nerr_pass, nerr_handle).                          *)
THEOREM ErrorsAreExact == ErrorsAssumption => (ErrorsSpec => []ErrorsExact)
<1> SUFFICES ASSUME ErrorsAssumption PROVE ErrorsSpec => []ErrorsExact
  OBVIOUS
<1>1. ErrorsInv => ErrorsExact
  <2> SUFFICES ASSUME ErrorsInv PROVE ErrorsExact
    OBVIOUS
  <2>1. CodesExact
    BY CodesKnown DEF ErrorsInv, CodesExact, LookupErrname
  <2> QED BY <2>1 DEF ErrorsInv, ErrorsExact, ChainsInv, NodesInv
<1>2. ErrorsSpec => []ErrorsInv
  BY ErrorsInvariant
<1> QED BY <1>1, <1>2, PTL
-----------------------------------------------------------------------------
(* Filters are created in their order, and an end of a pipe that is open    *)
(* anywhere is one of a filter that was created; what the parent holds and  *)
(* gave nobody is what filter_create_fp left open.                          *)
Created(f) == result[f] # ""
Results == {"", "system", "ok", "io", "unset", "died", "zero", "nonzero", "success", "status"}
States == {"none", "running", "zero", "nonzero", "signal"}
Ends(f) == F!Pipe(f, F!Kinds)

FilterTypeOK ==
  /\ result \in [F!Filters -> Results]
  /\ child \in [F!Filters -> [state : States, fds : SUBSET UNION {Ends(f) : f \in F!Filters}]]
OrderInv == \A f \in F!Filters : Created(f) => \A g \in F!Filters : g < f => Created(g)
EndsInv ==
  /\ \A e \in held : \E f \in F!Filters : Created(f) /\ e \in Ends(f)
  /\ files \subseteq held
  /\ \A e \in held \ files : result[e[1]] = "io"
ChildrenInv ==
  /\ \A f \in F!Filters : result[f] \in {"", "system"} <=> child[f].state = "none"
  /\ \A f, g \in F!Filters : F!Input(f) \in child[g].fds => f < g

FilterInv == FilterTypeOK /\ OrderInv /\ EndsInv /\ ChildrenInv

(* The filters are numbered.                                                *)
LEMMA FiltersAreNumbered ==
  ASSUME F!FiltersAssumption
  PROVE  F!Filters \subseteq Nat /\ \E n \in Nat : F!Filters \subseteq 1 .. n
<1>1. NumFilters \in Nat /\ F!Filters = 1 .. NumFilters
  BY DEF F!FiltersAssumption, F!Filters
<1>2. F!Filters \subseteq Nat
  BY <1>1
<1>3. \E n \in Nat : F!Filters \subseteq 1 .. n
  BY <1>1
<1> QED BY <1>2, <1>3

(* What a filter's ends are: pairs with its own number.                     *)
LEMMA EndsOf ==
  ASSUME NEW f \in F!Filters
  PROVE  /\ \A K \in SUBSET F!Kinds :
              /\ F!Pipe(f, K) \subseteq Ends(f) /\ F!Ours(f, K) \subseteq F!Pipe(f, K)
         /\ \A e \in Ends(f) : e[1] = f
         /\ F!Input(f) \in Ends(f)
         /\ \A K \in SUBSET F!Kinds : F!Input(f) \notin F!Pipe(f, K) \ F!Ours(f, K)
<1>1. \A K \in SUBSET F!Kinds : F!Pipe(f, K) \subseteq Ends(f) /\ F!Ours(f, K) \subseteq F!Pipe(f, K)
  BY DEF Ends, F!Pipe, F!Ours
<1>2. \A e \in Ends(f) : e[1] = f
  BY DEF Ends, F!Pipe
<1>3. F!Input(f) \in Ends(f)
  BY DEF Ends, F!Pipe, F!Input, F!Kinds
<1>4. ASSUME NEW K \in SUBSET F!Kinds, F!Input(f) \in F!Pipe(f, K)
      PROVE  F!Input(f) \in F!Ours(f, K)
  <2>1. F!Input(f)[2] = "in" /\ F!Input(f)[3] = "write"
    BY DEF F!Input
  <2> QED BY <1>4, <2>1 DEF F!Ours, F!OurSide
<1> QED BY <1>1, <1>2, <1>3, <1>4

(* The child of a new filter has inherited what the parent holds, which are *)
(* ends of earlier filters, and of its own pipes only its side              *)
(* (filter_create_fd).                                                      *)
LEMMA ForkedChild ==
  ASSUME F!FiltersAssumption, FilterInv, NEW f \in F!Filters, F!Turn(f), NEW want \in SUBSET F!Kinds
  PROVE  /\ F!Forked(f, want) \in [state : States, fds : SUBSET UNION {Ends(g) : g \in F!Filters}]
         /\ F!Forked(f, want).state = "running"
         /\ \A g \in F!Filters : F!Input(g) \in F!Forked(f, want).fds => g < f
<1>1. F!Forked(f, want).fds = (held \cup F!Pipe(f, want)) \ F!Ours(f, want) /\ F!Forked(f, want).state = "running"
  BY DEF F!Forked
<1>2. held \subseteq UNION {Ends(g) : g \in F!Filters}
  BY DEF FilterInv, EndsInv
<1>3. F!Pipe(f, want) \subseteq Ends(f)
  BY EndsOf
<1>4. F!Forked(f, want).fds \subseteq UNION {Ends(g) : g \in F!Filters}
  BY <1>1, <1>2, <1>3
<1>5. F!Forked(f, want) \in [state : States, fds : SUBSET UNION {Ends(g) : g \in F!Filters}]
  BY <1>4 DEF F!Forked, States
<1>6. ASSUME NEW g \in F!Filters, F!Input(g) \in F!Forked(f, want).fds
      PROVE  g < f
  <2>1. F!Input(g)[1] = g
    BY EndsOf
  <2>2. CASE F!Input(g) \in F!Pipe(f, want)
    <3>1. g = f
      BY <1>3, <2>1, <2>2, EndsOf
    <3> QED BY <1>1, <1>6, <2>2, <3>1, EndsOf
  <2>3. CASE F!Input(g) \in held
    <3>1. PICK h \in F!Filters : Created(h) /\ F!Input(g) \in Ends(h)
      BY <2>3 DEF FilterInv, EndsInv
    <3>2. Created(g)
      BY <2>1, <3>1, EndsOf
    <3>3. ~(f < g) /\ g # f
      BY <3>2 DEF F!Turn, FilterInv, OrderInv, Created
    <3>4. f \in Nat /\ g \in Nat
      BY FiltersAreNumbered
    <3> QED BY <3>3, <3>4
  <2> QED BY <1>1, <1>6, <2>2, <2>3
<1> QED BY <1>1, <1>5, <1>6

(* A call that creates a filter keeps the order, whatever its result.       *)
LEMMA OrderKept ==
  ASSUME FilterTypeOK, OrderInv, NEW f \in F!Filters, F!Turn(f), NEW r \in Results \ {""},
         result' = [result EXCEPT ![f] = r]
  PROVE  /\ result' \in [F!Filters -> Results] /\ OrderInv'
         /\ result'[f] = r /\ \A g \in F!Filters \ {f} : result'[g] = result[g]
<1>1. /\ result' \in [F!Filters -> Results] /\ result'[f] = r
      /\ \A g \in F!Filters \ {f} : result'[g] = result[g]
  BY DEF FilterTypeOK
<1>2. \A g \in F!Filters : g < f => Created(g)
  BY DEF F!Turn, Created
<1>3. OrderInv'
  BY <1>1, <1>2 DEF OrderInv, Created
<1> QED BY <1>1, <1>3

(* filter_create_fd whose pipe or fork fails.                               *)
LEMMA CreateFailsStep ==
  ASSUME F!FiltersAssumption, FilterInv, NEW f \in F!Filters, NEW want \in SUBSET F!Kinds,
         NEW fault, F!CreateFails(f, want, fault)
  PROVE  FilterInv'
<1>1. /\ F!Turn(f) /\ held' = held /\ files' = files /\ child' = child /\ result' = [result EXCEPT ![f] = "system"]
  BY DEF F!CreateFails
<1>2. /\ result' \in [F!Filters -> Results] /\ OrderInv'
      /\ result'[f] = "system" /\ \A g \in F!Filters \ {f} : result'[g] = result[g]
  BY <1>1, OrderKept DEF FilterInv, Results
<1>3. result[f] = "" /\ child[f].state = "none"
  BY <1>1 DEF F!Turn
<1>4. EndsInv'
  <2>1. \A e \in held : \E g \in F!Filters \ {f} : Created(g) /\ e \in Ends(g) /\ e[1] = g
    BY <1>3, EndsOf, ZenonT(60) DEF FilterInv, EndsInv, Created
  <2> QED BY <1>1, <1>2, <2>1 DEF FilterInv, EndsInv, Created
<1>5. ChildrenInv'
  BY <1>1, <1>2, <1>3 DEF FilterInv, ChildrenInv
<1> QED BY <1>1, <1>2, <1>4, <1>5 DEF FilterInv, FilterTypeOK

(* filter_create_fd and filter_create_fp: the child runs, and the parent    *)
(* holds its side of the pipes, which it gave to its caller or left open.   *)
LEMMA CreateStep ==
  ASSUME F!FiltersAssumption, FilterInv, NEW f \in F!Filters, F!Turn(f), NEW want \in SUBSET F!Kinds,
         child' = [child EXCEPT ![f] = F!Forked(f, want)],
         NEW more \in SUBSET Ends(f), held' = held \cup more,
         \/ result' = [result EXCEPT ![f] = "ok"] /\ files' = files \cup more
         \/ result' = [result EXCEPT ![f] = "io"] /\ files' = files
  PROVE  FilterInv'
<1>1. PICK r \in {"ok", "io"} : /\ result' = [result EXCEPT ![f] = r]
                                /\ files' = IF r = "ok" THEN files \cup more ELSE files
  OBVIOUS
<1>2. /\ result' \in [F!Filters -> Results] /\ OrderInv'
      /\ result'[f] = r /\ \A g \in F!Filters \ {f} : result'[g] = result[g]
  BY <1>1, OrderKept DEF FilterInv, Results
<1>3. /\ F!Forked(f, want) \in [state : States, fds : SUBSET UNION {Ends(g) : g \in F!Filters}]
      /\ F!Forked(f, want).state = "running"
      /\ \A g \in F!Filters : F!Input(g) \in F!Forked(f, want).fds => g < f
  BY ForkedChild
<1>4. /\ child' \in [F!Filters -> [state : States, fds : SUBSET UNION {Ends(g) : g \in F!Filters}]]
      /\ child'[f] = F!Forked(f, want)
      /\ \A g \in F!Filters \ {f} : child'[g] = child[g]
  BY <1>3 DEF FilterInv, FilterTypeOK
<1>5. EndsInv'
  <2>1. \A e \in held : \E g \in F!Filters \ {f} : Created(g) /\ e \in Ends(g) /\ e[1] = g
    BY EndsOf, ZenonT(60) DEF FilterInv, EndsInv, Created, F!Turn
  <2>2. \A e \in more : e \in Ends(f) /\ e[1] = f
    BY EndsOf
  <2>3. \A e \in held' : \E g \in F!Filters : Created(g)' /\ e \in Ends(g)
    BY <1>2, <2>1, <2>2 DEF Created
  <2>4. files' \subseteq held'
    BY <1>1 DEF FilterInv, EndsInv
  <2>5. ASSUME NEW e \in held' \ files' PROVE result'[e[1]] = "io"
    <3>1. CASE e \in held
      BY <1>1, <1>2, <2>1, <2>5, <3>1 DEF FilterInv, EndsInv
    <3>2. CASE e \notin held
      BY <1>1, <1>2, <2>2, <2>5, <3>2
    <3> QED BY <3>1, <3>2
  <2>6. \A e \in held' : \E g \in F!Filters : Created(g)' /\ e \in Ends(g)'
    BY <2>3 DEF Ends
  <2> QED BY <2>4, <2>5, <2>6 DEF EndsInv
<1>6. ChildrenInv'
  <2>1. \A g \in F!Filters : result'[g] \in {"", "system"} <=> child'[g].state = "none"
    BY <1>2, <1>3, <1>4 DEF FilterInv, ChildrenInv
  <2>2. \A h, g \in F!Filters : F!Input(h) \in child'[g].fds => h < g
    BY <1>3, <1>4, ZenonT(60) DEF FilterInv, ChildrenInv
  <2>3. \A h \in F!Filters : F!Input(h)' = F!Input(h)
    BY DEF F!Input
  <2> QED BY <2>1, <2>2, <2>3 DEF ChildrenInv
<1>7. FilterTypeOK'
  BY <1>2, <1>4 DEF FilterTypeOK, Ends, F!Pipe, F!Kinds
<1> QED BY <1>2, <1>5, <1>6, <1>7 DEF FilterInv
(* The caller closes an end that it was given.                              *)
LEMMA CloseStep ==
  ASSUME FilterInv, NEW e \in files, F!Close(e)
  PROVE  FilterInv'
<1>1. /\ files' = files \ {e} /\ held' = held \ {e} /\ child' = child /\ result' = result
  BY DEF F!Close
<1>2. EndsInv'
  BY <1>1 DEF FilterInv, EndsInv, Created, Ends
<1> QED BY <1>1, <1>2 DEF FilterInv, FilterTypeOK, OrderInv, Created, ChildrenInv, F!Input, Ends

(* A child ends, and what it held is closed.                                *)
LEMMA ExitStep ==
  ASSUME FilterInv, NEW f \in F!Filters, NEW status \in {"zero", "nonzero", "signal"}, F!Exit(f, status)
  PROVE  FilterInv'
<1>1. /\ child' = [child EXCEPT ![f] = [state |-> status, fds |-> {}]] /\ child[f].state = "running"
      /\ files' = files /\ held' = held /\ result' = result
  BY DEF F!Exit, F!Running
<1>2. /\ child' \in [F!Filters -> [state : States, fds : SUBSET UNION {Ends(g) : g \in F!Filters}]]
      /\ child'[f].state = status /\ child'[f].fds = {}
      /\ \A g \in F!Filters \ {f} : child'[g] = child[g]
  BY <1>1 DEF FilterInv, FilterTypeOK, States
<1>3. ChildrenInv'
  BY <1>1, <1>2 DEF FilterInv, ChildrenInv, F!Input
<1> QED BY <1>1, <1>2, <1>3 DEF FilterInv, FilterTypeOK, OrderInv, Created, EndsInv, Ends

(* filter_wait replaces the result of a filter that was created by another. *)
LEMMA WaitStep ==
  ASSUME FilterInv, NEW f \in F!Filters, result[f] \in {"ok", "unset"},
         NEW r \in Results \ {"", "system", "io"}, result' = [result EXCEPT ![f] = r],
         held' = held, files' = files, child' = child
  PROVE  FilterInv'
<1>1. /\ result' \in [F!Filters -> Results] /\ result'[f] = r
      /\ \A g \in F!Filters \ {f} : result'[g] = result[g]
  BY DEF FilterInv, FilterTypeOK
<1>2. OrderInv'
  BY <1>1 DEF FilterInv, OrderInv, Created
<1>3. EndsInv'
  <2>1. \A e \in held : result[e[1]] = "io" => result'[e[1]] = "io"
    <3> SUFFICES ASSUME NEW e \in held, result[e[1]] = "io" PROVE result'[e[1]] = "io"
      OBVIOUS
    <3>1. e[1] \in F!Filters
      <4>1. PICK g \in F!Filters : e \in Ends(g)
        BY DEF FilterInv, EndsInv
      <4> QED BY <4>1, EndsOf
    <3> QED BY <1>1, <3>1
  <2> QED BY <1>1, <2>1 DEF FilterInv, EndsInv, Created, Ends
<1>4. ChildrenInv'
  BY <1>1 DEF FilterInv, ChildrenInv, F!Input
<1> QED BY <1>1, <1>2, <1>3, <1>4 DEF FilterInv, FilterTypeOK, Ends

(* What holds of the filters, their ends and their processes after every    *)
(* step (filter.c).                                                         *)
THEOREM FiltersInvariant == F!FiltersAssumption => (F!Spec => []FilterInv)
<1> SUFFICES ASSUME F!FiltersAssumption PROVE F!Spec => []FilterInv
  OBVIOUS
<1>1. F!Init => FilterInv
  <2> SUFFICES ASSUME F!Init PROVE FilterInv
    OBVIOUS
  <2>1. FilterTypeOK
    BY DEF F!Init, FilterTypeOK, Results, States
  <2>2. OrderInv /\ EndsInv
    BY DEF F!Init, OrderInv, Created, EndsInv
  <2>3. \A g \in F!Filters : child[g].state = "none" /\ child[g].fds = {} /\ result[g] = ""
    BY DEF F!Init
  <2>4. ChildrenInv
    BY <2>3 DEF ChildrenInv
  <2> QED BY <2>1, <2>2, <2>4 DEF FilterInv
<1>2. FilterInv /\ [F!Next]_(F!fvars) => FilterInv'
  <2> SUFFICES ASSUME FilterInv, [F!Next]_(F!fvars) PROVE FilterInv'
    OBVIOUS
  <2>1. CASE UNCHANGED F!fvars
    BY <2>1 DEF F!fvars, FilterInv, FilterTypeOK, OrderInv, Created, EndsInv, ChildrenInv, F!Input, Ends
  <2>2. ASSUME NEW f \in F!Filters, NEW want \in SUBSET F!Kinds, F!FilterCreateFd(f, want)
        PROVE  FilterInv'
    <3>1. F!Ours(f, want) \in SUBSET Ends(f)
      BY EndsOf
    <3> QED BY <2>2, <3>1, CreateStep DEF F!FilterCreateFd
  <2>3. ASSUME NEW f \in F!Filters, NEW want \in SUBSET F!Kinds, NEW fault, F!CreateFails(f, want, fault)
        PROVE  FilterInv'
    BY <2>3, CreateFailsStep
  <2>4. ASSUME NEW f \in F!Filters, NEW want \in SUBSET F!Kinds, NEW k, F!FilterCreateFp(f, want, k)
        PROVE  FilterInv'
    <3>1. F!Ours(f, want \ F!Before(k)) \in SUBSET Ends(f)
      BY EndsOf
    <3> QED BY <2>4, <3>1, CreateStep DEF F!FilterCreateFp
  <2>5. ASSUME NEW e \in files, F!Close(e) PROVE FilterInv'
    BY <2>5, CloseStep
  <2>6. ASSUME NEW f \in F!Filters, NEW status \in {"zero", "nonzero", "signal"}, F!Exit(f, status)
        PROVE  FilterInv'
    BY <2>6, ExitStep
  <2>7. ASSUME NEW f \in F!Filters, F!FilterWaitUnset(f) PROVE FilterInv'
    BY <2>7, WaitStep DEF F!FilterWaitUnset, Results
  <2>8. ASSUME NEW f \in F!Filters, NEW exitcode \in BOOLEAN, F!FilterWait(f, exitcode) PROVE FilterInv'
    <3>1. PICK r : /\ r = IF child[f].state = "signal" THEN "died"
                          ELSE IF exitcode THEN child[f].state
                          ELSE IF child[f].state = "zero" THEN "success" ELSE "status"
      OBVIOUS
    <3>2. r \in Results \ {"", "system", "io"}
      BY <2>8, <3>1 DEF F!FilterWait, Results
    <3> QED BY <2>8, <3>1, <3>2, WaitStep DEF F!FilterWait
  <2> QED BY <2>1, <2>2, <2>3, <2>4, <2>5, <2>6, <2>7, <2>8 DEF F!Next
<1> QED BY <1>1, <1>2, PTL DEF F!Spec

(* Among filters that run there is one that was created last.               *)
LEMMA LastOfRunning ==
  ASSUME F!FiltersAssumption, NEW S \in SUBSET F!Filters, S # {}
  PROVE  \E f \in S : \A g \in S : ~(f < g)
<1>1. PICK n \in Nat : F!Filters \subseteq 1 .. n
  BY FiltersAreNumbered
<1> DEFINE T == {n - f : f \in S}
<1>2. T \subseteq Nat /\ T # {}
  <2>1. \A f \in S : f \in 1 .. n
    BY <1>1
  <2>2. \A f \in 1 .. n : n - f \in Nat
    OBVIOUS
  <2> QED BY <2>1, <2>2
<1>3. PICK x \in T : \A y \in T : ~(<<y, x>> \in OpToRel(<, Nat))
  BY <1>2, NatLessThanWellFounded, WFMin
<1>4. \A y \in T : ~(y < x)
  BY <1>2, <1>3 DEF OpToRel
<1>5. PICK f \in S : x = n - f
  OBVIOUS
<1>6. ASSUME NEW g \in S PROVE ~(f < g)
  <2>1. n - g \in T /\ f \in 1 .. n /\ g \in 1 .. n
    BY <1>1
  <2>2. ~(n - g < n - f)
    BY <1>4, <1>5, <2>1
  <2> QED BY <2>1, <2>2
<1> QED BY <1>6

(* A creation that failed leaves no end and no child but for fdopen, a      *)
(* filter's input is held open by the parent and by later filters only, and *)
(* so, once the parent has closed all inputs, some filter that runs can end *)
(* (filter.c, filter_create_fd, filter_create_fp, filter_wait).             *)
THEOREM FiltersAreSound == F!FiltersAssumption => (F!Spec => []F!FiltersSound)
<1> SUFFICES ASSUME F!FiltersAssumption PROVE F!Spec => []F!FiltersSound
  OBVIOUS
<1>1. FilterInv => F!FiltersSound
  <2> SUFFICES ASSUME FilterInv PROVE F!FiltersSound
    OBVIOUS
  <2>1. held = files \cup {e \in held : result[e[1]] = "io"}
    BY DEF FilterInv, EndsInv
  <2>2. \A f \in F!Filters : result[f] = "system" => child[f].state = "none"
    BY DEF FilterInv, ChildrenInv
  <2>3. \A f \in F!Filters : \A g \in F!Holders(F!Input(f)) : g > f
    <3> SUFFICES ASSUME NEW f \in F!Filters, NEW g \in F!Holders(F!Input(f)) PROVE g > f
      OBVIOUS
    <3>1. g \in F!Filters /\ F!Input(f) \in child[g].fds
      BY DEF F!Holders, F!Running
    <3>2. f < g
      BY <3>1 DEF FilterInv, ChildrenInv
    <3>3. f \in Nat /\ g \in Nat
      BY <3>1, FiltersAreNumbered
    <3> QED BY <3>2, <3>3
  <2>4. ASSUME F!Running # {}, \A f \in F!Filters : F!Input(f) \notin held
        PROVE  \E f \in F!Running : F!AtEnd(f)
    <3>1. F!Running \in SUBSET F!Filters
      BY DEF F!Running
    <3>2. PICK f \in F!Running : \A g \in F!Running : ~(f < g)
      BY <2>4, <3>1, LastOfRunning
    <3>3. F!Holders(F!Input(f)) = {}
      <4> SUFFICES ASSUME NEW g \in F!Holders(F!Input(f)) PROVE FALSE
        OBVIOUS
      <4>1. g > f /\ g \in F!Running
        BY <2>3, <3>1 DEF F!Holders
      <4>2. f \in Nat /\ g \in Nat
        BY <3>1, <4>1, FiltersAreNumbered
      <4> QED BY <3>2, <4>1, <4>2
    <3> QED BY <2>4, <3>1, <3>2, <3>3 DEF F!AtEnd
  <2> QED BY <2>1, <2>2, <2>3, <2>4 DEF F!FiltersSound
<1>2. F!Spec => []FilterInv
  BY FiltersInvariant
<1> QED BY <1>1, <1>2, PTL
=============================================================================
