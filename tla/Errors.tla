-------------------------------- MODULE Errors --------------------------------
(***************************************************************************)
(* Errors (util/neo_err.c): the threads of a program register the error    *)
(* codes with nerr_init, then raise errors, pass them on and handle them.  *)
(* A code is a place in the list of names, 0 before it is registered.  An  *)
(* error is a chain of nodes; INTERNAL_ERR, which is no node, ends a chain *)
(* when there was no memory for the first.  The list that keeps nodes for  *)
(* reuse is never switched on.                                             *)
(***************************************************************************)
EXTENDS Integers, Sequences, FiniteSets, Functions

CONSTANTS
  Threads,
  Names,      \* the names in the order they are registered, the first "InternalPass"
  MaxChain,   \* bound on the length of a chain
  MaxNoMem    \* bound on the allocations that fail

VARIABLES
  registry,   \* [names: Errors, code: the NERR_ variables, inited,
              \*  lock: who has InitLock, next: the place of the next name to register]
  at,         \* where each thread is: the statement of nerr_init, "ready", "failed"
  err,        \* each thread's error: [codes, internal], no error: no codes and not internal
  heap        \* [nodes: how many are allocated, faults]

evars == <<registry, at, err, heap>>

Pass == Names[1]
Codes == Range(Names)
None == [codes |-> <<>>, internal |-> FALSE]
NoLock == "none"

ErrorsAssumption == NoLock \notin Threads /\ Names \in Seq(Codes) \ {<<>>}
-----------------------------------------------------------------------------
(* nerr_init.  Inited is read before the lock is taken and once more after. *)
Test(t) == /\ at[t] = "test"
           /\ at' = [at EXCEPT ![t] = IF registry.inited THEN "ready" ELSE "lock"]
           /\ UNCHANGED <<registry, err, heap>>
LockInit(t) == /\ at[t] = "lock" /\ registry.lock = NoLock
               /\ registry' = [registry EXCEPT !.lock = t]
               /\ at' = [at EXCEPT ![t] = "again"]
               /\ UNCHANGED <<err, heap>>
(* Mutant: Inited is not tested again under the lock.                       *)
TestNotAgain(t) == /\ at[t] = "again"
                   /\ at' = [at EXCEPT ![t] = "list"]
                   /\ UNCHANGED <<registry, err, heap>>

TestAgain(t) == /\ at[t] = "again"
                /\ at' = [at EXCEPT ![t] = IF registry.inited THEN "unlock" ELSE "list"]
                /\ UNCHANGED <<registry, err, heap>>
NewList(t) == /\ at[t] = "list"
              /\ registry' = [registry EXCEPT !.names = <<>>]
              /\ at' = [at EXCEPT ![t] = "register"]
              /\ UNCHANGED <<err, heap>>
(* nerr_register of the next name.                                          *)
Register(t) ==
  /\ at[t] = "register" /\ registry.next <= Len(Names)
  /\ \E n \in {Names[registry.next]} :
       registry' = [registry EXCEPT !.names = Append(@, n), !.code[n] = Len(registry.names) + 1, !.next = @ + 1]
  /\ UNCHANGED <<at, err, heap>>
(* A failure returns from where it happens, and InitLock stays locked.      *)
RegisterFails(t) == /\ at[t] \in {"list", "register"}
                    /\ heap.faults < MaxNoMem
                    /\ heap' = [heap EXCEPT !.faults = @ + 1]
                    /\ at' = [at EXCEPT ![t] = "failed"]
                    /\ UNCHANGED <<registry, err>>
Inited(t) == /\ at[t] = "register" /\ registry.next > Len(Names)
             /\ registry' = [registry EXCEPT !.inited = TRUE, !.next = 1]
             /\ at' = [at EXCEPT ![t] = "unlock"]
             /\ UNCHANGED <<err, heap>>
UnlockInit(t) == /\ at[t] = "unlock"
                 /\ registry' = [registry EXCEPT !.lock = NoLock]
                 /\ at' = [at EXCEPT ![t] = "ready"]
                 /\ UNCHANGED <<err, heap>>
-----------------------------------------------------------------------------
(* The errors of a thread.  _err_alloc may find no memory: then the error   *)
(* is INTERNAL_ERR, or is passed on as it is.                               *)
Ready(t) == at[t] = "ready" /\ UNCHANGED <<registry, at>>
NoMemory == heap.faults < MaxNoMem /\ heap' = [heap EXCEPT !.faults = @ + 1]
Allocate == heap' = [heap EXCEPT !.nodes = @ + 1]
Raise(t, n) == /\ Ready(t) /\ err[t] = None
               /\ \/ Allocate /\ err' = [err EXCEPT ![t].codes = <<registry.code[n]>>]
                  \/ NoMemory /\ err' = [err EXCEPT ![t].internal = TRUE]
PassOn(t) == /\ Ready(t) /\ err[t] # None /\ Len(err[t].codes) < MaxChain
             /\ \/ Allocate /\ err' = [err EXCEPT ![t].codes = <<registry.code[Pass]>> \o @]
                \/ NoMemory /\ UNCHANGED err

(* _err_free frees the nodes of the chain.                                  *)
Free(t) == /\ err' = [err EXCEPT ![t] = None]
           /\ heap' = [heap EXCEPT !.nodes = @ - Len(err[t].codes)]
Ignore(t) == Ready(t) /\ err[t] # None /\ Free(t)
(* nerr_handle.  INTERNAL_ERR_INT is the code 1, which is also that of the   *)
(* nodes that pass an error on: any error that was passed on is taken for it. *)
Handle(t, etype) == Ready(t) /\ etype \in Range(err[t].codes) /\ Free(t)
INTERNAL_ERR_INT == 1
HandleInternal(t) == /\ Ready(t) /\ err[t].internal /\ err[t].codes = <<>>
                     /\ err' = [err EXCEPT ![t] = None]
                     /\ UNCHANGED heap

ErrorsInit == /\ registry = [names |-> <<>>, code |-> [n \in Codes |-> 0], inited |-> FALSE, lock |-> NoLock, next |-> 1]
        /\ at = [t \in Threads |-> "test"]
        /\ err = [t \in Threads |-> None]
        /\ heap = [nodes |-> 0, faults |-> 0]
InitCall(t) == \/ Test(t) \/ LockInit(t) \/ TestAgain(t) \/ NewList(t)
               \/ Register(t) \/ RegisterFails(t) \/ Inited(t) \/ UnlockInit(t)
ErrorsNext == \E t \in Threads :
          \/ InitCall(t) \/ PassOn(t) \/ Ignore(t) \/ HandleInternal(t)
          \/ Handle(t, INTERNAL_ERR_INT)
          \/ \E n \in Codes \ {Pass} : Handle(t, registry.code[n]) \/ Raise(t, n)
ErrorsSpec == ErrorsInit /\ [][ErrorsNext]_evars
-----------------------------------------------------------------------------
(* A thread that nerr_init has let go sees every code, each by its own name *)
(* and never to change, however many threads came at once and whoever did   *)
(* the work: what it raises is what it later handles.                       *)
LookupErrname(c) == IF c \in 1 .. Len(registry.names) THEN registry.names[c] ELSE "unknown"
CodesExact == (\E t \in Threads : at[t] = "ready") => \A n \in Codes : LookupErrname(registry.code[n]) = n

(* Every node that is allocated is in just one thread's error, whatever was *)
(* raised, passed on, handled or ignored, and whichever allocations failed. *)
Nodes == UNION {{t} \X DOMAIN err[t].codes : t \in Threads}
ErrorsAccounted == heap.nodes = Cardinality(Nodes)

(* A chain ends in what was raised, or in INTERNAL_ERR, and everything      *)
(* before that is InternalPass.                                             *)
ChainsExact == \A t \in Threads : \A i \in DOMAIN err[t].codes :
  err[t].codes[i] = registry.code[Pass] <=> i < Len(err[t].codes) \/ err[t].internal

ErrorsExact == CodesExact /\ ErrorsAccounted /\ ChainsExact
===============================================================================
