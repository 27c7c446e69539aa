-------------------------------- MODULE Server -------------------------------
(***************************************************************************)
(* The preforking server of util/neo_server.c: a parent that forks         *)
(* children and replaces those that end, children that take turns in       *)
(* accept() under a file lock, and SIGTERM.                                *)
(***************************************************************************)
EXTENDS Integers, FiniteSets

CONSTANTS
  Slots,            \* processes there can be beside the parent
  NumChildren,
  NumRequests,      \* requests a child serves before it ends
  MaxConnections,   \* bound on the connections clients make
  MaxCrashes,       \* bound on the children that die
  MaxForkFailures   \* bound on the forks that fail

VARIABLES
  parent,           \* where the parent is, ShutdownPending, and whether it debugs
  child,            \* the children: none, running, or ended and not waited for
  acceptLock,       \* the child that holds the accept lock, or 0
  queue,            \* connections nobody has accepted
  world             \* bounds used up, and whether SIGTERM was sent

vars == <<parent, child, acceptLock, queue, world>>

NoChild == [pc |-> "none", served |-> 0]
Free == {c \in Slots : child[c].pc = "none"}
Alive == {c \in Slots : child[c].pc \notin {"none", "zombie"}}
To(pc) == parent' = [parent EXCEPT !.pc = pc]
Move(c, pc) == child' = [child EXCEPT ![c].pc = pc]
-----------------------------------------------------------------------------
(* fork: the new child starts its loop; after a failure the parent ends, or *)
(* does what it does first when it is told to stop.                         *)
Forked(pc, failed) ==
  \/ /\ \E c \in Free : child' = [child EXCEPT ![c] = [pc |-> "loop", served |-> 0]]
     /\ To(pc)
     /\ UNCHANGED world
  \/ /\ world.forkFailures < MaxForkFailures
     /\ world' = [world EXCEPT !.forkFailures = @ + 1]
     /\ To(failed)
     /\ UNCHANGED child

Start == /\ parent.pc = "start" /\ ~parent.debug
         /\ IF Cardinality(Alive) + Cardinality({c \in Slots : child[c].pc = "zombie"}) < NumChildren
            THEN Forked("start", "end")
            ELSE To("test") /\ UNCHANGED <<child, world>>
         /\ UNCHANGED <<acceptLock, queue>>

(* To be debugged the parent runs the loop of a child itself, and ends      *)
(* with it.                                                                 *)
Debug == /\ parent.debug
         /\ \/ /\ parent.pc = "start"
               /\ \E c \in Free : child' = [child EXCEPT ![c] = [pc |-> "loop", served |-> 0]]
               /\ To("debug")
            \/ /\ parent.pc = "debug" /\ Alive = {}
               /\ To("end")
               /\ UNCHANGED child
         /\ UNCHANGED <<acceptLock, queue, world>>

Test == /\ parent.pc = "test"
        /\ To(IF parent.shutdown THEN "kill" ELSE "wait")
        /\ UNCHANGED <<child, acceptLock, queue, world>>

(* wait3 returns when a child has ended, however it did.                    *)
Wait == /\ parent.pc = "wait"
        /\ \E c \in Slots : child[c].pc = "zombie" /\ child' = [child EXCEPT ![c] = NoChild]
        /\ To("fork")
        /\ UNCHANGED <<acceptLock, queue, world>>

ForkNoMore == parent.pc = "fork" /\ To("test") /\ UNCHANGED <<child, acceptLock, queue, world>>
Fork == /\ parent.pc = "fork"
        /\ Forked("test", IF parent.shutdown THEN "kill" ELSE "end")
        /\ UNCHANGED <<acceptLock, queue>>

(* A TERM ends a child that waits for the lock or in accept(): the call     *)
(* fails.  Anywhere else the child does not notice.                         *)
Terminated(c) == IF child[c].pc \in {"lock", "accept"} THEN [child[c] EXCEPT !.pc = "exit"] ELSE child[c]
Terminate == /\ child' = [c \in Slots |-> Terminated(c)]
             /\ acceptLock' = IF acceptLock # 0 /\ child[acceptLock].pc = "accept" THEN 0 ELSE acceptLock
Kill == /\ parent.pc = "kill"
        /\ To("end")
        /\ Terminate
        /\ UNCHANGED <<queue, world>>

(* SIGTERM to the parent: only wait3 is interrupted, or a parent that is    *)
(* its own child.                                                           *)
Term == /\ ~world.term
        /\ parent.pc # "end"
        /\ world' = [world EXCEPT !.term = TRUE]
        /\ parent' = [parent EXCEPT !.pc = IF @ = "wait" THEN "test" ELSE @, !.shutdown = TRUE]
        /\ IF parent.pc = "debug" THEN Terminate ELSE UNCHANGED <<child, acceptLock>>
        /\ UNCHANGED queue
-----------------------------------------------------------------------------
(* nserver_child_loop.                                                      *)
Loop(c) == /\ child[c].pc = "loop"
           /\ Move(c, IF child[c].served < NumRequests THEN "lock" ELSE "exit")
           /\ UNCHANGED <<parent, acceptLock, queue, world>>
FLock(c) == /\ child[c].pc = "lock"
            /\ acceptLock = 0
            /\ acceptLock' = c
            /\ Move(c, "accept")
            /\ UNCHANGED <<parent, queue, world>>
Accept(c) == /\ child[c].pc = "accept"
             /\ queue > 0
             /\ queue' = queue - 1
             /\ Move(c, "unlock")
             /\ UNCHANGED <<parent, acceptLock, world>>
FUnlock(c) == /\ child[c].pc = "unlock"
              /\ acceptLock' = 0
              /\ Move(c, "request")
              /\ UNCHANGED <<parent, queue, world>>
Request(c) == /\ child[c].pc = "request"
              /\ child' = [child EXCEPT ![c] = [pc |-> "loop", served |-> @.served + 1]]
              /\ UNCHANGED <<parent, acceptLock, queue, world>>
Exit(c) == /\ child[c].pc = "exit"
           /\ Move(c, "zombie")
           /\ UNCHANGED <<parent, acceptLock, queue, world>>

(* A child gives up: init_cb fails, or there is no memory for a connection, *)
(* which is closed.                                                         *)
GiveUp(c) == /\ world.crashes < MaxCrashes
             /\ world' = [world EXCEPT !.crashes = @ + 1]
             /\ Move(c, "exit")
             /\ \/ child[c].pc = "loop" /\ child[c].served = 0 /\ UNCHANGED <<acceptLock, queue>>
                \/ child[c].pc = "accept" /\ queue > 0 /\ acceptLock' = 0 /\ queue' = queue - 1
             /\ UNCHANGED parent

(* A child dies; the system takes its lock away.                            *)
Crash(c) == /\ c \in Alive
            /\ world.crashes < MaxCrashes
            /\ world' = [world EXCEPT !.crashes = @ + 1]
            /\ Move(c, "zombie")
            /\ acceptLock' = IF acceptLock = c THEN 0 ELSE acceptLock
            /\ UNCHANGED <<parent, queue>>

Connect == /\ world.connections < MaxConnections
           /\ world' = [world EXCEPT !.connections = @ + 1]
           /\ queue' = queue + 1
           /\ UNCHANGED <<parent, child, acceptLock>>

Init == /\ parent \in [pc : {"start"}, shutdown : {FALSE}, debug : BOOLEAN]
        /\ child = [c \in Slots |-> NoChild]
        /\ acceptLock = 0
        /\ queue = 0
        /\ world = [connections |-> 0, crashes |-> 0, forkFailures |-> 0, term |-> FALSE]
Parent == Start \/ Debug \/ Test \/ Wait \/ Fork \/ Kill
Child(c) == Loop(c) \/ FLock(c) \/ Accept(c) \/ FUnlock(c) \/ Request(c) \/ Exit(c)
Next == Parent \/ Term \/ Connect \/ \E c \in Slots : Child(c) \/ GiveUp(c) \/ Crash(c)
Fairness == WF_vars(Parent) /\ \A c \in Slots : WF_vars(Child(c))
Spec == Init /\ [][Next]_vars /\ Fairness
-----------------------------------------------------------------------------
(* As long as the parent runs and is not told to stop, every connection is  *)
(* accepted, however many children end or die, one of them in accept() and  *)
(* the others waiting for the lock (nserver_child_loop, nserver_proc_start).*)
ConnectionsServed == [](queue > 0 => <>(queue = 0 \/ parent.shutdown \/ parent.pc = "end"))

=============================================================================
