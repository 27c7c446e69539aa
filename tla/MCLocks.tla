------------------------------- MODULE MCLocks -------------------------------
(* The two protocols in which threads wait for each other, each by itself:  *)
(* the synchronization of the skip list, and the clients of a dictionary    *)
(* of which one keeps DICT_LOCK between two calls.                          *)
EXTENDS SkipLock, FiniteSetsExt

VARIABLES part, entry, mList, client, call, me
CONSTANTS t1, t2, t3

dictVars == <<entry, mList, client, call, me>>

Program == [t \in Threads |-> CASE t = t1 -> [op : {"update"}, id : {"a"}, value : {"v"}, by : {{}}]
                                [] t = t2 -> {[op |-> "cleanup"]}
                                [] t = t3 -> [op : {"search"}, id : {"a"}, plock : {TRUE}]]

D == INSTANCE Dict WITH Ids <- {"a"}, HashOf <- [i \in {"a"} |-> 1], Values <- {"v"}, NoValue <- "none", Swept <- {"v"},
                        Cells <- {1, 2, 3}, FlushLimit <- 0, MaxLocks <- 0, NoId <- "no id", Clients <- {Program}

MCInit == part \in {"list", "dict"} /\ LockInit /\ D!Init
MCNext == /\ UNCHANGED part
          /\ \/ part = "list" /\ LockNext /\ UNCHANGED dictVars
             \/ part = "dict" /\ D!Next /\ UNCHANGED lockVars
MCSpec == /\ MCInit /\ [][MCNext]_<<part, lockVars, dictVars>>
          /\ part = "list" => LockFairness
          /\ part = "dict" => D!Fairness
------------------------------------------------------------------------------
(* Every call on the dictionary returns: no thread waits for DICT_LOCK for  *)
(* ever, as long as the client that keeps it releases it (dictSearch,       *)
(* dictModify, dictCleanup, dictReleaseLock).                               *)
CallsReturn == D!CallsReturn
==============================================================================
