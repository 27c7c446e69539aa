-------------------------------- MODULE Filter --------------------------------
(***************************************************************************)
(* Subprocess filters (util/filter.c).  A pipe is a filter and one of      *)
(* "in", "out" and "err"; what a process holds is a set of ends of pipes.  *)
(* A child ends when it reads the end of its input, and without an input   *)
(* whenever it likes; it has every descriptor its parent has at the fork.  *)
(* The parent is taken to have its own descriptors 0, 1 and 2 open.        *)
(***************************************************************************)
EXTENDS Naturals

CONSTANTS
  NumFilters, \* filters are created in the order of their numbers
  MaxFaults   \* bound on the calls of the system that fail

VARIABLES
  held,       \* the ends that the parent holds
  files,      \* the ends that a caller was given, as descriptors or files
  child,      \* of each filter, its state and the ends its process holds
  result,     \* of each filter, what the call that created it and filter_wait returned
  faults

FiltersAssumption == NumFilters \in Nat

Filters == 1 .. NumFilters

fvars == <<held, files, child, result, faults>>

Kinds == {"in", "out", "err"}
Before(k) == CASE k = "in" -> {} [] k = "out" -> {"in"} [] k = "err" -> {"in", "out"}
Pipe(f, K) == {f} \X K \X {"read", "write"}
OurSide(k) == IF k = "in" THEN "write" ELSE "read"
Ours(f, K) == {e \in Pipe(f, K) : e[3] = OurSide(e[2])}
Theirs(f, K) == Pipe(f, K) \ Ours(f, K)
Input(f) == <<f, "in", "write">>
Running == {f \in Filters : child[f].state = "running"}
-----------------------------------------------------------------------------
(* filter_create_fd: the pipes are made one after the other; "fault" is the *)
(* one that cannot be made, or "fork", and those made before it are closed. *)
Turn(f) == child[f].state = "none" /\ result[f] = "" /\ \A g \in Filters : g < f => result[g] # ""
CreateFails(f, want, fault) ==
  /\ Turn(f) /\ fault \in want \cup {"fork"} /\ faults < MaxFaults
  /\ result' = [result EXCEPT ![f] = "system"]
  /\ faults' = faults + 1
  /\ UNCHANGED <<held, files, child>>
Forked(f, want) == [state |-> "running", fds |-> (held \cup Pipe(f, want)) \ Ours(f, want)]
FilterCreateFd(f, want) ==
  /\ Turn(f)
  /\ child' = [child EXCEPT ![f] = Forked(f, want)]
  /\ held' = held \cup Ours(f, want)
  /\ files' = files \cup Ours(f, want)
  /\ result' = [result EXCEPT ![f] = "ok"]
  /\ UNCHANGED faults
(* filter_create_fp: when one of them cannot be made a file, the files made *)
(* before it are closed, it and the later ones stay open, and the child     *)
(* runs.                                                                    *)
FilterCreateFp(f, want, k) ==
  /\ Turn(f) /\ k \in want /\ faults < MaxFaults
  /\ child' = [child EXCEPT ![f] = Forked(f, want)]
  /\ held' = held \cup Ours(f, want \ Before(k))
  /\ result' = [result EXCEPT ![f] = "io"]
  /\ faults' = faults + 1
  /\ UNCHANGED files

(* The caller closes an end; a child ends, one way or another.              *)
Close(e) == /\ e \in files
            /\ files' = files \ {e} /\ held' = held \ {e}
            /\ UNCHANGED <<child, result, faults>>
Holders(e) == {g \in Running : e \in child[g].fds}
AtEnd(f) == (f \in Running /\ <<f, "in", "read">> \in child[f].fds) => Input(f) \notin held /\ Holders(Input(f)) = {}
Exit(f, status) ==
  /\ f \in Running /\ AtEnd(f)
  /\ child' = [child EXCEPT ![f] = [state |-> status, fds |-> {}]]
  /\ UNCHANGED <<held, files, result, faults>>

(* filter_wait, with a place for the exit code or without.  If the child    *)
(* still runs and WNOHANG is given, or the wait is interrupted, the answer  *)
(* is made from a status that was never set, and may be any.                *)
FilterWaitUnset(f) ==
  /\ result[f] = "ok" /\ f \in Running
  /\ result' = [result EXCEPT ![f] = "unset"]
  /\ UNCHANGED <<held, files, child, faults>>
FilterWait(f, exitcode) ==
  /\ result[f] \in {"ok", "unset"} /\ child[f].state \in {"zero", "nonzero", "signal"}
  /\ result' = [result EXCEPT ![f] = IF child[f].state = "signal" THEN "died"
                                     ELSE IF exitcode THEN child[f].state
                                     ELSE IF child[f].state = "zero" THEN "success" ELSE "status"]
  /\ UNCHANGED <<held, files, child, faults>>

Init == /\ held = {} /\ files = {} /\ faults = 0
        /\ child = [f \in Filters |-> [state |-> "none", fds |-> {}]]
        /\ result = [f \in Filters |-> ""]
Next == \/ \E f \in Filters, want \in SUBSET Kinds :
             \/ FilterCreateFd(f, want)
             \/ \E fault \in Kinds \cup {"fork"} : CreateFails(f, want, fault)
             \/ \E k \in Kinds : FilterCreateFp(f, want, k)
        \/ \E e \in files : Close(e)
        \/ \E f \in Filters :
             \/ \E status \in {"zero", "nonzero", "signal"} : Exit(f, status)
             \/ FilterWaitUnset(f)
             \/ \E exitcode \in BOOLEAN : FilterWait(f, exitcode)
Spec == Init /\ [][Next]_fvars
-----------------------------------------------------------------------------
(* A call that failed has left the parent no end, and no child, but for     *)
(* fdopen; the input of a filter is held open only by the parent and by     *)
(* filters that were created after it; so that, when the parent has closed  *)
(* all inputs, some filter that runs can end.                               *)
FiltersSound ==
  /\ held = files \cup {e \in held : result[e[1]] = "io"}
  /\ \A f \in Filters : result[f] = "system" => child[f].state = "none"
  /\ \A f \in Filters : \A g \in Holders(Input(f)) : g > f
  /\ Running # {} /\ (\A f \in Filters : Input(f) \notin held) => \E f \in Running : AtEnd(f)
===============================================================================
