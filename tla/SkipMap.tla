------------------------------ MODULE SkipMap ------------------------------
(***************************************************************************)
(* What util/skiplist.h promises of a thread-safe skip list: a map from    *)
(* keys to values that several threads call at once.  Every call behaves   *)
(* as if it were one step taken between its start and its return.  An      *)
(* update is such a step.  For a search, seen[t] collects the answers that *)
(* were right at some moment of the call; any of them may be returned.     *)
(***************************************************************************)
EXTENDS Naturals

CONSTANTS
  Threads,     \* callers
  Keys,        \* keys items may have
  Values,      \* values items may have
  NoValue,     \* NULL
  AllocFirst,  \* whether memory may run out before the map is looked at
  Calls        \* Calls[t]: the calls thread t makes

VARIABLES
  map,         \* map[k]: the value stored under k, or NoValue
  call,        \* call[t]: the call thread t is in, or NoCall
  seen,        \* seen[t]: answers a pending search may give
  ret          \* ret[t]: the answer of the call, or NoAnswer

mapVars == <<map, call, seen, ret>>

NoCall == [op |-> "none"]
NoAnswer == [status |-> "pending"]
Done(status) == [status |-> status]

IsSearch(c) == c.op \in {"search", "next"}

(* The least key of m that is larger than k.                               *)
Larger(m, k) == {l \in Keys : l > k /\ m[l] # NoValue}
Successor(m, k) == CHOOSE l \in Larger(m, k) : \A o \in Larger(m, k) : l <= o

(* The answer to the search c when the map is m.                           *)
Right(c, m) ==
  CASE c.op = "search" -> [status |-> "ok", key |-> c.key, value |-> m[c.key]]
    [] c.op = "next" /\ Larger(m, c.key) = {} ->
         [status |-> "ok", key |-> c.key, value |-> NoValue]
    [] OTHER ->
         LET k == Successor(m, c.key)
         IN  [status |-> "ok", key |-> k, value |-> m[k]]

(* The pending searches see that the map has become m.                     *)
Notice(m) ==
  [t \in Threads |-> IF IsSearch(call[t]) /\ ret[t] = NoAnswer
                     THEN seen[t] \cup {Right(call[t], m)}
                     ELSE seen[t]]

-----------------------------------------------------------------------------
MapInit ==
  /\ map = [k \in Keys |-> NoValue]
  /\ call = [t \in Threads |-> NoCall]
  /\ seen = [t \in Threads |-> {}]
  /\ ret = [t \in Threads |-> NoAnswer]

Call(t) ==
  /\ call[t] = NoCall
  /\ \E c \in Calls[t] :
       /\ call' = [call EXCEPT ![t] = c]
       /\ seen' = [seen EXCEPT ![t] = IF IsSearch(c) THEN {Right(c, map)} ELSE {}]
  /\ UNCHANGED <<map, ret>>

Pending(t, ops) == call[t].op \in ops /\ ret[t] = NoAnswer

(* An update takes effect and its answer is settled.                       *)
Store(t) ==
  /\ Pending(t, {"insert", "update"})
  /\ \/ /\ map[call[t].key] = NoValue \/ call[t].op = "update"
        /\ map' = [map EXCEPT ![call[t].key] = call[t].value]
        /\ ret' = [ret EXCEPT ![t] = Done("ok")]
     \/ /\ map[call[t].key] # NoValue /\ call[t].op = "insert"
        /\ ret' = [ret EXCEPT ![t] = Done("duplicate")]
        /\ UNCHANGED map
     \/ /\ map[call[t].key] = NoValue \/ AllocFirst
        /\ ret' = [ret EXCEPT ![t] = Done("nomem")]
        /\ UNCHANGED map
  /\ seen' = Notice(map')
  /\ UNCHANGED call

Remove(t) ==
  /\ Pending(t, {"delete"})
  /\ map' = [map EXCEPT ![call[t].key] = NoValue]
  /\ ret' = [ret EXCEPT ![t] = Done("ok")]
  /\ seen' = Notice(map')
  /\ UNCHANGED call

Answer(t) ==
  /\ Pending(t, {"search", "next"})
  /\ \E a \in seen[t] : ret' = [ret EXCEPT ![t] = a]
  /\ seen' = [seen EXCEPT ![t] = {}]
  /\ UNCHANGED <<map, call>>

Return(t) ==
  /\ ret[t] # NoAnswer
  /\ call' = [call EXCEPT ![t] = NoCall]
  /\ ret' = [ret EXCEPT ![t] = NoAnswer]
  /\ UNCHANGED <<map, seen>>

MapNext == \E t \in Threads : Call(t) \/ Store(t) \/ Remove(t) \/ Answer(t) \/ Return(t)

MapSpec == MapInit /\ [][MapNext]_mapVars
=============================================================================
