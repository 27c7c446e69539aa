------------------------------- MODULE MCDict -------------------------------
(* Instances of Dict and of the map that it is: what its threads call.     *)
EXTENDS DictMap

CONSTANTS t1, t2, t3, a, b, c, v1, v2

(* a and b fall into one entry, c into another.                            *)
Hashes == [i \in Ids |-> IF i = c THEN 2 ELSE 1]

Set(ids, values) == [op : {"update"}, id : ids, value : values, by : {{}}]
Modify(ids, values) ==
  [op : {"update"}, id : ids, value : values, by : {{"new"}, {"update"}, {"new", "update"}}]
SearchFor(ids) == [op : {"search"}, id : ids, plock : BOOLEAN]
Delete(ids) == [op : {"delete"}, id : ids]
Iterate(ids) == [op : {"next"}, id : ids, plock : BOOLEAN]
Cleanup == {[op |-> "cleanup"]}

Program(calls1, calls2, calls3) ==
  [t \in Threads |-> CASE t = t1 -> calls1 [] t = t2 -> calls2 [] t = t3 -> calls3]

(* Three threads set, remove and search.                                   *)
SetRemoveSearch ==
  Program(Set({a, b}, {v1}), Delete({a}) \cup Set({a}, {v2}), SearchFor({a}))

(* One sets and removes, one iterates.                                     *)
SetAndIterate ==
  Program(Set(Ids, {v1}) \cup Delete({a, c}), Iterate(Ids \cup {NoId}), {})

(* One changes values by callbacks, beside one that sets and removes.      *)
ModifyAndSet ==
  Program(Modify({a, b}, {v1}), Set({a, b}, {v2}) \cup Delete({a}), {})

(* One sets, one cleans up, one searches.                                  *)
SetCleanSearch ==
  Program(Set({a}, {v1, v2}), Cleanup, SearchFor({a}))

(* A cleanup that has two entries to go through.                           *)
SetTwoAndClean == Program(Set({a, c}, {v1, v2}), Cleanup, {})

(* A cleanup beside a setter.                                              *)
SetAndClean == Program(Set({a}, {v1}), Cleanup, {})

AllClients == {SetRemoveSearch, SetAndIterate, ModifyAndSet, SetCleanSearch, SetTwoAndClean}
Racing == {SetAndClean}
=============================================================================
