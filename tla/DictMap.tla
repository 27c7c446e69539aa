------------------------------ MODULE DictMap ------------------------------
(* The dictionary as the map from ids to values that it is to its clients: *)
(* a refinement mapping from Dict to SkipMap, with ids for keys. The       *)
(* history variable seen is that of SkipMap: what the id of a pending      *)
(* search has had for a value since the call began.                        *)
EXTENDS Dict

VARIABLE seen

Content ==
  [id \in Ids |->
     LET homes == {e \in InList(HashOf[id]) : Where(e, id) # 0}
     IN  IF homes = {} THEN NoValue
         ELSE LET e == CHOOSE h \in homes : TRUE
              IN  entry[e].items[Where(e, id)].value]

MapCall(c) ==
  CASE c.op = "search" -> [op |-> "search", key |-> c.id]
    [] c.op = "delete" -> [op |-> "delete", key |-> c.id]
    [] c.op = "update" -> [op |-> "update", key |-> c.id, value |-> c.value]
    [] OTHER -> [op |-> "none"]

MapRet(t) ==
  CASE me[t].status \notin {"ok", "nomem"} \/ MapCall(call[t]).op = "none" ->
         [status |-> "pending"]
    [] me[t].status = "ok" /\ call[t].op = "search" ->
         [status |-> "ok", key |-> call[t].id, value |-> me[t].value]
    [] OTHER -> [status |-> me[t].status]

Map == INSTANCE SkipMap WITH
  Keys <- Ids, map <- Content, AllocFirst <- TRUE,
  Calls <- [t \in Threads |-> {MapCall(c) : c \in UNION {p[t] : p \in Clients}}],
  call <- [t \in Threads |-> MapCall(call[t])],
  ret <- [t \in Threads |-> MapRet(t)]

Searching(t) == call[t].op = "search" /\ me[t].status = "pending"

SeenInit == Init /\ seen = [t \in Threads |-> {}]

SeenNext ==
  seen' = [t \in Threads |->
             IF Searching(t)' THEN seen[t] \cup {Map!Right(MapCall(call[t]), Content)'} ELSE {}]

MapSpec == SeenInit /\ [][Next /\ SeenNext]_<<vars, seen>>
-----------------------------------------------------------------------------
(* Without cleanups the calls of the dictionary are atomic steps on a map  *)
(* from ids to values: dictSetValue stores, dictRemove removes, dictSearch *)
(* finds what was there at a moment of its call, although each looks the   *)
(* entry up before it has DICT_LOCK (dict.c:282-285, 390-395, 518-523).    *)
(* A cleanup removes what its callback chooses, which a map does not do.   *)
Cleans == \E t \in Threads : \E c \in client[t] : c.op = "cleanup"
ImplementsMap ==
  Map!MapInit /\ [][IF Cleans THEN TRUE ELSE Map!MapNext]_(Map!mapVars)

(* Beside cleanups too, dictSearch answers with a value that the id had in *)
(* the list at a moment of the call, or with NULL if it had none then: the *)
(* entry it stands on may have been taken out and have a successor.        *)
AnswersWereRight ==
  [][\A t \in Threads :
       Searching(t) /\ me'[t].status = "ok" => MapRet(t)' \in seen[t]]_<<vars, seen>>
=============================================================================
