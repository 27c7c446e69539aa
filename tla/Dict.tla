-------------------------------- MODULE Dict --------------------------------
(* The thread-safe dictionary of util/dict.c: string ids hash into the     *)
(* keys of a skip list whose values are entries, lists of the items with   *)
(* that hash. The list is used for what SkipMap promises of it, one step a *)
(* call; the mutex mList (DICT_LOCK) covers the entries and every change   *)
(* of the list, but not the searches that come before it.                  *)
EXTENDS Integers, Sequences, FiniteSets, FiniteSetsExt, SequencesExt, TLC

CONSTANTS Threads,
          Ids,          \* string ids
          HashOf,       \* HashOf[i]: dictHash of the id i
          Values, NoValue,
          Swept,        \* the values the cleanup callback wants removed
          Cells,        \* addresses of entries (positive numbers)
          FlushLimit,   \* deleted entries the list keeps before it flushes
          MaxLocks,     \* bound: dictNext starts while no entry has more locks
          NoThread, NoId,
          Clients       \* the programs: client[t] is the set of calls thread t makes

(* The calls of the library on a dictionary.                               *)
Calls ==
  [op : {"update"}, id : Ids, value : Values, by : SUBSET {"new", "update"}]
    \cup [op : {"search"}, id : Ids, plock : BOOLEAN]
    \cup [op : {"delete"}, id : Ids]
    \cup [op : {"next"}, id : Ids \cup {NoId}, plock : BOOLEAN]
    \cup {[op |-> "cleanup"]}

(* A program has one thread that cleans up: of two, the slower one would   *)
(* delete by key an entry that was inserted since (dict.c:371).            *)
ASSUME DictAssumption ==
  /\ IsFiniteSet(Threads) /\ NoThread \notin Threads /\ NoId \notin Ids
  /\ HashOf \in [Ids -> Nat \ {0}] /\ Cells \subseteq Nat \ {0} /\ FlushLimit \in Nat
  /\ \A p \in Clients :
       /\ DOMAIN p = Threads
       /\ \A t \in Threads : p[t] \subseteq Calls
       /\ \A t, u \in Threads : [op |-> "cleanup"] \in p[t] \cap p[u] => t = u

VARIABLES
  entry,   \* from the cells in use to entries, with their item in the list
  mList,   \* who holds DICT_LOCK
  client,  \* the program that uses the dictionary
  call,    \* call[t]: the call t is in, or NoCall
  me       \* me[t]: where t stands in it, and its local variables

vars == <<entry, mList, client, call, me>>

Null == 0
NoCall == [op |-> "none"]
Idle == [pc |-> "idle", e |-> Null, key |-> 0, id |-> NoId, value |-> NoValue,
         status |-> "pending", stored |-> FALSE]

Linked == {e \in DOMAIN entry : entry[e].linked}
Cached == DOMAIN entry \ Linked
InList(hash) == {e \in Linked : entry[e].hash = hash}
Behind(hash) == {e \in Linked : entry[e].hash > hash}
First(es) == {e \in es : \A o \in es : entry[e].hash <= entry[o].hash}
Hash(t) == HashOf[call[t].id]

(* dictFindItem.                                                           *)
Where(e, id) == SelectInSeq(entry[e].items, LAMBDA i : i.id = id)
Item(id, value) == [id |-> id, value |-> value]

Held(n) == [entry EXCEPT ![n].locks = @ + 1]
Free(n) == [entry EXCEPT ![n].locks = @ - 1]
With(n, new) == [e \in DOMAIN entry \cup {n} |-> IF e = n THEN new ELSE entry[e]]

At(t, pc) == me[t].pc = pc
Goto(t, pc) == me' = [me EXCEPT ![t].pc = pc]
Answer(t, value, pc) ==
  me' = [me EXCEPT ![t].pc = pc, ![t].value = value, ![t].status = "ok"]

(* dictNext takes the i-th item of e, which the client has locked if it    *)
(* asked for that, or nothing if e has no such item.                       *)
Take(t, e, i) ==
  LET items == entry[e].items
  IN  me' = IF i > Len(items)
            THEN [me EXCEPT ![t].pc = "unlock", ![t].e = e, ![t].status = "ok"]
            ELSE [me EXCEPT ![t].pc = IF call[t].plock THEN "held" ELSE "unlock",
                            ![t].e = e, ![t].id = items[i].id,
                            ![t].value = items[i].value, ![t].status = "ok"]
-----------------------------------------------------------------------------
Begin(t) ==
  /\ At(t, "idle")
  /\ \E c \in client[t] :
       /\ c.op = "next" => \A e \in DOMAIN entry : entry[e].locks <= MaxLocks
       /\ call' = [call EXCEPT ![t] = c]
       /\ me' = [me EXCEPT ![t].pc = IF c.op = "cleanup" \/ (c.op = "next" /\ c.id = NoId)
                                    THEN "walk" ELSE "find"]
  /\ UNCHANGED <<entry, mList>>

(* skipSearch with a value lock, the first step of every call on an id.    *)
Find(t) ==
  LET op == call[t].op
  IN  /\ At(t, "find")
      /\ \/ \E e \in InList(Hash(t)) :
              /\ entry' = Held(e)
              /\ me' = [me EXCEPT ![t].pc = "lock", ![t].e = e, ![t].key = Hash(t)]
         \/ /\ InList(Hash(t)) = {}
            /\ \/ op = "update" /\ Goto(t, "lock")
               \/ op = "next" /\ me' = [me EXCEPT ![t].pc = "walk", ![t].key = Hash(t)]
               \/ op \in {"search", "delete"} /\ Answer(t, NoValue, "return")
            /\ UNCHANGED entry
      /\ UNCHANGED <<mList, call>>

(* skipNext with a value lock, the way of dictCleanup and dictNext to the  *)
(* next entry.                                                             *)
FindNextSame(t) ==
  /\ At(t, "walk")
  /\ \/ \E e \in First(Behind(me[t].key)) :
          entry' = Held(e) /\ me' = [me EXCEPT ![t].pc = "lock", ![t].e = e]
     \/ /\ Behind(me[t].key) = {}
        /\ Answer(t, NoValue, "return")
        /\ UNCHANGED entry
  /\ UNCHANGED <<mList, call>>
FindNext(t) ==
  /\ At(t, "walk")
  /\ \/ \E e \in First(Behind(me[t].key)) :
          /\ entry' = Held(e)
          /\ me' = [me EXCEPT ![t].pc = "lock", ![t].e = e, ![t].key = entry[e].hash]
     \/ /\ Behind(me[t].key) = {}
        /\ Answer(t, NoValue, "return")
        /\ UNCHANGED entry
  /\ UNCHANGED <<mList, call>>

Lock(t) ==
  /\ At(t, "lock") /\ mList = NoThread
  /\ mList' = t
  /\ Goto(t, call[t].op)
  /\ UNCHANGED <<entry, call>>

(* The callbacks that an update has: none for dictSetValue, one that makes *)
(* a value or one that changes it, or both, for dictModifyValue. Any may   *)
(* fail.                                                                   *)
MayCreate(t) == call[t].by # {"update"}
MayFail(t) == call[t].by # {}

(* dictUpdate, up to the release of the entry. One that is marked deleted  *)
(* is left as it is, which counts as a success. When there is no memory    *)
(* for a new item or nothing to make it with, and when a callback fails,   *)
(* dictModify goes on to insert an entry. The status "nomem" stands for    *)
(* each of these.                                                          *)
UpdateAnyway(t) ==
  LET e == me[t].e
  IN  /\ At(t, "update")
      /\ IF e = Null THEN Goto(t, "insert") /\ UNCHANGED entry
         ELSE /\ me' = [me EXCEPT ![t].pc = "release", ![t].status = "ok", ![t].stored = TRUE]
              /\ entry' = [entry EXCEPT ![e].items =
                                <<Item(call[t].id, call[t].value)>> \o @]
      /\ UNCHANGED <<mList, call>>
Update(t) ==
  LET e == me[t].e
      i == Where(e, call[t].id)
      new == Item(call[t].id, call[t].value)
      Stored(items) ==
        /\ entry' = [entry EXCEPT ![e].items = items]
        /\ me' = [me EXCEPT ![t].pc = "release", ![t].status = "ok", ![t].stored = TRUE]
      Answered(status) ==
        /\ me' = [me EXCEPT ![t].pc = "release", ![t].status = status]
        /\ UNCHANGED entry
  IN  /\ At(t, "update")
      /\ \/ e = Null /\ Goto(t, "insert") /\ UNCHANGED entry
         \/ e # Null /\ entry[e].deleted /\ Answered("ok")
         \/ /\ e # Null /\ ~entry[e].deleted
            /\ \/ i # 0 /\ Stored([entry[e].items EXCEPT ![i] = new])
               \/ i = 0 /\ MayCreate(t) /\ Stored(<<new>> \o entry[e].items)
               \/ /\ i = 0 \/ MayFail(t)
                  /\ Answered(IF me[t].status = "duplicate" THEN "nomem" ELSE "pending")
      /\ UNCHANGED <<mList, call>>

(* The entries left after skipWriteUnlock: too many deleted ones have      *)
(* those freed that no thread has a lock on.                               *)
FlushAll(ents) ==
  [e \in {x \in DOMAIN ents : ents[x].linked} |-> ents[e]]
Flushed(ents) ==
  LET cached == {e \in DOMAIN ents : ~ents[e].linked}
  IN  IF Cardinality(cached) <= FlushLimit THEN ents
      ELSE [e \in {x \in DOMAIN ents : ents[x].linked \/ ents[x].locks > 0} |-> ents[e]]

(* dictInsert: a new entry with the one item, unless another thread has    *)
(* inserted one since the search, which is then searched for again. Memory *)
(* may run out before the list is called or, for its item, inside it; the  *)
(* callback that makes the value may fail or be missing.                   *)
Insert(t) ==
  LET there == InList(Hash(t))
      new   == [hash |-> Hash(t), items |-> <<Item(call[t].id, call[t].value)>>,
                deleted |-> FALSE, linked |-> TRUE, locks |-> 0]
      free  == Cells \ DOMAIN entry
  IN  /\ At(t, "insert")
      /\ \/ /\ me' = [me EXCEPT ![t].pc = "unlock", ![t].status = "nomem"]
            /\ \/ UNCHANGED entry
               \/ MayCreate(t) /\ there = {} /\ entry' = Flushed(entry)
         \/ /\ MayCreate(t) /\ free # {} /\ there # {}
            /\ entry' = Flushed(entry)
            /\ me' = [me EXCEPT ![t].pc = "again", ![t].status = "duplicate"]
         \/ /\ MayCreate(t) /\ free # {} /\ there = {}
            /\ entry' = Flushed(With(Min(free), new))
            /\ me' = [me EXCEPT ![t].pc = "unlock", ![t].status = "ok", ![t].stored = TRUE]
      /\ UNCHANGED <<mList, call>>

FindAgain(t) ==
  /\ At(t, "again")
  /\ \E e \in InList(Hash(t)) :
       /\ entry' = Held(e)
       /\ me' = [me EXCEPT ![t].pc = "update", ![t].e = e]
  /\ UNCHANGED <<mList, call>>

(* dictSearch, dictRemove and dictNext, once the entry is locked.          *)
Search(t) ==
  LET i == Where(me[t].e, call[t].id)
      found == IF i = 0 THEN NoValue ELSE entry[me[t].e].items[i].value
  IN  /\ At(t, "search")
      /\ Answer(t, found, IF i # 0 /\ call[t].plock THEN "held" ELSE "unlock")
      /\ UNCHANGED <<entry, mList, call>>

RemoveItem(t) ==
  LET i == Where(me[t].e, call[t].id)
  IN  /\ At(t, "delete")
      /\ entry' = IF i = 0 THEN entry ELSE [entry EXCEPT ![me[t].e].items = RemoveAt(@, i)]
      /\ Answer(t, NoValue, "unlock")
      /\ UNCHANGED <<mList, call>>

NextItemSame(t) ==
  LET e == me[t].e
      i == IF call[t].id = NoId THEN 1 ELSE Where(e, call[t].id)
  IN  /\ At(t, "next")
      /\ IF i = 0 THEN Answer(t, NoValue, "unlock") ELSE Take(t, e, i)
      /\ UNCHANGED <<entry, mList, call>>
NextItem(t) ==
  LET e == me[t].e
      i == IF call[t].id = NoId THEN 0 ELSE Where(e, call[t].id)
  IN  /\ At(t, "next")
      /\ \/ call[t].id = NoId /\ Take(t, e, 1)
         \/ call[t].id # NoId /\ i = 0 /\ Answer(t, NoValue, "unlock")
         \/ call[t].id # NoId /\ i # 0 /\ i < Len(entry[e].items) /\ Take(t, e, i + 1)
         \/ call[t].id # NoId /\ i # 0 /\ i = Len(entry[e].items) /\ Goto(t, "over")
      /\ UNCHANGED <<entry, mList, call>>

(* The item was the last of its entry: skipNext again, whose lock replaces *)
(* the one on the entry.                                                   *)
NextEntry(t) ==
  /\ At(t, "over")
  /\ \/ \E e \in First(Behind(me[t].key)) : entry' = Held(e) /\ Take(t, e, 1)
     \/ /\ Behind(me[t].key) = {}
        /\ Answer(t, NoValue, "unlock")
        /\ UNCHANGED entry
  /\ UNCHANGED <<mList, call>>

(* One entry of dictCleanup: the items the callback wants removed go, one  *)
(* by one, and an entry without items is marked.                           *)
Sweep(t) ==
  LET e == me[t].e
      items == entry[e].items
      i == SelectInSeq(items, LAMBDA x : x.value \in Swept)
  IN  /\ At(t, "cleanup")
      /\ \/ /\ i # 0
            /\ entry' = [entry EXCEPT ![e].items = RemoveAt(@, i)]
            /\ UNCHANGED me
         \/ /\ i = 0
            /\ entry' = [entry EXCEPT ![e].deleted = @ \/ items = <<>>]
            /\ Goto(t, IF items = <<>> THEN "drop" ELSE "unlock")
      /\ UNCHANGED <<mList, call>>

(* skipDelete takes the entry out that is in the list under the key then.  *)
Drop(t) ==
  /\ At(t, "drop")
  /\ entry' = Flushed([e \in DOMAIN entry |->
                         IF e \in InList(me[t].key) THEN [entry[e] EXCEPT !.linked = FALSE]
                         ELSE entry[e]])
  /\ Goto(t, "unlock")
  /\ UNCHANGED <<mList, call>>

(* The value lock and DICT_LOCK are given up, by dictUpdate in this order, *)
(* by dictReleaseLock in the other.                                        *)
AfterRelease(t) ==
  CASE mList = t /\ me[t].status = "pending" -> "insert"
    [] mList = t /\ me[t].status # "pending" -> "unlock"
    [] mList # t /\ call[t].op = "cleanup" -> "walk"
    [] OTHER -> "return"

Release(t) ==
  /\ At(t, "release")
  /\ entry' = Free(me[t].e)
  /\ me' = [me EXCEPT ![t].e = Null, ![t].pc = AfterRelease(t)]
  /\ UNCHANGED <<mList, call>>

Unlock(t) ==
  /\ At(t, "unlock")
  /\ mList' = NoThread
  /\ Goto(t, IF me[t].e = Null THEN "return" ELSE "release")
  /\ UNCHANGED <<entry, call>>

(* The client of dictSearch or dictNext calls dictReleaseLock.             *)
GiveBack(t) ==
  /\ At(t, "held")
  /\ Goto(t, "unlock")
  /\ UNCHANGED <<entry, mList, call>>

Return(t) ==
  /\ At(t, "return")
  /\ call' = [call EXCEPT ![t] = NoCall]
  /\ me' = [me EXCEPT ![t] = Idle]
  /\ UNCHANGED <<entry, mList>>

Init ==
  /\ entry = <<>>
  /\ mList = NoThread
  /\ client \in Clients
  /\ call = [t \in Threads |-> NoCall]
  /\ me = [t \in Threads |-> Idle]

Step(t) ==
  \/ Find(t)
  \/ FindNext(t)
  \/ Update(t)
  \/ Insert(t)
  \/ FindAgain(t)
  \/ Search(t)
  \/ RemoveItem(t)
  \/ NextItem(t)
  \/ NextEntry(t)
  \/ Sweep(t)
  \/ Drop(t)
  \/ Release(t)
  \/ Unlock(t)
  \/ GiveBack(t)
  \/ Return(t)

Next ==
  /\ \E t \in Threads : Begin(t) \/ Lock(t) \/ Step(t)
  /\ UNCHANGED client

Spec == Init /\ [][Next]_vars

(* A thread in a call goes on; the mutex does not starve it.               *)
Fairness ==
  /\ \A t \in Threads : /\ WF_vars(Step(t) /\ UNCHANGED client)
                         /\ SF_vars(Lock(t) /\ UNCHANGED client)
-----------------------------------------------------------------------------
(* Type invariant.  The count of locks, which is unsigned, never goes      *)
(* below 0.                                                                *)
Entries == [hash : {HashOf[i] : i \in Ids}, items : Seq([id : Ids, value : Values]),
            deleted : BOOLEAN, linked : BOOLEAN, locks : Nat]
DictTypeOK ==
  /\ DOMAIN entry \subseteq Cells
  /\ \A e \in DOMAIN entry : entry[e] \in Entries
  /\ mList \in Threads \cup {NoThread}

(* The list counts a lock on an entry for each thread that stands on it,   *)
(* so no flush frees an entry under a thread; and it counts no other, so   *)
(* none is kept for a thread that has gone (dictSearch, dictUpdate,        *)
(* dictReleaseLock) -- but for dictNext, which drops the lock of an entry  *)
(* that it has left (:482).                                                *)
Standing(e) == {t \in Threads : me[t].e = e}
Iterates == \E t \in Threads : \E c \in client[t] : c.op = "next"
LocksCount ==
  /\ \A t \in Threads : me[t].e \in DOMAIN entry \cup {Null}
  /\ \A e \in DOMAIN entry :
       /\ Cardinality(Standing(e)) <= entry[e].locks
       /\ ~Iterates => Cardinality(Standing(e)) = entry[e].locks

(* An id has one place: one entry in the list for its hash, one item in it.*)
OneHome ==
  /\ \A e, f \in Linked : entry[e].hash = entry[f].hash => e = f
  /\ \A e \in DOMAIN entry : \A i, j \in DOMAIN entry[e].items :
       /\ HashOf[entry[e].items[i].id] = entry[e].hash
       /\ entry[e].items[i].id = entry[e].items[j].id => i = j

(* What the comment on dictEntry.deleted says, "TRUE if entry has been     *)
(* passed to skipDelete", whenever DICT_LOCK is free: only then can a      *)
(* thread that found the entry earlier tell that it is out of the list.    *)
DeletedIsMarked ==
  mList = NoThread => \A e \in DOMAIN entry : entry[e].deleted = ~entry[e].linked

(* The entries and the locks on them are consistent between any two steps  *)
(* of any threads (dictUpdate, dictInsert, dictCleanup, dictReleaseLock).  *)
EntriesSound == DictTypeOK /\ LocksCount /\ OneHome /\ DeletedIsMarked

(* What dict.h says of dictSetValue, "If <id> is not in <dict>, it is      *)
(* created": a call that returned success did store its value.             *)
SetStores ==
  \A t \in Threads :
    At(t, "return") /\ call[t].op = "update" /\ me[t].status = "ok" => me[t].stored

(* An iteration with dictNext goes forward in the order of the hashes, so  *)
(* it ends: it never gives back the id it was given, although other ids    *)
(* come and go (dict.c:454-507).                                           *)
NextForward ==
  \A t \in Threads :
    call[t].op = "next" /\ me[t].id # NoId /\ call[t].id # NoId =>
      /\ me[t].id # call[t].id
      /\ HashOf[me[t].id] >= HashOf[call[t].id]

(* Every call returns: no thread waits for DICT_LOCK for ever.             *)
CallsReturn == \A t \in Threads : me[t].pc # "idle" ~> me[t].pc = "idle"
=============================================================================
