----------------------------- MODULE DictProofs -----------------------------
(* Safety of the dictionary of util/dict.c, for any number of threads, ids *)
(* and entries, any flush limit, and any program with one thread that      *)
(* cleans up; and that it implements the map SkipMap.                      *)
EXTENDS DictMap, ListLemmas, FiniteSetTheorems, TLAPS

Statuses == {"pending", "ok", "nomem", "duplicate"}
MutexSection ==
  {"update", "insert", "again", "search", "delete", "next", "over", "cleanup",
   "drop", "held", "unlock"}
NoEntry == {"idle", "find", "walk", "insert", "again", "return"}
OnEntry == {"search", "delete", "next", "over", "cleanup", "drop", "held", "release"}
OnId == {"update", "search", "delete"}

Local ==
  [pc : MutexSection \cup NoEntry \cup {"lock", "release"},
   e : Cells \cup {Null}, key : Nat, id : Ids \cup {NoId},
   value : Values \cup {NoValue}, status : Statuses, stored : BOOLEAN]
LocalsOK == me \in [Threads -> Local]
CallsOK == client \in Clients /\ call \in [Threads -> Calls \cup {NoCall}]

(* The call that a thread is in tells which steps it takes.                *)
CallFits(t) ==
  /\ call[t] \in client[t] \cup {NoCall}
  /\ At(t, "idle") => me[t] = Idle
  /\ At(t, "idle") <=> call[t].op = "none"
  /\ At(t, "find") => /\ call[t].op \in OnId \cup {"next"}
                      /\ call[t].op = "next" => call[t].id # NoId
  /\ At(t, "walk") => call[t].op \in {"next", "cleanup"}
  /\ me[t].pc \in {"update", "search", "delete", "next", "cleanup"} => call[t].op = me[t].pc
  /\ me[t].pc \in {"insert", "again"} => call[t].op = "update"
  /\ At(t, "over") => call[t].op = "next" /\ call[t].id # NoId
  /\ At(t, "drop") => call[t].op = "cleanup"
  /\ At(t, "held") => call[t].op \in {"search", "next"}

Owns(t) == me[t].pc \in MutexSection \/ (At(t, "release") /\ call[t].op = "update")
MutexOwned == \A t \in Threads : Owns(t) <=> mList = t

(* The entry that a thread stands on, and the key it has come to.          *)
PlaceFits(t) ==
  /\ me[t].pc \in NoEntry => me[t].e = Null
  /\ me[t].pc \in OnEntry => me[t].e # Null
  /\ At(t, "lock") /\ me[t].e = Null => call[t].op = "update"
  /\ At(t, "unlock") /\ me[t].e # Null => call[t].op # "update"
  /\ me[t].e # Null /\ call[t].op \in OnId => entry[me[t].e].hash = Hash(t)
  /\ call[t].op = "next" /\ call[t].id # NoId /\ ~At(t, "find") => me[t].key >= Hash(t)

(* The one that cleans up has an entry that is in the list.                *)
CleanerFits(t) ==
  call[t].op = "cleanup" /\ me[t].pc \in {"lock", "cleanup", "drop"} =>
    /\ entry[me[t].e].linked
    /\ entry[me[t].e].hash = me[t].key
    /\ At(t, "drop") => entry[me[t].e].deleted

Dropping(e) == mList \in Threads /\ me[mList].pc = "drop" /\ me[mList].e = e
Marked ==
  \A e \in DOMAIN entry : entry[e].deleted = ~entry[e].linked \/ Dropping(e)

DictInv ==
  /\ LocalsOK
  /\ CallsOK
  /\ DictTypeOK
  /\ \A t \in Threads : CallFits(t) /\ PlaceFits(t) /\ CleanerFits(t)
  /\ MutexOwned
  /\ LocksCount
  /\ OneHome
  /\ Marked
  /\ NextForward
-----------------------------------------------------------------------------
Items == Seq([id : Ids, value : Values])
UniqueIds(s) == \A i, j \in DOMAIN s : s[i].id = s[j].id => i = j

(* Where finds the item with the id, the only one.                         *)
LEMMA WhereFinds ==
  ASSUME NEW e, entry[e].items \in Items, NEW id
  PROVE  /\ Where(e, id) \in 0 .. Len(entry[e].items)
         /\ Where(e, id) # 0 => entry[e].items[Where(e, id)].id = id
         /\ Where(e, id) = 0 => \A j \in 1 .. Len(entry[e].items) : entry[e].items[j].id # id
<1> DEFINE s == entry[e].items
           I == {i \in 1 .. Len(s) : s[i].id = id}
<1>1. I # {} => Min(I) \in I
  <2>1. I \in SUBSET Nat
    OBVIOUS
  <2> HIDE DEF I
  <2> QED
    BY <2>1, Least
<1>2. Where(e, id) = IF I # {} THEN Min(I) ELSE 0
  BY DEF Where, SelectInSeq
<1>3. Len(s) \in Nat
  BY DEF Items
<1> HIDE DEF I
<1>4. CASE I # {}
  <2>1. Min(I) \in 1 .. Len(s) /\ s[Min(I)].id = id /\ Min(I) # 0
    BY <1>1, <1>3, <1>4 DEF I
  <2> QED
    BY <1>2, <1>3, <1>4, <2>1
<1>5. CASE I = {}
  <2>1. \A j \in 1 .. Len(s) : s[j].id # id
    BY <1>5 DEF I
  <2> QED
    BY <1>2, <1>3, <1>5, <2>1
<1> QED
  BY <1>4, <1>5

(* The same for the item that a cleanup takes away next.                   *)
LEMMA SweptIsAnItem ==
  ASSUME NEW s \in Items
  PROVE  SelectInSeq(s, LAMBDA x : x.value \in Swept) \in 0 .. Len(s)
<1> DEFINE I == {i \in 1 .. Len(s) : s[i].value \in Swept}
<1>1. I # {} => Min(I) \in I
  <2>1. I \in SUBSET Nat
    OBVIOUS
  <2> HIDE DEF I
  <2> QED
    BY <2>1, Least
<1>2. SelectInSeq(s, LAMBDA x : x.value \in Swept) = IF I # {} THEN Min(I) ELSE 0
  BY DEF SelectInSeq
<1>3. Len(s) \in Nat
  BY DEF Items
<1> HIDE DEF I
<1>4. I # {} => Min(I) \in 0 .. Len(s)
  BY <1>1, <1>3 DEF I
<1> QED
  BY <1>2, <1>3, <1>4

(* A flush frees entries that are out of the list and have no lock.        *)
LEMMA FlushKeeps ==
  ASSUME NEW ents
  PROVE  /\ DOMAIN Flushed(ents) \subseteq DOMAIN ents
         /\ \A e \in DOMAIN Flushed(ents) : Flushed(ents)[e] = ents[e]
         /\ \A e \in DOMAIN ents :
              ents[e].linked \/ ents[e].locks > 0 => e \in DOMAIN Flushed(ents)
  BY DEF Flushed

(* What the calls of a program are made of.                                *)
LEMMA CallType ==
  ASSUME NEW c \in Calls \cup {NoCall}
  PROVE  /\ c.op \in {"none", "update", "search", "delete", "next", "cleanup"}
         /\ c.op = "none" <=> c = NoCall
         /\ c.op \in OnId => c.id \in Ids
         /\ c.op = "next" => c.id \in Ids \cup {NoId}
         /\ c.op = "update" => c.value \in Values
         /\ c.op = "cleanup" => c = [op |-> "cleanup"]
  BY DEF Calls, NoCall, OnId

(* A hash is above 0, so that every iteration begins before it.            *)
LEMMA HashType == \A i \in Ids : HashOf[i] \in Nat \ {0}
  BY DictAssumption

(* What is known of an entry.                                              *)
LEMMA EntryType ==
  ASSUME DictTypeOK, NEW e \in DOMAIN entry
  PROVE  /\ e \in Cells /\ e \in Nat \ {0}
         /\ entry[e].hash \in Nat \ {0}
         /\ entry[e].items \in Items
         /\ entry[e].locks \in Nat
         /\ entry[e].linked \in BOOLEAN /\ entry[e].deleted \in BOOLEAN
  BY DictAssumption DEF DictTypeOK, Entries, Items

(* The entries that a search or a way to the next entry may find.          *)
LEMMA InListType ==
  ASSUME DictTypeOK, NEW hash
  PROVE  /\ \A e \in InList(hash) : /\ e \in DOMAIN entry /\ e # Null /\ entry[e].linked
                                     /\ entry[e].hash = hash
         /\ \A e \in First(Behind(hash)) : /\ e \in DOMAIN entry /\ e # Null /\ entry[e].linked
                                            /\ entry[e].hash \in Nat /\ entry[e].hash > hash
  BY EntryType DEF InList, First, Behind, Linked, Null

(* What is known of the items of an entry.                                 *)
LEMMA ItemType ==
  ASSUME DictTypeOK, NEW e \in DOMAIN entry
  PROVE  /\ Len(entry[e].items) \in Nat
         /\ \A i \in 1 .. Len(entry[e].items) : /\ entry[e].items[i].id \in Ids
                                                /\ entry[e].items[i].value \in Values
<1>1. entry[e].items \in Seq([id : Ids, value : Values])
  BY EntryType DEF Items
<1>2. \A i \in 1 .. Len(entry[e].items) : entry[e].items[i] \in [id : Ids, value : Values]
  BY <1>1, ElementOfSeq
<1> QED
  BY <1>1, <1>2

(* dictNext leaves its local variables in order when it takes an item.     *)
LEMMA TakeType ==
  ASSUME LocalsOK, DictTypeOK, NEW t \in Threads, NEW e \in DOMAIN entry,
         NEW i \in Nat \ {0}, Take(t, e, i)
  PROVE  me'[t] \in Local
<1> USE DEF LocalsOK, Local, MutexSection, NoEntry, Statuses
<1>1. e \in Cells /\ Len(entry[e].items) \in Nat
  BY EntryType, ItemType
<1>2. CASE i > Len(entry[e].items)
  <2>1. me'[t] = [me[t] EXCEPT !.pc = "unlock", !.e = e, !.status = "ok"]
    BY <1>2 DEF Take
  <2> QED
    BY <1>1, <2>1, ZenonT(60)
<1>3. CASE ~(i > Len(entry[e].items))
  <2>1. entry[e].items[i].id \in Ids /\ entry[e].items[i].value \in Values
    BY <1>1, <1>3, ItemType
  <2>2. PICK item : item = entry[e].items[i]
    OBVIOUS
  <2>3. PICK p \in {"held", "unlock"} :
          me'[t] = [me[t] EXCEPT !.pc = p, !.e = e, !.id = item.id,
                                 !.value = item.value, !.status = "ok"]
    BY <1>3, <2>2 DEF Take
  <2>4. me[t] \in Local /\ item.id \in Ids /\ item.value \in Values
    BY <2>1, <2>2
  <2> QED
    BY <1>1, <2>3, <2>4
<1> QED
  BY <1>2, <1>3

(* The local variables keep their types.                                   *)
LEMMA LocalStep ==
  ASSUME DictInv, NEW t \in Threads, Begin(t) \/ Lock(t) \/ Step(t), UNCHANGED client
  PROVE  me'[t] \in Local
<1>0. LocalsOK /\ CallsOK /\ DictTypeOK /\ LocksCount /\ CallFits(t) /\ PlaceFits(t)
  BY DEF DictInv
<1> USE <1>0 DEF LocalsOK, Local, MutexSection, NoEntry, Statuses, Null
<1>1. CASE Begin(t)
  BY <1>1 DEF Begin
<1>2. CASE Lock(t)
  <2>1. me' = [me EXCEPT ![t].pc = call[t].op] /\ UNCHANGED call
    BY <1>2 DEF Lock, Goto
  <2>2. call[t].op \in MutexSection
    BY <1>2, CallType DEF CallsOK, CallFits, At, Lock
  <2> QED
    BY <2>1, <2>2
<1>3. CASE Find(t)
  <2>1. Hash(t) \in Nat
    BY <1>3, CallType, HashType DEF CallsOK, CallFits, At, Find, Hash
  <2>2. CASE InList(Hash(t)) = {}
    <3>1. CASE Goto(t, "lock")
      BY <3>1 DEF Goto
    <3>2. CASE me' = [me EXCEPT ![t].pc = "walk", ![t].key = Hash(t)]
      BY <2>1, <3>2, ZenonT(60)
    <3>3. CASE Answer(t, NoValue, "return")
      BY <3>3, ZenonT(60) DEF Answer
    <3> QED
      BY <1>3, <2>2, <3>1, <3>2, <3>3 DEF Find
  <2>3. CASE InList(Hash(t)) # {}
    <3>1. PICK e \in InList(Hash(t)) :
            me' = [me EXCEPT ![t].pc = "lock", ![t].e = e, ![t].key = Hash(t)]
      BY <1>3, <2>3 DEF Find
    <3>2. e \in Cells
      BY InListType, EntryType
    <3> QED
      BY <2>1, <3>1, <3>2, ZenonT(60)
  <2> QED
    BY <2>2, <2>3
<1>4. CASE FindNext(t)
  <2>1. CASE Answer(t, NoValue, "return")
    BY <2>1, ZenonT(60) DEF Answer
  <2>2. ASSUME NEW e \in First(Behind(me[t].key)),
               me' = [me EXCEPT ![t].pc = "lock", ![t].e = e, ![t].key = entry[e].hash]
        PROVE  me'[t] \in Local
    <3>1. e \in Cells /\ entry[e].hash \in Nat
      BY InListType, EntryType
    <3> QED
      BY <2>2, <3>1, ZenonT(60)
  <2> QED
    BY <1>4, <2>1, <2>2 DEF FindNext
<1>5. CASE Update(t)
  <2>1. \/ me' = [me EXCEPT ![t].pc = "insert"]
        \/ me' = [me EXCEPT ![t].pc = "release", ![t].status = "ok", ![t].stored = TRUE]
        \/ \E s \in Statuses : me' = [me EXCEPT ![t].pc = "release", ![t].status = s]
    BY <1>5 DEF Update, Goto, Statuses
  <2> QED
    BY <2>1
<1>6. CASE Insert(t)
  <2>1. \/ me' = [me EXCEPT ![t].pc = "unlock", ![t].status = "nomem"]
        \/ me' = [me EXCEPT ![t].pc = "again", ![t].status = "duplicate"]
        \/ me' = [me EXCEPT ![t].pc = "unlock", ![t].status = "ok", ![t].stored = TRUE]
    BY <1>6 DEF Insert
  <2> QED
    BY <2>1
<1>7. CASE FindAgain(t)
  <2>1. PICK e \in InList(Hash(t)) :
          me' = [me EXCEPT ![t].pc = "update", ![t].e = e]
    BY <1>7 DEF FindAgain
  <2>2. e \in Cells
    BY InListType, EntryType
  <2> QED
    BY <2>1, <2>2, ZenonT(60)
<1>8. CASE Search(t)
  <2>1. me[t].e \in DOMAIN entry
    BY <1>8 DEF PlaceFits, OnEntry, At, Search, LocksCount
  <2>2. PICK i \in 0 .. Len(entry[me[t].e].items) : i = Where(me[t].e, call[t].id)
    BY <2>1, EntryType, WhereFinds
  <2> DEFINE found == IF i = 0 THEN NoValue ELSE entry[me[t].e].items[i].value
  <2>3. found \in Values \cup {NoValue}
    BY <2>1, <2>2, ItemType
  <2>4. PICK p \in {"held", "unlock"} :
          me'[t] = [me[t] EXCEPT !.pc = p, !.value = found, !.status = "ok"]
    BY <1>8, <2>2 DEF Search, Answer
  <2> HIDE DEF found
  <2> QED
    BY <2>3, <2>4, ZenonT(60)
<1>9. CASE RemoveItem(t)
  BY <1>9, ZenonT(60) DEF RemoveItem, Answer
<1>10. CASE NextItem(t)
  <2>1. me[t].e \in DOMAIN entry
    BY <1>10 DEF PlaceFits, OnEntry, At, NextItem, LocksCount
  <2>2. \A i \in Nat \ {0} : Take(t, me[t].e, i) => me'[t] \in Local
    BY <2>1, TakeType
  <2>3. Where(me[t].e, call[t].id) \in Nat
    BY <2>1, EntryType, WhereFinds
  <2>4. CASE Take(t, me[t].e, 1) \/ Take(t, me[t].e, Where(me[t].e, call[t].id) + 1)
    BY <2>2, <2>3, <2>4
  <2>5. CASE Answer(t, NoValue, "unlock")
    BY <2>5, ZenonT(60) DEF Answer
  <2>6. CASE Goto(t, "over")
    BY <2>6 DEF Goto
  <2> QED
    BY <1>10, <2>4, <2>5, <2>6 DEF NextItem
<1>11. CASE NextEntry(t)
  <2>1. \A e \in First(Behind(me[t].key)) : Take(t, e, 1) => me'[t] \in Local
    BY InListType, TakeType
  <2>2. CASE Answer(t, NoValue, "unlock")
    BY <2>2, ZenonT(60) DEF Answer
  <2> QED
    BY <1>11, <2>1, <2>2 DEF NextEntry
<1>12. CASE Sweep(t)
  <2>1. \E p \in {"cleanup", "drop", "unlock"} : me' = [me EXCEPT ![t].pc = p]
    BY <1>12 DEF Sweep, Goto, At
  <2> QED
    BY <2>1
<1>13. CASE Drop(t)
  BY <1>13 DEF Drop, Goto
<1>14. CASE Release(t)
  <2>1. AfterRelease(t) \in {"insert", "unlock", "walk", "return"}
    BY DEF AfterRelease
  <2> QED
    BY <1>14, <2>1, ZenonT(60) DEF Release
<1>15. CASE Unlock(t)
  BY <1>15 DEF Unlock, Goto
<1>16. CASE GiveBack(t)
  BY <1>16 DEF GiveBack, Goto
<1>17. CASE Return(t)
  BY <1>17 DEF Return, Idle
<1> QED
  BY <1>1, <1>2, <1>3, <1>4, <1>5, <1>6, <1>7, <1>8, <1>9, <1>10, <1>11,
       <1>12, <1>13, <1>14, <1>15, <1>16, <1>17 DEF Step

(* A thread leaves the local variables of the others alone.                *)
LEMMA OthersStep ==
  ASSUME DictInv, NEW t \in Threads, Begin(t) \/ Lock(t) \/ Step(t), UNCHANGED client
  PROVE  me' = [me EXCEPT ![t] = me'[t]] /\ call' = [call EXCEPT ![t] = call'[t]]
<1>0. LocalsOK /\ CallsOK
  BY DEF DictInv
<1> USE <1>0 DEF LocalsOK, CallsOK
<1>1. CASE Begin(t)
  BY <1>1 DEF Begin
<1>2. CASE Lock(t)
  BY <1>2 DEF Lock, Goto
<1>3. CASE Find(t)
  BY <1>3 DEF Find, Answer, Goto, Held
<1>4. CASE FindNext(t)
  BY <1>4 DEF FindNext, Answer, Held
<1>5. CASE Update(t)
  BY <1>5 DEF Update, Goto
<1>6. CASE Insert(t)
  BY <1>6 DEF Insert
<1>7. CASE FindAgain(t)
  BY <1>7 DEF FindAgain, Held
<1>8. CASE Search(t)
  BY <1>8 DEF Search, Answer
<1>9. CASE RemoveItem(t)
  BY <1>9 DEF RemoveItem, Answer
<1>10. CASE NextItem(t)
  BY <1>10 DEF NextItem, Take, Answer, Goto
<1>11. CASE NextEntry(t)
  BY <1>11 DEF NextEntry, Take, Answer, Held
<1>12. CASE Sweep(t)
  BY <1>12 DEF Sweep, Goto
<1>13. CASE Drop(t)
  BY <1>13 DEF Drop, Goto
<1>14. CASE Release(t)
  BY <1>14 DEF Release, AfterRelease, Free
<1>15. CASE Unlock(t)
  BY <1>15 DEF Unlock, Goto
<1>16. CASE GiveBack(t)
  BY <1>16 DEF GiveBack, Goto
<1>17. CASE Return(t)
  BY <1>17 DEF Return
<1> QED
  BY <1>1, <1>2, <1>3, <1>4, <1>5, <1>6, <1>7, <1>8, <1>9, <1>10, <1>11,
       <1>12, <1>13, <1>14, <1>15, <1>16, <1>17 DEF Step

(* What each step does to the call, the mutex and the place of its thread. *)
LEMMA BeginMoves ==
  ASSUME LocalsOK, CallsOK, NEW t \in Threads, Begin(t)
  PROVE  /\ At(t, "idle") /\ call'[t] \in client[t] /\ UNCHANGED <<entry, mList>>
         /\ me'[t].pc = IF call'[t].op = "cleanup" \/ (call'[t].op = "next" /\ call'[t].id = NoId)
                        THEN "walk" ELSE "find"
         /\ me'[t].e = me[t].e /\ me'[t].key = me[t].key /\ me'[t].id = me[t].id
  BY DEF Begin, LocalsOK, Local, CallsOK, At, Goto, Answer

(* The thread that gets DICT_LOCK goes on as its call says.                *)
LEMMA LockMoves ==
  ASSUME LocalsOK, CallsOK, NEW t \in Threads, Lock(t)
  PROVE  /\ At(t, "lock") /\ mList = NoThread /\ mList' = t /\ UNCHANGED <<entry, call>>
         /\ me'[t].pc = call[t].op
         /\ me'[t].e = me[t].e /\ me'[t].key = me[t].key /\ me'[t].id = me[t].id
  BY DEF Lock, LocalsOK, Local, CallsOK, At, Goto, Answer

(* A search stands on the entry it found, or on none.                      *)
LEMMA FindMoves ==
  ASSUME LocalsOK, CallsOK, NEW t \in Threads, Find(t)
  PROVE  /\ At(t, "find") /\ me'[t].id = me[t].id /\ UNCHANGED <<mList, call>>
         /\ \/ /\ me'[t].pc = "lock" /\ me'[t].key = Hash(t)
               /\ me'[t].e \in InList(Hash(t)) /\ entry' = Held(me'[t].e)
            \/ /\ me'[t].e = me[t].e /\ UNCHANGED entry
               /\ \/ me'[t].pc = "lock" /\ call[t].op = "update"
                  \/ me'[t].pc = "walk" /\ call[t].op = "next" /\ me'[t].key = Hash(t)
                  \/ me'[t].pc = "return" /\ call[t].op \in {"search", "delete"}
<1> USE DEF LocalsOK, Local, CallsOK, At, Goto, Answer
<1>1. At(t, "find") /\ UNCHANGED <<mList, call>>
  BY DEF Find
<1>2. CASE \E e \in InList(Hash(t)) :
             /\ entry' = Held(e)
             /\ me' = [me EXCEPT ![t].pc = "lock", ![t].e = e, ![t].key = Hash(t)]
  <2>1. PICK e \in InList(Hash(t)) :
          /\ entry' = Held(e)
          /\ me' = [me EXCEPT ![t].pc = "lock", ![t].e = e, ![t].key = Hash(t)]
    BY <1>2
  <2>2. /\ me'[t].pc = "lock" /\ me'[t].e = e /\ me'[t].key = Hash(t)
        /\ me'[t].id = me[t].id
    BY <2>1
  <2> QED
    BY <1>1, <2>1, <2>2
<1>3. CASE ~ \E e \in InList(Hash(t)) :
               /\ entry' = Held(e)
               /\ me' = [me EXCEPT ![t].pc = "lock", ![t].e = e, ![t].key = Hash(t)]
  <2>1. \/ call[t].op = "update" /\ Goto(t, "lock") /\ UNCHANGED entry
        \/ /\ call[t].op = "next" /\ UNCHANGED entry
           /\ me' = [me EXCEPT ![t].pc = "walk", ![t].key = Hash(t)]
        \/ /\ call[t].op \in {"search", "delete"} /\ UNCHANGED entry
           /\ Answer(t, NoValue, "return")
    BY <1>3 DEF Find
  <2> QED
    BY <1>1, <2>1
<1> QED
  BY <1>2, <1>3

(* The way to the next entry ends on an entry further on, or nowhere.      *)
LEMMA FindNextMoves ==
  ASSUME LocalsOK, CallsOK, NEW t \in Threads, FindNext(t)
  PROVE  /\ At(t, "walk") /\ me'[t].id = me[t].id /\ UNCHANGED <<mList, call>>
         /\ \/ /\ me'[t].pc = "lock" /\ me'[t].e \in First(Behind(me[t].key))
               /\ me'[t].key = entry[me'[t].e].hash /\ entry' = Held(me'[t].e)
            \/ /\ me'[t].pc = "return" /\ UNCHANGED entry
               /\ me'[t].e = me[t].e /\ me'[t].key = me[t].key
<1> USE DEF LocalsOK, Local, CallsOK, At, Goto, Answer
<1>1. At(t, "walk") /\ UNCHANGED <<mList, call>>
  BY DEF FindNext
<1>2. CASE Answer(t, NoValue, "return") /\ UNCHANGED entry
  BY <1>1, <1>2
<1>3. ASSUME NEW e \in First(Behind(me[t].key)), entry' = Held(e),
             me' = [me EXCEPT ![t].pc = "lock", ![t].e = e, ![t].key = entry[e].hash]
      PROVE  /\ me'[t].id = me[t].id
             /\ me'[t].pc = "lock" /\ me'[t].e \in First(Behind(me[t].key))
             /\ me'[t].key = entry[me'[t].e].hash /\ entry' = Held(me'[t].e)
  <2>1. /\ me'[t].pc = "lock" /\ me'[t].e = e /\ me'[t].key = entry[e].hash
        /\ me'[t].id = me[t].id
    BY <1>3
  <2> QED
    BY <1>3, <2>1
<1> QED
  BY <1>1, <1>2, <1>3 DEF FindNext

(* dictUpdate goes on to insert if there is no entry.                      *)
LEMMA UpdateMoves ==
  ASSUME LocalsOK, CallsOK, NEW t \in Threads, Update(t)
  PROVE  /\ At(t, "update") /\ me'[t].id = me[t].id /\ UNCHANGED <<mList, call>>
         /\ me'[t].pc = IF me[t].e = Null THEN "insert" ELSE "release"
         /\ me'[t].e = me[t].e /\ me'[t].key = me[t].key
  BY DEF Update, LocalsOK, Local, CallsOK, At, Goto, Answer

(* dictInsert gives DICT_LOCK up or searches again.                        *)
LEMMA InsertMoves ==
  ASSUME LocalsOK, CallsOK, NEW t \in Threads, Insert(t)
  PROVE  /\ At(t, "insert") /\ me'[t].id = me[t].id /\ UNCHANGED <<mList, call>>
         /\ me'[t].pc \in {"again", "unlock"}
         /\ me'[t].e = me[t].e /\ me'[t].key = me[t].key
  BY DEF Insert, LocalsOK, Local, CallsOK, At, Goto, Answer

(* The second search of dictInsert finds the entry of its hash.            *)
LEMMA FindAgainMoves ==
  ASSUME LocalsOK, CallsOK, NEW t \in Threads, FindAgain(t)
  PROVE  /\ At(t, "again") /\ me'[t].id = me[t].id /\ UNCHANGED <<mList, call>>
         /\ me'[t].pc = "update" /\ me'[t].key = me[t].key
         /\ me'[t].e \in InList(Hash(t)) /\ entry' = Held(me'[t].e)
  BY DEF FindAgain, LocalsOK, Local, CallsOK, At, Goto, Answer

(* dictSearch keeps its entry for the client or gives it up.               *)
LEMMA SearchMoves ==
  ASSUME LocalsOK, CallsOK, NEW t \in Threads, Search(t)
  PROVE  /\ At(t, "search") /\ me'[t].id = me[t].id /\ UNCHANGED <<entry, mList, call>>
         /\ me'[t].pc \in {"held", "unlock"}
         /\ me'[t].e = me[t].e /\ me'[t].key = me[t].key
  BY DEF Search, LocalsOK, Local, CallsOK, At, Goto, Answer

(* dictRemove gives its entry up.                                          *)
LEMMA RemoveItemMoves ==
  ASSUME LocalsOK, CallsOK, NEW t \in Threads, RemoveItem(t)
  PROVE  /\ At(t, "delete") /\ me'[t].id = me[t].id /\ UNCHANGED <<mList, call>>
         /\ me'[t].pc = "unlock"
         /\ me'[t].e = me[t].e /\ me'[t].key = me[t].key
  BY DEF RemoveItem, LocalsOK, Local, CallsOK, At, Goto, Answer

(* dictNext has its item, or goes on to the next entry.                    *)
LEMMA NextItemMoves ==
  ASSUME LocalsOK, CallsOK, NEW t \in Threads, NextItem(t)
  PROVE  /\ At(t, "next") /\ UNCHANGED <<entry, mList, call>>
         /\ me'[t].pc \in {"held", "unlock", "over"}
         /\ me'[t].pc = "over" => call[t].id # NoId
         /\ me'[t].e = me[t].e /\ me'[t].key = me[t].key
<1> USE DEF LocalsOK, Local, CallsOK, At, Goto, Answer
<1>1. ASSUME NEW e, NEW i, Take(t, e, i)
      PROVE  me'[t].pc \in {"held", "unlock"} /\ me'[t].e = e /\ me'[t].key = me[t].key
  BY <1>1 DEF Take
<1> QED
  BY <1>1 DEF NextItem

(* dictNext leaves its entry for one further on, if there is one.          *)
LEMMA NextEntryMoves ==
  ASSUME LocalsOK, CallsOK, NEW t \in Threads, NextEntry(t)
  PROVE  /\ At(t, "over") /\ me'[t].key = me[t].key /\ UNCHANGED <<mList, call>>
         /\ me'[t].pc \in {"held", "unlock"}
         /\ \/ me'[t].e \in First(Behind(me[t].key)) /\ entry' = Held(me'[t].e)
            \/ me'[t].e = me[t].e /\ UNCHANGED entry
<1> USE DEF LocalsOK, Local, CallsOK, At, Goto, Answer
<1>1. ASSUME NEW e, NEW i, Take(t, e, i)
      PROVE  me'[t].pc \in {"held", "unlock"} /\ me'[t].e = e /\ me'[t].key = me[t].key
  BY <1>1 DEF Take
<1> QED
  BY <1>1 DEF NextEntry

(* A cleanup stays at its entry until it has no more to remove.            *)
LEMMA SweepMoves ==
  ASSUME LocalsOK, CallsOK, NEW t \in Threads, Sweep(t)
  PROVE  /\ At(t, "cleanup") /\ me'[t].id = me[t].id /\ UNCHANGED <<mList, call>>
         /\ me'[t].pc \in {"cleanup", "drop", "unlock"}
         /\ me'[t].e = me[t].e /\ me'[t].key = me[t].key
  BY DEF Sweep, LocalsOK, Local, CallsOK, At, Goto, Answer

(* Then it gives it up.                                                    *)
LEMMA DropMoves ==
  ASSUME LocalsOK, CallsOK, NEW t \in Threads, Drop(t)
  PROVE  /\ At(t, "drop") /\ me'[t].id = me[t].id /\ UNCHANGED <<mList, call>>
         /\ me'[t].pc = "unlock"
         /\ me'[t].e = me[t].e /\ me'[t].key = me[t].key
  BY DEF Drop, LocalsOK, Local, CallsOK, At, Goto, Answer

(* A thread that has given its value lock up stands on no entry.           *)
LEMMA ReleaseMoves ==
  ASSUME LocalsOK, CallsOK, NEW t \in Threads, Release(t)
  PROVE  /\ At(t, "release") /\ me'[t].id = me[t].id /\ UNCHANGED <<mList, call>>
         /\ me'[t].pc = AfterRelease(t) /\ me'[t].e = Null /\ me'[t].key = me[t].key
         /\ entry' = Free(me[t].e)
  BY DEF Release, LocalsOK, Local, CallsOK, At, Goto, Answer

(* DICT_LOCK is free again.                                                *)
LEMMA UnlockMoves ==
  ASSUME LocalsOK, CallsOK, NEW t \in Threads, Unlock(t)
  PROVE  /\ At(t, "unlock") /\ me'[t].id = me[t].id /\ mList' = NoThread
         /\ UNCHANGED <<entry, call>>
         /\ me'[t].pc = IF me[t].e = Null THEN "return" ELSE "release"
         /\ me'[t].e = me[t].e /\ me'[t].key = me[t].key
  BY DEF Unlock, LocalsOK, Local, CallsOK, At, Goto, Answer

(* The client has done with what it was given.                             *)
LEMMA GiveBackMoves ==
  ASSUME LocalsOK, CallsOK, NEW t \in Threads, GiveBack(t)
  PROVE  /\ At(t, "held") /\ me'[t].id = me[t].id /\ UNCHANGED <<entry, mList, call>>
         /\ me'[t].pc = "unlock"
         /\ me'[t].e = me[t].e /\ me'[t].key = me[t].key
  BY DEF GiveBack, LocalsOK, Local, CallsOK, At, Goto, Answer

(* A call that returns leaves nothing behind.                              *)
LEMMA ReturnMoves ==
  ASSUME LocalsOK, CallsOK, NEW t \in Threads, Return(t)
  PROVE  /\ At(t, "return") /\ UNCHANGED <<entry, mList>>
         /\ call'[t] = NoCall /\ me'[t] = Idle
  BY DEF Return, LocalsOK, Local, CallsOK, At, Goto, Answer

(* The call of a thread tells which steps it takes.                         *)
LEMMA CallStep ==
  ASSUME DictInv, NEW t \in Threads, Begin(t) \/ Lock(t) \/ Step(t), UNCHANGED client
  PROVE  CallFits(t)' /\ call'[t] \in Calls \cup {NoCall}
<1>0. LocalsOK /\ CallsOK /\ CallFits(t) /\ PlaceFits(t) /\ client[t] \subseteq Calls
      /\ call[t] \in Calls \cup {NoCall} /\ MutexOwned
  BY DictAssumption DEF DictInv, CallsOK
<1> USE <1>0, CallType DEF CallFits, PlaceFits, At
<1>1. CASE Begin(t)
  <2>1. call'[t] \in Calls /\ call'[t].op # "none"
    BY <1>1, BeginMoves, CallType DEF Calls
  <2> QED
    BY <1>1, <2>1, BeginMoves DEF OnId
<1>2. CASE Lock(t)
  BY <1>2, LockMoves
<1>3. CASE Find(t)
  BY <1>3, FindMoves DEF OnId
<1>4. CASE FindNext(t)
  BY <1>4, FindNextMoves
<1>5. CASE Update(t)
  BY <1>5, UpdateMoves
<1>6. CASE Insert(t)
  BY <1>6, InsertMoves
<1>7. CASE FindAgain(t)
  BY <1>7, FindAgainMoves
<1>8. CASE Search(t)
  BY <1>8, SearchMoves
<1>9. CASE RemoveItem(t)
  BY <1>9, RemoveItemMoves
<1>10. CASE NextItem(t)
  BY <1>10, NextItemMoves
<1>11. CASE NextEntry(t)
  BY <1>11, NextEntryMoves
<1>12. CASE Sweep(t)
  BY <1>12, SweepMoves
<1>13. CASE Drop(t)
  BY <1>13, DropMoves
<1>14. CASE Release(t)
  <2>1. AfterRelease(t) \in {"insert", "unlock", "walk", "return"}
    BY DEF AfterRelease
  <2>2. AfterRelease(t) = "insert" => mList = t
    BY DEF AfterRelease
  <2>3. AfterRelease(t) = "walk" => call[t].op = "cleanup"
    BY DEF AfterRelease
  <2> QED
    BY <1>14, <2>1, <2>2, <2>3, ReleaseMoves DEF MutexOwned, Owns, MutexSection
<1>15. CASE Unlock(t)
  BY <1>15, UnlockMoves
<1>16. CASE GiveBack(t)
  BY <1>16, GiveBackMoves
<1>17. CASE Return(t)
  <2>1. Idle.pc = "idle" /\ NoCall.op = "none"
    BY DEF Idle, NoCall
  <2> QED
    BY <1>17, <2>1, ReturnMoves
<1> QED
  BY <1>1, <1>2, <1>3, <1>4, <1>5, <1>6, <1>7, <1>8, <1>9, <1>10, <1>11,
       <1>12, <1>13, <1>14, <1>15, <1>16, <1>17 DEF Step

(* What a lock on an entry, and giving it up, change.                      *)
LEMMA HeldKeeps ==
  ASSUME DictTypeOK, NEW e \in DOMAIN entry
  PROVE  /\ DOMAIN Held(e) = DOMAIN entry
         /\ \A x \in DOMAIN entry :
              /\ Held(e)[x] \in Entries
              /\ Held(e)[x].hash = entry[x].hash /\ Held(e)[x].items = entry[x].items
              /\ Held(e)[x].linked = entry[x].linked /\ Held(e)[x].deleted = entry[x].deleted
              /\ Held(e)[x].locks = IF x = e THEN entry[x].locks + 1 ELSE entry[x].locks
<1>1. entry[e] \in Entries
  BY DEF DictTypeOK
<1>2. entry[e].locks + 1 \in Nat
  BY <1>1 DEF Entries
<1>3. [entry[e] EXCEPT !.locks = @ + 1] \in Entries
  BY <1>1, <1>2 DEF Entries
<1>4. ASSUME NEW x \in DOMAIN entry
      PROVE  Held(e)[x] = IF x = e THEN [entry[e] EXCEPT !.locks = @ + 1] ELSE entry[x]
  BY DEF Held
<1> QED
  BY <1>1, <1>3, <1>4 DEF DictTypeOK, Entries, Held

(* The same for a lock that is given up.                                   *)
LEMMA FreeKeeps ==
  ASSUME DictTypeOK, NEW e \in DOMAIN entry, entry[e].locks > 0
  PROVE  /\ DOMAIN Free(e) = DOMAIN entry
         /\ \A x \in DOMAIN entry :
              /\ Free(e)[x] \in Entries
              /\ Free(e)[x].hash = entry[x].hash /\ Free(e)[x].items = entry[x].items
              /\ Free(e)[x].linked = entry[x].linked /\ Free(e)[x].deleted = entry[x].deleted
              /\ Free(e)[x].locks = IF x = e THEN entry[x].locks - 1 ELSE entry[x].locks
<1>1. entry[e] \in Entries
  BY DEF DictTypeOK
<1>2. entry[e].locks - 1 \in Nat
  BY <1>1 DEF Entries
<1>3. [entry[e] EXCEPT !.locks = @ - 1] \in Entries
  BY <1>1, <1>2 DEF Entries
<1>4. ASSUME NEW x \in DOMAIN entry
      PROVE  Free(e)[x] = IF x = e THEN [entry[e] EXCEPT !.locks = @ - 1] ELSE entry[x]
  BY DEF Free
<1> QED
  BY <1>1, <1>3, <1>4 DEF DictTypeOK, Entries, Free

(* How the number of the threads on an entry changes when one moves.       *)
LEMMA StandMoves ==
  ASSUME NEW t \in Threads, me \in [Threads -> Local], me' = [me EXCEPT ![t] = me'[t]], NEW e
  PROVE  /\ Cardinality(Standing(e)) \in Nat
         /\ (\A u \in Threads : me[u].e # e) => Cardinality(Standing(e)) = 0
         /\ me[t].e = e => Cardinality(Standing(e)) > 0
         /\ (me[t].e = e <=> me'[t].e = e) => Cardinality(Standing(e)') = Cardinality(Standing(e))
         /\ me[t].e # e /\ me'[t].e = e =>
              Cardinality(Standing(e)') = Cardinality(Standing(e)) + 1
         /\ me[t].e = e /\ me'[t].e # e =>
              Cardinality(Standing(e)') = Cardinality(Standing(e)) - 1
<1>1. IsFiniteSet(Standing(e))
  BY DictAssumption, FS_Subset DEF Standing
<1>2. Cardinality(Standing(e)) \in Nat
  BY <1>1, FS_CardinalityType
<1>3. (\A u \in Threads : me[u].e # e) => Cardinality(Standing(e)) = 0
  BY FS_EmptySet DEF Standing
<1>4. me[t].e = e => Cardinality(Standing(e)) > 0
  <2>1. HAVE me[t].e = e
  <2>2. Standing(e) # {}
    BY <2>1 DEF Standing
  <2> QED
    BY <1>1, <1>2, <2>2, FS_EmptySet
<1>5. ASSUME me[t].e = e <=> me'[t].e = e
      PROVE  Cardinality(Standing(e)') = Cardinality(Standing(e))
  <2>1. Standing(e)' = Standing(e)
    BY <1>5 DEF Standing
  <2> QED
    BY <2>1
<1>6. ASSUME me[t].e # e, me'[t].e = e
      PROVE  Cardinality(Standing(e)') = Cardinality(Standing(e)) + 1
  <2>1. Standing(e)' = Standing(e) \cup {t} /\ t \notin Standing(e)
    BY <1>6 DEF Standing
  <2> QED
    BY <1>1, <2>1, FS_AddElement
<1>7. ASSUME me[t].e = e, me'[t].e # e
      PROVE  Cardinality(Standing(e)') = Cardinality(Standing(e)) - 1
  <2>1. Standing(e)' = Standing(e) \ {t} /\ t \in Standing(e)
    BY <1>7 DEF Standing
  <2> QED
    BY <1>1, <2>1, FS_RemoveElement
<1> QED
  BY <1>2, <1>3, <1>4, <1>5, <1>6, <1>7

(* A thread stands on an entry that has a lock.                            *)
LEMMA StandsOnLocked ==
  ASSUME LocalsOK, DictTypeOK, LocksCount, NEW t \in Threads, me[t].e # Null
  PROVE  me[t].e \in DOMAIN entry /\ entry[me[t].e].locks > 0
<1>1. me[t].e \in DOMAIN entry
  BY DEF LocksCount
<1>2. IsFiniteSet(Standing(me[t].e)) /\ Standing(me[t].e) # {}
  BY DictAssumption, FS_Subset DEF Standing
<1>3. Cardinality(Standing(me[t].e)) \in Nat /\ Cardinality(Standing(me[t].e)) # 0
  BY <1>2, FS_CardinalityType, FS_EmptySet
<1>4. Cardinality(Standing(me[t].e)) <= entry[me[t].e].locks
  BY <1>1 DEF LocksCount
<1>5. entry[me[t].e].locks \in Nat
  BY <1>1, EntryType
<1> QED
  BY <1>1, <1>3, <1>4, <1>5

(* Items of an entry: each has its own id, of the hash of the entry.       *)
AtHome(s, hash) ==
  /\ \A j \in 1 .. Len(s) : HashOf[s[j].id] = hash
  /\ \A i, j \in 1 .. Len(s) : s[i].id = s[j].id => i = j

(* The items of the entries are such lists.                                *)
LEMMA HomeItems ==
  ASSUME DictTypeOK, OneHome, NEW e \in DOMAIN entry
  PROVE  AtHome(entry[e].items, entry[e].hash)
<1>1. DOMAIN entry[e].items = 1 .. Len(entry[e].items)
  BY EntryType DEF Items
<1> QED
  BY <1>1 DEF OneHome, AtHome

(* They stay so when an item is taken out,                                 *)
LEMMA RemoveAtHome ==
  ASSUME NEW s \in Items, NEW i \in 1 .. Len(s), NEW hash, AtHome(s, hash)
  PROVE  RemoveAt(s, i) \in Items /\ AtHome(RemoveAt(s, i), hash)
<1> DEFINE r == RemoveAt(s, i)
<1>1. /\ r \in Items /\ Len(r) = Len(s) - 1 /\ Len(s) \in Nat /\ i \in Nat
      /\ \A j \in 1 .. Len(s) - 1 : r[j] = IF j < i THEN s[j] ELSE s[j + 1]
  BY RemoveAtKeeps DEF Items
<1> HIDE DEF r
<1>2. ASSUME NEW j \in 1 .. Len(r) PROVE HashOf[r[j].id] = hash
  BY <1>1 DEF AtHome
<1>3. ASSUME NEW j \in 1 .. Len(r), NEW k \in 1 .. Len(r), r[j].id = r[k].id PROVE j = k
  BY <1>1, <1>3, SMTT(60) DEF AtHome
<1> QED
  BY <1>1, <1>2, <1>3 DEF AtHome, r

(* when one with a new id is put in front,                                 *)
LEMMA PrependHome ==
  ASSUME NEW s \in Items, NEW x \in [id : Ids, value : Values], AtHome(s, HashOf[x.id]),
         \A j \in 1 .. Len(s) : s[j].id # x.id
  PROVE  <<x>> \o s \in Items /\ AtHome(<<x>> \o s, HashOf[x.id])
<1> DEFINE r == <<x>> \o s
<1>1. /\ r \in Items /\ Len(r) = Len(s) + 1 /\ Len(s) \in Nat
      /\ \A j \in 1 .. Len(s) + 1 : r[j] = IF j = 1 THEN x ELSE s[j - 1]
  BY PrependKeeps DEF Items
<1> HIDE DEF r
<1>2. ASSUME NEW j \in 1 .. Len(r) PROVE HashOf[r[j].id] = HashOf[x.id]
  BY <1>1, SMTT(30) DEF AtHome
<1>3. ASSUME NEW j \in 1 .. Len(r), NEW k \in 1 .. Len(r), r[j].id = r[k].id PROVE j = k
  <2>1. \A m \in 1 .. Len(r) : m # 1 => m - 1 \in 1 .. Len(s) /\ r[m] = s[m - 1]
    BY <1>1
  <2>2. r[1] = x
    BY <1>1
  <2>3. CASE j = 1 \/ k = 1
    BY <1>3, <2>1, <2>2, <2>3
  <2>4. CASE j # 1 /\ k # 1
    <3>1. j - 1 \in 1 .. Len(s) /\ k - 1 \in 1 .. Len(s) /\ s[j - 1].id = s[k - 1].id
      BY <1>3, <2>1, <2>4
    <3>2. j - 1 = k - 1
      BY <3>1 DEF AtHome
    <3> QED
      BY <3>2
  <2> QED
    BY <2>3, <2>4
<1> QED
  BY <1>1, <1>2, <1>3 DEF AtHome, r

(* and when one has its value changed.                                     *)
LEMMA ReplaceHome ==
  ASSUME NEW s \in Items, NEW x \in [id : Ids, value : Values], NEW hash, AtHome(s, hash),
         NEW i \in 1 .. Len(s), s[i].id = x.id
  PROVE  [s EXCEPT ![i] = x] \in Items /\ AtHome([s EXCEPT ![i] = x], hash)
<1> DEFINE r == [s EXCEPT ![i] = x]
<1>1. /\ r \in Items /\ Len(r) = Len(s) /\ Len(s) \in Nat
      /\ \A j \in 1 .. Len(s) : r[j] = IF j = i THEN x ELSE s[j]
  BY DEF Items
<1> HIDE DEF r
<1>2. \A j \in 1 .. Len(s) : r[j].id = s[j].id
  BY <1>1
<1> QED
  BY <1>1, <1>2 DEF AtHome, r

(* A step that gives one entry other items.                                *)
LEMMA ItemsKeep ==
  ASSUME DictTypeOK, NEW e \in DOMAIN entry, NEW s \in Items,
         entry' = [entry EXCEPT ![e].items = s]
  PROVE  /\ DOMAIN entry' = DOMAIN entry
         /\ \A x \in DOMAIN entry :
              /\ entry'[x] \in Entries
              /\ entry'[x].hash = entry[x].hash
              /\ entry'[x].items = IF x = e THEN s ELSE entry[x].items
              /\ entry'[x].linked = entry[x].linked /\ entry'[x].deleted = entry[x].deleted
              /\ entry'[x].locks = entry[x].locks
<1>1. entry[e] \in Entries
  BY DEF DictTypeOK
<1>2. [entry[e] EXCEPT !.items = s] \in Entries
  BY <1>1 DEF Entries, Items
<1>3. ASSUME NEW x \in DOMAIN entry
      PROVE  entry'[x] = IF x = e THEN [entry[e] EXCEPT !.items = s] ELSE entry[x]
  OBVIOUS
<1> QED
  BY <1>1, <1>2, <1>3 DEF DictTypeOK, Entries

(* What each step does to the items of the entry that its thread is on.    *)
NewItems(t, s) ==
  /\ me[t].e \in DOMAIN entry
  /\ s \in Items /\ AtHome(s, entry[me[t].e].hash)
  /\ entry' = [entry EXCEPT ![me[t].e].items = s]

(* dictUpdate changes the items of an entry that is not marked.            *)
LEMMA UpdateItems ==
  ASSUME DictInv, NEW t \in Threads, Update(t)
  PROVE  entry' = entry \/ (~entry[me[t].e].deleted /\ \E s : NewItems(t, s))
<1> DEFINE e == me[t].e
           new == Item(call[t].id, call[t].value)
           i == Where(e, call[t].id)
<1>1. SUFFICES ASSUME e # Null, ~entry[e].deleted,
                      \/ i # 0 /\ entry' = [entry EXCEPT ![e].items =
                                               [entry[e].items EXCEPT ![i] = new]]
                      \/ i = 0 /\ entry' = [entry EXCEPT ![e].items =
                                               <<new>> \o entry[e].items]
               PROVE  \E s : NewItems(t, s)
  BY DEF Update
<1>2. e \in DOMAIN entry
  BY <1>1 DEF DictInv, LocksCount
<1>3. call[t].op = "update" /\ call[t].id \in Ids /\ call[t].value \in Values
  BY CallType DEF DictInv, CallsOK, CallFits, At, Update, OnId
<1>4. new \in [id : Ids, value : Values] /\ new.id = call[t].id
  BY <1>3 DEF Item
<1>5. entry[e].items \in Items /\ AtHome(entry[e].items, entry[e].hash)
  BY <1>2, EntryType, HomeItems DEF DictInv
<1>6. entry[e].hash = HashOf[new.id]
  BY <1>1, <1>3, <1>4 DEF DictInv, PlaceFits, OnId, Hash
<1>7. /\ i \in 0 .. Len(entry[e].items)
      /\ i # 0 => entry[e].items[i].id = new.id
      /\ i = 0 => \A j \in 1 .. Len(entry[e].items) : entry[e].items[j].id # new.id
  BY <1>4, <1>5, WhereFinds
<1> HIDE DEF i, new
<1>8. CASE i # 0
  <2>1. i \in 1 .. Len(entry[e].items)
    BY <1>5, <1>7, <1>8 DEF Items
  <2>2. /\ [entry[e].items EXCEPT ![i] = new] \in Items
        /\ AtHome([entry[e].items EXCEPT ![i] = new], entry[e].hash)
    BY <1>4, <1>5, <1>7, <1>8, <2>1, ReplaceHome
  <2> QED
    BY <1>1, <1>2, <1>8, <2>2 DEF NewItems
<1>9. CASE i = 0
  <2>1. /\ <<new>> \o entry[e].items \in Items
        /\ AtHome(<<new>> \o entry[e].items, entry[e].hash)
    BY <1>4, <1>5, <1>6, <1>7, <1>9, PrependHome
  <2> QED
    BY <1>1, <1>2, <1>9, <2>1 DEF NewItems
<1> QED
  BY <1>8, <1>9

(* dictRemove takes an item out, if it finds one.                          *)
LEMMA RemoveItems ==
  ASSUME DictInv, NEW t \in Threads, RemoveItem(t)
  PROVE  entry' = entry \/ \E s : NewItems(t, s)
<1> DEFINE e == me[t].e
           i == Where(e, call[t].id)
<1>1. e \in DOMAIN entry
  BY DEF DictInv, LocksCount, PlaceFits, At, RemoveItem, OnEntry
<1>2. entry[e].items \in Items /\ AtHome(entry[e].items, entry[e].hash)
  BY <1>1, EntryType, HomeItems DEF DictInv
<1>3. i \in 0 .. Len(entry[e].items) /\ Len(entry[e].items) \in Nat
  <2>1. i \in 0 .. Len(entry[e].items)
    BY <1>2, WhereFinds
  <2> QED
    BY <1>2, <2>1 DEF Items
<1>4. entry' = IF i = 0 THEN entry
               ELSE [entry EXCEPT ![e].items = RemoveAt(entry[e].items, i)]
  BY DEF RemoveItem
<1> HIDE DEF i
<1>5. CASE i # 0
  <2>1. /\ RemoveAt(entry[e].items, i) \in Items
        /\ AtHome(RemoveAt(entry[e].items, i), entry[e].hash)
    BY <1>2, <1>3, <1>5, RemoveAtHome
  <2> QED
    BY <1>1, <1>4, <1>5, <2>1 DEF NewItems
<1> QED
  BY <1>4, <1>5

(* A cleanup takes an item out, or marks an entry that has none.           *)
LEMMA SweepItems ==
  ASSUME DictInv, NEW t \in Threads, Sweep(t)
  PROVE  /\ me[t].e \in DOMAIN entry
         /\ \/ me' = me /\ \E s : NewItems(t, s)
            \/ /\ entry' = [entry EXCEPT ![me[t].e].deleted =
                                @ \/ entry[me[t].e].items = <<>>]
               /\ Goto(t, IF entry[me[t].e].items = <<>> THEN "drop" ELSE "unlock")
<1> DEFINE e == me[t].e
           i == SelectInSeq(entry[e].items, LAMBDA x : x.value \in Swept)
<1>1. e \in DOMAIN entry
  BY DEF DictInv, LocksCount, PlaceFits, At, Sweep, OnEntry
<1>2. entry[e].items \in Items /\ AtHome(entry[e].items, entry[e].hash)
  BY <1>1, EntryType, HomeItems DEF DictInv
<1>3. i \in 0 .. Len(entry[e].items) /\ Len(entry[e].items) \in Nat
  <2>1. i \in 0 .. Len(entry[e].items)
    BY <1>2, SweptIsAnItem
  <2> QED
    BY <1>2, <2>1 DEF Items
<1>4. \/ /\ i # 0 /\ me' = me
         /\ entry' = [entry EXCEPT ![e].items = RemoveAt(entry[e].items, i)]
      \/ /\ entry' = [entry EXCEPT ![e].deleted = @ \/ entry[e].items = <<>>]
         /\ Goto(t, IF entry[e].items = <<>> THEN "drop" ELSE "unlock")
  BY DEF Sweep
<1> HIDE DEF i
<1>5. ASSUME i # 0
      PROVE  /\ RemoveAt(entry[e].items, i) \in Items
             /\ AtHome(RemoveAt(entry[e].items, i), entry[e].hash)
  BY <1>2, <1>3, <1>5, RemoveAtHome
<1> QED
  BY <1>1, <1>4, <1>5 DEF NewItems

(* What a step of thread t may do to the entries.                          *)
EntriesFollow(t) ==
  /\ DOMAIN entry' \subseteq Cells
  /\ \A e \in DOMAIN entry' : entry'[e] \in Entries /\ AtHome(entry'[e].items, entry'[e].hash)
  /\ \A e \in DOMAIN entry \cap DOMAIN entry' :
       /\ entry'[e].hash = entry[e].hash
       /\ entry'[e].linked = (entry[e].linked /\ ~(Drop(t) /\ e = me[t].e))
       /\ \/ entry'[e].deleted = entry[e].deleted
          \/ Sweep(t) /\ e = me[t].e /\ entry'[e].deleted
       /\ \/ entry'[e].locks = entry[e].locks
          \/ Find(t) \/ FindNext(t) \/ FindAgain(t) \/ NextEntry(t) \/ Release(t)
  /\ \A e \in DOMAIN entry \ DOMAIN entry' : entry[e].locks = 0 /\ ~entry[e].linked
  /\ \A e \in DOMAIN entry' \ DOMAIN entry :
       /\ Insert(t) /\ InList(Hash(t)) = {}
       /\ entry'[e].hash = Hash(t) /\ entry'[e].locks = 0
       /\ entry'[e].linked /\ ~entry'[e].deleted
       /\ DOMAIN entry' \subseteq DOMAIN entry \cup {e}

(* A step that leaves the entries alone is one of these,                   *)
LEMMA SameFollow ==
  ASSUME DictInv, NEW t, UNCHANGED entry, ~Drop(t)
  PROVE  EntriesFollow(t)
  BY HomeItems, EntryType DEF DictInv, DictTypeOK, EntriesFollow, Entries

(* one that locks an entry,                                                *)
LEMMA HeldFollow ==
  ASSUME DictInv, NEW t, NEW e \in DOMAIN entry, entry' = Held(e), ~Drop(t),
         Find(t) \/ FindNext(t) \/ FindAgain(t) \/ NextEntry(t)
  PROVE  EntriesFollow(t)
<1>1. DictTypeOK /\ OneHome
  BY DEF DictInv
<1>2. DOMAIN entry' = DOMAIN entry /\ DOMAIN entry \subseteq Cells
  BY <1>1, HeldKeeps DEF DictTypeOK
<1>3. \A x \in DOMAIN entry : AtHome(entry[x].items, entry[x].hash)
  BY <1>1, HomeItems
<1> QED
  BY <1>1, <1>2, <1>3, HeldKeeps, EntryType DEF EntriesFollow

(* one that changes the items of an entry,                                 *)
LEMMA ItemsFollow ==
  ASSUME DictInv, NEW t, NEW s, NewItems(t, s), ~Drop(t)
  PROVE  EntriesFollow(t)
<1>1. DictTypeOK /\ OneHome
  BY DEF DictInv
<1> DEFINE e == me[t].e
<1>2. /\ e \in DOMAIN entry /\ s \in Items /\ AtHome(s, entry[e].hash)
      /\ entry' = [entry EXCEPT ![e].items = s]
  BY DEF NewItems
<1>3. \A x \in DOMAIN entry : AtHome(entry[x].items, entry[x].hash)
  BY <1>1, HomeItems
<1>4. /\ DOMAIN entry' = DOMAIN entry
      /\ \A x \in DOMAIN entry :
              /\ entry'[x] \in Entries
              /\ entry'[x].hash = entry[x].hash
              /\ entry'[x].items = IF x = e THEN s ELSE entry[x].items
              /\ entry'[x].linked = entry[x].linked /\ entry'[x].deleted = entry[x].deleted
              /\ entry'[x].locks = entry[x].locks
  BY <1>1, <1>2, ItemsKeep
<1>5. \A x \in DOMAIN entry : AtHome(entry'[x].items, entry'[x].hash)
  BY <1>2, <1>3, <1>4
<1> HIDE DEF e
<1> QED
  BY <1>1, <1>4, <1>5, EntryType DEF EntriesFollow, DictTypeOK

(* one that flushes,                                                       *)
LEMMA FlushFollows ==
  ASSUME DictInv, NEW t, entry' = Flushed(entry), ~Drop(t)
  PROVE  EntriesFollow(t)
<1>1. DictTypeOK /\ OneHome
  BY DEF DictInv
<1>2. \A x \in DOMAIN entry : AtHome(entry[x].items, entry[x].hash) /\ entry[x].locks \in Nat
  BY <1>1, HomeItems, EntryType
<1> QED
  BY <1>1, <1>2, FlushKeeps, EntryType DEF EntriesFollow, DictTypeOK

(* dictInsert,                                                             *)
LEMMA InsertFollows ==
  ASSUME DictInv, NEW t \in Threads, Insert(t)
  PROVE  EntriesFollow(t)
<1> DEFINE new == [hash |-> Hash(t), items |-> <<Item(call[t].id, call[t].value)>>,
                   deleted |-> FALSE, linked |-> TRUE, locks |-> 0]
           free == Cells \ DOMAIN entry
           with == With(Min(free), new)
<1>1. DictTypeOK /\ OneHome /\ LocalsOK /\ CallsOK
  BY DEF DictInv
<1>2. ~Drop(t)
  BY DEF Insert, Drop, At
<1>3. call[t].id \in Ids /\ call[t].value \in Values
  BY CallType DEF DictInv, CallsOK, CallFits, At, Insert, OnId
<1>4. CASE entry' = entry
  BY <1>2, <1>4, SameFollow
<1>5. CASE entry' = Flushed(entry)
  BY <1>2, <1>5, FlushFollows
<1>6. CASE free # {} /\ InList(Hash(t)) = {} /\ entry' = Flushed(with)
  <2> DEFINE x == Min(free)
  <2>1. x \in free
    BY <1>6, DictAssumption, Least
  <2> HIDE DEF x, free, new
  <2>2. with = [e \in DOMAIN entry \cup {x} |-> IF e = x THEN new ELSE entry[e]]
    BY DEF With, x
  <2>3. /\ new \in Entries /\ new.hash = Hash(t) /\ new.locks = 0 /\ new.linked /\ ~new.deleted
        /\ AtHome(new.items, Hash(t))
    BY <1>3, DictAssumption DEF new, Item, Hash, AtHome, Entries
  <2>4. x \notin DOMAIN entry /\ x \in Cells
    BY <2>1 DEF free
  <2> HIDE DEF with
  <2>5. /\ DOMAIN with = DOMAIN entry \cup {x} /\ with[x] = new
        /\ \A e \in DOMAIN entry : with[e] = entry[e]
    BY <2>2, <2>4
  <2>6. \A e \in DOMAIN entry : AtHome(entry[e].items, entry[e].hash) /\ entry[e].locks \in Nat
    BY <1>1, HomeItems, EntryType
  <2>7. /\ DOMAIN entry' \subseteq DOMAIN with
        /\ \A e \in DOMAIN entry' : entry'[e] = with[e]
        /\ \A e \in DOMAIN with : with[e].linked \/ with[e].locks > 0 => e \in DOMAIN entry'
    BY <1>6, FlushKeeps
  <2> QED
    BY <1>1, <1>2, <1>6, <2>3, <2>4, <2>5, <2>6, <2>7, EntryType DEF EntriesFollow, DictTypeOK
<1> QED
  BY <1>4, <1>5, <1>6 DEF Insert

(* a cleanup that marks the entry,                                         *)
LEMMA SweepFollows ==
  ASSUME DictInv, NEW t \in Threads, Sweep(t)
  PROVE  EntriesFollow(t)
<1>1. DictTypeOK /\ OneHome /\ ~Drop(t)
  BY DEF DictInv, Sweep, Drop, At
<1>2. me[t].e \in DOMAIN entry
  BY SweepItems
<1>3. CASE \E s : NewItems(t, s)
  BY <1>1, <1>3, ItemsFollow
<1>4. ASSUME NEW b \in BOOLEAN, entry' = [entry EXCEPT ![me[t].e].deleted = @ \/ b]
      PROVE  EntriesFollow(t)
  <2> DEFINE e == me[t].e
  <2>1. entry[e] \in Entries /\ e \in DOMAIN entry
    BY <1>1, <1>2 DEF DictTypeOK
  <2>2. PICK d \in BOOLEAN : d = (entry[e].deleted \/ b)
    OBVIOUS
  <2>3. [entry[e] EXCEPT !.deleted = d] \in Entries
    BY <2>1 DEF Entries
  <2>4. /\ DOMAIN entry' = DOMAIN entry
        /\ \A x \in DOMAIN entry :
              entry'[x] = IF x = e THEN [entry[e] EXCEPT !.deleted = d] ELSE entry[x]
    BY <1>4, <2>1, <2>2
  <2>5. \A x \in DOMAIN entry : AtHome(entry[x].items, entry[x].hash)
    BY <1>1, HomeItems
  <2> HIDE DEF e
  <2>6. \A x \in DOMAIN entry :
          /\ entry'[x] \in Entries /\ entry'[x].hash = entry[x].hash
          /\ entry'[x].items = entry[x].items /\ entry'[x].locks = entry[x].locks
          /\ entry'[x].linked = entry[x].linked
          /\ entry'[x].deleted = IF x = e THEN d ELSE entry[x].deleted
    BY <1>1, <2>1, <2>3, <2>4, ZenonT(60) DEF Entries, DictTypeOK
  <2> QED
    BY <1>1, <2>2, <2>4, <2>5, <2>6, EntryType DEF EntriesFollow, DictTypeOK, e
<1> QED
  BY <1>3, <1>4, SweepItems

(* and a cleanup that takes it out of the list.                            *)
LEMMA DropFollows ==
  ASSUME DictInv, NEW t \in Threads, Drop(t)
  PROVE  EntriesFollow(t)
<1> DEFINE e == me[t].e
           ents == [x \in DOMAIN entry |->
                      IF x \in InList(me[t].key) THEN [entry[x] EXCEPT !.linked = FALSE]
                      ELSE entry[x]]
<1>1. DictTypeOK /\ OneHome /\ LocksCount /\ LocalsOK
  BY DEF DictInv
<1>2. e # Null /\ call[t].op = "cleanup"
  BY DEF DictInv, PlaceFits, CallFits, At, Drop, OnEntry
<1>3. e \in DOMAIN entry /\ entry[e].locks > 0
  BY <1>1, <1>2, StandsOnLocked
<1>4. entry[e].linked /\ entry[e].hash = me[t].key
  BY <1>2 DEF DictInv, CleanerFits, At, Drop
<1>5. InList(me[t].key) = {e}
  BY <1>1, <1>3, <1>4 DEF OneHome, InList, Linked
<1> HIDE DEF e
<1>6. ASSUME NEW x \in DOMAIN entry
      PROVE  /\ ents[x] \in Entries /\ ents[x].hash = entry[x].hash
             /\ ents[x].items = entry[x].items /\ ents[x].locks = entry[x].locks
             /\ ents[x].deleted = entry[x].deleted
             /\ ents[x].linked = (entry[x].linked /\ x # e)
  BY <1>1, <1>4, <1>5 DEF DictTypeOK, Entries
<1>7. entry' = Flushed(ents) /\ DOMAIN ents = DOMAIN entry
  BY DEF Drop
<1> HIDE DEF ents
<1>8. /\ DOMAIN entry' \subseteq DOMAIN entry
      /\ \A x \in DOMAIN entry' : entry'[x] = ents[x]
      /\ \A x \in DOMAIN entry : ents[x].linked \/ ents[x].locks > 0 => x \in DOMAIN entry'
  BY <1>7, FlushKeeps
<1>9. \A x \in DOMAIN entry : AtHome(entry[x].items, entry[x].hash) /\ entry[x].locks \in Nat
  BY <1>1, HomeItems, EntryType
<1> QED
  BY <1>1, <1>3, <1>6, <1>8, <1>9, EntryType DEF EntriesFollow, DictTypeOK, e

(* What any step does to the entries.                                      *)
LEMMA EntriesStep ==
  ASSUME DictInv, NEW t \in Threads, Begin(t) \/ Lock(t) \/ Step(t), UNCHANGED client
  PROVE  EntriesFollow(t)
<1>0. DictTypeOK /\ OneHome /\ LocalsOK /\ CallsOK /\ LocksCount /\ PlaceFits(t)
  BY DEF DictInv
<1> USE <1>0
<1>1. CASE Begin(t)
  BY <1>1, BeginMoves, SameFollow DEF Drop, At
<1>2. CASE Lock(t)
  BY <1>2, LockMoves, SameFollow DEF Drop, At
<1>3. CASE Find(t)
  BY <1>3, FindMoves, InListType, SameFollow, HeldFollow DEF Drop, At
<1>4. CASE FindNext(t)
  BY <1>4, FindNextMoves, InListType, SameFollow, HeldFollow DEF Drop, At
<1>5. CASE Update(t)
  BY <1>5, UpdateItems, SameFollow, ItemsFollow DEF Update, Drop, At
<1>6. CASE Insert(t)
  BY <1>6, InsertFollows
<1>7. CASE FindAgain(t)
  BY <1>7, FindAgainMoves, InListType, SameFollow, HeldFollow DEF Drop, At
<1>8. CASE Search(t)
  BY <1>8, SearchMoves, SameFollow DEF Drop, At
<1>9. CASE RemoveItem(t)
  BY <1>9, RemoveItems, SameFollow, ItemsFollow DEF RemoveItem, Drop, At
<1>10. CASE NextItem(t)
  BY <1>10, NextItemMoves, SameFollow DEF Drop, At
<1>11. CASE NextEntry(t)
  BY <1>11, NextEntryMoves, InListType, SameFollow, HeldFollow DEF Drop, At
<1>12. CASE Sweep(t)
  BY <1>12, SweepFollows
<1>13. CASE Drop(t)
  BY <1>13, DropFollows
<1>14. CASE Release(t)
  <2>1. me[t].e # Null
    BY <1>14 DEF PlaceFits, OnEntry, At, Release
  <2>2. me[t].e \in DOMAIN entry /\ entry[me[t].e].locks > 0
    BY <2>1, StandsOnLocked
  <2>3. \A x \in DOMAIN entry : AtHome(entry[x].items, entry[x].hash)
    BY HomeItems
  <2>4. entry' = Free(me[t].e) /\ ~Drop(t)
    BY <1>14, ReleaseMoves DEF Drop, At
  <2> QED
    BY <1>14, <2>2, <2>3, <2>4, FreeKeeps, EntryType DEF EntriesFollow, DictTypeOK
<1>15. CASE Unlock(t)
  BY <1>15, UnlockMoves, SameFollow DEF Drop, At
<1>16. CASE GiveBack(t)
  BY <1>16, GiveBackMoves, SameFollow DEF Drop, At
<1>17. CASE Return(t)
  BY <1>17, ReturnMoves, SameFollow DEF Drop, At
<1> QED
  BY <1>1, <1>2, <1>3, <1>4, <1>5, <1>6, <1>7, <1>8, <1>9, <1>10, <1>11,
       <1>12, <1>13, <1>14, <1>15, <1>16, <1>17 DEF Step

(* DICT_LOCK stays with its owner.                                         *)
LEMMA MutexStep ==
  ASSUME DictInv, NEW t \in Threads, Begin(t) \/ Lock(t) \/ Step(t), UNCHANGED client
  PROVE  MutexOwned'
<1>0. LocalsOK /\ CallsOK /\ MutexOwned /\ CallFits(t) /\ PlaceFits(t) /\ NoThread \notin Threads
  BY DictAssumption DEF DictInv
<1>a. \A u \in Threads \ {t} : me'[u] = me[u] /\ call'[u] = call[u]
  BY <1>0, OthersStep DEF LocalsOK, CallsOK
<1> USE <1>0, <1>a DEF MutexOwned, Owns, MutexSection, At
<1>1. CASE Begin(t)
  BY <1>1, BeginMoves
<1>2. CASE Lock(t)
  <2>1. call[t].op \in {"update", "search", "delete", "next", "cleanup"}
    BY <1>2, LockMoves, CallType DEF CallsOK, CallFits
  <2> QED
    BY <1>2, <2>1, LockMoves
<1>3. CASE Find(t)
  BY <1>3, FindMoves
<1>4. CASE FindNext(t)
  BY <1>4, FindNextMoves
<1>5. CASE Update(t)
  BY <1>5, UpdateMoves DEF CallFits
<1>6. CASE Insert(t)
  BY <1>6, InsertMoves
<1>7. CASE FindAgain(t)
  BY <1>7, FindAgainMoves
<1>8. CASE Search(t)
  BY <1>8, SearchMoves
<1>9. CASE RemoveItem(t)
  BY <1>9, RemoveItemMoves
<1>10. CASE NextItem(t)
  BY <1>10, NextItemMoves
<1>11. CASE NextEntry(t)
  BY <1>11, NextEntryMoves
<1>12. CASE Sweep(t)
  BY <1>12, SweepMoves
<1>13. CASE Drop(t)
  BY <1>13, DropMoves
<1>14. CASE Release(t)
  <2>1. AfterRelease(t) \in MutexSection <=> mList = t
    BY <1>14 DEF AfterRelease
  <2>2. AfterRelease(t) # "release"
    BY DEF AfterRelease
  <2> QED
    BY <1>14, <2>1, <2>2, ReleaseMoves
<1>15. CASE Unlock(t)
  BY <1>15, UnlockMoves DEF PlaceFits
<1>16. CASE GiveBack(t)
  BY <1>16, GiveBackMoves
<1>17. CASE Return(t)
  <2>1. Idle.pc = "idle"
    BY DEF Idle
  <2> QED
    BY <1>17, <2>1, ReturnMoves
<1> QED
  BY <1>1, <1>2, <1>3, <1>4, <1>5, <1>6, <1>7, <1>8, <1>9, <1>10, <1>11,
       <1>12, <1>13, <1>14, <1>15, <1>16, <1>17 DEF Step

(* The entry under a thread stays, in the list or out of it.               *)
LEMMA EntryStays ==
  ASSUME DictInv, NEW t \in Threads, EntriesFollow(t), NEW u \in Threads, me[u].e # Null
  PROVE  /\ me[u].e \in DOMAIN entry /\ me[u].e \in DOMAIN entry'
         /\ entry'[me[u].e].hash = entry[me[u].e].hash
         /\ entry[me[u].e].deleted => entry'[me[u].e].deleted
         /\ entry'[me[u].e].linked = (entry[me[u].e].linked /\ ~(Drop(t) /\ me[u].e = me[t].e))
<1>1. me[u].e \in DOMAIN entry /\ entry[me[u].e].locks > 0
  BY StandsOnLocked DEF DictInv
<1>2. me[u].e \in DOMAIN entry'
  BY <1>1 DEF EntriesFollow
<1> QED
  BY <1>1, <1>2 DEF EntriesFollow

(* While one thread cleans up, no other does.                              *)
LEMMA OneCleaner ==
  ASSUME DictInv, NEW t \in Threads, NEW u \in Threads,
         call[t].op = "cleanup", call[u].op = "cleanup"
  PROVE  t = u
<1>1. call[t] = [op |-> "cleanup"] /\ call[u] = [op |-> "cleanup"]
  BY CallType DEF DictInv, CallsOK
<1>2. call[t] # NoCall /\ call[u] # NoCall
  BY <1>1 DEF NoCall
<1>3. call[t] \in client[t] /\ call[u] \in client[u] /\ client \in Clients
  BY <1>2 DEF DictInv, CallFits, CallsOK
<1> QED
  BY <1>1, <1>3, DictAssumption

(* A thread stands where its step has brought it.                          *)
LEMMA PlaceStep ==
  ASSUME DictInv, NEW t \in Threads, Begin(t) \/ Lock(t) \/ Step(t), EntriesFollow(t)
  PROVE  PlaceFits(t)'
<1>0. DictTypeOK /\ LocalsOK /\ CallsOK /\ PlaceFits(t) /\ CallFits(t) /\ call[t] \in Calls \cup {NoCall}
      /\ (me[t].e # Null => entry'[me[t].e].hash = entry[me[t].e].hash)
  BY EntryStays DEF DictInv, CallsOK
<1> USE <1>0 DEF PlaceFits, At, NoEntry, OnEntry
<1>1. CASE Begin(t)
  <2>1. me[t] = Idle /\ me[t].e = Null
    BY <1>1 DEF CallFits, Begin, Idle
  <2>2. call'[t].op = "next" /\ call'[t].id # NoId => me'[t].pc = "find"
    BY <1>1, BeginMoves
  <2> QED
    BY <1>1, <2>1, <2>2, BeginMoves
<1>2. CASE Lock(t)
  <2>1. call[t].op \in {"update", "search", "delete", "next", "cleanup"}
    BY <1>2, LockMoves, CallType DEF CallFits
  <2> QED
    BY <1>2, <2>1, LockMoves DEF Hash
<1>3. CASE Find(t)
  <2>1. me'[t].e # me[t].e => me'[t].e \in DOMAIN entry /\ entry[me'[t].e].hash = Hash(t)
    BY <1>3, FindMoves, InListType
  <2>2. Hash(t) \in Nat
    BY <1>3, CallType, HashType DEF CallFits, Find, Hash
  <2>3. me'[t].e # Null => entry'[me'[t].e].hash = Hash(t)
    BY <1>3, <2>1, FindMoves, InListType, HeldKeeps
  <2>4. me'[t].pc = "lock" => me'[t].e # Null \/ call[t].op = "update"
    BY <1>3, <2>1, FindMoves, InListType, EntryType
  <2> QED
    BY <1>3, <2>2, <2>3, <2>4, FindMoves, InListType, EntryType DEF Hash
<1>4. CASE FindNext(t)
  <2>1. me'[t].pc = "lock" => /\ me'[t].e # Null
                              /\ me'[t].key \in Nat /\ me'[t].key > me[t].key
    BY <1>4, FindNextMoves, InListType, EntryType
  <2>2. call[t].op \in {"next", "cleanup"}
    BY <1>4 DEF CallFits, FindNext
  <2>3. call[t].op = "next" /\ call[t].id # NoId => Hash(t) \in Nat
    BY CallType, HashType DEF Hash
  <2>4. me[t].key \in Nat
    BY DEF LocalsOK, Local
  <2> QED
    BY <1>4, <2>1, <2>2, <2>3, <2>4, FindNextMoves DEF OnId, Hash
<1>5. CASE Update(t)
  BY <1>5, UpdateMoves DEF CallFits, Hash
<1>6. CASE Insert(t)
  BY <1>6, InsertMoves DEF CallFits, Hash
<1>7. CASE FindAgain(t)
  <2>1. /\ me'[t].e \in DOMAIN entry /\ me'[t].e # Null
        /\ entry'[me'[t].e].hash = Hash(t)
    BY <1>7, FindAgainMoves, InListType, HeldKeeps, EntryType
  <2>2. call[t].op = "update"
    BY <1>7 DEF CallFits, FindAgain
  <2> QED
    BY <1>7, <2>1, <2>2, FindAgainMoves DEF Hash
<1>8. CASE Search(t)
  BY <1>8, SearchMoves DEF CallFits, Hash
<1>9. CASE RemoveItem(t)
  BY <1>9, RemoveItemMoves DEF CallFits, Hash
<1>10. CASE NextItem(t)
  BY <1>10, NextItemMoves DEF CallFits, Hash
<1>11. CASE NextEntry(t)
  <2>1. call[t].op = "next"
    BY <1>11 DEF CallFits, NextEntry
  <2>2. me'[t].e # Null
    BY <1>11, NextEntryMoves, InListType, EntryType DEF OnEntry
  <2> QED
    BY <1>11, <2>1, <2>2, NextEntryMoves DEF Hash, OnId
<1>12. CASE Sweep(t)
  BY <1>12, SweepMoves DEF CallFits, Hash
<1>13. CASE Drop(t)
  BY <1>13, DropMoves DEF CallFits, Hash
<1>14. CASE Release(t)
  <2>1. AfterRelease(t) \in {"insert", "unlock", "walk", "return"}
    BY DEF AfterRelease
  <2> QED
    BY <1>14, <2>1, ReleaseMoves DEF CallFits, Hash
<1>15. CASE Unlock(t)
  BY <1>15, UnlockMoves DEF OnId, CallFits, Hash
<1>16. CASE GiveBack(t)
  BY <1>16, GiveBackMoves DEF CallFits, Hash
<1>17. CASE Return(t)
  <2>1. Idle.pc = "idle" /\ Idle.e = Null /\ NoCall.op = "none"
    BY DEF Idle, NoCall
  <2> QED
    BY <1>17, <2>1, ReturnMoves DEF OnId
<1> QED
  BY <1>1, <1>2, <1>3, <1>4, <1>5, <1>6, <1>7, <1>8, <1>9, <1>10, <1>11,
       <1>12, <1>13, <1>14, <1>15, <1>16, <1>17 DEF Step

(* The same for the other threads: their entries stay under them.          *)
LEMMA PlacesStep ==
  ASSUME DictInv, NEW t \in Threads, Begin(t) \/ Lock(t) \/ Step(t), UNCHANGED client,
         EntriesFollow(t)
  PROVE  \A u \in Threads : PlaceFits(u)'
<1>1. ASSUME NEW u \in Threads \ {t} PROVE PlaceFits(u)'
  <2>1. me'[u] = me[u] /\ call'[u] = call[u]
    BY OthersStep DEF DictInv, LocalsOK, CallsOK
  <2>2. PlaceFits(u)
    BY DEF DictInv
  <2>3. me[u].e # Null => entry'[me[u].e].hash = entry[me[u].e].hash
    BY EntryStays
  <2> QED
    BY <2>1, <2>2, <2>3 DEF PlaceFits, At, Hash
<1> QED
  BY <1>1, PlaceStep

(* The one that cleans up stays on an entry that is in the list.           *)
LEMMA CleanerStep ==
  ASSUME DictInv, NEW t \in Threads, Begin(t) \/ Lock(t) \/ Step(t), EntriesFollow(t)
  PROVE  CleanerFits(t)'
<1>0. DictTypeOK /\ LocalsOK /\ CallsOK /\ PlaceFits(t) /\ CallFits(t) /\ CleanerFits(t)
  BY DEF DictInv
<1>a. call[t].op = "cleanup" /\ me[t].pc \in {"lock", "cleanup", "drop"} =>
        /\ me[t].e # Null
        /\ entry'[me[t].e].linked = ~Drop(t) /\ entry'[me[t].e].hash = me[t].key
        /\ ~At(t, "drop") => ~Drop(t)
  BY <1>0, EntryStays DEF CleanerFits, PlaceFits, OnEntry, At, Drop
<1> USE <1>0 DEF CleanerFits, CallFits, At, OnId
<1>1. CASE Begin(t)
  BY <1>1, BeginMoves
<1>2. CASE Lock(t)
  BY <1>2, <1>a, LockMoves
<1>3. CASE Find(t)
  BY <1>3, FindMoves
<1>4. CASE FindNext(t)
  <2>1. me'[t].pc = "lock" =>
          /\ me'[t].e \in DOMAIN entry /\ entry[me'[t].e].linked
          /\ me'[t].key = entry[me'[t].e].hash /\ entry' = Held(me'[t].e)
    BY <1>4, FindNextMoves, InListType
  <2>2. me'[t].pc = "lock" =>
          entry'[me'[t].e].linked /\ entry'[me'[t].e].hash = entry[me'[t].e].hash
    BY <2>1, HeldKeeps
  <2> QED
    BY <1>4, <2>1, <2>2, FindNextMoves
<1>5. CASE Update(t)
  BY <1>5, UpdateMoves
<1>6. CASE Insert(t)
  BY <1>6, InsertMoves
<1>7. CASE FindAgain(t)
  BY <1>7, FindAgainMoves
<1>8. CASE Search(t)
  BY <1>8, SearchMoves
<1>9. CASE RemoveItem(t)
  BY <1>9, RemoveItemMoves
<1>10. CASE NextItem(t)
  BY <1>10, NextItemMoves
<1>11. CASE NextEntry(t)
  BY <1>11, NextEntryMoves
<1>12. CASE Sweep(t)
  <2>1. CASE me' = me
    <3>1. At(t, "cleanup")
      BY <1>12 DEF Sweep
    <3> QED
      BY <1>12, <1>a, <2>1, <3>1, SweepMoves
  <2>2. CASE /\ entry' = [entry EXCEPT ![me[t].e].deleted = @ \/ entry[me[t].e].items = <<>>]
             /\ Goto(t, IF entry[me[t].e].items = <<>> THEN "drop" ELSE "unlock")
    <3>1. me'[t].pc = "drop" => entry[me[t].e].items = <<>>
      BY <1>0, <2>2 DEF Goto, LocalsOK, Local
    <3>2. PICK d \in BOOLEAN : d = (entry[me[t].e].deleted \/ entry[me[t].e].items = <<>>)
      OBVIOUS
    <3>3. entry' = [entry EXCEPT ![me[t].e].deleted = d]
      BY <2>2, <3>2
    <3>4. entry'[me[t].e].deleted = d
      BY <1>12, <3>3, SweepItems, EntryType DEF DictTypeOK, Entries
    <3>5. me'[t].pc = "drop" => entry'[me[t].e].deleted
      BY <3>1, <3>2, <3>4
    <3> QED
      BY <1>12, <1>a, <3>5, SweepMoves
  <2> QED
    BY <1>12, <2>1, <2>2, SweepItems
<1>13. CASE Drop(t)
  BY <1>13, DropMoves
<1>14. CASE Release(t)
  <2>1. AfterRelease(t) \in {"insert", "unlock", "walk", "return"}
    BY DEF AfterRelease
  <2> QED
    BY <1>14, <2>1, ReleaseMoves
<1>15. CASE Unlock(t)
  BY <1>15, UnlockMoves
<1>16. CASE GiveBack(t)
  BY <1>16, GiveBackMoves
<1>17. CASE Return(t)
  BY <1>17, ReturnMoves DEF NoCall
<1> QED
  BY <1>1, <1>2, <1>3, <1>4, <1>5, <1>6, <1>7, <1>8, <1>9, <1>10, <1>11,
       <1>12, <1>13, <1>14, <1>15, <1>16, <1>17 DEF Step

(* The same for every thread.                                              *)
LEMMA CleanersStep ==
  ASSUME DictInv, NEW t \in Threads, Begin(t) \/ Lock(t) \/ Step(t), UNCHANGED client,
         EntriesFollow(t)
  PROVE  \A u \in Threads : CleanerFits(u)'
<1>1. ASSUME NEW u \in Threads \ {t} PROVE CleanerFits(u)'
  <2>1. me'[u] = me[u] /\ call'[u] = call[u]
    BY OthersStep DEF DictInv, LocalsOK, CallsOK
  <2>2. CleanerFits(u) /\ PlaceFits(u)
    BY DEF DictInv
  <2>3. SUFFICES ASSUME call[u].op = "cleanup", me[u].pc \in {"lock", "cleanup", "drop"}
                 PROVE  CleanerFits(u)'
    BY <2>1 DEF CleanerFits, At
  <2>4. ~Drop(t)
    BY <2>3, OneCleaner DEF DictInv, CallFits, Drop, At
  <2>5. me[u].e # Null
    BY <2>2, <2>3 DEF PlaceFits, OnEntry, At
  <2> QED
    BY <2>1, <2>2, <2>3, <2>4, <2>5, EntryStays DEF CleanerFits, At
<1> QED
  BY <1>1, CleanerStep

(* Ids keep their one place.                                               *)
LEMMA HomeStep ==
  ASSUME DictInv, NEW t \in Threads, EntriesFollow(t)
  PROVE  OneHome'
<1>1. ASSUME NEW e \in DOMAIN entry', NEW f \in DOMAIN entry',
             entry'[e].linked, entry'[f].linked, entry'[e].hash = entry'[f].hash
      PROVE  e = f
  <2>a. ASSUME NEW x \in DOMAIN entry', entry'[x].linked, x \in DOMAIN entry
        PROVE  x \in Linked /\ entry[x].hash = entry'[x].hash
    BY <2>a DEF EntriesFollow, Linked
  <2>b. ASSUME NEW x \in DOMAIN entry', x \notin DOMAIN entry
        PROVE  /\ \A y \in Linked : entry[y].hash # entry'[x].hash
               /\ DOMAIN entry' \subseteq DOMAIN entry \cup {x}
    BY <2>b DEF EntriesFollow, InList
  <2>1. CASE e \in DOMAIN entry /\ f \in DOMAIN entry
    BY <1>1, <2>1, <2>a DEF DictInv, OneHome
  <2>2. CASE e \notin DOMAIN entry /\ f \in DOMAIN entry
    BY <1>1, <2>2, <2>a, <2>b
  <2>3. CASE e \in DOMAIN entry /\ f \notin DOMAIN entry
    BY <1>1, <2>3, <2>a, <2>b
  <2>4. CASE e \notin DOMAIN entry /\ f \notin DOMAIN entry
    BY <2>4, <2>b
  <2> QED
    BY <2>1, <2>2, <2>3, <2>4
<1>2. ASSUME NEW e \in DOMAIN entry'
      PROVE  \A i, j \in DOMAIN entry'[e].items :
               /\ HashOf[entry'[e].items[i].id] = entry'[e].hash
               /\ entry'[e].items[i].id = entry'[e].items[j].id => i = j
  <2>1. entry'[e] \in Entries /\ AtHome(entry'[e].items, entry'[e].hash)
    BY DEF EntriesFollow
  <2>2. DOMAIN entry'[e].items = 1 .. Len(entry'[e].items)
    BY <2>1 DEF Entries
  <2> QED
    BY <2>1, <2>2 DEF AtHome
<1> QED
  BY <1>1, <1>2 DEF OneHome, Linked

(* The locks are counted: by a step that takes one, that gives one up, and *)
(* that does neither.                                                      *)
LEMMA CountHeld ==
  ASSUME DictInv, NEW t \in Threads, me' = [me EXCEPT ![t] = me'[t]], UNCHANGED client,
         EntriesFollow(t), me'[t].e \in DOMAIN entry, entry' = Held(me'[t].e),
         me[t].e = Null \/ Iterates
  PROVE  LocksCount'
<1>0. DictTypeOK /\ LocalsOK /\ LocksCount /\ me \in [Threads -> Local]
  BY DEF DictInv, LocalsOK
<1>1. me'[t].e # Null /\ (Iterates' <=> Iterates)
  BY <1>0, EntryType DEF Null, Iterates
<1>2. DOMAIN entry' = DOMAIN entry
  BY <1>0, HeldKeeps
<1>3. ASSUME NEW u \in Threads PROVE me'[u].e \in DOMAIN entry' \cup {Null}
  BY <1>0, <1>2 DEF LocksCount
<1>4. ASSUME NEW e \in DOMAIN entry'
      PROVE  /\ Cardinality(Standing(e)') <= entry'[e].locks
             /\ ~Iterates => Cardinality(Standing(e)') = entry'[e].locks
  <2>1. /\ entry'[e].locks = IF e = me'[t].e THEN entry[e].locks + 1 ELSE entry[e].locks
        /\ entry[e].locks \in Nat
    BY <1>0, <1>2, HeldKeeps, EntryType
  <2>2. e # Null
    BY <1>0, <1>2, EntryType DEF Null
  <2>3. /\ Cardinality(Standing(e)) <= entry[e].locks
        /\ ~Iterates => Cardinality(Standing(e)) = entry[e].locks
    BY <1>0, <1>2 DEF LocksCount
  <2>4. /\ Cardinality(Standing(e)) \in Nat
        /\ (me[t].e = e <=> me'[t].e = e) => Cardinality(Standing(e)') = Cardinality(Standing(e))
        /\ me[t].e # e /\ me'[t].e = e =>
             Cardinality(Standing(e)') = Cardinality(Standing(e)) + 1
        /\ me[t].e = e /\ me'[t].e # e =>
             Cardinality(Standing(e)') = Cardinality(Standing(e)) - 1
    BY <1>0, StandMoves
  <2> QED
    BY <2>1, <2>2, <2>3, <2>4
<1> QED
  BY <1>1, <1>3, <1>4 DEF LocksCount

(* A thread that gives its lock up no longer stands on the entry.          *)
LEMMA CountFreed ==
  ASSUME DictInv, NEW t \in Threads, me' = [me EXCEPT ![t] = me'[t]], UNCHANGED client,
         me[t].e # Null, me'[t].e = Null, entry' = Free(me[t].e)
  PROVE  LocksCount'
<1>0. DictTypeOK /\ LocalsOK /\ LocksCount /\ me \in [Threads -> Local]
  BY DEF DictInv, LocalsOK
<1>1. me[t].e \in DOMAIN entry /\ entry[me[t].e].locks > 0 /\ (Iterates' <=> Iterates)
  BY <1>0, StandsOnLocked DEF Iterates
<1>2. DOMAIN entry' = DOMAIN entry
  BY <1>0, <1>1, FreeKeeps
<1>3. ASSUME NEW u \in Threads PROVE me'[u].e \in DOMAIN entry' \cup {Null}
  BY <1>0, <1>2 DEF LocksCount
<1>4. ASSUME NEW e \in DOMAIN entry'
      PROVE  /\ Cardinality(Standing(e)') <= entry'[e].locks
             /\ ~Iterates => Cardinality(Standing(e)') = entry'[e].locks
  <2>1. /\ entry'[e].locks = IF e = me[t].e THEN entry[e].locks - 1 ELSE entry[e].locks
        /\ entry[e].locks \in Nat
    BY <1>0, <1>1, <1>2, FreeKeeps, EntryType
  <2>2. e # Null
    BY <1>0, <1>2, EntryType DEF Null
  <2>3. /\ Cardinality(Standing(e)) <= entry[e].locks
        /\ ~Iterates => Cardinality(Standing(e)) = entry[e].locks
    BY <1>0, <1>2 DEF LocksCount
  <2>4. /\ Cardinality(Standing(e)) \in Nat
        /\ (me[t].e = e <=> me'[t].e = e) => Cardinality(Standing(e)') = Cardinality(Standing(e))
        /\ me[t].e = e /\ me'[t].e # e =>
             Cardinality(Standing(e)') = Cardinality(Standing(e)) - 1
    BY <1>0, StandMoves
  <2> QED
    BY <2>1, <2>2, <2>3, <2>4
<1> QED
  BY <1>1, <1>3, <1>4 DEF LocksCount

(* A thread that stays where it is leaves the counts alone.                *)
LEMMA CountSame ==
  ASSUME DictInv, NEW t \in Threads, me' = [me EXCEPT ![t] = me'[t]], UNCHANGED client,
         EntriesFollow(t), me'[t].e = me[t].e,
         \A e \in DOMAIN entry \cap DOMAIN entry' : entry'[e].locks = entry[e].locks
  PROVE  LocksCount'
<1>0. DictTypeOK /\ LocalsOK /\ LocksCount /\ me \in [Threads -> Local]
  BY DEF DictInv, LocalsOK
<1>1. Iterates' <=> Iterates
  BY DEF Iterates
<1>2. \A u \in Threads : me'[u].e = me[u].e
  BY <1>0
<1>3. ASSUME NEW u \in Threads PROVE me'[u].e \in DOMAIN entry' \cup {Null}
  BY <1>2, EntryStays
<1>4. ASSUME NEW e \in DOMAIN entry'
      PROVE  /\ Cardinality(Standing(e)') <= entry'[e].locks
             /\ ~Iterates => Cardinality(Standing(e)') = entry'[e].locks
  <2>1. Standing(e)' = Standing(e)
    BY <1>2 DEF Standing
  <2>2. CASE e \in DOMAIN entry
    BY <1>0, <2>1, <2>2 DEF LocksCount
  <2>3. CASE e \notin DOMAIN entry
    <3>1. entry'[e].locks = 0 /\ e \in Cells
      BY <2>3 DEF EntriesFollow
    <3>2. \A u \in Threads : me[u].e # e
      BY <1>0, <2>3, <3>1, DictAssumption DEF LocksCount, Null
    <3>3. Cardinality(Standing(e)) = 0
      BY <1>0, <3>2, StandMoves
    <3> QED
      BY <2>1, <3>1, <3>3
  <2> QED
    BY <2>2, <2>3
<1> QED
  BY <1>1, <1>3, <1>4 DEF LocksCount

(* The counts of the locks are right after any step.                       *)
LEMMA CountStep ==
  ASSUME DictInv, NEW t \in Threads, Begin(t) \/ Lock(t) \/ Step(t), UNCHANGED client,
         EntriesFollow(t)
  PROVE  LocksCount'
<1>0. DictTypeOK /\ LocalsOK /\ CallsOK /\ PlaceFits(t) /\ CallFits(t) /\ LocksCount
  BY DEF DictInv
<1>a. me' = [me EXCEPT ![t] = me'[t]]
  BY OthersStep
<1>b. \/ \A e \in DOMAIN entry \cap DOMAIN entry' : entry'[e].locks = entry[e].locks
      \/ Find(t) \/ FindNext(t) \/ FindAgain(t) \/ NextEntry(t) \/ Release(t)
  BY DEF EntriesFollow
<1> USE <1>0, <1>a DEF PlaceFits, At
<1>1. CASE Begin(t)
  BY <1>1, <1>b, BeginMoves, CountSame DEF Find, FindNext, FindAgain, NextEntry, Release, At
<1>2. CASE Lock(t)
  BY <1>2, <1>b, LockMoves, CountSame DEF Find, FindNext, FindAgain, NextEntry, Release, At
<1>3. CASE Find(t)
  <2>1. CASE me'[t].e = me[t].e /\ entry' = entry
    BY <2>1, CountSame
  <2>2. CASE me'[t].e \in InList(Hash(t)) /\ entry' = Held(me'[t].e)
    BY <1>3, <2>2, FindMoves, InListType, CountHeld DEF NoEntry
  <2> QED
    BY <1>3, <2>1, <2>2, FindMoves
<1>4. CASE FindNext(t)
  <2>1. CASE me'[t].e = me[t].e /\ entry' = entry
    BY <2>1, CountSame
  <2>2. CASE me'[t].e \in First(Behind(me[t].key)) /\ entry' = Held(me'[t].e)
    BY <1>4, <2>2, FindNextMoves, InListType, CountHeld DEF NoEntry
  <2> QED
    BY <1>4, <2>1, <2>2, FindNextMoves
<1>5. CASE Update(t)
  BY <1>5, <1>b, UpdateMoves, CountSame DEF Find, FindNext, FindAgain, NextEntry, Release, At
<1>6. CASE Insert(t)
  BY <1>6, <1>b, InsertMoves, CountSame DEF Find, FindNext, FindAgain, NextEntry, Release, At
<1>7. CASE FindAgain(t)
  BY <1>7, FindAgainMoves, InListType, CountHeld DEF NoEntry
<1>8. CASE Search(t)
  BY <1>8, <1>b, SearchMoves, CountSame DEF Find, FindNext, FindAgain, NextEntry, Release, At
<1>9. CASE RemoveItem(t)
  BY <1>9, <1>b, RemoveItemMoves, CountSame DEF Find, FindNext, FindAgain, NextEntry, Release, At
<1>10. CASE NextItem(t)
  BY <1>10, <1>b, NextItemMoves, CountSame DEF Find, FindNext, FindAgain, NextEntry, Release, At
<1>11. CASE NextEntry(t)
  <2>1. call[t].op = "next"
    BY <1>11 DEF CallFits, NextEntry
  <2>2. call[t] \in client[t]
    BY <2>1 DEF CallFits, NoCall
  <2>3. CASE me'[t].e = me[t].e /\ entry' = entry
    BY <2>3, CountSame
  <2>4. CASE me'[t].e \in First(Behind(me[t].key)) /\ entry' = Held(me'[t].e)
    BY <2>1, <2>2, <2>4, InListType, CountHeld DEF Iterates
  <2> QED
    BY <1>11, <2>3, <2>4, NextEntryMoves
<1>12. CASE Sweep(t)
  BY <1>12, <1>b, SweepMoves, CountSame DEF Find, FindNext, FindAgain, NextEntry, Release, At
<1>13. CASE Drop(t)
  BY <1>13, <1>b, DropMoves, CountSame DEF Find, FindNext, FindAgain, NextEntry, Release, At
<1>14. CASE Release(t)
  <2>1. me[t].e # Null
    BY <1>14, ReleaseMoves DEF OnEntry
  <2> QED
    BY <1>14, <2>1, ReleaseMoves, CountFreed
<1>15. CASE Unlock(t)
  BY <1>15, <1>b, UnlockMoves, CountSame DEF Find, FindNext, FindAgain, NextEntry, Release, At
<1>16. CASE GiveBack(t)
  BY <1>16, <1>b, GiveBackMoves, CountSame DEF Find, FindNext, FindAgain, NextEntry, Release, At
<1>17. CASE Return(t)
  <2>1. me'[t].e = Null /\ me[t].e = Null
    BY <1>17, ReturnMoves DEF NoEntry, Idle
  <2> QED
    BY <1>17, <2>1, ReturnMoves, CountSame
<1> QED
  BY <1>1, <1>2, <1>3, <1>4, <1>5, <1>6, <1>7, <1>8, <1>9, <1>10, <1>11,
       <1>12, <1>13, <1>14, <1>15, <1>16, <1>17 DEF Step

(* An entry is marked when it is out of the list.                          *)
LEMMA MarkedStep ==
  ASSUME DictInv, NEW t \in Threads, Begin(t) \/ Lock(t) \/ Step(t), UNCHANGED client,
         EntriesFollow(t)
  PROVE  Marked'
<1>0. DictTypeOK /\ LocalsOK /\ CallsOK /\ MutexOwned /\ CallFits(t) /\ CleanerFits(t) /\ Marked
  BY DEF DictInv
<1>a. \A u \in Threads \ {t} : me'[u] = me[u]
  BY OthersStep DEF DictInv, LocalsOK
<1>b. ASSUME ~Drop(t), ~Sweep(t), NEW e \in DOMAIN entry', e \in DOMAIN entry
      PROVE  entry'[e].linked = entry[e].linked /\ entry'[e].deleted = entry[e].deleted
  BY <1>b, EntryType, <1>0 DEF EntriesFollow
<1>c. ASSUME ~Drop(t), ~Sweep(t), mList' = mList, me[t].pc # "drop"
      PROVE  Marked'
  <2>1. ASSUME NEW e \in DOMAIN entry', e \in DOMAIN entry, Dropping(e)
        PROVE  Dropping(e)'
    BY <1>a, <1>c, <2>1 DEF Dropping
  <2>2. ASSUME NEW e \in DOMAIN entry', e \notin DOMAIN entry
        PROVE  entry'[e].linked /\ ~entry'[e].deleted /\ entry'[e] \in Entries
    BY <2>2 DEF EntriesFollow
  <2>3. ASSUME NEW e \in DOMAIN entry'
        PROVE  entry'[e].deleted = ~entry'[e].linked \/ Dropping(e)'
    <3>1. CASE e \in DOMAIN entry
      BY <1>0, <1>b, <1>c, <2>1, <3>1 DEF Marked
    <3>2. CASE e \notin DOMAIN entry
      BY <2>2, <3>2 DEF Entries
    <3> QED
      BY <3>1, <3>2
  <2> QED
    BY <2>3 DEF Marked
<1> USE <1>0
<1>1. CASE Begin(t)
  BY <1>1, <1>c, BeginMoves DEF Sweep, Drop, At
<1>2. CASE Lock(t)
  <2>1. mList = NoThread
    BY <1>2, LockMoves
  <2>2. \A e \in DOMAIN entry : entry[e].deleted = ~entry[e].linked
    BY <2>1, DictAssumption DEF Marked, Dropping
  <2> QED
    BY <1>2, <2>2, LockMoves DEF Marked
<1>3. CASE Find(t)
  BY <1>3, <1>c, FindMoves DEF Sweep, Drop, At
<1>4. CASE FindNext(t)
  BY <1>4, <1>c, FindNextMoves DEF Sweep, Drop, At
<1>5. CASE Update(t)
  BY <1>5, <1>c, UpdateMoves DEF Sweep, Drop, At
<1>6. CASE Insert(t)
  BY <1>6, <1>c, InsertMoves DEF Sweep, Drop, At
<1>7. CASE FindAgain(t)
  BY <1>7, <1>c, FindAgainMoves DEF Sweep, Drop, At
<1>8. CASE Search(t)
  BY <1>8, <1>c, SearchMoves DEF Sweep, Drop, At
<1>9. CASE RemoveItem(t)
  BY <1>9, <1>c, RemoveItemMoves DEF Sweep, Drop, At
<1>10. CASE NextItem(t)
  BY <1>10, <1>c, NextItemMoves DEF Sweep, Drop, At
<1>11. CASE NextEntry(t)
  BY <1>11, <1>c, NextEntryMoves DEF Sweep, Drop, At
<1>12. CASE Sweep(t)
  <2>1. mList = t /\ me[t].pc = "cleanup" /\ call[t].op = "cleanup"
    BY <1>0, <1>12 DEF MutexOwned, Owns, MutexSection, CallFits, Sweep, At
  <2>2. \A e \in DOMAIN entry : entry[e].deleted = ~entry[e].linked
    BY <1>0, <2>1 DEF Marked, Dropping
  <2>3. /\ DOMAIN entry' \subseteq DOMAIN entry
        /\ \A e \in DOMAIN entry' : /\ entry'[e].linked = entry[e].linked
                                    /\ e # me[t].e => entry'[e].deleted = entry[e].deleted
    BY <1>12, <2>2, EntryType, ZenonT(60) DEF EntriesFollow, Drop, Sweep, Insert, At
  <2>4. CASE \E s : NewItems(t, s)
    <3>1. \A e \in DOMAIN entry : entry'[e].deleted = entry[e].deleted
      BY <1>0, <2>4, ItemsKeep DEF NewItems
    <3> QED
      BY <2>2, <2>3, <3>1 DEF Marked
  <2>5. CASE /\ entry' = [entry EXCEPT ![me[t].e].deleted = @ \/ entry[me[t].e].items = <<>>]
             /\ Goto(t, IF entry[me[t].e].items = <<>> THEN "drop" ELSE "unlock")
    <3>1. CASE entry[me[t].e].items = <<>>
      <4>1. me'[t].pc = "drop" /\ me'[t].e = me[t].e
        BY <1>0, <2>5, <3>1 DEF Goto, LocalsOK, Local
      <4>2. mList' = t
        BY <1>12, <2>1, SweepMoves
      <4>3. ASSUME NEW e \in DOMAIN entry', e = me[t].e PROVE Dropping(e)'
        BY <4>1, <4>2, <4>3 DEF Dropping
      <4> QED
        BY <2>2, <2>3, <4>3 DEF Marked
    <3>2. CASE entry[me[t].e].items # <<>>
      <4>1. entry' = [entry EXCEPT ![me[t].e].deleted = @ \/ FALSE]
        BY <2>5, <3>2
      <4>2. \A e \in DOMAIN entry : entry'[e].deleted = entry[e].deleted
        BY <1>0, <4>1, EntryType DEF DictTypeOK, Entries
      <4> QED
        BY <2>2, <2>3, <4>2 DEF Marked
    <3> QED
      BY <3>1, <3>2
  <2> QED
    BY <1>12, <2>4, <2>5, SweepItems
<1>13. CASE Drop(t)
  <2>1. mList = t /\ me[t].pc = "drop" /\ call[t].op = "cleanup"
    BY <1>0, <1>13 DEF MutexOwned, Owns, MutexSection, CallFits, Drop, At
  <2>2. entry[me[t].e].deleted
    BY <1>0, <2>1 DEF CleanerFits, At
  <2>3. ASSUME NEW e \in DOMAIN entry' PROVE entry'[e].deleted = ~entry'[e].linked
    <3>1. e \in DOMAIN entry
      BY <1>13 DEF EntriesFollow, Drop, Insert, At
    <3>2. /\ entry'[e].linked = (entry[e].linked /\ e # me[t].e)
          /\ entry'[e].deleted = entry[e].deleted
      BY <1>13, <3>1 DEF EntriesFollow, Drop, Sweep, At
    <3>3. CASE e = me[t].e
      BY <2>2, <3>2, <3>3, <3>1, EntryType
    <3>4. CASE e # me[t].e
      <4>1. entry[e].deleted = ~entry[e].linked
        BY <1>0, <2>1, <3>1, <3>4 DEF Marked, Dropping
      <4> QED
        BY <3>2, <3>4, <4>1
    <3> QED
      BY <3>3, <3>4
  <2> QED
    BY <2>3 DEF Marked
<1>14. CASE Release(t)
  BY <1>14, <1>c, ReleaseMoves DEF Sweep, Drop, At
<1>15. CASE Unlock(t)
  <2>1. mList = t /\ me[t].pc = "unlock"
    BY <1>15, UnlockMoves DEF MutexOwned, Owns, MutexSection, At
  <2>2. \A e \in DOMAIN entry : entry[e].deleted = ~entry[e].linked
    BY <1>0, <2>1 DEF Marked, Dropping
  <2> QED
    BY <1>15, <2>2, UnlockMoves DEF Marked
<1>16. CASE GiveBack(t)
  BY <1>16, <1>c, GiveBackMoves DEF Sweep, Drop, At
<1>17. CASE Return(t)
  BY <1>17, <1>c, ReturnMoves DEF Sweep, Drop, At
<1> QED
  BY <1>1, <1>2, <1>3, <1>4, <1>5, <1>6, <1>7, <1>8, <1>9, <1>10, <1>11,
       <1>12, <1>13, <1>14, <1>15, <1>16, <1>17 DEF Step

(* dictNext does not give the id it was given, nor one before it.          *)
LEMMA TakeForward ==
  ASSUME DictInv, NEW t \in Threads, NEW e \in DOMAIN entry, NEW i \in Nat \ {0},
         Take(t, e, i), call[t].id \in Ids, entry[e].hash >= HashOf[call[t].id],
         \A j \in 1 .. Len(entry[e].items) :
           entry[e].items[j].id = call[t].id => j # i
  PROVE  \/ me'[t].id = me[t].id
         \/ /\ me'[t].id # call[t].id
            /\ HashOf[me'[t].id] >= HashOf[call[t].id]
<1>1. DictTypeOK /\ LocalsOK /\ OneHome
  BY DEF DictInv
<1>2. Len(entry[e].items) \in Nat /\ AtHome(entry[e].items, entry[e].hash)
  BY <1>1, ItemType, HomeItems
<1>3. CASE i > Len(entry[e].items)
  BY <1>1, <1>3 DEF Take, LocalsOK, Local
<1>4. CASE ~(i > Len(entry[e].items))
  <2>1. i \in 1 .. Len(entry[e].items)
    BY <1>2, <1>4
  <2>2. me'[t].id = entry[e].items[i].id
    BY <1>1, <1>4 DEF Take, LocalsOK, Local
  <2> QED
    BY <1>2, <2>1, <2>2 DEF AtHome
<1> QED
  BY <1>3, <1>4

(* An iteration goes forward.                                              *)
LEMMA ForwardStep ==
  ASSUME DictInv, NEW t \in Threads, Begin(t) \/ Lock(t) \/ Step(t), UNCHANGED client
  PROVE  NextForward'
<1>0. DictTypeOK /\ LocalsOK /\ CallsOK /\ OneHome /\ CallFits(t) /\ PlaceFits(t) /\ NextForward
  BY DEF DictInv
<1> DEFINE Forward(m, c) == /\ m.id # c.id
                            /\ HashOf[m.id] >= HashOf[c.id]
<1>1. \A u \in Threads \ {t} : me'[u] = me[u] /\ call'[u] = call[u]
  BY <1>0, OthersStep DEF LocalsOK, CallsOK
<1>2. SUFFICES ASSUME call'[t].op = "next", me'[t].id # NoId, call'[t].id # NoId
               PROVE  Forward(me'[t], call'[t])
  BY <1>0, <1>1 DEF NextForward
<1>3. CASE me'[t].id = me[t].id /\ call'[t] = call[t]
  BY <1>0, <1>2, <1>3 DEF NextForward
<1>4. CASE Begin(t)
  <2>1. me'[t].id = NoId
    BY <1>0, <1>4, BeginMoves DEF CallFits, Idle
  <2> QED
    BY <1>2, <2>1
<1>5. CASE Return(t)
  BY <1>0, <1>2, <1>5, ReturnMoves DEF NoCall
<1>6. CASE NextItem(t)
  <2> DEFINE e == me[t].e
             i == Where(e, call[t].id)
  <2>1. call' = call /\ call[t].id \in Ids
    BY <1>0, <1>2, <1>6, NextItemMoves, CallType DEF CallsOK
  <2>2. e \in DOMAIN entry
    BY <1>0, <1>6, NextItemMoves DEF DictInv, LocksCount, PlaceFits, OnEntry, At
  <2>3. CASE me'[t].id = me[t].id
    BY <1>3, <2>1, <2>3
  <2>4. CASE i # 0 /\ i < Len(entry[e].items) /\ Take(t, e, i + 1)
    <3>1. i \in 1 .. Len(entry[e].items) /\ entry[e].items[i].id = call[t].id
      BY <1>0, <2>2, <2>4, EntryType, ItemType, WhereFinds
    <3>2. AtHome(entry[e].items, entry[e].hash)
      BY <1>0, <2>2, HomeItems
    <3>3. entry[e].hash = HashOf[call[t].id] /\ HashOf[call[t].id] \in Nat
      BY <2>1, <3>1, <3>2, HashType DEF AtHome
    <3>4. \A j \in 1 .. Len(entry[e].items) :
            entry[e].items[j].id = call[t].id => j # i + 1
      <4>1. \A j \in 1 .. Len(entry[e].items) : entry[e].items[j].id = call[t].id => j = i
        BY <3>1, <3>2 DEF AtHome
      <4>2. i \in Nat
        BY <3>1
      <4> HIDE DEF i
      <4> QED
        BY <4>1, <4>2
    <3>5. i + 1 \in Nat \ {0} /\ entry[e].hash >= HashOf[call[t].id]
      BY <3>1, <3>3
    <3> HIDE DEF i, e
    <3>6. \/ me'[t].id = me[t].id
          \/ Forward(me'[t], call[t])
      BY <2>1, <2>2, <2>4, <3>4, <3>5, TakeForward
    <3> QED
      BY <1>3, <2>1, <3>6
  <2> QED
    BY <1>0, <1>2, <1>6, <2>1, <2>3, <2>4 DEF NextItem, Answer, Goto, LocalsOK, Local
<1>7. CASE NextEntry(t)
  <2>1. call' = call /\ call[t].id \in Ids
    BY <1>0, <1>2, <1>7, NextEntryMoves, CallType DEF CallsOK
  <2>2. CASE me'[t].id = me[t].id
    BY <1>3, <2>1, <2>2
  <2>3. ASSUME NEW e \in First(Behind(me[t].key)), Take(t, e, 1)
        PROVE  Forward(me'[t], call[t]) \/ me'[t].id = me[t].id
    <3>1. e \in DOMAIN entry /\ entry[e].hash > me[t].key /\ entry[e].hash \in Nat
      BY <1>0, InListType
    <3>2. me[t].key >= HashOf[call[t].id] /\ me[t].key \in Nat /\ HashOf[call[t].id] \in Nat
      BY <1>0, <1>2, <1>7, <2>1, HashType, NextEntryMoves
      DEF PlaceFits, At, Hash, LocalsOK, Local
    <3>3. AtHome(entry[e].items, entry[e].hash)
      BY <1>0, <3>1, HomeItems
    <3>4. entry[e].hash # HashOf[call[t].id] /\ entry[e].hash >= HashOf[call[t].id]
      BY <3>1, <3>2
    <3>5. \A j \in 1 .. Len(entry[e].items) : entry[e].items[j].id # call[t].id
      BY <3>3, <3>4 DEF AtHome
    <3> QED
      BY <2>1, <2>3, <3>1, <3>4, <3>5, TakeForward
  <2> QED
    BY <1>0, <1>3, <1>7, <2>1, <2>2, <2>3 DEF NextEntry, Answer, LocalsOK, Local
<1>8. CASE ~(Begin(t) \/ Return(t) \/ NextItem(t) \/ NextEntry(t))
  <2>1. me'[t].id = me[t].id /\ call' = call
    BY <1>0, <1>8, LockMoves, FindMoves, FindNextMoves, UpdateMoves, InsertMoves,
       FindAgainMoves, SearchMoves, RemoveItemMoves, SweepMoves, DropMoves, ReleaseMoves,
       UnlockMoves, GiveBackMoves DEF Step
  <2> QED
    BY <1>3, <2>1
<1> QED
  BY <1>4, <1>5, <1>6, <1>7, <1>8

(* The invariant holds at the start and is kept by every step.             *)
LEMMA DictInit == Init => DictInv
<1> SUFFICES ASSUME Init PROVE DictInv
  OBVIOUS
<1> USE DictAssumption DEF Init
<1>1. LocalsOK
  BY DEF LocalsOK, Local, Idle, NoEntry, Statuses, Null
<1>2. CallsOK
  BY DEF CallsOK
<1>3. DictTypeOK
  BY DEF DictTypeOK
<1>4. ASSUME NEW t \in Threads PROVE CallFits(t) /\ PlaceFits(t) /\ CleanerFits(t)
  BY <1>4 DEF CallFits, PlaceFits, CleanerFits, At, Idle, NoCall, OnEntry, OnId
<1>5. MutexOwned
  BY DEF MutexOwned, Owns, At, Idle, MutexSection
<1>6. LocksCount
  BY DEF LocksCount, Idle
<1>7. OneHome /\ Marked
  BY DEF OneHome, Marked, Linked
<1>8. NextForward
  BY DEF NextForward, Idle
<1> QED
  BY <1>1, <1>2, <1>3, <1>4, <1>5, <1>6, <1>7, <1>8 DEF DictInv

(* Each part of the invariant is kept by the steps of any thread.          *)
LEMMA DictStep == DictInv /\ [Next]_vars => DictInv'
<1> SUFFICES ASSUME DictInv, [Next]_vars PROVE DictInv'
  OBVIOUS
<1>1. CASE UNCHANGED vars
  <2> USE <1>1 DEF vars
  <2>1. LocalsOK' /\ CallsOK' /\ DictTypeOK'
    BY DEF DictInv, LocalsOK, CallsOK, DictTypeOK
  <2>2. \A t \in Threads : CallFits(t)' /\ PlaceFits(t)' /\ CleanerFits(t)'
    BY DEF DictInv, CallFits, PlaceFits, CleanerFits, At, Hash
  <2>3. MutexOwned' /\ Marked'
    BY DEF DictInv, MutexOwned, Owns, At, Marked, Dropping
  <2>4. LocksCount'
    BY DEF DictInv, LocksCount, Standing, Iterates
  <2>5. OneHome' /\ NextForward'
    BY DEF DictInv, OneHome, Linked, NextForward
  <2> QED
    BY <2>1, <2>2, <2>3, <2>4, <2>5 DEF DictInv
<1>2. ASSUME NEW t \in Threads, Begin(t) \/ Lock(t) \/ Step(t), UNCHANGED client
      PROVE  DictInv'
  <2> USE <1>2
  <2>1. EntriesFollow(t)
    BY EntriesStep
  <2>2. LocalsOK' /\ CallsOK'
    BY LocalStep, OthersStep, CallStep DEF DictInv, LocalsOK, CallsOK
  <2>3. mList' \in Threads \cup {NoThread}
    BY BeginMoves, LockMoves, FindMoves, FindNextMoves, UpdateMoves, InsertMoves,
       FindAgainMoves, SearchMoves, RemoveItemMoves, NextItemMoves, NextEntryMoves,
       SweepMoves, DropMoves, ReleaseMoves, UnlockMoves, GiveBackMoves, ReturnMoves
    DEF DictInv, DictTypeOK, Step
  <2>4. DictTypeOK'
    BY <2>1, <2>3 DEF EntriesFollow, DictTypeOK
  <2>5. \A u \in Threads : CallFits(u)'
    <3>1. ASSUME NEW u \in Threads \ {t} PROVE CallFits(u)'
      <4>1. me'[u] = me[u] /\ call'[u] = call[u] /\ CallFits(u)
        BY OthersStep DEF DictInv, LocalsOK, CallsOK
      <4> QED
        BY <4>1 DEF CallFits, At
    <3> QED
      BY <3>1, CallStep
  <2>6. \A u \in Threads : PlaceFits(u)' /\ CleanerFits(u)'
    BY <2>1, PlacesStep, CleanersStep
  <2>7. MutexOwned' /\ LocksCount' /\ OneHome' /\ Marked' /\ NextForward'
    BY <2>1, MutexStep, CountStep, HomeStep, MarkedStep, ForwardStep
  <2> QED
    BY <2>2, <2>4, <2>5, <2>6, <2>7 DEF DictInv
<1> QED
  BY <1>1, <1>2 DEF Next

(* The dictionary keeps its invariant, whatever its threads call and in    *)
(* whatever order their steps come (dict.c:273-532).                       *)
THEOREM DictInvariant == Spec => []DictInv
  BY DictInit, DictStep, PTL DEF Spec

(* The entries and the locks on them are consistent whenever any thread is *)
(* between two steps: no flush frees an entry under a thread, no lock is   *)
(* kept for one that has gone unless dictNext is used, an id has one entry *)
(* and one item, and an entry out of the list is marked by the time        *)
(* DICT_LOCK is free (dict.c:282-301, 346-380, 482).                       *)
THEOREM EntriesAreSound == Spec => []EntriesSound
<1>1. DictInv => EntriesSound
  <2>1. Marked /\ NoThread \notin Threads => DeletedIsMarked
    BY DEF Marked, Dropping, DeletedIsMarked
  <2> QED
    BY <2>1, DictAssumption DEF DictInv, EntriesSound
<1> QED
  BY <1>1, DictInvariant, PTL

(* An iteration with dictNext goes forward, whatever comes and goes beside *)
(* it (dict.c:454-507).                                                    *)
THEOREM NextIsForward == Spec => []NextForward
<1>1. DictInv => NextForward
  BY DEF DictInv
<1> QED
  BY <1>1, DictInvariant, PTL
-----------------------------------------------------------------------------
(* The dictionary implements the map SkipMap, for any number of threads,   *)
(* ids and entries: its steps are steps of the map or change nothing of    *)
(* it, under the invariant MapInv.                                         *)

(* An item of s, and an item in the list, that has the id and the value.   *)
Holds(s, id, v) == \E j \in 1 .. Len(s) : s[j].id = id /\ s[j].value = v
InMap(id, v) == \E e \in InList(HashOf[id]) : Holds(entry[e].items, id, v)

(* The items after one is put in front, changed, or taken out.             *)
LEMMA PrependHolds ==
  ASSUME NEW s \in Items, NEW x \in [id : Ids, value : Values], NEW id, NEW v
  PROVE  Holds(<<x>> \o s, id, v) <=> (x.id = id /\ x.value = v) \/ Holds(s, id, v)
<1> DEFINE r == <<x>> \o s
<1>1. /\ Len(r) = Len(s) + 1 /\ Len(s) \in Nat
      /\ \A j \in 1 .. Len(s) + 1 : r[j] = IF j = 1 THEN x ELSE s[j - 1]
  BY PrependKeeps DEF Items
<1> HIDE DEF r
<1>2. ASSUME NEW j \in 1 .. Len(r)
      PROVE  r[j] = x \/ \E k \in 1 .. Len(s) : r[j] = s[k]
  <2>1. j # 1 => j - 1 \in 1 .. Len(s) /\ r[j] = s[j - 1]
    BY <1>1
  <2> QED
    BY <1>1, <2>1
<1>3. r[1] = x /\ 1 \in 1 .. Len(r)
  BY <1>1
<1>4. ASSUME NEW k \in 1 .. Len(s) PROVE k + 1 \in 1 .. Len(r) /\ r[k + 1] = s[k]
  BY <1>1
<1> QED
  BY <1>2, <1>3, <1>4, ZenonT(60) DEF Holds, r

(* A changed item has the new value.                                       *)
LEMMA ReplaceHolds ==
  ASSUME NEW s \in Items, NEW x \in [id : Ids, value : Values], NEW hash, AtHome(s, hash),
         NEW k \in 1 .. Len(s), s[k].id = x.id, NEW id, NEW v
  PROVE  Holds([s EXCEPT ![k] = x], id, v) <=>
           IF id = x.id THEN v = x.value ELSE Holds(s, id, v)
<1> DEFINE r == [s EXCEPT ![k] = x]
<1>1. /\ Len(r) = Len(s)
      /\ \A j \in 1 .. Len(s) : r[j] = IF j = k THEN x ELSE s[j]
  BY DEF Items
<1> HIDE DEF r
<1> QED
  BY <1>1 DEF AtHome, Holds, r

(* An item that was taken out was the only one with its id.                *)
LEMMA RemoveHolds ==
  ASSUME NEW s \in Items, NEW hash, AtHome(s, hash), NEW k \in 1 .. Len(s), NEW id, NEW v
  PROVE  Holds(RemoveAt(s, k), id, v) <=> id # s[k].id /\ Holds(s, id, v)
<1> DEFINE r == RemoveAt(s, k)
<1>1. /\ r \in Items /\ Len(r) = Len(s) - 1 /\ Len(s) \in Nat /\ k \in Nat
      /\ \A j \in 1 .. Len(s) - 1 : r[j] = IF j < k THEN s[j] ELSE s[j + 1]
  BY RemoveAtKeeps DEF Items
<1> HIDE DEF r
<1>2. ASSUME NEW j \in 1 .. Len(r)
      PROVE  \E m \in 1 .. Len(s) : m # k /\ r[j] = s[m]
  <2>1. j < k => j \in 1 .. Len(s) /\ j # k /\ r[j] = s[j]
    BY <1>1
  <2>2. ~(j < k) => j + 1 \in 1 .. Len(s) /\ j + 1 # k /\ r[j] = s[j + 1]
    BY <1>1
  <2> QED
    BY <2>1, <2>2
<1>3. ASSUME NEW m \in 1 .. Len(s), m # k
      PROVE  \E j \in 1 .. Len(r) : r[j] = s[m]
  <2>1. m < k => m \in 1 .. Len(r) /\ r[m] = s[m]
    BY <1>1
  <2>2. ~(m < k) => m - 1 \in 1 .. Len(r) /\ r[m - 1] = s[m]
    BY <1>1, <1>3
  <2> QED
    BY <2>1, <2>2
<1>4. ASSUME NEW j \in 1 .. Len(r) PROVE r[j].id # s[k].id
  BY <1>2 DEF AtHome
<1>5. Holds(r, id, v) => id # s[k].id /\ Holds(s, id, v)
  BY <1>2, <1>4 DEF Holds
<1>6. id # s[k].id /\ Holds(s, id, v) => Holds(r, id, v)
  BY <1>3 DEF Holds
<1> QED
  BY <1>5, <1>6 DEF r

(* What an id has for a value is in the one entry of the list that it      *)
(* could be in.                                                            *)
ContentFits ==
  \A id \in Ids :
    /\ \A v : InMap(id, v) => Content[id] = v
    /\ (\A v : ~InMap(id, v)) => Content[id] = NoValue

(* So it is, by the one home of each id.                                   *)
LEMMA ContentIs == DictTypeOK /\ OneHome => ContentFits
<1> SUFFICES ASSUME DictTypeOK, OneHome, NEW id \in Ids
             PROVE  /\ \A v : InMap(id, v) => Content[id] = v
                    /\ (\A v : ~InMap(id, v)) => Content[id] = NoValue
  BY DEF ContentFits
<1> DEFINE homes == {e \in InList(HashOf[id]) : Where(e, id) # 0}
<1>1. Content[id] = IF homes = {} THEN NoValue
                    ELSE LET e == CHOOSE h \in homes : TRUE
                         IN  entry[e].items[Where(e, id)].value
  BY DEF Content
<1>2. ASSUME NEW e \in InList(HashOf[id])
      PROVE  /\ Where(e, id) \in 0 .. Len(entry[e].items) /\ Len(entry[e].items) \in Nat
             /\ Where(e, id) # 0 => entry[e].items[Where(e, id)].id = id
             /\ Where(e, id) = 0 => \A v : ~Holds(entry[e].items, id, v)
             /\ AtHome(entry[e].items, entry[e].hash)
  <2>1. e \in DOMAIN entry
    BY InListType
  <2>2. entry[e].items \in Items /\ Len(entry[e].items) \in Nat
    BY <2>1, EntryType, ItemType
  <2>3. AtHome(entry[e].items, entry[e].hash)
    BY <2>1, HomeItems
  <2> QED
    BY <2>2, <2>3, WhereFinds DEF Holds
<1>3. \A e, f \in InList(HashOf[id]) : e = f
  BY DEF OneHome, InList
<1>4. ASSUME NEW e \in InList(HashOf[id]), NEW j \in 1 .. Len(entry[e].items),
             entry[e].items[j].id = id
      PROVE  Content[id] = entry[e].items[j].value
  <2>1. Where(e, id) # 0
    BY <1>2, <1>4 DEF Holds
  <2>2. homes = {e}
    BY <1>3, <2>1
  <2>3. Where(e, id) = j
    BY <1>2, <1>4, <2>1 DEF AtHome
  <2>4. (CHOOSE h \in homes : TRUE) = e
    BY <2>2
  <2> QED
    BY <1>1, <2>2, <2>3, <2>4
<1>5. ASSUME \A v : ~InMap(id, v)
      PROVE  Content[id] = NoValue
  <2>1. SUFFICES ASSUME NEW e \in homes PROVE FALSE
    BY <1>1
  <2>2. Where(e, id) \in 1 .. Len(entry[e].items)
    BY <1>2, <2>1
  <2>3. Holds(entry[e].items, id, entry[e].items[Where(e, id)].value)
    BY <1>2, <2>1, <2>2 DEF Holds
  <2> QED
    BY <1>5, <2>1, <2>3 DEF InMap
<1> QED
  BY <1>4, <1>5 DEF InMap, Holds

(* Before a step and after it.                                             *)
LEMMA ContentStays == DictInv /\ DictInv' => ContentFits /\ ContentFits'
<1>1. DictInv => ContentFits
  BY ContentIs DEF DictInv
<1> QED
  BY <1>1, PTL

(* The map after a step, from what the list has for each id then.          *)
LEMMA ContentMoves ==
  ASSUME DictInv, DictInv'
  PROVE  /\ (\A i \in Ids : \A w : InMap(i, w)' <=> InMap(i, w)) => Content' = Content
         /\ \A id \in Ids : \A v :
              /\ \A i \in Ids \ {id} : \A w : InMap(i, w)' <=> InMap(i, w)
              /\ InMap(id, v)' \/ (v = NoValue /\ \A w : ~InMap(id, w)')
              => Content' = [Content EXCEPT ![id] = v]
<1>2. ContentFits /\ ContentFits'
  BY ContentStays
<1>3. /\ Content = [i \in Ids |-> Content[i]]
      /\ Content' = [i \in Ids |-> Content'[i]]
  BY DEF Content
<1>4. ASSUME NEW i \in Ids, \A w : InMap(i, w)' <=> InMap(i, w)
      PROVE  Content'[i] = Content[i]
  BY <1>2, <1>4 DEF ContentFits
<1>5. ASSUME NEW id \in Ids, NEW v, InMap(id, v)' \/ (v = NoValue /\ \A w : ~InMap(id, w)')
      PROVE  Content'[id] = v
  BY <1>2, <1>5 DEF ContentFits
<1>6. ASSUME \A i \in Ids : \A w : InMap(i, w)' <=> InMap(i, w)
      PROVE  Content' = Content
  <2>1. \A i \in Ids : Content'[i] = Content[i]
    BY <1>4, <1>6
  <2> QED
    BY <1>3, <2>1
<1>7. ASSUME NEW id \in Ids, NEW v,
             \A i \in Ids \ {id} : \A w : InMap(i, w)' <=> InMap(i, w),
             InMap(id, v)' \/ (v = NoValue /\ \A w : ~InMap(id, w)')
      PROVE  Content' = [Content EXCEPT ![id] = v]
  <2>1. \A i \in Ids : Content'[i] = IF i = id THEN v ELSE Content[i]
    BY <1>4, <1>5, <1>7
  <2> QED
    BY <1>3, <2>1
<1> QED
  BY <1>6, <1>7

(* How far the answer of a call is when its thread is at a step.           *)
StatusFits(t) ==
  /\ call[t].op = "none" => me[t].status = "pending"
  /\ call[t].op = "search" =>
       me[t].status = IF me[t].pc \in {"find", "lock", "search"} THEN "pending" ELSE "ok"
  /\ call[t].op = "delete" =>
       me[t].status = IF me[t].pc \in {"find", "lock", "delete"} THEN "pending" ELSE "ok"
  /\ call[t].op = "update" =>
       /\ me[t].pc \in {"find", "lock", "insert"} => me[t].status = "pending"
       /\ At(t, "again") => me[t].status = "duplicate"
       /\ At(t, "update") => \/ me[t].status = "pending"
                             \/ me[t].status = "duplicate" /\ me[t].e # Null
       /\ At(t, "release") => me[t].status \in {"pending", "ok", "nomem"}
       /\ me[t].pc \in {"unlock", "return"} => me[t].status \in {"ok", "nomem"}

(* An entry that is marked has no items; only a cleanup takes one out.     *)
Emptied == \A e \in DOMAIN entry : entry[e].deleted => entry[e].items = <<>>
Present == ~Cleans => \A e \in DOMAIN entry : entry[e].linked

(* A search that has not answered has seen what its id has now, and that   *)
(* it had nothing if the entry it stands on is out of the list.            *)
Found(t, v) == [status |-> "ok", key |-> call[t].id, value |-> v]
SeenFits(t) ==
  /\ ~Searching(t) => seen[t] = {}
  /\ Searching(t) => Found(t, Content[call[t].id]) \in seen[t]
  /\ Searching(t) /\ me[t].e # Null /\ ~entry[me[t].e].linked => Found(t, NoValue) \in seen[t]
SeenOK == seen = [t \in Threads |-> seen[t]] /\ \A t \in Threads : SeenFits(t)

MapInv ==
  DictInv /\ Emptied /\ Present /\ (\A t \in Threads : StatusFits(t)) /\ SeenOK

Moves(t) == (Begin(t) \/ Lock(t) \/ Step(t)) /\ UNCHANGED client

(* Items are changed by dictUpdate, dictRemove and dictCleanup only.       *)
ItemsSame == \A e \in DOMAIN entry \cap DOMAIN entry' : entry'[e].items = entry[e].items

(* The other steps leave the items of an entry as they are.                *)
LEMMA ItemsStay ==
  ASSUME DictInv, NEW t \in Threads, Moves(t), ~Update(t), ~RemoveItem(t), ~Sweep(t)
  PROVE  ItemsSame
<1>0. DictTypeOK /\ LocalsOK /\ CallsOK /\ LocksCount /\ PlaceFits(t)
  BY DEF DictInv
<1> USE <1>0 DEF ItemsSame
<1>1. CASE UNCHANGED entry
  BY <1>1
<1>2. ASSUME NEW e \in DOMAIN entry, entry' = Held(e) PROVE ItemsSame
  BY <1>2, HeldKeeps
<1>3. CASE Find(t)
  BY <1>1, <1>2, <1>3, FindMoves, InListType
<1>4. CASE FindNext(t)
  BY <1>1, <1>2, <1>4, FindNextMoves, InListType
<1>5. CASE FindAgain(t)
  BY <1>1, <1>2, <1>5, FindAgainMoves, InListType
<1>6. CASE NextEntry(t)
  BY <1>1, <1>2, <1>6, NextEntryMoves, InListType
<1>7. CASE Release(t)
  <2>1. me[t].e # Null
    BY <1>7 DEF PlaceFits, OnEntry, At, Release
  <2>2. me[t].e \in DOMAIN entry /\ entry[me[t].e].locks > 0
    BY <2>1, StandsOnLocked
  <2> QED
    BY <1>7, <2>2, ReleaseMoves, FreeKeeps
<1>8. CASE Insert(t)
  <2>1. CASE entry' = Flushed(entry)
    BY <2>1, FlushKeeps
  <2>2. ASSUME NEW n \in Cells \ DOMAIN entry, NEW new, entry' = Flushed(With(n, new))
        PROVE  ItemsSame
    <3>1. \A e \in DOMAIN entry : e \in DOMAIN With(n, new) /\ With(n, new)[e] = entry[e]
      BY DEF With
    <3> QED
      BY <2>2, <3>1, FlushKeeps
  <2>3. Cells \ DOMAIN entry # {} => Min(Cells \ DOMAIN entry) \in Cells \ DOMAIN entry
    BY DictAssumption, Least
  <2> QED
    BY <1>1, <1>8, <2>1, <2>2, <2>3 DEF Insert
<1>9. CASE Drop(t)
  <2> DEFINE ents == [e \in DOMAIN entry |->
                        IF e \in InList(me[t].key) THEN [entry[e] EXCEPT !.linked = FALSE]
                        ELSE entry[e]]
  <2>1. \A e \in DOMAIN entry : ents[e].items = entry[e].items
    BY DEF DictTypeOK, Entries
  <2>2. entry' = Flushed(ents) /\ DOMAIN ents = DOMAIN entry
    BY <1>9 DEF Drop
  <2> HIDE DEF ents
  <2> QED
    BY <2>1, <2>2, FlushKeeps
<1> QED
  BY <1>1, <1>3, <1>4, <1>5, <1>6, <1>7, <1>8, <1>9
  DEF Moves, Step, Begin, Lock, Search, NextItem, Unlock, GiveBack, Return

(* Then, and unless dictInsert or dictCleanup has been at work, the map is *)
(* the same.                                                               *)
LEMMA SameInMap ==
  ASSUME DictInv, NEW t \in Threads, EntriesFollow(t), ~Drop(t), ItemsSame,
         DOMAIN entry' \subseteq DOMAIN entry, NEW i, NEW w
  PROVE  InMap(i, w)' <=> InMap(i, w)
<1>0. DictTypeOK
  BY DEF DictInv
<1>a. \A e \in DOMAIN entry' :
        /\ e \in DOMAIN entry /\ entry'[e].hash = entry[e].hash
        /\ entry'[e].linked <=> entry[e].linked
  BY DEF EntriesFollow
<1>b. \A e \in DOMAIN entry : entry[e].linked => e \in DOMAIN entry'
  BY DEF EntriesFollow
<1>c. Linked' = Linked
  BY <1>a, <1>b DEF Linked
<1>1. InList(HashOf[i])' = InList(HashOf[i])
  BY <1>a, <1>c DEF InList, Linked
<1>2. \A e \in InList(HashOf[i]) : entry'[e].items = entry[e].items
  BY <1>1 DEF ItemsSame, InList, Linked
<1> QED
  BY <1>1, <1>2 DEF InMap

(* What changes when an entry of the list has other items.                 *)
LEMMA ItemsInMap ==
  ASSUME DictInv, NEW t \in Threads, EntriesFollow(t), NEW s, NewItems(t, s),
         entry[me[t].e].linked, NEW i, NEW w
  PROVE  InMap(i, w)' <=> IF HashOf[i] = entry[me[t].e].hash THEN Holds(s, i, w)
                          ELSE InMap(i, w)
<1> DEFINE e == me[t].e
<1>0. DictTypeOK /\ OneHome
  BY DEF DictInv
<1>1. /\ DOMAIN entry' = DOMAIN entry
      /\ \A x \in DOMAIN entry :
           /\ entry'[x].hash = entry[x].hash
           /\ entry'[x].items = IF x = e THEN s ELSE entry[x].items
           /\ entry'[x].linked = entry[x].linked
  BY <1>0, ItemsKeep DEF NewItems
<1>2. InList(HashOf[i])' = InList(HashOf[i])
  BY <1>1 DEF InList, Linked
<1>3. e \in DOMAIN entry
  BY DEF NewItems
<1>4. HashOf[i] = entry[e].hash => InList(HashOf[i]) = {e}
  BY <1>0, <1>3 DEF OneHome, InList, Linked
<1>5. HashOf[i] # entry[e].hash => e \notin InList(HashOf[i])
  BY DEF InList
<1>6. \A x \in InList(HashOf[i]) : entry'[x].items = IF x = e THEN s ELSE entry[x].items
  BY <1>1 DEF InList, Linked
<1> HIDE DEF e
<1>7. CASE HashOf[i] = entry[e].hash
  <2>1. InMap(i, w)' <=> Holds(s, i, w)
    BY <1>2, <1>4, <1>6, <1>7 DEF InMap
  <2> QED
    BY <1>7, <2>1 DEF e
<1>8. CASE HashOf[i] # entry[e].hash
  <2>1. InMap(i, w)' <=> InMap(i, w)
    BY <1>2, <1>5, <1>6, <1>8 DEF InMap
  <2> QED
    BY <1>8, <2>1 DEF e
<1> QED
  BY <1>7, <1>8

(* What an entry of the list has for the ids of its hash.                  *)
LEMMA EntryInMap ==
  ASSUME DictInv, NEW e \in DOMAIN entry, entry[e].linked, NEW i, HashOf[i] = entry[e].hash, NEW w
  PROVE  InMap(i, w) <=> Holds(entry[e].items, i, w)
<1>1. OneHome
  BY DEF DictInv
<1>2. InList(HashOf[i]) = {e}
  BY <1>1 DEF OneHome, InList, Linked
<1> QED
  BY <1>2 DEF InMap

(* Which steps settle the answer of a call, and how.                       *)
SameAnswer(t) == me'[t].status = me[t].status /\ me'[t].value = me[t].value

(* The answers of dictSearch and dictRemove; a step on the way gives none. *)
LEMMA Answers ==
  ASSUME LocalsOK, NEW t \in Threads
  PROVE  /\ Begin(t) \/ Lock(t) \/ FindAgain(t) \/ Sweep(t) \/ Drop(t)
              \/ Release(t) \/ Unlock(t) \/ GiveBack(t) => SameAnswer(t)
         /\ Find(t) => \/ SameAnswer(t) /\ me'[t].pc \in {"lock", "walk"}
                       \/ /\ InList(Hash(t)) = {} /\ call[t].op \in {"search", "delete"}
                          /\ me'[t].pc = "return" /\ UNCHANGED entry
                          /\ me'[t].status = "ok" /\ me'[t].value = NoValue
         /\ RemoveItem(t) => me'[t].status = "ok"
         /\ Search(t) =>
              LET i == Where(me[t].e, call[t].id)
              IN  /\ me'[t].status = "ok"
                  /\ me'[t].value = IF i = 0 THEN NoValue ELSE entry[me[t].e].items[i].value
<1> USE DEF LocalsOK, Local, SameAnswer, Goto, Answer
<1>1. ASSUME Begin(t) \/ Lock(t) \/ FindAgain(t) \/ Sweep(t) \/ Drop(t)
               \/ Release(t) \/ Unlock(t) \/ GiveBack(t)
      PROVE  SameAnswer(t)
  BY <1>1 DEF Begin, Lock, FindAgain, Sweep, Drop, Release, Unlock, GiveBack
<1>3. ASSUME Find(t)
      PROVE  \/ SameAnswer(t) /\ me'[t].pc \in {"lock", "walk"}
             \/ /\ InList(Hash(t)) = {} /\ call[t].op \in {"search", "delete"}
                /\ me'[t].pc = "return" /\ UNCHANGED entry
                /\ me'[t].status = "ok" /\ me'[t].value = NoValue
  <2>1. ASSUME NEW e \in InList(Hash(t)),
               me' = [me EXCEPT ![t].pc = "lock", ![t].e = e, ![t].key = Hash(t)]
        PROVE  SameAnswer(t) /\ me'[t].pc = "lock"
    BY <2>1
  <2>2. Goto(t, "lock") => SameAnswer(t) /\ me'[t].pc = "lock"
    OBVIOUS
  <2>3. me' = [me EXCEPT ![t].pc = "walk", ![t].key = Hash(t)]
          => SameAnswer(t) /\ me'[t].pc = "walk"
    OBVIOUS
  <2>4. Answer(t, NoValue, "return")
          => me'[t].pc = "return" /\ me'[t].status = "ok" /\ me'[t].value = NoValue
    OBVIOUS
  <2> QED
    BY <1>3, <2>1, <2>2, <2>3, <2>4 DEF Find
<1>4. RemoveItem(t) => me'[t].status = "ok"
  BY DEF RemoveItem
<1>5. ASSUME Search(t)
      PROVE  LET i == Where(me[t].e, call[t].id)
             IN  /\ me'[t].status = "ok"
                 /\ me'[t].value = IF i = 0 THEN NoValue ELSE entry[me[t].e].items[i].value
  BY <1>5 DEF Search
<1> QED
  BY <1>1, <1>3, <1>4, <1>5

(* What dictUpdate and dictInsert answer.                                  *)
LEMMA UpdateAnswers ==
  ASSUME LocalsOK, NEW t \in Threads, Update(t)
  PROVE  LET e == me[t].e
             i == Where(e, call[t].id)
             new == Item(call[t].id, call[t].value)
         IN  \/ e = Null /\ me'[t].status = me[t].status /\ UNCHANGED entry
             \/ /\ e # Null /\ entry[e].deleted
                /\ me'[t].status = "ok" /\ UNCHANGED entry
             \/ /\ e # Null /\ ~entry[e].deleted /\ UNCHANGED entry
                /\ me'[t].status = IF me[t].status = "duplicate" THEN "nomem" ELSE "pending"
             \/ /\ e # Null /\ ~entry[e].deleted /\ me'[t].status = "ok"
                /\ \/ i # 0 /\ entry' = [entry EXCEPT ![e].items =
                                            [entry[e].items EXCEPT ![i] = new]]
                   \/ i = 0 /\ entry' = [entry EXCEPT ![e].items = <<new>> \o entry[e].items]
  BY DEF Update, LocalsOK, Local, Goto

(* dictInsert runs out of memory, finds an entry there, or stores.         *)
LEMMA InsertAnswers ==
  ASSUME LocalsOK, NEW t \in Threads, Insert(t)
  PROVE  LET new == [hash |-> Hash(t), items |-> <<Item(call[t].id, call[t].value)>>,
                     deleted |-> FALSE, linked |-> TRUE, locks |-> 0]
             free == Cells \ DOMAIN entry
         IN  \/ /\ me'[t].pc = "unlock" /\ me'[t].status = "nomem"
                /\ entry' = entry \/ entry' = Flushed(entry)
             \/ /\ me'[t].pc = "again" /\ me'[t].status = "duplicate"
                /\ entry' = Flushed(entry)
             \/ /\ me'[t].pc = "unlock" /\ me'[t].status = "ok"
                /\ InList(Hash(t)) = {} /\ free # {}
                /\ entry' = Flushed(With(Min(free), new))
  BY DEF Insert, LocalsOK, Local

(* The status of a call fits the step it is at.                            *)
LEMMA StatusStep ==
  ASSUME MapInv, NEW t \in Threads, Moves(t)
  PROVE  StatusFits(t)'
<1>0. /\ DictInv /\ LocalsOK /\ CallsOK /\ DictTypeOK /\ MutexOwned
      /\ CallFits(t) /\ PlaceFits(t) /\ StatusFits(t)
  BY DEF MapInv, DictInv
<1> USE <1>0 DEF StatusFits, SameAnswer, At, Statuses
<1>1. CASE Begin(t)
  <2>1. call'[t] \in Calls
    BY <1>1, BeginMoves, DictAssumption DEF CallsOK
  <2>2. call'[t].op # "none"
    BY <2>1 DEF Calls
  <2>3. me[t].status = "pending"
    BY <1>1, BeginMoves DEF CallFits, Idle
  <2> QED
    BY <1>1, <2>2, <2>3, BeginMoves, Answers
<1>2. CASE Lock(t)
  BY <1>2, LockMoves, Answers
<1>3. CASE Find(t)
  BY <1>3, FindMoves, Answers DEF CallFits
<1>4. CASE FindNext(t)
  BY <1>4, FindNextMoves DEF CallFits
<1>5. CASE Update(t)
  BY <1>5, UpdateMoves, UpdateAnswers DEF CallFits
<1>6. CASE Insert(t)
  BY <1>6, InsertMoves, InsertAnswers DEF CallFits
<1>7. CASE FindAgain(t)
  BY <1>7, FindAgainMoves, InListType, Answers DEF CallFits
<1>8. CASE Search(t)
  BY <1>8, SearchMoves, Answers DEF CallFits
<1>9. CASE RemoveItem(t)
  BY <1>9, RemoveItemMoves, Answers DEF CallFits
<1>10. CASE NextItem(t)
  BY <1>10, NextItemMoves DEF CallFits
<1>11. CASE NextEntry(t)
  BY <1>11, NextEntryMoves DEF CallFits
<1>12. CASE Sweep(t)
  BY <1>12, SweepMoves DEF CallFits
<1>13. CASE Drop(t)
  BY <1>13, DropMoves DEF CallFits
<1>14. CASE Release(t)
  <2>1. mList = t <=> call[t].op = "update"
    BY <1>14, ReleaseMoves DEF MutexOwned, Owns, MutexSection
  <2>2. me'[t].pc = AfterRelease(t) /\ call' = call /\ SameAnswer(t) /\ me[t].pc = "release"
    BY <1>14, ReleaseMoves, Answers
  <2>3. CASE call[t].op = "update"
    BY <2>1, <2>2, <2>3 DEF AfterRelease
  <2>4. CASE call[t].op \in {"search", "delete", "none"}
    BY <2>1, <2>2, <2>4 DEF AfterRelease
  <2> QED
    BY <2>2, <2>3, <2>4
<1>15. CASE Unlock(t)
  BY <1>15, UnlockMoves, Answers DEF PlaceFits
<1>16. CASE GiveBack(t)
  BY <1>16, GiveBackMoves, Answers DEF CallFits
<1>17. CASE Return(t)
  BY <1>17, ReturnMoves DEF NoCall, Idle
<1> QED
  BY <1>1, <1>2, <1>3, <1>4, <1>5, <1>6, <1>7, <1>8, <1>9, <1>10, <1>11,
       <1>12, <1>13, <1>14, <1>15, <1>16, <1>17 DEF Moves, Step

(* A marked entry has no items: dictUpdate leaves it alone, dictRemove     *)
(* finds nothing in it.                                                    *)
LEMMA EmptiedStep ==
  ASSUME MapInv, NEW t \in Threads, Moves(t), EntriesFollow(t)
  PROVE  Emptied'
<1>0. DictInv /\ DictTypeOK /\ LocksCount /\ PlaceFits(t) /\ Emptied
  BY DEF MapInv, DictInv
<1>1. ASSUME NEW e \in DOMAIN entry'
      PROVE  /\ e \notin DOMAIN entry => ~entry'[e].deleted
             /\ e \in DOMAIN entry /\ ~(Sweep(t) /\ e = me[t].e) =>
                  entry'[e].deleted = entry[e].deleted
  BY DEF EntriesFollow
<1>2. ASSUME ItemsSame, ~Sweep(t) PROVE Emptied'
  BY <1>0, <1>1, <1>2 DEF ItemsSame, Emptied
<1>3. ASSUME NEW s, NewItems(t, s), ~entry[me[t].e].deleted
      PROVE  Emptied'
  <2>1. \A e \in DOMAIN entry :
          /\ entry'[e].deleted = entry[e].deleted
          /\ e # me[t].e => entry'[e].items = entry[e].items
    BY <1>0, <1>3, ItemsKeep DEF NewItems
  <2>2. DOMAIN entry' = DOMAIN entry
    BY <1>0, <1>3, ItemsKeep DEF NewItems
  <2> QED
    BY <1>0, <1>3, <2>1, <2>2 DEF Emptied
<1>4. CASE Update(t)
  <2>1. ~Sweep(t)
    BY <1>4 DEF Update, Sweep, At
  <2> QED
    BY <1>0, <1>2, <1>3, <1>4, <2>1, UpdateItems DEF ItemsSame
<1>5. CASE RemoveItem(t)
  <2>1. me[t].e \in DOMAIN entry
    BY <1>0, <1>5 DEF LocksCount, PlaceFits, At, RemoveItem, OnEntry
  <2>2. CASE Where(me[t].e, call[t].id) = 0
    <3>1. entry' = entry /\ ~Sweep(t)
      BY <1>5, <2>2 DEF RemoveItem, Sweep, At
    <3> QED
      BY <1>2, <3>1 DEF ItemsSame
  <2>3. CASE Where(me[t].e, call[t].id) # 0
    <3>1. Len(entry[me[t].e].items) # 0
      BY <1>0, <2>1, <2>3, EntryType, WhereFinds, ItemType
    <3>2. ~entry[me[t].e].deleted
      BY <1>0, <2>1, <3>1 DEF Emptied
    <3>3. entry' = entry \/ \E s : NewItems(t, s)
      BY <1>0, <1>5, RemoveItems
    <3>4. ~Sweep(t)
      BY <1>5 DEF RemoveItem, Sweep, At
    <3> QED
      BY <1>2, <1>3, <3>2, <3>3, <3>4 DEF ItemsSame
  <2> QED
    BY <2>2, <2>3
<1>6. CASE Sweep(t)
  <2> DEFINE e == me[t].e
             i == SelectInSeq(entry[e].items, LAMBDA x : x.value \in Swept)
  <2>1. e \in DOMAIN entry
    BY <1>0, <1>6, SweepItems
  <2>2. CASE i # 0
    <3>1. i \in 0 .. Len(entry[e].items)
      BY <1>0, <2>1, EntryType, SweptIsAnItem
    <3>a. Len(entry[e].items) \in Nat
      BY <1>0, <2>1, ItemType
    <3>4. i \in 1 .. Len(entry[e].items) /\ entry[e].items # <<>>
      <4> HIDE DEF i
      <4> QED
        BY <2>2, <3>1, <3>a
    <3>2. ~entry[e].deleted
      BY <1>0, <2>1, <3>4 DEF Emptied
    <3>3. entry' = [entry EXCEPT ![e].items = RemoveAt(entry[e].items, i)]
      BY <1>6, <2>2 DEF Sweep
    <3>5. entry[e].items \in Items /\ AtHome(entry[e].items, entry[e].hash)
      BY <1>0, <2>1, EntryType, HomeItems DEF DictInv
    <3> HIDE DEF i
    <3>6. NewItems(t, RemoveAt(entry[e].items, i))
      BY <2>1, <3>3, <3>4, <3>5, RemoveAtHome DEF NewItems
    <3> QED
      BY <1>3, <3>2, <3>6
  <2>3. CASE i = 0
    <3>1. entry' = [entry EXCEPT ![e].deleted = @ \/ entry[e].items = <<>>]
      BY <1>6, <2>3 DEF Sweep
    <3> HIDE DEF i
    <3>2. PICK d \in BOOLEAN : d = (entry[e].deleted \/ entry[e].items = <<>>)
      OBVIOUS
    <3>3. /\ DOMAIN entry' = DOMAIN entry
          /\ \A x \in DOMAIN entry :
               entry'[x] = IF x = e THEN [entry[e] EXCEPT !.deleted = d] ELSE entry[x]
      BY <2>1, <3>1, <3>2
    <3>4. entry[e] \in Entries
      BY <1>0, <2>1 DEF DictTypeOK
    <3>5. [entry[e] EXCEPT !.deleted = d].items = entry[e].items
          /\ [entry[e] EXCEPT !.deleted = d].deleted = d
      BY <3>4 DEF Entries
    <3> QED
      BY <1>0, <2>1, <3>2, <3>3, <3>5 DEF Emptied
  <2> QED
    BY <2>2, <2>3
<1> QED
  BY <1>0, <1>2, <1>4, <1>5, <1>6, ItemsStay

(* Only a cleanup takes an entry out of the list.                          *)
LEMMA PresentStep ==
  ASSUME MapInv, NEW t \in Threads, Moves(t), EntriesFollow(t)
  PROVE  Present'
<1>0. Present /\ CallFits(t) /\ client' = client /\ client[t] \subseteq client[t]
  BY DEF MapInv, DictInv, Moves
<1>1. Cleans' <=> Cleans
  BY <1>0 DEF Cleans
<1>2. Drop(t) => Cleans
  BY <1>0 DEF CallFits, Drop, At, Cleans, NoCall
<1> QED
  BY <1>0, <1>1, <1>2 DEF Present, EntriesFollow

(* A search that has not answered is at one of three steps.                *)
LEMMA SearchBefore ==
  ASSUME MapInv, NEW t \in Threads, Moves(t), StatusFits(t)', Searching(t)'
  PROVE  \/ Begin(t) /\ me'[t].e = Null
         \/ /\ Searching(t) /\ call' = call
            /\ \/ Find(t) /\ me'[t].e \in InList(Hash(t))
               \/ Lock(t) /\ me'[t].e = me[t].e
<1>0. LocalsOK /\ CallsOK /\ DictTypeOK /\ CallFits(t) /\ PlaceFits(t)
  BY DEF MapInv, DictInv
<1>1. me'[t].pc \in {"find", "lock", "search"} /\ call'[t].op = "search"
  BY DEF StatusFits, Searching
<1> USE <1>0 DEF At
<1>2. CASE Begin(t)
  BY <1>2, BeginMoves DEF PlaceFits, NoEntry
<1>3. CASE Lock(t)
  BY <1>3, LockMoves, Answers DEF SameAnswer, Searching
<1>4. CASE Find(t)
  BY <1>1, <1>4, FindMoves, Answers DEF SameAnswer, Searching
<1>5. CASE Release(t)
  BY <1>1, <1>5, ReleaseMoves DEF AfterRelease
<1> QED
  BY <1>1, <1>2, <1>3, <1>4, <1>5, FindNextMoves, UpdateMoves, InsertMoves, FindAgainMoves,
     SearchMoves, RemoveItemMoves, NextItemMoves, NextEntryMoves, SweepMoves, DropMoves,
     UnlockMoves, GiveBackMoves, ReturnMoves
  DEF Moves, Step, CallFits, Idle

(* These are the steps it takes next.                                      *)
LEMMA SearchAfter ==
  ASSUME MapInv, NEW t \in Threads, Moves(t), Searching(t)
  PROVE  Find(t) \/ Lock(t) \/ Search(t)
<1>1. StatusFits(t) /\ CallFits(t)
  BY DEF MapInv, DictInv
<1>2. me[t].pc \in {"find", "lock", "search"} /\ call[t].op = "search"
  BY <1>1 DEF StatusFits, Searching
<1> QED
  BY <1>2 DEF Moves, Step, At, Begin, FindNext, Update, Insert, FindAgain, RemoveItem, NextItem,
     NextEntry, Sweep, Drop, Release, Unlock, GiveBack, Return

(* What SkipMap takes for the right answer to a search.                    *)
LEMMA RightFound ==
  ASSUME NEW t
  PROVE  call[t].op = "search" =>
           Map!Right(MapCall(call[t]), Content) = Found(t, Content[call[t].id])
  BY DEF Map!Right, MapCall, Found

(* The same after a step.                                                  *)
LEMMA RightFoundNext ==
  (\A t : call[t].op = "search" =>
     Map!Right(MapCall(call[t]), Content) = Found(t, Content[call[t].id]))'
<1>1. \A t : call[t].op = "search" =>
        Map!Right(MapCall(call[t]), Content) = Found(t, Content[call[t].id])
  BY RightFound
<1> QED
  BY <1>1, PTL

(* A pending search has seen what its id has, also when its entry is taken *)
(* out of the list.                                                        *)
LEMMA SeenStep ==
  ASSUME MapInv, NEW t \in Threads, Moves(t), EntriesFollow(t), SeenNext,
         DictInv', Emptied', \A u \in Threads : StatusFits(u)'
  PROVE  SeenOK'
<1>0. /\ DictInv /\ DictTypeOK /\ OneHome /\ LocksCount' /\ SeenOK /\ LocalsOK /\ CallsOK
      /\ \A u \in Threads : SeenFits(u)
  BY DEF MapInv, DictInv, SeenOK
<1>1. /\ seen' = [u \in Threads |-> seen'[u]]
      /\ \A u \in Threads :
           /\ Searching(u)' => /\ seen[u] \subseteq seen'[u]
                               /\ Found(u, Content[call[u].id])' \in seen'[u]
           /\ ~Searching(u)' => seen'[u] = {}
  <2>1. seen' = [u \in Threads |->
                   IF Searching(u)' THEN seen[u] \cup {Map!Right(MapCall(call[u]), Content)'}
                   ELSE {}]
    BY DEF SeenNext
  <2>2. \A u \in Threads : Searching(u)' =>
          Map!Right(MapCall(call[u]), Content)' = Found(u, Content[call[u].id])'
    BY RightFoundNext DEF Searching
  <2> QED
    BY <2>1, <2>2
<1>2. ASSUME NEW u \in Threads, Searching(u)', me'[u].e # Null, ~entry'[me'[u].e].linked
      PROVE  Found(u, NoValue)' \in seen'[u]
  <2> DEFINE e == me'[u].e
  <2>1. e \in DOMAIN entry'
    BY <1>0, <1>2 DEF LocksCount
  <2>2. e \in DOMAIN entry
    BY <1>2, <2>1 DEF EntriesFollow
  <2>3. CASE ~entry[e].linked
    <3>1. Searching(u) /\ call'[u] = call[u] /\ me[u].e = e
      <4>1. CASE u = t
        <5>1. e \notin InList(Hash(t))
          BY <2>3 DEF InList, Linked
        <5> QED
          BY <1>2, <4>1, <5>1, SearchBefore
      <4>2. CASE u # t
        <5>1. me'[u] = me[u] /\ call'[u] = call[u]
          BY <1>0, <4>2, OthersStep DEF Moves, LocalsOK, CallsOK
        <5> QED
          BY <1>2, <5>1 DEF Searching
      <4> QED
        BY <4>1, <4>2
    <3>2. Found(u, NoValue) \in seen[u]
      BY <1>0, <1>2, <2>3, <3>1 DEF SeenFits
    <3> QED
      BY <1>1, <1>2, <3>1, <3>2 DEF Found
  <2>4. CASE entry[e].linked
    <3>1. Drop(t)
      BY <1>2, <2>1, <2>2, <2>4, EntryType, <1>0 DEF EntriesFollow
    <3>2. \A f \in InList(HashOf[call[u].id])' : FALSE
      <4>1. entry'[e].hash = HashOf[call'[u].id] /\ entry'[e].hash = entry[e].hash
        <5>1. PlaceFits(u)' /\ call'[u].op \in OnId
          BY <1>2 DEF DictInv, Searching, OnId
        <5>2. entry'[e].hash = HashOf[call'[u].id]
          BY <1>2, <5>1 DEF PlaceFits, Hash
        <5> QED
          BY <2>1, <2>2, <5>2 DEF EntriesFollow
      <4>2. ASSUME NEW f \in DOMAIN entry', entry'[f].linked,
                   entry'[f].hash = HashOf[call'[u].id]
            PROVE  FALSE
        <5>1. f \in DOMAIN entry
          BY <3>1 DEF EntriesFollow, Drop, Insert, At
        <5>2. entry[f].linked /\ entry[f].hash = entry[e].hash
          BY <4>1, <4>2, <5>1 DEF EntriesFollow
        <5>3. f = e
          BY <1>0, <2>2, <2>4, <5>1, <5>2 DEF OneHome, Linked
        <5> QED
          BY <1>2, <4>2, <5>3
      <4> QED
        BY <4>2 DEF InList, Linked
    <3>3. Content'[call'[u].id] = NoValue
      <4>1. PICK id \in Ids : id = call'[u].id
        <5>1. call'[u] \in Calls \cup {NoCall}
          BY DEF DictInv, CallsOK
        <5> QED
          BY <1>2, <5>1 DEF Searching, Calls, NoCall
      <4>2. \A v : ~InMap(id, v)'
        BY <3>2, <4>1 DEF InMap
      <4>3. ContentFits'
        BY <1>0, ContentStays
      <4> QED
        BY <4>1, <4>2, <4>3 DEF ContentFits
    <3> QED
      BY <1>1, <1>2, <3>3 DEF Found
  <2> QED
    BY <2>3, <2>4
<1>3. \A u \in Threads : SeenFits(u)'
  BY <1>1, <1>2 DEF SeenFits
<1> QED
  BY <1>1, <1>3 DEF SeenOK

(* What a search answers it has seen.                                      *)
LEMMA AnswerSeen ==
  ASSUME MapInv, NEW t \in Threads, Moves(t), Searching(t), me'[t].status = "ok"
  PROVE  /\ UNCHANGED <<entry, call>>
         /\ Found(t, me'[t].value) \in seen[t]
<1>0. /\ DictInv /\ DictTypeOK /\ OneHome /\ LocksCount /\ LocalsOK /\ CallsOK
      /\ PlaceFits(t) /\ SeenFits(t) /\ Emptied /\ Marked /\ MutexOwned
  BY DEF MapInv, DictInv, SeenOK
<1>1. ContentFits
  BY <1>0, ContentIs
<1>2. call[t].op = "search" /\ call[t].id \in Ids /\ me[t].status = "pending"
  BY <1>0, CallType DEF Searching, CallsOK, OnId
<1>3. CASE Find(t)
  <2>1. UNCHANGED <<entry, call>> /\ InList(Hash(t)) = {} /\ me'[t].value = NoValue
    BY <1>0, <1>2, <1>3, Answers, FindMoves DEF SameAnswer
  <2>2. Content[call[t].id] = NoValue
    BY <1>1, <1>2, <2>1 DEF ContentFits, InMap, Hash
  <2> QED
    BY <1>0, <2>1, <2>2 DEF SeenFits
<1>4. CASE Search(t)
  <2> DEFINE e == me[t].e
             i == Where(e, call[t].id)
  <2>1. /\ UNCHANGED <<entry, call>>
        /\ me'[t].value = IF i = 0 THEN NoValue ELSE entry[e].items[i].value
    BY <1>0, <1>4, Answers, SearchMoves
  <2>2. e # Null /\ e \in DOMAIN entry
    BY <1>0, <1>4 DEF Search, At, PlaceFits, OnEntry, LocksCount
  <2>3. /\ i \in 0 .. Len(entry[e].items) /\ Len(entry[e].items) \in Nat
        /\ i # 0 => entry[e].items[i].id = call[t].id
        /\ i = 0 => \A j \in 1 .. Len(entry[e].items) : entry[e].items[j].id # call[t].id
    BY <1>0, <2>2, EntryType, ItemType, WhereFinds
  <2>4. CASE entry[e].linked
    <3>1. \A w : InMap(call[t].id, w) <=> Holds(entry[e].items, call[t].id, w)
      BY <1>0, <1>2, <2>2, <2>4, EntryInMap DEF PlaceFits, OnId, Hash
    <3> HIDE DEF i
    <3>2. CASE i = 0
      <4>1. \A w : ~Holds(entry[e].items, call[t].id, w)
        BY <2>3, <3>2 DEF Holds
      <4> QED
        BY <1>0, <1>1, <1>2, <2>1, <3>1, <3>2, <4>1 DEF ContentFits, SeenFits
    <3>3. CASE i # 0
      <4>1. i \in 1 .. Len(entry[e].items)
        BY <2>3, <3>3
      <4>2. Holds(entry[e].items, call[t].id, entry[e].items[i].value)
        BY <2>3, <3>3, <4>1 DEF Holds
      <4> QED
        BY <1>0, <1>1, <1>2, <2>1, <3>1, <3>3, <4>2 DEF ContentFits, SeenFits
    <3> QED
      BY <3>2, <3>3
  <2>5. CASE ~entry[e].linked
    <3>1. entry[e].deleted
      <4>1. ~Dropping(e)
        BY <1>0, <1>4 DEF Dropping, Search, At, MutexOwned, Owns, MutexSection
      <4> QED
        BY <1>0, <2>2, <2>5, <4>1, EntryType DEF Marked
    <3>2. Len(entry[e].items) = 0
      BY <1>0, <2>2, <3>1 DEF Emptied
    <3>3. i = 0
      <4> HIDE DEF i
      <4> QED
        BY <2>3, <3>2
    <3> QED
      BY <1>0, <2>1, <2>2, <2>5, <3>3 DEF SeenFits
  <2> QED
    BY <2>4, <2>5
<1>5. CASE Lock(t)
  BY <1>0, <1>2, <1>5, Answers DEF SameAnswer
<1> QED
  BY <1>3, <1>4, <1>5, SearchAfter

(* The invariant of the refinement holds at the start,                     *)
LEMMA MapInvInit == SeenInit => MapInv
<1> SUFFICES ASSUME SeenInit PROVE MapInv
  OBVIOUS
<1> USE DEF SeenInit, Init
<1>1. DictInv
  BY DictInit
<1>2. Emptied /\ Present
  BY DEF Emptied, Present
<1>3. ASSUME NEW t \in Threads PROVE StatusFits(t) /\ SeenFits(t)
  BY DEF StatusFits, SeenFits, Searching, NoCall, Idle, At
<1>4. seen = [t \in Threads |-> seen[t]]
  OBVIOUS
<1> QED
  BY <1>1, <1>2, <1>3, <1>4 DEF MapInv, SeenOK

(* and every step keeps it.                                                *)
LEMMA MapInvStep == MapInv /\ [Next /\ SeenNext]_<<vars, seen>> => MapInv'
<1> SUFFICES ASSUME MapInv, [Next /\ SeenNext]_<<vars, seen>> PROVE MapInv'
  OBVIOUS
<1>1. DictInv'
  BY DictStep DEF MapInv, vars
<1>2. CASE UNCHANGED <<vars, seen>>
  <2> USE <1>2 DEF vars
  <2>1. Emptied' /\ Present' /\ \A t \in Threads : StatusFits(t)'
    BY DEF MapInv, Emptied, Present, Cleans, StatusFits, At
  <2>2. Content' = Content
    <3>1. \A i, w : InMap(i, w)' <=> InMap(i, w)
      BY DEF InMap, InList, Linked
    <3>2. DictInv
      BY DEF MapInv
    <3> QED
      BY <1>1, <3>1, <3>2, ContentMoves
  <2>3. SeenOK'
    BY <2>2 DEF MapInv, SeenOK, SeenFits, Searching, Found
  <2> QED
    BY <1>1, <2>1, <2>3 DEF MapInv
<1>3. ASSUME NEW t \in Threads, Moves(t), SeenNext
      PROVE  MapInv'
  <2> USE <1>3
  <2>1. DictInv /\ LocalsOK /\ CallsOK
    BY DEF MapInv, DictInv
  <2>2. EntriesFollow(t)
    BY <2>1, EntriesStep DEF Moves
  <2>3. ASSUME NEW u \in Threads PROVE StatusFits(u)'
    <3>1. CASE u # t
      <4>1. me'[u] = me[u] /\ call'[u] = call[u] /\ StatusFits(u)
        BY <2>1, <3>1, OthersStep DEF Moves, LocalsOK, CallsOK, MapInv
      <4> QED
        BY <4>1 DEF StatusFits, At
    <3> QED
      BY <3>1, StatusStep
  <2>4. Emptied' /\ Present'
    BY <2>2, EmptiedStep, PresentStep
  <2>5. SeenOK'
    BY <1>1, <2>2, <2>3, <2>4, SeenStep
  <2> QED
    BY <1>1, <2>3, <2>4, <2>5 DEF MapInv
<1> QED
  BY <1>2, <1>3 DEF Next, Moves

(* The dictionary keeps the invariant of the refinement beside any         *)
(* program, with cleanups too (dict.c:273-532).                            *)
THEOREM MapInvariant == MapSpec => []MapInv
  BY MapInvInit, MapInvStep, PTL DEF MapSpec

(* dictSearch answers with a value that its id had at a moment of the      *)
(* call, or with NULL if it had none then, whatever the other threads do,  *)
(* cleanups included (dict.c:380-413).                                     *)
THEOREM SearchesAreRight == MapSpec => AnswersWereRight
<1>1. MapInv /\ [Next /\ SeenNext]_<<vars, seen>> =>
        [\A t \in Threads :
           Searching(t) /\ me'[t].status = "ok" => MapRet(t)' \in seen[t]]_<<vars, seen>>
  <2> SUFFICES ASSUME MapInv, NEW u \in Threads, Moves(u), NEW t \in Threads,
                      Searching(t), me'[t].status = "ok"
               PROVE  MapRet(t)' \in seen[t]
    BY DEF Next, Moves
  <2>1. t = u
    BY OthersStep DEF Moves, MapInv, DictInv, LocalsOK, Searching
  <2>2. call' = call /\ Found(t, me'[t].value) \in seen[t]
    BY <2>1, AnswerSeen
  <2>3. MapRet(t)' = Found(t, me'[t].value)
    BY <2>2 DEF MapRet, MapCall, Found, Searching
  <2> QED
    BY <2>2, <2>3
<1> QED
  BY <1>1, MapInvariant, PTL DEF MapSpec, AnswersWereRight

(* The call and the answer of a thread, as SkipMap has them.               *)
LEMMA MapCallIs ==
  ASSUME NEW c
  PROVE  /\ c.op = "search" => MapCall(c) = [op |-> "search", key |-> c.id]
         /\ c.op = "delete" => MapCall(c) = [op |-> "delete", key |-> c.id]
         /\ c.op = "update" => MapCall(c) = [op |-> "update", key |-> c.id, value |-> c.value]
         /\ c.op \notin OnId => MapCall(c) = Map!NoCall
         /\ c.op \in OnId => MapCall(c).op = c.op /\ MapCall(c).key = c.id
                             /\ MapCall(c) # Map!NoCall
  BY DEF MapCall, OnId, Map!NoCall

Settled(t) == me[t].status \in {"ok", "nomem"} /\ call[t].op \in OnId

(* The answer that a call has, once it is settled.                         *)
LEMMA MapRetIs ==
  ASSUME NEW t
  PROVE  /\ ~Settled(t) => MapRet(t) = Map!NoAnswer
         /\ Settled(t) => MapRet(t) # Map!NoAnswer
         /\ Settled(t) /\ call[t].op = "search" /\ me[t].status = "ok" =>
              MapRet(t) = Found(t, me[t].value)
         /\ Settled(t) /\ call[t].op # "search" => MapRet(t) = Map!Done(me[t].status)
  BY MapCallIs DEF MapRet, Settled, Found, Map!NoAnswer, Map!Done, Map!NoCall, OnId

MapRetFits ==
  \A t : /\ ~Settled(t) => MapRet(t) = Map!NoAnswer
         /\ Settled(t) => MapRet(t) # Map!NoAnswer
         /\ Settled(t) /\ call[t].op = "search" /\ me[t].status = "ok" =>
              MapRet(t) = Found(t, me[t].value)
         /\ Settled(t) /\ call[t].op # "search" => MapRet(t) = Map!Done(me[t].status)

(* Before a step and after it.                                             *)
LEMMA MapRetNext == MapRetFits /\ MapRetFits'
<1>1. MapRetFits
  BY MapRetIs DEF MapRetFits
<1> QED
  BY <1>1, PTL

(* What a step of one thread leaves to the others.                         *)
LEMMA OthersMap ==
  ASSUME MapInv, NEW t \in Threads, Moves(t), NEW u \in Threads \ {t}
  PROVE  /\ call'[u] = call[u] /\ me'[u] = me[u]
         /\ MapRet(u)' = MapRet(u)
         /\ Searching(u)' <=> Searching(u)
<1>1. call'[u] = call[u] /\ me'[u] = me[u]
  BY OthersStep DEF Moves, MapInv, DictInv, LocalsOK, CallsOK
<1>2. Searching(u)' <=> Searching(u)
  BY <1>1 DEF Searching
<1>3. MapRet(u)' = MapRet(u)
  BY <1>1 DEF MapRet
<1> QED
  BY <1>1, <1>2, <1>3

(* The pending searches take notice of the map after the step.             *)
LEMMA NoticeIs ==
  ASSUME MapInv, MapInv', NEW t \in Threads, Moves(t), SeenNext,
         ~Searching(t), ~Searching(t)', call' = call
  PROVE  seen' = Map!Notice(Content')
<1>1. ASSUME NEW u \in Threads
      PROVE  /\ Searching(u)' <=> Searching(u)
             /\ Map!IsSearch(MapCall(call[u])) /\ MapRet(u) = Map!NoAnswer <=> Searching(u)
             /\ ~Searching(u) => seen[u] = {}
  <2>1. Searching(u)' <=> Searching(u)
    BY OthersMap
  <2>2. StatusFits(u) /\ SeenFits(u)
    BY DEF MapInv, SeenOK
  <2>3. Map!IsSearch(MapCall(call[u])) <=> call[u].op = "search"
    BY MapCallIs DEF Map!IsSearch, OnId, Map!NoCall
  <2>4. call[u].op = "search" => me[u].status \in {"pending", "ok"}
    BY <2>2 DEF StatusFits
  <2>5. MapRetFits
    BY MapRetNext
  <2> QED
    BY <2>1, <2>2, <2>3, <2>4, <2>5 DEF SeenFits, Searching, MapRetFits, Settled, OnId
<1>2. \A u \in Threads : Map!Right(MapCall(call[u]), Content)' = Map!Right(MapCall(call[u]), Content')
  BY DEF Map!Right, MapCall, Map!Larger, Map!Successor
<1>3. seen' = [u \in Threads |->
                 IF Searching(u) THEN seen[u] \cup {Map!Right(MapCall(call[u]), Content')}
                 ELSE seen[u]]
  <2>1. \A u \in Threads :
          (IF Searching(u)' THEN seen[u] \cup {Map!Right(MapCall(call[u]), Content)'} ELSE {})
          = (IF Searching(u) THEN seen[u] \cup {Map!Right(MapCall(call[u]), Content')}
             ELSE seen[u])
    BY <1>1, <1>2
  <2> QED
    BY <2>1 DEF SeenNext
<1> QED
  BY <1>1, <1>3 DEF Map!Notice

(* When the map is the same, the pending searches see nothing new.         *)
LEMMA SeenStays ==
  ASSUME MapInv, MapInv', NEW t \in Threads, Moves(t), SeenNext, Content' = Content,
         NEW u \in Threads, u # t \/ (call'[u] = call[u] /\ (Searching(u)' <=> Searching(u)))
  PROVE  seen'[u] = seen[u]
<1>1. call'[u] = call[u] /\ (Searching(u)' <=> Searching(u)) /\ SeenFits(u) /\ SeenFits(u)'
  BY OthersMap DEF MapInv, SeenOK
<1>2. CASE ~Searching(u)
  BY <1>1, <1>2 DEF SeenFits
<1>3. CASE Searching(u)
  <2>1. seen'[u] = seen[u] \cup {Map!Right(MapCall(call[u]), Content)'}
    BY <1>1, <1>3 DEF SeenNext
  <2>2. Map!Right(MapCall(call[u]), Content)' = Found(u, Content[call[u].id])'
    BY <1>1, <1>3, RightFoundNext DEF Searching
  <2>3. Found(u, Content[call[u].id])' = Found(u, Content[call[u].id])
    BY <1>1 DEF Found
  <2>4. Found(u, Content[call[u].id]) \in seen[u]
    BY <1>1, <1>3 DEF SeenFits
  <2> QED
    BY <2>1, <2>2, <2>3, <2>4
<1> QED
  BY <1>2, <1>3

(* The steps of SkipMap, as steps of the dictionary.                       *)
LEMMA IsStutter ==
  ASSUME MapInv, MapInv', NEW t \in Threads, Moves(t), SeenNext, Content' = Content,
         MapCall(call'[t]) = MapCall(call[t]), MapRet(t)' = MapRet(t),
         \/ call'[t] = call[t] /\ (Searching(t)' <=> Searching(t))
         \/ ~Searching(t) /\ ~Searching(t)'
  PROVE  UNCHANGED Map!mapVars
<1>1. \A u \in Threads : /\ MapCall(call'[u]) = MapCall(call[u])
                         /\ MapRet(u)' = MapRet(u)
  BY OthersMap
<1>2. ASSUME NEW u \in Threads PROVE seen'[u] = seen[u]
  <2>1. CASE u # t \/ (call'[u] = call[u] /\ (Searching(u)' <=> Searching(u)))
    BY <2>1, SeenStays
  <2>2. CASE u = t /\ ~Searching(t) /\ ~Searching(t)'
    BY <2>2 DEF MapInv, SeenOK, SeenFits
  <2> QED
    BY <2>1, <2>2
<1>3. seen' = seen
  <2>1. seen = [u \in Threads |-> seen[u]] /\ seen' = [u \in Threads |-> seen'[u]]
    BY DEF MapInv, SeenOK
  <2> QED
    BY <1>2, <2>1
<1>4. [u \in Threads |-> MapCall(call'[u])] = [u \in Threads |-> MapCall(call[u])]
  BY <1>1
<1>5. [u \in Threads |-> MapRet(u)'] = [u \in Threads |-> MapRet(u)]
  BY <1>1
<1> QED
  BY <1>3, <1>4, <1>5 DEF Map!mapVars, MapCall

(* The begin of a call on an id is that of one on the map.                 *)
LEMMA IsCall ==
  ASSUME MapInv, MapInv', NEW t \in Threads, Begin(t), Moves(t), SeenNext, Content' = Content,
         call'[t].op \in OnId
  PROVE  Map!Call(t)
<1> DEFINE c == MapCall(call'[t])
<1>0. LocalsOK /\ CallsOK /\ CallFits(t)
  BY DEF MapInv, DictInv
<1>1. /\ At(t, "idle") /\ call'[t] \in client[t] /\ client \in Clients
      /\ call[t].op = "none" /\ me[t].status = "pending" /\ me'[t].status = "pending"
  BY <1>0, BeginMoves, Answers DEF CallsOK, CallFits, Idle, SameAnswer
<1>2. MapCall(call[t]) = Map!NoCall
  BY <1>1, MapCallIs DEF OnId
<1>3. c \in {MapCall(d) : d \in UNION {p[t] : p \in Clients}}
  BY <1>1
<1>4. \A u \in Threads \ {t} : MapCall(call'[u]) = MapCall(call[u])
  BY OthersMap
<1>5. ~Searching(t) /\ seen[t] = {} /\ (Searching(t)' <=> Map!IsSearch(c))
  <2>1. Searching(t)' <=> call'[t].op = "search"
    BY <1>1 DEF Searching
  <2>2. Map!IsSearch(c) <=> call'[t].op = "search"
    BY MapCallIs DEF Map!IsSearch, OnId
  <2> QED
    BY <1>1, <2>1, <2>2 DEF Searching, MapInv, SeenOK, SeenFits
<1>6. seen'[t] = IF Map!IsSearch(c) THEN {Map!Right(c, Content)} ELSE {}
  <2>1. seen'[t] = IF Searching(t)' THEN seen[t] \cup {Map!Right(MapCall(call[t]), Content)'} ELSE {}
    BY DEF SeenNext
  <2>2. Map!Right(MapCall(call[t]), Content)' = Map!Right(c, Content')
    BY DEF Map!Right, MapCall, Map!Larger, Map!Successor
  <2> QED
    BY <1>5, <2>1, <2>2
<1>7. seen' = [seen EXCEPT ![t] = IF Map!IsSearch(c) THEN {Map!Right(c, Content)} ELSE {}]
  <2>1. \A u \in Threads \ {t} : seen'[u] = seen[u]
    BY SeenStays
  <2>2. seen = [u \in Threads |-> seen[u]] /\ seen' = [u \in Threads |-> seen'[u]]
    BY DEF MapInv, SeenOK
  <2> HIDE DEF c
  <2> QED
    BY <1>6, <2>1, <2>2
<1>8. \A u \in Threads : MapRet(u)' = MapRet(u)
  <2>1. ~Settled(t) /\ ~Settled(t)'
    BY <1>1 DEF Settled
  <2>2. MapRet(t)' = MapRet(t)
    BY <2>1, MapRetNext DEF MapRetFits
  <2> QED
    BY <2>2, OthersMap
<1>9. [u \in Threads |-> MapCall(call'[u])]
        = [[u \in Threads |-> MapCall(call[u])] EXCEPT ![t] = c]
  BY <1>4
<1>10. [u \in Threads |-> MapRet(u)'] = [u \in Threads |-> MapRet(u)]
  BY <1>8
<1> QED
  BY <1>2, <1>3, <1>7, <1>9, <1>10 DEF Map!Call, MapCall

(* A settled answer, as SkipMap has it.                                    *)
LEMMA RetMoves ==
  ASSUME MapInv, NEW t \in Threads, Moves(t)
  PROVE  [u \in Threads |-> MapRet(u)']
           = [[u \in Threads |-> MapRet(u)] EXCEPT ![t] = MapRet(t)']
  BY OthersMap

(* An update that is settled is the step of the map that stores the value, *)
(* or that has no memory for it.                                           *)
LEMMA IsStore ==
  ASSUME MapInv, MapInv', NEW t \in Threads, Moves(t), SeenNext, call' = call,
         call[t].op = "update", me[t].status \in {"pending", "duplicate"},
         \/ /\ me'[t].status = "ok"
            /\ Content' = [Content EXCEPT ![call[t].id] = call[t].value]
         \/ me'[t].status = "nomem" /\ Content' = Content
  PROVE  Map!Store(t)
<1>1. ~Searching(t) /\ ~Searching(t)' /\ ~Settled(t) /\ Settled(t)'
  BY DEF Searching, Settled, OnId
<1>2. MapRet(t) = Map!NoAnswer /\ MapRet(t)' = Map!Done(me'[t].status)
  BY <1>1, MapRetNext DEF MapRetFits
<1>3. MapCall(call[t]) = [op |-> "update", key |-> call[t].id, value |-> call[t].value]
  BY MapCallIs
<1>4. seen' = Map!Notice(Content')
  BY <1>1, NoticeIs
<1>5. [u \in Threads |-> MapRet(u)']
        = [[u \in Threads |-> MapRet(u)] EXCEPT ![t] = Map!Done(me'[t].status)]
  BY <1>2, RetMoves
<1>6. [u \in Threads |-> MapCall(call[u])]' = [u \in Threads |-> MapCall(call[u])]
  OBVIOUS
<1> DEFINE c == [u \in Threads |-> MapCall(call[u])]
           r == [u \in Threads |-> MapRet(u)]
<1>7. /\ c[t].op = "update" /\ c[t].key = call[t].id /\ c[t].value = call[t].value
      /\ r[t] = Map!NoAnswer
  BY <1>2, <1>3
<1>8. UNCHANGED c /\ r' = [r EXCEPT ![t] = Map!Done(me'[t].status)]
  BY <1>5, <1>6
<1> HIDE DEF c, r
<1>9. \/ /\ Content' = [Content EXCEPT ![c[t].key] = c[t].value]
         /\ r' = [r EXCEPT ![t] = Map!Done("ok")]
      \/ Content' = Content /\ r' = [r EXCEPT ![t] = Map!Done("nomem")]
  BY <1>7, <1>8
<1> QED
  BY <1>4, <1>7, <1>8, <1>9 DEF Map!Store, Map!Pending, c, r

(* A removal that is settled is the step of the map that removes the key.  *)
LEMMA IsRemove ==
  ASSUME MapInv, MapInv', NEW t \in Threads, Moves(t), SeenNext, call' = call,
         call[t].op = "delete", me[t].status = "pending", me'[t].status = "ok",
         Content' = [Content EXCEPT ![call[t].id] = NoValue]
  PROVE  Map!Remove(t)
<1>1. ~Searching(t) /\ ~Searching(t)' /\ ~Settled(t) /\ Settled(t)'
  BY DEF Searching, Settled, OnId
<1>2. MapRet(t) = Map!NoAnswer /\ MapRet(t)' = Map!Done("ok")
  BY <1>1, MapRetNext DEF MapRetFits
<1>3. MapCall(call[t]) = [op |-> "delete", key |-> call[t].id]
  BY MapCallIs
<1>4. seen' = Map!Notice(Content')
  BY <1>1, NoticeIs
<1>5. [u \in Threads |-> MapRet(u)']
        = [[u \in Threads |-> MapRet(u)] EXCEPT ![t] = Map!Done("ok")]
  BY <1>2, RetMoves
<1>6. [u \in Threads |-> MapCall(call[u])]' = [u \in Threads |-> MapCall(call[u])]
  OBVIOUS
<1> DEFINE c == [u \in Threads |-> MapCall(call[u])]
           r == [u \in Threads |-> MapRet(u)]
<1>7. c[t].op = "delete" /\ c[t].key = call[t].id /\ r[t] = Map!NoAnswer
  BY <1>2, <1>3
<1>8. UNCHANGED c /\ r' = [r EXCEPT ![t] = Map!Done("ok")]
  BY <1>5, <1>6
<1> HIDE DEF c, r
<1>9. Content' = [Content EXCEPT ![c[t].key] = NoValue]
  BY <1>7
<1> QED
  BY <1>4, <1>7, <1>8, <1>9 DEF Map!Remove, Map!Pending, c, r

(* A search that is settled takes an answer it has seen.                   *)
LEMMA IsAnswer ==
  ASSUME MapInv, MapInv', NEW t \in Threads, Moves(t), SeenNext, Searching(t),
         me'[t].status = "ok", Content' = Content
  PROVE  Map!Answer(t)
<1>1. call' = call /\ Found(t, me'[t].value) \in seen[t] /\ call[t].op = "search"
  BY AnswerSeen DEF Searching
<1>2. ~Searching(t)' /\ ~Settled(t) /\ Settled(t)'
  BY <1>1 DEF Searching, Settled, OnId
<1>3. MapRet(t) = Map!NoAnswer /\ MapRet(t)' = Found(t, me'[t].value)
  <2>1. MapRet(t)' = Found(t, me[t].value)'
    BY <1>1, <1>2, MapRetNext DEF MapRetFits
  <2> QED
    BY <1>1, <1>2, <2>1, MapRetNext DEF MapRetFits, Found
<1>4. MapCall(call[t]).op = "search"
  BY <1>1, MapCallIs
<1>5. [u \in Threads |-> MapRet(u)']
        = [[u \in Threads |-> MapRet(u)] EXCEPT ![t] = Found(t, me'[t].value)]
  BY <1>3, RetMoves
<1>6. seen' = [seen EXCEPT ![t] = {}]
  <2>1. \A u \in Threads \ {t} : seen'[u] = seen[u]
    BY SeenStays
  <2>2. seen = [u \in Threads |-> seen[u]] /\ seen' = [u \in Threads |-> seen'[u]]
    BY DEF MapInv, SeenOK
  <2>3. seen'[t] = {}
    BY <1>2 DEF MapInv, SeenOK, SeenFits
  <2> QED
    BY <2>1, <2>2, <2>3
<1> QED
  BY <1>1, <1>3, <1>4, <1>5, <1>6 DEF Map!Answer, Map!Pending

(* The return is that of the map.                                          *)
LEMMA IsReturn ==
  ASSUME MapInv, MapInv', NEW t \in Threads, Return(t), Moves(t), SeenNext, Content' = Content,
         call[t].op \in OnId
  PROVE  Map!Return(t)
<1>0. LocalsOK /\ CallsOK /\ StatusFits(t)
  BY DEF MapInv, DictInv
<1>1. At(t, "return") /\ call'[t] = NoCall /\ me'[t] = Idle
  BY <1>0, ReturnMoves
<1>2. Settled(t) /\ ~Settled(t)'
  <2>1. me[t].status \in {"ok", "nomem"}
    BY <1>0, <1>1 DEF StatusFits, At, OnId
  <2> QED
    BY <1>1, <2>1 DEF Settled, Idle
<1>3. MapRet(t) # Map!NoAnswer /\ MapRet(t)' = Map!NoAnswer
  BY <1>2, MapRetNext DEF MapRetFits
<1>4. [u \in Threads |-> MapRet(u)']
        = [[u \in Threads |-> MapRet(u)] EXCEPT ![t] = Map!NoAnswer]
  BY <1>3, RetMoves
<1>5. [u \in Threads |-> MapCall(call'[u])]
        = [[u \in Threads |-> MapCall(call[u])] EXCEPT ![t] = Map!NoCall]
  <2>1. MapCall(call'[t]) = Map!NoCall
    BY <1>1, MapCallIs DEF NoCall, OnId
  <2> QED
    BY <2>1, OthersMap
<1>6. ~Searching(t) /\ ~Searching(t)'
  BY <1>1, <1>2 DEF Searching, Settled, NoCall
<1>7. seen' = seen
  <2>1. \A u \in Threads \ {t} : seen'[u] = seen[u]
    BY SeenStays
  <2>2. seen = [u \in Threads |-> seen[u]] /\ seen' = [u \in Threads |-> seen'[u]]
    BY DEF MapInv, SeenOK
  <2>3. seen'[t] = {} /\ seen[t] = {}
    BY <1>6 DEF MapInv, SeenOK, SeenFits
  <2> QED
    BY <2>1, <2>2, <2>3
<1> QED
  BY <1>3, <1>4, <1>5, <1>7 DEF Map!Return, MapCall

(* Which steps leave the map as it is.                                     *)
LEMMA SameContent ==
  ASSUME MapInv, DictInv', NEW t \in Threads, Moves(t), ~Drop(t), ItemsSame,
         DOMAIN entry' \subseteq DOMAIN entry
  PROVE  Content' = Content
<1>1. EntriesFollow(t) /\ DictInv
  BY EntriesStep DEF MapInv, Moves
<1>2. \A i, w : InMap(i, w)' <=> InMap(i, w)
  BY <1>1, SameInMap
<1> QED
  BY <1>1, <1>2, ContentMoves

(* All steps that neither insert nor change items do.                      *)
LEMMA QuietContent ==
  ASSUME MapInv, DictInv', NEW t \in Threads, Moves(t),
         ~Insert(t), ~Update(t), ~RemoveItem(t), ~Sweep(t), ~Drop(t)
  PROVE  Content' = Content
<1>1. EntriesFollow(t) /\ DictInv
  BY EntriesStep DEF MapInv, Moves
<1>2. ItemsSame
  BY <1>1, ItemsStay
<1>3. DOMAIN entry' \subseteq DOMAIN entry
  BY <1>1 DEF EntriesFollow
<1> QED
  BY <1>2, <1>3, SameContent

(* Without cleanups the entry a thread stands on is in the list.           *)
LEMMA StandsInList ==
  ASSUME MapInv, ~Cleans, NEW t \in Threads, me[t].e # Null, call[t].op \in OnId
  PROVE  /\ me[t].e \in DOMAIN entry
         /\ entry[me[t].e].linked /\ ~entry[me[t].e].deleted
         /\ entry[me[t].e].hash = HashOf[call[t].id] /\ call[t].id \in Ids
         /\ entry[me[t].e].items \in Items
         /\ AtHome(entry[me[t].e].items, entry[me[t].e].hash)
<1>0. /\ DictTypeOK /\ OneHome /\ LocksCount /\ PlaceFits(t) /\ Marked /\ Present /\ CallsOK
      /\ \A u \in Threads : CallFits(u)
  BY DEF MapInv, DictInv
<1>1. me[t].e \in DOMAIN entry
  BY <1>0 DEF LocksCount
<1>2. entry[me[t].e].linked
  BY <1>0, <1>1 DEF Present
<1>3. ~Dropping(me[t].e)
  <2> SUFFICES ASSUME mList \in Threads, me[mList].pc = "drop" PROVE FALSE
    BY DEF Dropping
  <2>1. PICK u \in Threads : u = mList
    OBVIOUS
  <2>2. call[u].op = "cleanup" /\ call[u] \in client[u] \cup {NoCall}
    BY <1>0, <2>1 DEF CallFits, At
  <2> QED
    BY <2>2 DEF Cleans, NoCall
<1>4. ~entry[me[t].e].deleted
  BY <1>0, <1>1, <1>2, <1>3, EntryType DEF Marked
<1>5. call[t].id \in Ids
  BY <1>0, CallType DEF CallsOK
<1> QED
  BY <1>0, <1>1, <1>2, <1>4, <1>5, EntryType, HomeItems DEF PlaceFits, Hash

(* dictUpdate stores the value.                                            *)
LEMMA UpdateStores ==
  ASSUME MapInv, DictInv', ~Cleans, NEW t \in Threads, Moves(t), Update(t), me[t].e # Null,
         LET new == Item(call[t].id, call[t].value)
             i == Where(me[t].e, call[t].id)
         IN  \/ i # 0 /\ entry' = [entry EXCEPT ![me[t].e].items =
                                     [entry[me[t].e].items EXCEPT ![i] = new]]
             \/ i = 0 /\ entry' = [entry EXCEPT ![me[t].e].items = <<new>> \o entry[me[t].e].items]
  PROVE  Content' = [Content EXCEPT ![call[t].id] = call[t].value]
<1> DEFINE e == me[t].e
           s == entry[e].items
           new == Item(call[t].id, call[t].value)
           k == Where(e, call[t].id)
<1>0. DictInv /\ DictTypeOK /\ LocalsOK /\ CallsOK /\ CallFits(t) /\ EntriesFollow(t)
  BY EntriesStep DEF MapInv, DictInv, Moves
<1>1. call[t].op = "update" /\ call[t].id \in Ids /\ call[t].value \in Values
  BY <1>0, CallType DEF CallsOK, CallFits, At, Update, OnId
<1>2. /\ e \in DOMAIN entry /\ entry[e].linked /\ entry[e].hash = HashOf[call[t].id]
      /\ s \in Items /\ AtHome(s, entry[e].hash)
  BY <1>1, StandsInList DEF OnId
<1>3. new \in [id : Ids, value : Values] /\ new.id = call[t].id /\ new.value = call[t].value
  BY <1>1 DEF Item
<1>4. /\ k \in 0 .. Len(s) /\ Len(s) \in Nat
      /\ k # 0 => s[k].id = call[t].id
      /\ k = 0 => \A j \in 1 .. Len(s) : s[j].id # call[t].id
  BY <1>0, <1>2, WhereFinds, ItemType
<1>5. \/ k # 0 /\ entry' = [entry EXCEPT ![e].items = [s EXCEPT ![k] = new]]
      \/ k = 0 /\ entry' = [entry EXCEPT ![e].items = <<new>> \o s]
  OBVIOUS
<1> HIDE DEF k, new
<1>6. \E r : /\ NewItems(t, r)
             /\ \A i, w : Holds(r, i, w) <=>
                  IF i = call[t].id THEN w = call[t].value ELSE Holds(s, i, w)
  <2>1. CASE k # 0
    <3>1. k \in 1 .. Len(s)
      BY <1>4, <2>1, SMTT(60)
    <3>2. /\ [s EXCEPT ![k] = new] \in Items
          /\ AtHome([s EXCEPT ![k] = new], entry[e].hash)
      BY <1>2, <1>3, <1>4, <2>1, <3>1, ReplaceHome
    <3>3. ASSUME NEW i, NEW w
          PROVE  Holds([s EXCEPT ![k] = new], i, w) <=>
                   IF i = call[t].id THEN w = call[t].value ELSE Holds(s, i, w)
      <4>1. Holds([s EXCEPT ![k] = new], i, w) <=>
              IF i = new.id THEN w = new.value ELSE Holds(s, i, w)
        <5> HIDE DEF s
        <5> QED
          BY <1>2, <1>3, <1>4, <2>1, <3>1, ReplaceHolds
      <4> QED
        BY <1>3, <4>1
    <3> QED
      BY <1>2, <1>5, <2>1, <3>2, <3>3 DEF NewItems
  <2>2. CASE k = 0
    <3>1. <<new>> \o s \in Items /\ AtHome(<<new>> \o s, entry[e].hash)
      <4>1. entry[e].hash = HashOf[new.id]
        BY <1>2, <1>3
      <4>2. \A j \in 1 .. Len(s) : s[j].id # new.id
        BY <1>3, <1>4, <2>2
      <4> HIDE DEF s
      <4> QED
        BY <1>2, <1>3, <4>1, <4>2, PrependHome
    <3>2. \A w : ~Holds(s, call[t].id, w)
      BY <1>4, <2>2 DEF Holds
    <3>3. \A i, w : Holds(<<new>> \o s, i, w) <=>
            IF i = call[t].id THEN w = call[t].value ELSE Holds(s, i, w)
      BY <1>2, <1>3, <3>2, PrependHolds
    <3> QED
      BY <1>2, <1>5, <2>2, <3>1, <3>3 DEF NewItems
  <2> QED
    BY <2>1, <2>2
<1>7. PICK r : /\ NewItems(t, r)
               /\ \A i, w : Holds(r, i, w) <=>
                    IF i = call[t].id THEN w = call[t].value ELSE Holds(s, i, w)
  BY <1>6
<1>8. \A i, w : InMap(i, w)' <=> IF HashOf[i] = entry[e].hash THEN Holds(r, i, w)
                                 ELSE InMap(i, w)
  BY <1>0, <1>2, <1>7, ItemsInMap
<1>9. \A i, w : HashOf[i] = entry[e].hash => (InMap(i, w) <=> Holds(s, i, w))
  BY <1>0, <1>2, EntryInMap
<1>10. \A i \in Ids \ {call[t].id} : \A w : InMap(i, w)' <=> InMap(i, w)
  BY <1>7, <1>8, <1>9
<1>11. PICK id \in Ids : id = call[t].id
  BY <1>1
<1>12. PICK v : v = call[t].value
  OBVIOUS
<1>13. InMap(id, v)'
  BY <1>2, <1>7, <1>8, <1>11, <1>12
<1>14. Content' = [Content EXCEPT ![id] = v]
  BY <1>0, <1>10, <1>11, <1>13, ContentMoves
<1> QED
  BY <1>11, <1>12, <1>14

(* dictInsert stores it, too.                                              *)
LEMMA InsertStores ==
  ASSUME MapInv, DictInv', NEW t \in Threads, Moves(t), Insert(t), InList(Hash(t)) = {},
         Cells \ DOMAIN entry # {},
         LET new == [hash |-> Hash(t), items |-> <<Item(call[t].id, call[t].value)>>,
                     deleted |-> FALSE, linked |-> TRUE, locks |-> 0]
         IN  entry' = Flushed(With(Min(Cells \ DOMAIN entry), new))
  PROVE  Content' = [Content EXCEPT ![call[t].id] = call[t].value]
<1> DEFINE new == [hash |-> Hash(t), items |-> <<Item(call[t].id, call[t].value)>>,
                   deleted |-> FALSE, linked |-> TRUE, locks |-> 0]
           n == Min(Cells \ DOMAIN entry)
<1>0. DictInv /\ DictTypeOK /\ CallsOK /\ CallFits(t) /\ EntriesFollow(t)
  BY EntriesStep DEF MapInv, DictInv, Moves
<1>1. PICK id \in Ids : id = call[t].id
  BY <1>0, CallType DEF CallsOK, CallFits, At, Insert, OnId
<1>2. PICK v : v = call[t].value
  OBVIOUS
<1>3. n \notin DOMAIN entry
  BY DictAssumption, Least
<1> HIDE DEF n
<1>4. n \in DOMAIN With(n, new) /\ With(n, new)[n] = new
  BY DEF With
<1>5. entry' = Flushed(With(n, new)) /\ new.linked
  BY DEF n
<1> HIDE DEF new
<1>6. n \in DOMAIN entry' /\ entry'[n] = new
  BY <1>4, <1>5, FlushKeeps
<1>7. new.hash = HashOf[id] /\ new.items = <<Item(id, v)>> /\ new.linked
  BY <1>1, <1>2 DEF new, Hash
<1>8. ItemsSame
  BY <1>0, ItemsStay DEF Insert, Update, RemoveItem, Sweep, At
<1>9. /\ \A e \in DOMAIN entry' : e # n => e \in DOMAIN entry
      /\ \A e \in DOMAIN entry' \cap DOMAIN entry :
           /\ entry'[e].hash = entry[e].hash
           /\ entry'[e].linked <=> entry[e].linked
      /\ \A e \in DOMAIN entry : entry[e].linked => e \in DOMAIN entry'
  <2>1. ~Drop(t)
    BY DEF Insert, Drop, At
  <2>2. ASSUME NEW e \in DOMAIN entry', e # n PROVE e \in DOMAIN entry
    <3>1. e \in DOMAIN With(n, new)
      BY <1>5, FlushKeeps
    <3> QED
      BY <2>2, <3>1 DEF With
  <2>3. ASSUME NEW e \in DOMAIN entry' \cap DOMAIN entry
        PROVE  entry'[e].hash = entry[e].hash /\ (entry'[e].linked <=> entry[e].linked)
    BY <1>0, <2>1 DEF EntriesFollow
  <2>4. \A e \in DOMAIN entry : entry[e].linked => e \in DOMAIN entry'
    BY <1>0 DEF EntriesFollow
  <2> QED
    BY <2>2, <2>3, <2>4
<1>10. \A e \in DOMAIN entry' : (e # n /\ entry'[e].linked) <=> (e \in DOMAIN entry /\ entry[e].linked)
  BY <1>3, <1>9
<1>11. InList(HashOf[id]) = {}
  BY <1>1 DEF Hash
<1>12. InList(HashOf[id])' = {n}
  <2>1. n \in InList(HashOf[id])'
    BY <1>6, <1>7 DEF InList, Linked
  <2>2. ASSUME NEW e \in InList(HashOf[id])', e # n PROVE FALSE
    <3>1. e \in DOMAIN entry' /\ entry'[e].linked /\ entry'[e].hash = HashOf[id]
      BY DEF InList, Linked
    <3>2. e \in InList(HashOf[id])
      BY <1>9, <1>10, <2>2, <3>1 DEF InList, Linked
    <3> QED
      BY <1>11, <3>2
  <2> QED
    BY <2>1, <2>2
<1>13. ASSUME NEW i, HashOf[i] # HashOf[id] PROVE InList(HashOf[i])' = InList(HashOf[i])
  <2>1. n \notin InList(HashOf[i])'
    BY <1>6, <1>7, <1>13 DEF InList
  <2>2. n \notin InList(HashOf[i])
    BY <1>3 DEF InList, Linked
  <2> QED
    BY <1>9, <1>10, <2>1, <2>2, ZenonT(60) DEF InList, Linked
<1>14. \A i, w : Holds(<<Item(id, v)>>, i, w) <=> i = id /\ w = v
  <2>1. \A i, w : <<Item(id, v)>>[1].id = i /\ <<Item(id, v)>>[1].value = w <=> i = id /\ w = v
    BY DEF Item
  <2>2. 1 .. Len(<<Item(id, v)>>) = {1}
    OBVIOUS
  <2> QED
    BY <2>1, <2>2 DEF Holds
<1>15. ASSUME NEW i \in Ids \ {id}, NEW w PROVE InMap(i, w)' <=> InMap(i, w)
  <2>1. CASE HashOf[i] = HashOf[id]
    <3>1. ~InMap(i, w)
      BY <1>11, <2>1 DEF InMap
    <3>2. ~InMap(i, w)'
      BY <1>6, <1>7, <1>12, <1>14, <2>1 DEF InMap
    <3> QED
      BY <3>1, <3>2
  <2>2. CASE HashOf[i] # HashOf[id]
    <3>1. InList(HashOf[i])' = InList(HashOf[i])
      BY <1>13, <2>2
    <3>2. \A e \in InList(HashOf[i]) : entry'[e].items = entry[e].items
      BY <1>8, <1>9 DEF ItemsSame, InList, Linked
    <3> QED
      BY <3>1, <3>2 DEF InMap
  <2> QED
    BY <2>1, <2>2
<1>16. InMap(id, v)'
  BY <1>6, <1>7, <1>12, <1>14 DEF InMap
<1>17. Content' = [Content EXCEPT ![id] = v]
  BY <1>0, <1>15, <1>16, ContentMoves
<1> QED
  BY <1>1, <1>2, <1>17

(* dictRemove takes the id out.                                            *)
LEMMA RemoveRemoves ==
  ASSUME MapInv, DictInv', ~Cleans, NEW t \in Threads, Moves(t), RemoveItem(t)
  PROVE  Content' = [Content EXCEPT ![call[t].id] = NoValue]
<1> DEFINE e == me[t].e
           s == entry[e].items
           k == Where(e, call[t].id)
<1>0. DictInv /\ DictTypeOK /\ CallsOK /\ CallFits(t) /\ PlaceFits(t) /\ EntriesFollow(t)
  BY EntriesStep DEF MapInv, DictInv, Moves
<1>1. call[t].op = "delete" /\ call[t].id \in Ids /\ e # Null
  BY <1>0, CallType DEF CallsOK, CallFits, PlaceFits, At, RemoveItem, OnId, OnEntry
<1>2. /\ e \in DOMAIN entry /\ entry[e].linked /\ entry[e].hash = HashOf[call[t].id]
      /\ s \in Items /\ AtHome(s, entry[e].hash)
  BY <1>1, StandsInList DEF OnId
<1>3. PICK id \in Ids : id = call[t].id
  BY <1>1
<1>4. /\ k \in 0 .. Len(s) /\ Len(s) \in Nat
      /\ k # 0 => s[k].id = id
      /\ k = 0 => \A j \in 1 .. Len(s) : s[j].id # id
  BY <1>0, <1>2, <1>3, WhereFinds, ItemType
<1>5. entry' = IF k = 0 THEN entry ELSE [entry EXCEPT ![e].items = RemoveAt(s, k)]
  BY DEF RemoveItem
<1>6. \A i, w : HashOf[i] = entry[e].hash => (InMap(i, w) <=> Holds(s, i, w))
  BY <1>0, <1>2, EntryInMap
<1> HIDE DEF k
<1>7. CASE k = 0
  <2>1. \A i, w : InMap(i, w)' <=> InMap(i, w)
    BY <1>5, <1>7 DEF InMap, InList, Linked
  <2>2. \A w : ~InMap(id, w)
    BY <1>2, <1>3, <1>4, <1>6, <1>7 DEF Holds
  <2>3. Content' = [Content EXCEPT ![id] = NoValue]
    BY <1>0, <2>1, <2>2, ContentMoves
  <2> QED
    BY <1>3, <2>3
<1>8. CASE k # 0
  <2>1. k \in 1 .. Len(s)
    BY <1>4, <1>8
  <2>2. RemoveAt(s, k) \in Items /\ AtHome(RemoveAt(s, k), entry[e].hash)
    BY <1>2, <2>1, RemoveAtHome
  <2>3. \A i, w : Holds(RemoveAt(s, k), i, w) <=> i # id /\ Holds(s, i, w)
    BY <1>2, <1>4, <1>8, <2>1, RemoveHolds
  <2>4. PICK r : r = RemoveAt(s, k)
    OBVIOUS
  <2>5. NewItems(t, r)
    BY <1>2, <1>5, <1>8, <2>2, <2>4 DEF NewItems
  <2>6. \A i, w : InMap(i, w)' <=> IF HashOf[i] = entry[e].hash THEN Holds(r, i, w)
                                   ELSE InMap(i, w)
    BY <1>0, <1>2, <2>5, ItemsInMap
  <2>7. \A i \in Ids \ {id} : \A w : InMap(i, w)' <=> InMap(i, w)
    BY <1>6, <2>3, <2>4, <2>6
  <2>8. \A w : ~InMap(id, w)'
    BY <1>2, <1>3, <2>3, <2>4, <2>6
  <2>9. Content' = [Content EXCEPT ![id] = NoValue]
    BY <1>0, <2>7, <2>8, ContentMoves
  <2> QED
    BY <1>3, <2>9
<1> QED
  BY <1>7, <1>8

(* Without cleanups each step of a thread is one of the map, or none.      *)
LEMMA MapStep ==
  ASSUME MapInv, MapInv', ~Cleans, NEW t \in Threads, Moves(t), SeenNext
  PROVE  Map!MapNext \/ UNCHANGED Map!mapVars
<1>0. /\ DictInv' /\ DictTypeOK /\ LocalsOK /\ CallsOK
      /\ CallFits(t) /\ PlaceFits(t) /\ StatusFits(t)
  BY DEF MapInv, DictInv
<1>a. \/ ~Settled(t) /\ ~Settled(t)'
      \/ SameAnswer(t) /\ call'[t] = call[t]
      => MapRet(t)' = MapRet(t)
  <2>1. CASE ~Settled(t) /\ ~Settled(t)'
    BY <2>1, MapRetNext DEF MapRetFits
  <2>2. CASE SameAnswer(t) /\ call'[t] = call[t]
    BY <2>2 DEF SameAnswer, MapRet
  <2> QED
    BY <2>1, <2>2
(* A step that changes neither the call nor its answer, or one of a call   *)
(* that the map does not know.                                             *)
<1>b. ASSUME Content' = Content, call' = call, SameAnswer(t) PROVE UNCHANGED Map!mapVars
  <2>1. MapRet(t)' = MapRet(t) /\ (Searching(t)' <=> Searching(t))
    BY <1>a, <1>b DEF Searching, SameAnswer
  <2> QED
    BY <1>b, <2>1, IsStutter
<1>c. ASSUME Content' = Content, call[t].op \notin OnId, call'[t].op \notin OnId
      PROVE  UNCHANGED Map!mapVars
  <2>1. MapRet(t)' = MapRet(t) /\ ~Searching(t)' /\ ~Searching(t)
    BY <1>a, <1>c DEF Searching, Settled, OnId
  <2>2. MapCall(call'[t]) = MapCall(call[t])
    BY <1>c, MapCallIs
  <2> QED
    BY <1>c, <2>1, <2>2, IsStutter
<1>d. ASSUME Content' = Content, call' = call, call[t].op = "update",
             ~Settled(t), ~Settled(t)'
      PROVE  UNCHANGED Map!mapVars
  <2>1. MapRet(t)' = MapRet(t) /\ ~Searching(t)' /\ ~Searching(t)
    BY <1>a, <1>d DEF Searching
  <2> QED
    BY <1>d, <2>1, IsStutter
<1> USE <1>0 DEF At
<1>1. CASE Begin(t)
  <2>1. Content' = Content /\ call[t].op \notin OnId
    BY <1>1, QuietContent DEF Begin, Insert, Update, RemoveItem, Sweep, Drop, CallFits, OnId
  <2> QED
    BY <1>1, <1>c, <2>1, IsCall DEF Map!MapNext
<1>2. CASE Lock(t)
  BY <1>2, <1>b, LockMoves, Answers, QuietContent DEF Insert, Update, RemoveItem, Sweep, Drop
<1>3. CASE Find(t)
  <2>1. Content' = Content /\ call' = call /\ call[t].op \in OnId \cup {"next"}
    BY <1>3, FindMoves, QuietContent DEF Insert, Update, RemoveItem, Sweep, Drop, CallFits
  <2>2. CASE SameAnswer(t)
    BY <1>b, <2>1, <2>2
  <2>3. CASE /\ InList(Hash(t)) = {} /\ call[t].op = "search" /\ me'[t].status = "ok"
    <3>1. Searching(t)
      BY <1>3, <2>3, FindMoves DEF Searching, StatusFits
    <3> QED
      BY <2>1, <2>3, <3>1, IsAnswer DEF Map!MapNext
  <2>4. CASE /\ InList(Hash(t)) = {} /\ call[t].op = "delete" /\ me'[t].status = "ok"
             /\ UNCHANGED entry
    <3>1. call[t].id \in Ids /\ ContentFits
      BY <2>4, CallType, ContentIs DEF CallsOK, OnId, MapInv, DictInv
    <3>2. Content[call[t].id] = NoValue
      BY <2>4, <3>1 DEF ContentFits, InMap, Hash
    <3>3. Content' = [Content EXCEPT ![call[t].id] = NoValue]
      BY <2>1, <3>1, <3>2, ZenonT(60) DEF Content
    <3>4. me[t].status = "pending"
      BY <1>3, <2>4, FindMoves DEF StatusFits
    <3> QED
      BY <2>1, <2>4, <3>3, <3>4, IsRemove DEF Map!MapNext
  <2> QED
    BY <1>3, <2>2, <2>3, <2>4, Answers
<1>4. CASE FindNext(t)
  <2>1. Content' = Content /\ call' = call /\ call[t].op \notin OnId
    BY <1>4, FindNextMoves, QuietContent
    DEF Insert, Update, RemoveItem, Sweep, Drop, CallFits, OnId
  <2> QED
    BY <1>c, <2>1
<1>5. CASE Update(t)
  <2>1. call[t].op = "update" /\ call' = call /\ me[t].status \in {"pending", "duplicate"}
    BY <1>5, UpdateMoves DEF CallFits, StatusFits
  <2>2. ~Settled(t)
    BY <2>1 DEF Settled
  <2>3. entry' = entry => Content' = Content
    <3>1. ~Drop(t)
      BY <1>5 DEF Update, Drop
    <3> QED
      BY <3>1, SameContent DEF ItemsSame
  <2>4. CASE me[t].e = Null /\ me'[t].status = me[t].status /\ UNCHANGED entry
    BY <1>d, <2>1, <2>2, <2>3, <2>4 DEF Settled
  <2>5. CASE me[t].e # Null /\ entry[me[t].e].deleted
    BY <2>1, <2>5, StandsInList DEF OnId
  <2>6. CASE /\ UNCHANGED entry
             /\ me'[t].status = IF me[t].status = "duplicate" THEN "nomem" ELSE "pending"
    <3>1. CASE me[t].status = "duplicate"
      BY <2>1, <2>3, <2>6, <3>1, IsStore DEF Map!MapNext
    <3>2. CASE me[t].status # "duplicate"
      BY <1>d, <2>1, <2>2, <2>3, <2>6, <3>2 DEF Settled
    <3> QED
      BY <3>1, <3>2
  <2>7. CASE /\ me[t].e # Null /\ me'[t].status = "ok"
             /\ LET new == Item(call[t].id, call[t].value)
                    i == Where(me[t].e, call[t].id)
                IN  \/ i # 0 /\ entry' = [entry EXCEPT ![me[t].e].items =
                                            [entry[me[t].e].items EXCEPT ![i] = new]]
                    \/ i = 0 /\ entry' = [entry EXCEPT ![me[t].e].items =
                                            <<new>> \o entry[me[t].e].items]
    <3>1. Content' = [Content EXCEPT ![call[t].id] = call[t].value]
      BY <1>5, <2>7, UpdateStores
    <3> QED
      BY <2>1, <2>7, <3>1, IsStore DEF Map!MapNext
  <2> QED
    BY <1>5, <2>4, <2>5, <2>6, <2>7, UpdateAnswers
<1>6. CASE Insert(t)
  <2>1. call[t].op = "update" /\ call' = call /\ me[t].status = "pending"
    BY <1>6, InsertMoves DEF CallFits, StatusFits
  <2>2. entry' = entry \/ entry' = Flushed(entry) => Content' = Content
    <3>1. ~Drop(t)
      BY <1>6 DEF Insert, Drop
    <3>2. ItemsSame
      BY <1>6, ItemsStay DEF Insert, Update, RemoveItem, Sweep, MapInv
    <3>3. entry' = entry \/ entry' = Flushed(entry) => DOMAIN entry' \subseteq DOMAIN entry
      BY FlushKeeps
    <3> QED
      BY <3>1, <3>2, <3>3, SameContent
  <2>3. CASE me'[t].status = "nomem" /\ (entry' = entry \/ entry' = Flushed(entry))
    BY <2>1, <2>2, <2>3, IsStore DEF Map!MapNext
  <2>4. CASE me'[t].status = "duplicate" /\ entry' = Flushed(entry)
    BY <1>d, <2>1, <2>2, <2>4 DEF Settled
  <2>5. CASE LET new == [hash |-> Hash(t), items |-> <<Item(call[t].id, call[t].value)>>,
                         deleted |-> FALSE, linked |-> TRUE, locks |-> 0]
                 free == Cells \ DOMAIN entry
             IN  /\ me'[t].status = "ok" /\ InList(Hash(t)) = {} /\ free # {}
                 /\ entry' = Flushed(With(Min(free), new))
    <3>1. Content' = [Content EXCEPT ![call[t].id] = call[t].value]
      BY <1>6, <2>5, InsertStores
    <3> QED
      BY <2>1, <2>5, <3>1, IsStore DEF Map!MapNext
  <2> QED
    BY <1>6, <2>3, <2>4, <2>5, InsertAnswers
<1>7. CASE FindAgain(t)
  BY <1>7, <1>b, FindAgainMoves, Answers, QuietContent DEF Insert, Update, RemoveItem, Sweep, Drop
<1>8. CASE Search(t)
  <2>1. Content' = Content /\ me'[t].status = "ok" /\ Searching(t)
    BY <1>8, SearchMoves, Answers, QuietContent
    DEF Insert, Update, RemoveItem, Sweep, Drop, CallFits, StatusFits, Searching
  <2> QED
    BY <2>1, IsAnswer DEF Map!MapNext
<1>9. CASE RemoveItem(t)
  <2>1. /\ call' = call /\ call[t].op = "delete" /\ me[t].status = "pending"
        /\ me'[t].status = "ok"
    BY <1>9, RemoveItemMoves, Answers DEF CallFits, StatusFits
  <2>2. Content' = [Content EXCEPT ![call[t].id] = NoValue]
    BY <1>9, RemoveRemoves
  <2> QED
    BY <2>1, <2>2, IsRemove DEF Map!MapNext
<1>10. CASE NextItem(t)
  <2>1. Content' = Content /\ call' = call /\ call[t].op \notin OnId
    BY <1>10, NextItemMoves, QuietContent
    DEF Insert, Update, RemoveItem, Sweep, Drop, CallFits, OnId
  <2> QED
    BY <1>c, <2>1
<1>11. CASE NextEntry(t)
  <2>1. Content' = Content /\ call' = call /\ call[t].op \notin OnId
    BY <1>11, NextEntryMoves, QuietContent
    DEF Insert, Update, RemoveItem, Sweep, Drop, CallFits, OnId
  <2> QED
    BY <1>c, <2>1
<1>12. CASE Sweep(t) \/ Drop(t)
  BY <1>12 DEF Sweep, Drop, CallFits, Cleans, NoCall
<1>13. CASE Release(t)
  BY <1>13, <1>b, ReleaseMoves, Answers, QuietContent DEF Insert, Update, RemoveItem, Sweep, Drop
<1>14. CASE Unlock(t)
  BY <1>14, <1>b, UnlockMoves, Answers, QuietContent DEF Insert, Update, RemoveItem, Sweep, Drop
<1>15. CASE GiveBack(t)
  BY <1>15, <1>b, GiveBackMoves, Answers, QuietContent DEF Insert, Update, RemoveItem, Sweep, Drop
<1>16. CASE Return(t)
  <2>1. Content' = Content
    BY <1>16, ReturnMoves, QuietContent DEF Insert, Update, RemoveItem, Sweep, Drop
  <2>2. call'[t].op \notin OnId
    <3>1. call'[t] = NoCall
      BY <1>16, ReturnMoves
    <3> QED
      BY <3>1 DEF NoCall, OnId
  <2> QED
    BY <1>16, <1>c, <2>1, <2>2, IsReturn DEF Map!MapNext
<1> QED
  BY <1>1, <1>2, <1>3, <1>4, <1>5, <1>6, <1>7, <1>8, <1>9, <1>10, <1>11,
       <1>12, <1>13, <1>14, <1>15, <1>16 DEF Moves, Step

(* The dictionary starts as the empty map.                                 *)
LEMMA MapStart == SeenInit => Map!MapInit
<1> SUFFICES ASSUME SeenInit PROVE Map!MapInit
  OBVIOUS
<1>1. \A id \in Ids : InList(HashOf[id]) = {}
  BY DEF SeenInit, Init, InList, Linked
<1>2. Content = [id \in Ids |-> NoValue]
  BY <1>1 DEF Content
<1>3. \A t \in Threads : MapCall(call[t]) = Map!NoCall /\ MapRet(t) = Map!NoAnswer
  BY MapCallIs, MapRetIs DEF SeenInit, Init, NoCall, OnId, Settled
<1> QED
  BY <1>2, <1>3 DEF SeenInit, Map!MapInit

(* A dictionary whose clients never call dictCleanup implements SkipMap:   *)
(* every call on an id is one atomic step between its begin and its return *)
(* (dict.c:282-301, 388-413, 509-532), for any number of threads, ids and  *)
(* entries, with callbacks that fail and memory that runs out.  Nothing is *)
(* said of programs with a cleanup, beside which an update may be lost.    *)
THEOREM DictIsMap == MapSpec => ImplementsMap /\ ([]~Cleans => Map!MapSpec)
<1>1. MapInv /\ MapInv' /\ [Next /\ SeenNext]_<<vars, seen>> =>
        [IF Cleans THEN TRUE ELSE Map!MapNext]_(Map!mapVars)
  <2> SUFFICES ASSUME MapInv, MapInv', [Next /\ SeenNext]_<<vars, seen>>, ~Cleans
               PROVE  Map!MapNext \/ UNCHANGED Map!mapVars
    OBVIOUS
  <2>1. CASE UNCHANGED <<vars, seen>>
    <3> USE <2>1 DEF vars
    <3>1. Content' = Content
      <4>1. \A i, w : InMap(i, w)' <=> InMap(i, w)
        BY DEF InMap, InList, Linked
      <4> QED
        BY <4>1, ContentMoves DEF MapInv
    <3>2. \A t : MapRet(t)' = MapRet(t)
      BY DEF MapRet
    <3>3. [t \in Threads |-> MapRet(t)'] = [t \in Threads |-> MapRet(t)]
      BY <3>2
    <3>4. [t \in Threads |-> MapCall(call'[t])] = [t \in Threads |-> MapCall(call[t])]
      OBVIOUS
    <3> QED
      BY <3>1, <3>3, <3>4 DEF Map!mapVars, MapCall
  <2>2. CASE Next /\ SeenNext
    BY <2>2, MapStep DEF Next, Moves
  <2> QED
    BY <2>1, <2>2
<1>2. ~Cleans /\ [IF Cleans THEN TRUE ELSE Map!MapNext]_(Map!mapVars) => [Map!MapNext]_(Map!mapVars)
  OBVIOUS
<1> QED
  BY <1>1, <1>2, MapStart, MapInvariant, PTL DEF MapSpec, ImplementsMap, Map!MapSpec
=============================================================================
