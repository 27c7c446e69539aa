------------------------------ MODULE SkipList ------------------------------
(***************************************************************************)
(* The items and pointers of the thread-safe skip list (util/skiplist.c)   *)
(* under the locking of SkipLock.  A search walks the pointers while a     *)
(* writer changes them; only the order of the writer's stores protects it. *)
(*                                                                         *)
(* Every action is an action of SkipLock together with what it does to the *)
(* list, or a step inside "reading", "writing" or "hint".  A search reads  *)
(* one pointer per step, a writer stores one pointer per step; what a      *)
(* writer only reads cannot change under it.  Pointers are words, read and *)
(* written at once, and stores become visible in program order.            *)
(***************************************************************************)
EXTENDS SkipLock

CONSTANTS
  Keys,             \* keys of items, positive
  Values,           \* values of items
  NoValue,          \* NULL
  MaxLevel,         \* list->maxLevel
  Blocks,           \* memory that malloc gives to items
  Header, TailItem, \* list->header and list->tail
  Wild,             \* what a pointer holds before it is stored
  Clients           \* the programs: client[t] is the set of calls thread t makes

(* The calls of the library.                                               *)
Calls ==
  [op : {"search"}, key : Keys, plock : BOOLEAN]
    \cup [op : {"next"}, key : Keys \cup {0}, plock : BOOLEAN]
    \cup [op : {"insert", "update"}, key : Keys, value : Values]
    \cup [op : {"delete"}, key : Keys]

ASSUME ListAssumption ==
  /\ Keys \subseteq Nat \ {0} /\ IsFiniteSet(Keys) /\ Keys # {}
  /\ NoValue \notin Values
  /\ MaxLevel \in Nat \ {0}
  /\ Header # TailItem /\ Wild \notin Blocks
  /\ {Header, TailItem} \cap (Blocks \cup {Wild}) = {}
  /\ Clients \subseteq [Threads -> SUBSET Calls]

VARIABLES
  client,       \* the program that uses the list
  item,         \* item[x]: the item at x; its domain is the memory in use
  topLevel,     \* list->topLevel
  levelHint,    \* list->levelHint
  deleted,      \* list->deleted: the cached deleted items (a flush visits all)
  held,         \* held[t]: the items whose value thread t has locked
  reg,          \* reg[t]: the local variables of the call thread t is in
  call,         \* call[t]: the call thread t is in
  seen,         \* seen[t]: history, what its search may answer (see SkipMap)
  ret           \* ret[t]: the answer, once it is settled

heapVars == <<item, topLevel, levelHint, deleted, held>>
callVars == <<call, seen, ret>>
listVars == <<heapVars, reg, callVars>>
vars == <<lockVars, listVars, client>>

Levels == 0..MaxLevel
TailKey == 1 + CHOOSE k \in Keys : \A l \in Keys : l <= k

Key(x) == item[x].key
Next(x, i) == item[x].next[i]
Link(x, i, y) == [item EXCEPT ![x].next[i] = y]

(* skipAllocItem: the pointers of a new item are not initialised.          *)
NewNode(k, v, l) ==
  [key |-> k, value |-> v, level |-> l, locks |-> 0, next |-> [i \in Levels |-> Wild]]

(* skipClosest: from x on, the last item at level i before key k.          *)
Lower(n, k, i) == Next(n, i) \in DOMAIN item /\ Key(Next(n, i)) < k
Closest(x, k, i) ==
  LET from[n \in DOMAIN item] == IF Lower(n, k, i) THEN from[Next(n, i)] ELSE n
  IN  from[x]

(* The items linked at level i from the header on, as far as keys grow.    *)
Grows(n, i) == Next(n, i) \in DOMAIN item /\ Key(n) < Key(Next(n, i))
Linked(i) ==
  LET from[n \in DOMAIN item] == {n} \cup IF Grows(n, i) THEN from[Next(n, i)] ELSE {}
  IN  from[Header]

(* The map from keys to values that the list stands for.                   *)
Contents ==
  LET here == Linked(0)
  IN  [k \in Keys |-> IF \E x \in here : Key(x) = k
                      THEN item[CHOOSE x \in here : Key(x) = k].value
                      ELSE NoValue]

Map == INSTANCE SkipMap WITH
  map <- Contents, AllocFirst <- FALSE,
  Calls <- [t \in Threads |-> UNION {c[t] : c \in Clients}]

-----------------------------------------------------------------------------
(* Calls and searches                                                      *)

(* Locals before they are assigned.                                        *)
NoReg == [x |-> Header, y |-> Header, i |-> 0, step |-> "walk",
          save |-> [i \in Levels |-> Wild]]

Reg(t, r) == reg' = [reg EXCEPT ![t] = r]

(* skipInsert and skipDelete read levelHint before they wait for anything. *)
BeginCall(t) ==
  /\ Begin(t)
  /\ call[t] = Map!NoCall
  /\ \E c \in client[t] :
       /\ Map!IsSearch(c) /\ c.plock => held[t] = {}
       /\ call' = [call EXCEPT ![t] = c]
       /\ seen' = [seen EXCEPT ![t] =
                     IF Map!IsSearch(c) THEN {Map!Right(c, Contents)} ELSE {}]
  /\ Reg(t, [NoReg EXCEPT !.i = levelHint])
  /\ UNCHANGED <<heapVars, ret>>

(* skipFind reads levelHint when it is let in.                             *)
EnterRead(t) ==
  /\ ReadLock(t) \/ ResumeReader(t)
  /\ reg' = IF Map!IsSearch(call[t]) THEN [reg EXCEPT ![t].i = levelHint] ELSE reg
  /\ UNCHANGED <<heapVars, callVars>>

(* One turn of the loops of skipFind and skipLock.                         *)
Walk(t) ==
  /\ pc[t] = "reading" /\ reg[t].step = "walk"
  /\ LET r == reg[t]
         y == Next(r.x, r.i)
     IN  \/ /\ Key(y) < call[t].key
            /\ Reg(t, [r EXCEPT !.x = y])
         \/ /\ Key(y) >= call[t].key
            /\ Reg(t, [r EXCEPT
                 !.y = y,
                 !.i = IF r.i > 0 THEN r.i - 1 ELSE 0,
                 !.step = IF r.i > 0 THEN "walk" ELSE "found",
                 !.save = IF Map!IsSearch(call[t]) THEN @ ELSE [@ EXCEPT ![r.i] = r.x]])
  /\ UNCHANGED <<lockVars, heapVars, callVars>>

(* Mutant: skipNext stays on the item it found.                            *)
FollowNextStay(t) ==
  /\ pc[t] = "reading" /\ reg[t].step = "found"
  /\ call[t].op = "next" /\ Key(reg[t].y) = call[t].key
  /\ Reg(t, [reg[t] EXCEPT !.step = "next"])
  /\ UNCHANGED <<lockVars, heapVars, callVars>>

(* skipNext has found its key and goes on to the next item.                *)
FollowNext(t) ==
  /\ pc[t] = "reading" /\ reg[t].step = "found"
  /\ call[t].op = "next" /\ Key(reg[t].y) = call[t].key
  /\ Reg(t, [reg[t] EXCEPT !.y = Next(reg[t].y, 0), !.step = "next"])
  /\ UNCHANGED <<lockVars, heapVars, callVars>>

(* Mutant: skipSearch does not compare the key of what it found.           *)
HitAny(t) == reg[t].y # TailItem

(* The answer of skipSearch or skipNext, and whether it may lock a value.  *)
Hit(t) == IF call[t].op = "search" THEN Key(reg[t].y) = call[t].key
                                   ELSE reg[t].y # TailItem
Found(t) ==
  IF Hit(t)
  THEN [status |-> "ok", key |-> Key(reg[t].y), value |-> item[reg[t].y].value]
  ELSE [status |-> "ok", key |-> call[t].key, value |-> NoValue]

FinishSearch(t) ==
  /\ EndFind(t)
  /\ Map!IsSearch(call[t])
  /\ \/ reg[t].step = "next"
     \/ reg[t].step = "found" /\ (call[t].op = "search" \/ Key(reg[t].y) # call[t].key)
  /\ ret' = [ret EXCEPT ![t] = Found(t)]
  /\ seen' = [seen EXCEPT ![t] = {}]
  /\ Reg(t, IF call[t].plock /\ Hit(t)
            THEN [NoReg EXCEPT !.y = reg[t].y, !.step = "lock"]
            ELSE NoReg)
  /\ UNCHANGED <<heapVars, call>>

(* readUnlock locks the value, if that was asked for, before it leaves.    *)
LeaveRead(t) ==
  /\ ReadUnlock(t)
  /\ LET y == reg[t].y
     IN  IF reg[t].step = "lock"
         THEN /\ item' = [item EXCEPT ![y].locks = @ + 1]
              /\ held' = [held EXCEPT ![t] = @ \cup {y}]
         ELSE UNCHANGED <<item, held>>
  /\ Reg(t, NoReg)
  /\ UNCHANGED <<topLevel, levelHint, deleted, callVars>>

(* The call returns to its caller.                                         *)
Return(t) ==
  /\ pc[t] = "idle"
  /\ ret[t] # Map!NoAnswer
  /\ call' = [call EXCEPT ![t] = Map!NoCall]
  /\ ret' = [ret EXCEPT ![t] = Map!NoAnswer]
  /\ UNCHANGED <<lockVars, heapVars, reg, seen>>

(* skipRelease                                                             *)
Release(t) ==
  /\ pc[t] = "idle" /\ call[t] = Map!NoCall
  /\ readMutex = NoThread
  /\ \E x \in held[t] :
       /\ item' = [item EXCEPT ![x].locks = @ - 1]
       /\ held' = [held EXCEPT ![t] = @ \ {x}]
  /\ UNCHANGED <<lockVars, topLevel, levelHint, deleted, reg, callVars>>

-----------------------------------------------------------------------------
(* Updates                                                                 *)

(* skipLock has finished its search.                                       *)
Traversed(t) ==
  /\ EndTraverse(t)
  /\ ~Map!IsSearch(call[t]) /\ reg[t].step = "found"
  /\ Reg(t, [reg[t] EXCEPT !.step = "examine"])
  /\ UNCHANGED <<heapVars, callVars>>

Writing(t, step) == pc[t] = "writing" /\ reg[t].step = step

(* Mutant: skipLock does not validate what its search ended on.            *)
BeforeStale(t) == reg[t].x

(* What skipLock returns to the update, and the item that follows it.      *)
Before(t) == Closest(reg[t].x, call[t].key, 0)
After(t) == Next(Before(t), 0)

(* The update returns early with this answer.                              *)
EndEarly(t, status) ==
  /\ EndUpdate(t)
  /\ ret' = [ret EXCEPT ![t] = Map!Done(status)]
  /\ Reg(t, NoReg)

(* skipInsert finds its key: it stores the value or fails.                 *)
InsertFound(t) ==
  /\ Writing(t, "examine")
  /\ call[t].op \in {"insert", "update"}
  /\ Key(After(t)) = call[t].key
  /\ \/ /\ call[t].op = "update"
        /\ item' = [item EXCEPT ![After(t)].value = call[t].value]
        /\ EndEarly(t, "ok")
     \/ /\ call[t].op = "insert"
        /\ UNCHANGED item
        /\ EndEarly(t, "duplicate")
  /\ seen' = Map!Notice(Contents')
  /\ UNCHANGED <<topLevel, levelHint, deleted, held, call>>

(* save[i] for the levels the search did not visit.                        *)
FillSave(save) == [i \in Levels |-> IF save[i] = Wild THEN Header ELSE save[i]]

(* skipNewItem: level is random, but at most one above topLevel.  Which    *)
(* free block malloc returns makes no difference.                          *)
NewItem(t) ==
  /\ Writing(t, "examine")
  /\ call[t].op \in {"insert", "update"}
  /\ Key(After(t)) # call[t].key
  /\ \E random \in Levels :
       LET level == IF random > topLevel THEN topLevel + 1 ELSE random
           free == Blocks \ DOMAIN item
           y == CHOOSE b \in free : TRUE
       IN  /\ topLevel' = IF random > topLevel THEN topLevel + 1 ELSE topLevel
           /\ \/ /\ free # {}
                 /\ item' = [b \in DOMAIN item \cup {y} |->
                              IF b = y THEN NewNode(call[t].key, call[t].value, level)
                                       ELSE item[b]]
                 /\ Reg(t, [x |-> Before(t), y |-> y, i |-> 0, step |-> "forward",
                            save |-> FillSave(reg[t].save)])
                 /\ UNCHANGED <<lockVars, ret>>
              \/ EndEarly(t, "nomem") /\ UNCHANGED item
  /\ UNCHANGED <<levelHint, deleted, held, call, seen>>

(* The new item's pointer at level i is set ...                            *)
Forward(t) ==
  /\ Writing(t, "forward")
  /\ LET r == reg[t]
         x == IF r.i = 0 THEN r.x ELSE Closest(r.save[r.i], call[t].key, r.i)
     IN  /\ item' = Link(r.y, r.i, Next(x, r.i))
         /\ Reg(t, [r EXCEPT !.x = x, !.step = "publish"])
  /\ UNCHANGED <<lockVars, topLevel, levelHint, deleted, held, callVars>>

(* ... before the item can be reached at that level.                       *)
Publish(t) ==
  /\ Writing(t, "publish")
  /\ LET r == reg[t]
     IN  /\ item' = Link(r.x, r.i, r.y)
         /\ \/ /\ r.i < item[r.y].level
               /\ Reg(t, [r EXCEPT !.i = @ + 1, !.step = "forward"])
               /\ UNCHANGED lockVars
            \/ /\ r.i = item[r.y].level
               /\ Reg(t, NoReg)
               /\ Update(t) /\ cached' = cached
         /\ ret' = [ret EXCEPT ![t] = Map!Done("ok")]
  /\ seen' = Map!Notice(Contents')
  /\ UNCHANGED <<topLevel, levelHint, deleted, held, call>>

(* The key is in the list and its item not deleted, as skipDelete sees it. *)
Present(t) ==
  /\ Key(After(t)) = call[t].key
  /\ Key(Next(After(t), 0)) >= call[t].key

DeleteMissing(t) ==
  /\ Writing(t, "examine")
  /\ call[t].op = "delete"
  /\ ~Present(t)
  /\ EndEarly(t, "ok")
  /\ UNCHANGED <<heapVars, call, seen>>

DeleteFound(t) ==
  /\ Writing(t, "examine")
  /\ call[t].op = "delete"
  /\ Present(t)
  /\ Reg(t, [x |-> Before(t), y |-> After(t), i |-> item[After(t)].level,
             step |-> "unlink", save |-> FillSave(reg[t].save)])
  /\ UNCHANGED <<lockVars, heapVars, callVars>>

(* From its top level down the item is bypassed ...                        *)
Unlink(t) ==
  /\ Writing(t, "unlink")
  /\ LET r == reg[t]
         x == Closest(r.save[r.i], call[t].key, r.i)
     IN  /\ item' = Link(x, r.i, Next(r.y, r.i))
         /\ Reg(t, [r EXCEPT !.x = x, !.step = "backlink"])
         /\ ret' = IF r.i = 0 THEN [ret EXCEPT ![t] = Map!Done("ok")] ELSE ret
  /\ seen' = Map!Notice(Contents')
  /\ UNCHANGED <<lockVars, topLevel, levelHint, deleted, held, call>>

(* Mutant: the item keeps pointing forward.                                *)
BacklinkNone(t) ==
  /\ Writing(t, "backlink")
  /\ LET r == reg[t]
     IN  \/ /\ r.i > 0
            /\ Reg(t, [r EXCEPT !.i = @ - 1, !.step = "unlink"])
            /\ UNCHANGED <<lockVars, deleted>>
         \/ /\ r.i = 0
            /\ Reg(t, NoReg)
            /\ deleted' = deleted \cup {r.y}
            /\ Update(t) /\ cached' = cached + 1
  /\ UNCHANGED <<item, topLevel, levelHint, held, callVars>>

(* ... and points back, so that searches standing on it find their way.    *)
(* After level 0, skipDeleteItem puts it on the list of deleted items.     *)
Backlink(t) ==
  /\ Writing(t, "backlink")
  /\ LET r == reg[t]
     IN  /\ item' = Link(r.y, r.i, r.x)
         /\ \/ /\ r.i > 0
               /\ Reg(t, [r EXCEPT !.i = @ - 1, !.step = "unlink"])
               /\ UNCHANGED <<lockVars, deleted>>
            \/ /\ r.i = 0
               /\ Reg(t, NoReg)
               /\ deleted' = deleted \cup {r.y}
               /\ Update(t) /\ cached' = cached + 1
  /\ UNCHANGED <<topLevel, levelHint, held, callVars>>

(* One turn of the loop that ends skipInsert ...                           *)
MayRaiseHint == levelHint < topLevel /\ Next(Header, levelHint + 1) # TailItem
RaiseHint(t) ==
  /\ pc[t] = "hint" /\ call[t].op # "delete"
  /\ MayRaiseHint
  /\ levelHint' = levelHint + 1
  /\ UNCHANGED <<lockVars, item, topLevel, deleted, held, reg, callVars>>

(* ... and of the one that ends skipDelete.                                *)
MayLowerHint == levelHint > 0 /\ Next(Header, levelHint) = TailItem
LowerHint(t) ==
  /\ pc[t] = "hint" /\ call[t].op = "delete"
  /\ MayLowerHint
  /\ levelHint' = levelHint - 1
  /\ UNCHANGED <<lockVars, item, topLevel, deleted, held, reg, callVars>>

FinishUpdate(t) ==
  /\ pc[t] = "hint" /\ EndUpdate(t)
  /\ IF call[t].op = "delete" THEN ~MayLowerHint ELSE ~MayRaiseHint
  /\ UNCHANGED listVars

-----------------------------------------------------------------------------

(* Mutant: list->cached is not updated.                                    *)
FlushUncounted(t) ==
  /\ FlushDeleted(t)
  /\ LET gone == {x \in deleted : item[x].locks = 0}
     IN  /\ deleted' = deleted \ gone
         /\ item' = [x \in DOMAIN item \ gone |-> item[x]]
         /\ cached' = cached
  /\ UNCHANGED <<topLevel, levelHint, held, reg, callVars>>

(* skipFlushDeleted: items whose value is locked stay cached.  The whole   *)
(* loop is one step: its owner holds list->read and all others wait.       *)
Flush(t) ==
  /\ FlushDeleted(t)
  /\ LET gone == {x \in deleted : item[x].locks = 0}
     IN  /\ deleted' = deleted \ gone
         /\ item' = [x \in DOMAIN item \ gone |-> item[x]]
         /\ cached' = cached - Cardinality(gone)
  /\ UNCHANGED <<topLevel, levelHint, held, reg, callVars>>

(* Steps that only lock, unlock, wait or signal.                           *)
Synchronize(t) ==
  /\ \/ Signal(t) \/ WriteLock(t) \/ WriteUnlock(t) \/ ReadBlock(t) \/ ResumeFlusher(t)
     \/ EndFlush(t) \/ ReadUnblock(t) \/ Broadcast(t) \/ SpuriousWakeup(t)
  /\ UNCHANGED listVars

-----------------------------------------------------------------------------
(* skipNewList                                                             *)
ListInit ==
  /\ LockInit
  /\ client \in Clients
  /\ item = [x \in {Header, TailItem} |->
               IF x = Header
               THEN [NewNode(0, NoValue, MaxLevel) EXCEPT !.next = [i \in Levels |-> TailItem]]
               ELSE NewNode(TailKey, NoValue, MaxLevel)]
  /\ topLevel = 0
  /\ levelHint = 0
  /\ deleted = {}
  /\ held = [t \in Threads |-> {}]
  /\ reg = [t \in Threads |-> NoReg]
  /\ call = [t \in Threads |-> Map!NoCall]
  /\ seen = [t \in Threads |-> {}]
  /\ ret = [t \in Threads |-> Map!NoAnswer]

Step(t) ==
  \/ BeginCall(t) \/ EnterRead(t) \/ Walk(t) \/ FollowNext(t) \/ FinishSearch(t)
  \/ LeaveRead(t) \/ Return(t) \/ Release(t) \/ Traversed(t) \/ InsertFound(t)
  \/ NewItem(t) \/ Forward(t) \/ Publish(t) \/ DeleteMissing(t) \/ DeleteFound(t)
  \/ Unlink(t) \/ Backlink(t) \/ RaiseHint(t) \/ LowerHint(t) \/ FinishUpdate(t)
  \/ Flush(t) \/ Synchronize(t)

ListNext == (\E t \in Threads : Step(t)) /\ UNCHANGED client

ListSpec == ListInit /\ [][ListNext]_vars

-----------------------------------------------------------------------------
(* Every variable keeps its type (those of SkipLock aside).                *)
ListTypeOK ==
  /\ DOMAIN item \subseteq Blocks \cup {Header, TailItem}
  /\ \A x \in DOMAIN item :
       /\ item[x].level \in Levels /\ item[x].locks \in 0..Cardinality(Threads)
       /\ \A i \in Levels : Next(x, i) \in Blocks \cup {Header, TailItem, Wild}
  /\ topLevel \in Levels
  /\ levelHint \in 0..topLevel
  /\ deleted \subseteq Blocks
  /\ \A t \in Threads : reg[t].i \in Levels

(* A thread between readLock and readUnlock never stands on memory that    *)
(* has been freed, nor is about to follow a pointer that has not been      *)
(* stored: searches read next[] without a lock (skiplist.c:247-259), and   *)
(* items are freed and written under locks they do not take.               *)
PointersValid ==
  \A t \in At(ReadSection) :
    /\ {reg[t].x, reg[t].y} \subseteq DOMAIN item
    /\ pc[t] = "reading" => Next(reg[t].x, reg[t].i) \in DOMAIN item

(* At every moment, in the middle of an insertion or a deletion too, each  *)
(* level is a chain of growing keys that ends in the tail, and a sublist   *)
(* of the level below it (skiplist.c:564-573, 609-618).                    *)
LevelsNested ==
  \A i \in Levels :
    /\ TailItem \in Linked(i)
    /\ i > 0 => Linked(i) \subseteq Linked(i - 1)

(* A writer links and unlinks behind items that are in the list: the item  *)
(* its unlocked search ended on may have been deleted, and the level above *)
(* may have changed, before it got list->write (skiplist.c:514-518, :569,  *)
(* :614).  Storing into a deleted item would lose the update.              *)
PredecessorLinked ==
  \A t \in At({"writing"}) :
    /\ reg[t].step = "examine" => Before(t) \in Linked(0)
    /\ reg[t].step \in {"publish", "backlink"} => reg[t].x \in Linked(reg[t].i)

(* No item is lost: what is allocated is linked at level 0, cached for the *)
(* next flush, or in the hands of the one writer; never in two of these    *)
(* places, and list->cached counts what is cached.                         *)
Handled == {reg[t].y : t \in {u \in At({"writing"}) : reg[u].step \in
              {"forward", "publish", "unlink", "backlink"}}}
ItemsAccounted ==
  /\ DOMAIN item = Linked(0) \cup deleted \cup Handled
  /\ Linked(0) \cap deleted = {}
  /\ cached = Cardinality(deleted)

(* "Until this lock is passed to skipRelease(), the value will not be      *)
(* freed" (skiplist.h:105-107): the item of a held lock is in memory, and  *)
(* its count of locks is the number of its holders.                        *)
LocksExact ==
  /\ \A t \in Threads : held[t] \subseteq DOMAIN item
  /\ \A x \in DOMAIN item : item[x].locks = Cardinality({t \in Threads : x \in held[t]})

(* Between updates, levelHint is the highest level in use: searches start  *)
(* at a level that an item is on, and no level above it is in use.         *)
HintExact ==
  At(WriteSection) = {} =>
    /\ \A i \in Levels : i > levelHint => Next(Header, i) = TailItem
    /\ levelHint > 0 => Next(Header, levelHint) # TailItem

(* The list is well formed in the middle of every update: no pointer leads *)
(* to freed memory, each level is part of the one below, and the place     *)
(* where an update writes is still in the list (skiplist.c:537-620).       *)
ListWellFormed == ListTypeOK /\ PointersValid /\ LevelsNested /\ PredecessorLinked /\ HintExact

(* No item is lost, and none is freed that a client or a search stands on  *)
(* (skipFlushDeleted, skipRelease).                                        *)
MemorySound == ItemsAccounted /\ LocksExact

(* Searches, insertions and deletions that overlap behave like steps of a  *)
(* map, each taken at some moment of its call.                             *)
ImplementsMap == Map!MapSpec

(* "Searches in list <list> for item with key next larger that the one in  *)
(* <pkey>" (skiplist.h:83): the key skipNext returns is larger.            *)
NextLarger ==
  \A t \in Threads :
    call[t].op = "next" /\ ret[t] # Map!NoAnswer /\ ret[t].value # NoValue
      => ret[t].key > call[t].key

=============================================================================
