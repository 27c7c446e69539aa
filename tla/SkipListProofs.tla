--------------------------- MODULE SkipListProofs ---------------------------
(***************************************************************************)
(* Safety of the thread-safe skip list of util/skiplist.c for any number   *)
(* of threads, keys, levels and calls, as long as a flush frees items only *)
(* while nobody is inside the list (FlushAlone, which the code does not    *)
(* guarantee for three threads).                                           *)
(*                                                                         *)
(* The invariant speaks of two sets that the state does not name: L[i],    *)
(* the items linked at level i, and G, the items a search may stand on:    *)
(* those in the list, and those unlinked since the last flush.             *)
(***************************************************************************)
EXTENDS SkipList, ListLemmas, FiniteSetTheorems, TLAPS
-----------------------------------------------------------------------------
(* The locking protocol (SkipLock).                                        *)

(* How the count of the threads in S changes when one of them moves.       *)
LEMMA CountMoves ==
  ASSUME IsFiniteSet(Threads), pc \in [Threads -> Locations],
         NEW t \in Threads, NEW to, NEW S, pc' = [pc EXCEPT ![t] = to]
  PROVE  /\ Cardinality(At(S)) \in Nat
         /\ pc[t] \in S => Cardinality(At(S)) > 0
         /\ (pc[t] \in S <=> to \in S) => Cardinality(At(S)') = Cardinality(At(S))
         /\ pc[t] \notin S /\ to \in S => Cardinality(At(S)') = Cardinality(At(S)) + 1
         /\ pc[t] \in S /\ to \notin S => Cardinality(At(S)') = Cardinality(At(S)) - 1
<1>1. IsFiniteSet(At(S))
  BY FS_Subset DEF At
<1>2. Cardinality(At(S)) \in Nat
  BY <1>1, FS_CardinalityType
<1>3. pc[t] \in S => Cardinality(At(S)) > 0
  <2>1. HAVE pc[t] \in S
  <2>2. At(S) # {}
    BY <2>1 DEF At
  <2> QED
    BY <1>1, <1>2, <2>2, FS_EmptySet
<1>4. ASSUME pc[t] \in S <=> to \in S
      PROVE  Cardinality(At(S)') = Cardinality(At(S))
  <2>1. At(S)' = At(S)
    BY <1>4 DEF At
  <2> QED
    BY <2>1
<1>5. ASSUME pc[t] \notin S, to \in S
      PROVE  Cardinality(At(S)') = Cardinality(At(S)) + 1
  <2>1. At(S)' = At(S) \cup {t} /\ t \notin At(S)
    BY <1>5 DEF At
  <2> QED
    BY <1>1, <2>1, FS_AddElement
<1>6. ASSUME pc[t] \in S, to \notin S
      PROVE  Cardinality(At(S)') = Cardinality(At(S)) - 1
  <2>1. At(S)' = At(S) \ {t} /\ t \in At(S)
    BY <1>6 DEF At
  <2> QED
    BY <1>1, <2>1, FS_RemoveElement
<1> QED
  BY <1>2, <1>3, <1>4, <1>5, <1>6

(* The initial state satisfies the invariant.                              *)
LEMMA LockInvInit == LockInit => LockInv
<1> SUFFICES ASSUME LockInit PROVE LockInv
  OBVIOUS
<1> USE LockAssumption DEF LockInit
<1>1. LockTypeOK
  BY DEF LockTypeOK, Locations, ReadSection, FlushSection, BlockSection
<1>2. MutexesOwned
  BY DEF MutexesOwned, WriteSection, OwnsRead
<1>3. FlushMarked
  BY DEF FlushMarked, FlushSection
<1>4. OneFlusher
  BY DEF OneFlusher, Flushers
<1>5. BlockOwned
  BY DEF BlockOwned, At, BlockSection
<1>6. ReadersExact
  <2>1. At(ReadSection) = {}
    BY DEF At, ReadSection
  <2> QED
    BY <2>1, FS_EmptySet DEF ReadersExact
<1> QED
  BY <1>1, <1>2, <1>3, <1>4, <1>5, <1>6 DEF LockInv

(* The mutexes stay with their owners.                                     *)
LEMMA MutexStep ==
  ASSUME LockInv, [LockNext]_lockVars
  PROVE  MutexesOwned'
<1> USE LockAssumption
    DEF LockInv, LockTypeOK, MutexesOwned, Goto, WriteSection, OwnsRead
<1>1. CASE UNCHANGED lockVars
  BY <1>1 DEF lockVars
<1>2. ASSUME NEW t \in Threads, Begin(t) PROVE MutexesOwned'
  BY <1>2 DEF Begin
<1>3. ASSUME NEW t \in Threads, ReadLock(t) PROVE MutexesOwned'
  BY <1>3 DEF ReadLock
<1>4. ASSUME NEW t \in Threads, ResumeReader(t) PROVE MutexesOwned'
  BY <1>4 DEF ResumeReader
<1>5. ASSUME NEW t \in Threads, EndFind(t) PROVE MutexesOwned'
  BY <1>5 DEF EndFind
<1>6. ASSUME NEW t \in Threads, ReadUnlock(t) PROVE MutexesOwned'
  BY <1>6 DEF ReadUnlock, AfterReadUnlock
<1>7. ASSUME NEW t \in Threads, Signal(t) PROVE MutexesOwned'
  BY <1>7 DEF Signal, AfterReadUnlock, At
<1>8. ASSUME NEW t \in Threads, EndTraverse(t) PROVE MutexesOwned'
  BY <1>8 DEF EndTraverse
<1>9. ASSUME NEW t \in Threads, WriteLock(t) PROVE MutexesOwned'
  BY <1>9 DEF WriteLock
<1>10. ASSUME NEW t \in Threads, Update(t) PROVE MutexesOwned'
  BY <1>10 DEF Update
<1>11. ASSUME NEW t \in Threads, EndUpdate(t) PROVE MutexesOwned'
  BY <1>11 DEF EndUpdate
<1>12. ASSUME NEW t \in Threads, WriteUnlock(t) PROVE MutexesOwned'
  BY <1>12 DEF WriteUnlock
<1>13. ASSUME NEW t \in Threads, ReadBlock(t) PROVE MutexesOwned'
  BY <1>13 DEF ReadBlock
<1>14. ASSUME NEW t \in Threads, ResumeFlusher(t) PROVE MutexesOwned'
  BY <1>14 DEF ResumeFlusher
<1>15. ASSUME NEW t \in Threads, FlushDeleted(t) PROVE MutexesOwned'
  BY <1>15 DEF FlushDeleted
<1>16. ASSUME NEW t \in Threads, EndFlush(t) PROVE MutexesOwned'
  BY <1>16 DEF EndFlush
<1>17. ASSUME NEW t \in Threads, ReadUnblock(t) PROVE MutexesOwned'
  BY <1>17 DEF ReadUnblock
<1>18. ASSUME NEW t \in Threads, Broadcast(t) PROVE MutexesOwned'
  BY <1>18 DEF Broadcast
<1>19. ASSUME NEW t \in Threads, SpuriousWakeup(t) PROVE MutexesOwned'
  BY <1>19 DEF SpuriousWakeup
<1> QED
  BY <1>1, <1>2, <1>3, <1>4, <1>5, <1>6, <1>7, <1>8, <1>9, <1>10, <1>11,
       <1>12, <1>13, <1>14, <1>15, <1>16, <1>17, <1>18, <1>19
  DEF LockNext, Run

(* The flag list->flushing stays with the one flusher.                     *)
LEMMA FlushStep ==
  ASSUME LockInv, [LockNext]_lockVars
  PROVE  (FlushMarked /\ OneFlusher)'
<1> USE LockAssumption
    DEF LockInv, LockTypeOK, FlushMarked, OneFlusher, Flushers, Goto,
        FlushSection
<1>1. CASE UNCHANGED lockVars
  BY <1>1 DEF lockVars
<1>2. ASSUME NEW t \in Threads, Begin(t) PROVE (FlushMarked /\ OneFlusher)'
  BY <1>2 DEF Begin
<1>3. ASSUME NEW t \in Threads, ReadLock(t) PROVE (FlushMarked /\ OneFlusher)'
  BY <1>3 DEF ReadLock
<1>4. ASSUME NEW t \in Threads, ResumeReader(t) PROVE (FlushMarked /\ OneFlusher)'
  BY <1>4 DEF ResumeReader
<1>5. ASSUME NEW t \in Threads, EndFind(t) PROVE (FlushMarked /\ OneFlusher)'
  BY <1>5 DEF EndFind
<1>6. ASSUME NEW t \in Threads, ReadUnlock(t) PROVE (FlushMarked /\ OneFlusher)'
  BY <1>6 DEF ReadUnlock, AfterReadUnlock
<1>7. ASSUME NEW t \in Threads, Signal(t) PROVE (FlushMarked /\ OneFlusher)'
  BY <1>7 DEF Signal, AfterReadUnlock, At
<1>8. ASSUME NEW t \in Threads, EndTraverse(t) PROVE (FlushMarked /\ OneFlusher)'
  BY <1>8 DEF EndTraverse
<1>9. ASSUME NEW t \in Threads, WriteLock(t) PROVE (FlushMarked /\ OneFlusher)'
  BY <1>9 DEF WriteLock
<1>10. ASSUME NEW t \in Threads, Update(t) PROVE (FlushMarked /\ OneFlusher)'
  BY <1>10 DEF Update
<1>11. ASSUME NEW t \in Threads, EndUpdate(t) PROVE (FlushMarked /\ OneFlusher)'
  BY <1>11 DEF EndUpdate
<1>12. ASSUME NEW t \in Threads, WriteUnlock(t) PROVE (FlushMarked /\ OneFlusher)'
  BY <1>12 DEF WriteUnlock
<1>13. ASSUME NEW t \in Threads, ReadBlock(t) PROVE (FlushMarked /\ OneFlusher)'
  BY <1>13 DEF ReadBlock
<1>14. ASSUME NEW t \in Threads, ResumeFlusher(t) PROVE (FlushMarked /\ OneFlusher)'
  BY <1>14 DEF ResumeFlusher
<1>15. ASSUME NEW t \in Threads, FlushDeleted(t) PROVE (FlushMarked /\ OneFlusher)'
  BY <1>15 DEF FlushDeleted
<1>16. ASSUME NEW t \in Threads, EndFlush(t) PROVE (FlushMarked /\ OneFlusher)'
  BY <1>16 DEF EndFlush
<1>17. ASSUME NEW t \in Threads, ReadUnblock(t) PROVE (FlushMarked /\ OneFlusher)'
  BY <1>17 DEF ReadUnblock
<1>18. ASSUME NEW t \in Threads, Broadcast(t) PROVE (FlushMarked /\ OneFlusher)'
  BY <1>18 DEF Broadcast
<1>19. ASSUME NEW t \in Threads, SpuriousWakeup(t) PROVE (FlushMarked /\ OneFlusher)'
  BY <1>19 DEF SpuriousWakeup
<1> QED
  BY <1>1, <1>2, <1>3, <1>4, <1>5, <1>6, <1>7, <1>8, <1>9, <1>10, <1>11,
       <1>12, <1>13, <1>14, <1>15, <1>16, <1>17, <1>18, <1>19
  DEF LockNext, Run

(* The list is blocked by one thread at a time.                            *)
LEMMA BlockStep ==
  ASSUME LockInv, [LockNext]_lockVars
  PROVE  BlockOwned'
<1> USE LockAssumption
    DEF LockInv, LockTypeOK, MutexesOwned, FlushMarked, OneFlusher, Flushers,
        BlockOwned, At, Goto, BlockSection, FlushSection, OwnsRead
<1>1. CASE UNCHANGED lockVars
  BY <1>1 DEF lockVars
<1>2. ASSUME NEW t \in Threads, Begin(t) PROVE BlockOwned'
  BY <1>2 DEF Begin
<1>3. ASSUME NEW t \in Threads, ReadLock(t) PROVE BlockOwned'
  BY <1>3 DEF ReadLock
<1>4. ASSUME NEW t \in Threads, ResumeReader(t) PROVE BlockOwned'
  BY <1>4 DEF ResumeReader
<1>5. ASSUME NEW t \in Threads, EndFind(t) PROVE BlockOwned'
  BY <1>5 DEF EndFind
<1>6. ASSUME NEW t \in Threads, ReadUnlock(t) PROVE BlockOwned'
  BY <1>6 DEF ReadUnlock, AfterReadUnlock
<1>7. ASSUME NEW t \in Threads, Signal(t) PROVE BlockOwned'
  BY <1>7 DEF Signal, AfterReadUnlock, At
<1>8. ASSUME NEW t \in Threads, EndTraverse(t) PROVE BlockOwned'
  BY <1>8 DEF EndTraverse
<1>9. ASSUME NEW t \in Threads, WriteLock(t) PROVE BlockOwned'
  BY <1>9 DEF WriteLock
<1>10. ASSUME NEW t \in Threads, Update(t) PROVE BlockOwned'
  BY <1>10 DEF Update
<1>11. ASSUME NEW t \in Threads, EndUpdate(t) PROVE BlockOwned'
  BY <1>11 DEF EndUpdate
<1>12. ASSUME NEW t \in Threads, WriteUnlock(t) PROVE BlockOwned'
  BY <1>12 DEF WriteUnlock
<1>13. ASSUME NEW t \in Threads, ReadBlock(t) PROVE BlockOwned'
  BY <1>13 DEF ReadBlock
<1>14. ASSUME NEW t \in Threads, ResumeFlusher(t) PROVE BlockOwned'
  BY <1>14 DEF ResumeFlusher
<1>15. ASSUME NEW t \in Threads, FlushDeleted(t) PROVE BlockOwned'
  BY <1>15 DEF FlushDeleted
<1>16. ASSUME NEW t \in Threads, EndFlush(t) PROVE BlockOwned'
  BY <1>16 DEF EndFlush
<1>17. ASSUME NEW t \in Threads, ReadUnblock(t) PROVE BlockOwned'
  BY <1>17 DEF ReadUnblock
<1>18. ASSUME NEW t \in Threads, Broadcast(t) PROVE BlockOwned'
  BY <1>18 DEF Broadcast
<1>19. ASSUME NEW t \in Threads, SpuriousWakeup(t) PROVE BlockOwned'
  BY <1>19 DEF SpuriousWakeup
<1> QED
  BY <1>1, <1>2, <1>3, <1>4, <1>5, <1>6, <1>7, <1>8, <1>9, <1>10, <1>11,
       <1>12, <1>13, <1>14, <1>15, <1>16, <1>17, <1>18, <1>19
  DEF LockNext, Run

(* list->readers follows the threads in and out of the list.               *)
LEMMA ReadersStep ==
  ASSUME LockInv, [LockNext]_lockVars
  PROVE  ReadersExact'
<1> USE LockAssumption DEF LockInv, LockTypeOK, ReadersExact, Goto
<1>1. CASE UNCHANGED lockVars
  BY <1>1 DEF lockVars, At
<1>2. ASSUME NEW t \in Threads, NEW to, pc' = [pc EXCEPT ![t] = to],
             \/ readers' = readers /\ (pc[t] \in ReadSection <=> to \in ReadSection)
             \/ readers' = readers + 1 /\ pc[t] \notin ReadSection /\ to \in ReadSection
             \/ readers' = readers - 1 /\ pc[t] \in ReadSection /\ to \notin ReadSection
      PROVE  ReadersExact'
  BY <1>2, CountMoves
<1>3. ASSUME At(ReadSection)' = At(ReadSection), readers' = readers
      PROVE  ReadersExact'
  BY <1>3
<1>4. ASSUME NEW t \in Threads, Begin(t) PROVE ReadersExact'
  BY <1>2, <1>4 DEF Begin, ReadSection
<1>5. ASSUME NEW t \in Threads, ReadLock(t) PROVE ReadersExact'
  BY <1>2, <1>5 DEF ReadLock, ReadSection
<1>6. ASSUME NEW t \in Threads, ResumeReader(t) PROVE ReadersExact'
  BY <1>2, <1>6 DEF ResumeReader, ReadSection
<1>7. ASSUME NEW t \in Threads, EndFind(t) PROVE ReadersExact'
  BY <1>2, <1>7 DEF EndFind, ReadSection
<1>8. ASSUME NEW t \in Threads, ReadUnlock(t) PROVE ReadersExact'
  <2>1. PICK to \in {"signal", "fblock", "idle"} : pc' = [pc EXCEPT ![t] = to]
    BY <1>8 DEF ReadUnlock, AfterReadUnlock
  <2>2. /\ readers' = readers - 1
        /\ pc[t] \in ReadSection /\ to \notin ReadSection
    BY <1>8 DEF ReadUnlock, ReadSection
  <2> QED
    BY <1>2, <2>1, <2>2
<1>9. ASSUME NEW t \in Threads, EndTraverse(t) PROVE ReadersExact'
  BY <1>2, <1>9 DEF EndTraverse, ReadSection
<1>10. ASSUME NEW t \in Threads, WriteLock(t) PROVE ReadersExact'
  BY <1>2, <1>10 DEF WriteLock, ReadSection
<1>11. ASSUME NEW t \in Threads, Update(t) PROVE ReadersExact'
  BY <1>2, <1>11 DEF Update, ReadSection
<1>12. ASSUME NEW t \in Threads, EndUpdate(t) PROVE ReadersExact'
  BY <1>2, <1>12 DEF EndUpdate, ReadSection
<1>13. ASSUME NEW t \in Threads, WriteUnlock(t) PROVE ReadersExact'
  BY <1>2, <1>13 DEF WriteUnlock, ReadSection
<1>14. ASSUME NEW t \in Threads, ReadBlock(t) PROVE ReadersExact'
  BY <1>2, <1>14 DEF ReadBlock, ReadSection
<1>15. ASSUME NEW t \in Threads, ResumeFlusher(t) PROVE ReadersExact'
  BY <1>2, <1>15 DEF ResumeFlusher, ReadSection
<1>16. ASSUME NEW t \in Threads, FlushDeleted(t) PROVE ReadersExact'
  BY <1>2, <1>16 DEF FlushDeleted, ReadSection
<1>17. ASSUME NEW t \in Threads, EndFlush(t) PROVE ReadersExact'
  BY <1>2, <1>17 DEF EndFlush, ReadSection
<1>18. ASSUME NEW t \in Threads, ReadUnblock(t) PROVE ReadersExact'
  BY <1>2, <1>18 DEF ReadUnblock, ReadSection
<1>19. ASSUME NEW t \in Threads, SpuriousWakeup(t) PROVE ReadersExact'
  BY <1>2, <1>19 DEF SpuriousWakeup, ReadSection
<1>20. ASSUME NEW t \in Threads, Signal(t) PROVE ReadersExact'
  BY <1>3, <1>20 DEF Signal, ReadSection, At, AfterReadUnlock
<1>21. ASSUME NEW t \in Threads, Broadcast(t) PROVE ReadersExact'
  BY <1>3, <1>21 DEF Broadcast, ReadSection, At
<1> QED
  BY <1>1, <1>4, <1>5, <1>6, <1>7, <1>8, <1>9, <1>10, <1>11, <1>12, <1>13,
       <1>14, <1>15, <1>16, <1>17, <1>18, <1>19, <1>20, <1>21
  DEF LockNext, Run

(* Every variable keeps its type.                                          *)
LEMMA TypeStep ==
  ASSUME LockInv, [LockNext]_lockVars
  PROVE  LockTypeOK'
<1> USE LockAssumption
    DEF LockInv, LockTypeOK, Goto, Locations, ReadSection, FlushSection,
        BlockSection
<1>1. CASE UNCHANGED lockVars
  BY <1>1 DEF lockVars
<1>2. ASSUME NEW t \in Threads, Begin(t) PROVE LockTypeOK'
  BY <1>2 DEF Begin
<1>3. ASSUME NEW t \in Threads, ReadLock(t) PROVE LockTypeOK'
  BY <1>3 DEF ReadLock
<1>4. ASSUME NEW t \in Threads, ResumeReader(t) PROVE LockTypeOK'
  BY <1>4 DEF ResumeReader
<1>5. ASSUME NEW t \in Threads, EndFind(t) PROVE LockTypeOK'
  BY <1>5 DEF EndFind
<1>6. ASSUME NEW t \in Threads, ReadUnlock(t) PROVE LockTypeOK'
  <2>1. readers > 0
    BY <1>6, CountMoves DEF ReadUnlock, ReadersExact
  <2> QED
    BY <1>6, <2>1 DEF ReadUnlock, AfterReadUnlock
<1>7. ASSUME NEW t \in Threads, Signal(t) PROVE LockTypeOK'
  BY <1>7 DEF Signal, AfterReadUnlock, At
<1>8. ASSUME NEW t \in Threads, EndTraverse(t) PROVE LockTypeOK'
  BY <1>8 DEF EndTraverse
<1>9. ASSUME NEW t \in Threads, WriteLock(t) PROVE LockTypeOK'
  BY <1>9 DEF WriteLock
<1>10. ASSUME NEW t \in Threads, Update(t) PROVE LockTypeOK'
  BY <1>10 DEF Update
<1>11. ASSUME NEW t \in Threads, EndUpdate(t) PROVE LockTypeOK'
  BY <1>11 DEF EndUpdate
<1>12. ASSUME NEW t \in Threads, WriteUnlock(t) PROVE LockTypeOK'
  BY <1>12 DEF WriteUnlock
<1>13. ASSUME NEW t \in Threads, ReadBlock(t) PROVE LockTypeOK'
  BY <1>13 DEF ReadBlock
<1>14. ASSUME NEW t \in Threads, ResumeFlusher(t) PROVE LockTypeOK'
  BY <1>14 DEF ResumeFlusher
<1>15. ASSUME NEW t \in Threads, FlushDeleted(t) PROVE LockTypeOK'
  BY <1>15 DEF FlushDeleted
<1>16. ASSUME NEW t \in Threads, EndFlush(t) PROVE LockTypeOK'
  BY <1>16 DEF EndFlush
<1>17. ASSUME NEW t \in Threads, ReadUnblock(t) PROVE LockTypeOK'
  BY <1>17 DEF ReadUnblock
<1>18. ASSUME NEW t \in Threads, Broadcast(t) PROVE LockTypeOK'
  BY <1>18 DEF Broadcast
<1>19. ASSUME NEW t \in Threads, SpuriousWakeup(t) PROVE LockTypeOK'
  BY <1>19 DEF SpuriousWakeup
<1> QED
  BY <1>1, <1>2, <1>3, <1>4, <1>5, <1>6, <1>7, <1>8, <1>9, <1>10, <1>11,
       <1>12, <1>13, <1>14, <1>15, <1>16, <1>17, <1>18, <1>19
  DEF LockNext, Run

-----------------------------------------------------------------------------
(* The invariant holds in every state the protocol reaches.                *)
THEOREM LockInvariant == LockSpec => []LockInv
<1>1. LockInit => LockInv
  BY LockInvInit
<1>2. LockInv /\ [LockNext]_lockVars => LockInv'
  BY TypeStep, MutexStep, FlushStep, BlockStep, ReadersStep DEF LockInv
<1> QED
  BY <1>1, <1>2, PTL DEF LockSpec

(* Type correctness; the counter of readers never wraps below zero.        *)
THEOREM TypeCorrect == LockSpec => []LockTypeOK
<1>1. LockInv => LockTypeOK
  BY DEF LockInv
<1> QED
  BY <1>1, LockInvariant, PTL

(* list->readers is exact at every moment (skiplist.c:77, :99).            *)
THEOREM ReadersAreExact == LockSpec => []ReadersExact
<1>1. LockInv => ReadersExact
  BY DEF LockInv
<1> QED
  BY <1>1, LockInvariant, PTL

(* There is at most one flusher (skiplist.c:211-232).                      *)
THEOREM OneFlusherAtATime == LockSpec => []OneFlusher
<1>1. LockInv => OneFlusher
  BY DEF LockInv
<1> QED
  BY <1>1, LockInvariant, PTL

(* The list is blocked exactly while one thread is to unblock it           *)
(* (skiplist.c:112-133).                                                   *)
THEOREM BlockHasOneOwner == LockSpec => []BlockOwned
<1>1. LockInv => BlockOwned
  BY DEF LockInv
<1> QED
  BY <1>1, LockInvariant, PTL

(* Each mutex has the owner its users rely on (skiplist.c:112-148).        *)
THEOREM MutexesHaveOneOwner == LockSpec => []MutexesOwned
<1>1. LockInv => MutexesOwned
  BY DEF LockInv
<1> QED
  BY <1>1, LockInvariant, PTL

-----------------------------------------------------------------------------
(* Two threads that are only woken by signals.                             *)
Pair ==
  /\ \A t, u, w \in Threads : t = u \/ u = w \/ t = w
  /\ ~SpuriousWakeups

(* Nobody returns to the list between the signal and the flush.            *)
LEMMA WokenStep ==
  ASSUME Pair, LockInv, WokenAlone, [LockNext]_lockVars
  PROVE  WokenAlone'
<1> USE DEF LockInv, LockTypeOK, WokenAlone, At, Goto, ReadSection
<1>1. CASE UNCHANGED lockVars
  BY <1>1 DEF lockVars
<1>2. ASSUME NEW t \in Threads, Begin(t) PROVE WokenAlone'
  BY <1>2 DEF Begin
<1>3. ASSUME NEW t \in Threads, ReadLock(t) PROVE WokenAlone'
  BY <1>3 DEF ReadLock, BlockOwned, BlockSection
<1>4. ASSUME NEW t \in Threads, ResumeReader(t) PROVE WokenAlone'
  BY <1>4 DEF ResumeReader
<1>5. ASSUME NEW t \in Threads, EndFind(t) PROVE WokenAlone'
  BY <1>5 DEF EndFind
<1>6. ASSUME NEW t \in Threads, ReadUnlock(t) PROVE WokenAlone'
  BY <1>6 DEF ReadUnlock, AfterReadUnlock
<1>7. ASSUME NEW t \in Threads, Signal(t) PROVE WokenAlone'
  BY <1>7 DEF Signal, AfterReadUnlock, Pair
<1>8. ASSUME NEW t \in Threads, EndTraverse(t) PROVE WokenAlone'
  BY <1>8 DEF EndTraverse
<1>9. ASSUME NEW t \in Threads, WriteLock(t) PROVE WokenAlone'
  BY <1>9 DEF WriteLock
<1>10. ASSUME NEW t \in Threads, Update(t) PROVE WokenAlone'
  BY <1>10 DEF Update
<1>11. ASSUME NEW t \in Threads, EndUpdate(t) PROVE WokenAlone'
  BY <1>11 DEF EndUpdate
<1>12. ASSUME NEW t \in Threads, WriteUnlock(t) PROVE WokenAlone'
  BY <1>12 DEF WriteUnlock
<1>13. ASSUME NEW t \in Threads, ReadBlock(t) PROVE WokenAlone'
  BY <1>13 DEF ReadBlock
<1>14. ASSUME NEW t \in Threads, ResumeFlusher(t) PROVE WokenAlone'
  BY <1>14 DEF ResumeFlusher
<1>15. ASSUME NEW t \in Threads, FlushDeleted(t) PROVE WokenAlone'
  BY <1>15 DEF FlushDeleted
<1>16. ASSUME NEW t \in Threads, EndFlush(t) PROVE WokenAlone'
  BY <1>16 DEF EndFlush
<1>17. ASSUME NEW t \in Threads, ReadUnblock(t) PROVE WokenAlone'
  BY <1>17 DEF ReadUnblock
<1>18. ASSUME NEW t \in Threads, Broadcast(t) PROVE WokenAlone'
  BY <1>18 DEF Broadcast, Pair
<1>19. ASSUME NEW t \in Threads, SpuriousWakeup(t) PROVE WokenAlone'
  BY <1>19 DEF SpuriousWakeup, Pair
<1> QED
  BY <1>1, <1>2, <1>3, <1>4, <1>5, <1>6, <1>7, <1>8, <1>9, <1>10, <1>11,
       <1>12, <1>13, <1>14, <1>15, <1>16, <1>17, <1>18, <1>19
  DEF LockNext, Run

(* A flush starts when no reader is left, and nobody comes in during it.   *)
LEMMA FlushAloneStep ==
  ASSUME LockInv, WokenAlone, FlushAlone, [LockNext]_lockVars
  PROVE  FlushAlone'
<1> USE DEF LockInv, LockTypeOK, FlushAlone, At, Goto
<1>1. CASE UNCHANGED lockVars
  BY <1>1 DEF lockVars
<1>2. ASSUME NEW t \in Threads, Begin(t) PROVE FlushAlone'
  BY <1>2 DEF Begin
<1>3. ASSUME NEW t \in Threads, ReadLock(t) PROVE FlushAlone'
  BY LockAssumption, <1>3 DEF ReadLock, MutexesOwned, OwnsRead
<1>4. ASSUME NEW t \in Threads, ResumeReader(t) PROVE FlushAlone'
  BY LockAssumption, <1>4 DEF ResumeReader, MutexesOwned, OwnsRead
<1>5. ASSUME NEW t \in Threads, EndFind(t) PROVE FlushAlone'
  BY <1>5 DEF EndFind
<1>6. ASSUME NEW t \in Threads, ReadUnlock(t) PROVE FlushAlone'
  <2>1. At({"fflush"}) = {}
    BY LockAssumption, <1>6 DEF ReadUnlock, MutexesOwned, OwnsRead
  <2>2. PICK to \in {"signal", "fblock", "idle"} : pc' = [pc EXCEPT ![t] = to]
    BY <1>6 DEF ReadUnlock, AfterReadUnlock
  <2> QED
    BY <2>1, <2>2
<1>7. ASSUME NEW t \in Threads, Signal(t) PROVE FlushAlone'
  BY <1>7 DEF Signal, AfterReadUnlock
<1>8. ASSUME NEW t \in Threads, EndTraverse(t) PROVE FlushAlone'
  BY <1>8 DEF EndTraverse
<1>9. ASSUME NEW t \in Threads, WriteLock(t) PROVE FlushAlone'
  BY <1>9 DEF WriteLock
<1>10. ASSUME NEW t \in Threads, Update(t) PROVE FlushAlone'
  BY <1>10 DEF Update
<1>11. ASSUME NEW t \in Threads, EndUpdate(t) PROVE FlushAlone'
  BY <1>11 DEF EndUpdate
<1>12. ASSUME NEW t \in Threads, WriteUnlock(t) PROVE FlushAlone'
  BY <1>12 DEF WriteUnlock
<1>13. ASSUME NEW t \in Threads, ReadBlock(t) PROVE FlushAlone'
  BY <1>13 DEF ReadBlock
<1>14. ASSUME NEW t \in Threads, ResumeFlusher(t) PROVE FlushAlone'
  <2>1. At(ReadSection) = {}
    BY <1>14 DEF ResumeFlusher, WokenAlone, ReadSection
  <2>2. readers = 0
    BY <2>1, FS_EmptySet DEF ReadersExact
  <2> QED
    BY <1>14, <2>2 DEF ResumeFlusher
<1>15. ASSUME NEW t \in Threads, FlushDeleted(t) PROVE FlushAlone'
  BY <1>15 DEF FlushDeleted
<1>16. ASSUME NEW t \in Threads, EndFlush(t) PROVE FlushAlone'
  BY <1>16 DEF EndFlush
<1>17. ASSUME NEW t \in Threads, ReadUnblock(t) PROVE FlushAlone'
  BY <1>17 DEF ReadUnblock
<1>18. ASSUME NEW t \in Threads, Broadcast(t) PROVE FlushAlone'
  BY <1>18 DEF Broadcast
<1>19. ASSUME NEW t \in Threads, SpuriousWakeup(t) PROVE FlushAlone'
  BY <1>19 DEF SpuriousWakeup
<1> QED
  BY <1>1, <1>2, <1>3, <1>4, <1>5, <1>6, <1>7, <1>8, <1>9, <1>10, <1>11,
       <1>12, <1>13, <1>14, <1>15, <1>16, <1>17, <1>18, <1>19
  DEF LockNext, Run

(* "at this point no readers/writers are active" (skiplist.c:227) is true  *)
(* as long as two threads share the list and no wakeup is spurious.        *)
THEOREM FlushAloneInPair ==
  ASSUME Pair
  PROVE  LockSpec => []FlushAlone
<1>1. LockInit => WokenAlone /\ FlushAlone
  BY DEF LockInit, WokenAlone, FlushAlone, At
<1>2. LockInv /\ WokenAlone /\ FlushAlone /\ [LockNext]_lockVars
        => WokenAlone' /\ FlushAlone'
  BY Pair, WokenStep, FlushAloneStep
<1> QED
  BY <1>1, <1>2, LockInvariant, PTL DEF LockSpec

-----------------------------------------------------------------------------
(* The items of the list (SkipList).                                       *)

Nodes == Blocks \cup {Header, TailItem}
Node == [key : Nat, value : Values \cup {NoValue}, level : Levels, locks : Nat,
         next : [Levels -> Nodes \cup {Wild}]]
StepNames == {"walk", "found", "next", "lock", "examine", "forward", "publish",
              "unlink", "backlink"}
Local == [x : Nodes, y : Nodes, i : Levels, step : StepNames,
          save : [Levels -> Nodes \cup {Wild}]]

(* Every variable keeps its type; header and tail stay what they are.      *)
HeapOK ==
  /\ DOMAIN item \subseteq Nodes
  /\ {Header, TailItem} \subseteq DOMAIN item
  /\ item \in [DOMAIN item -> Node]
  /\ item[Header].key = 0 /\ item[TailItem].key = TailKey
  /\ item[Header].level = MaxLevel /\ item[TailItem].level = MaxLevel
  /\ \A x \in DOMAIN item \cap Blocks : item[x].key \in Keys
  /\ \A i \in Levels : Next(Header, i) # Wild /\ Next(TailItem, i) = Wild
  /\ topLevel \in Levels /\ levelHint \in 0 .. topLevel
  /\ deleted \subseteq Blocks
  /\ held \in [Threads -> SUBSET Nodes]
  /\ reg \in [Threads -> Local]
  /\ call \in [Threads -> Calls \cup {Map!NoCall}]
  /\ client \in Clients

Stored(x, i) == Next(x, i) # Wild

(* S is a chain of growing keys at level i, from the header to the tail.   *)
Chain(S, i) ==
  /\ {Header, TailItem} \subseteq S
  /\ \A x \in S \ {TailItem} : Next(x, i) \in S /\ Key(x) < Key(Next(x, i))
  /\ \A x \in S \ {TailItem}, z \in S : Key(x) < Key(z) => Key(Next(x, i)) <= Key(z)
  /\ \A x, z \in S : Key(x) = Key(z) => x = z

(* The writer t that has the item reg[t].y in its hands.                   *)
Handles(t) == pc[t] = "writing" /\ reg[t].step \in {"forward", "publish", "unlink", "backlink"}

(* The item at x is about to be published, or to point back, at level i.   *)
Moving(x, i) ==
  \E t \in Threads :
    /\ pc[t] = "writing" /\ reg[t].step \in {"publish", "backlink"}
    /\ reg[t].y = x /\ reg[t].i = i

(* What a thread may come by: from an item in G it gets to one in G, at    *)
(* the same level or further down.  An item that has left level i points   *)
(* back at it.                                                             *)
Walkable(G, L) ==
  /\ L[0] \subseteq G /\ G \subseteq DOMAIN item
  /\ \A x \in G \ {TailItem} : Stored(x, 0)
  /\ \A x \in G \ {TailItem}, i \in Levels : Stored(x, i) =>
       /\ Next(x, i) \in G
       /\ Next(x, i) # TailItem => Stored(Next(x, i), i)
       /\ \A j \in 0 .. i : Stored(x, j)
       /\ x \in L[i] \/ Moving(x, i) \/ Key(Next(x, i)) < Key(x)

(* The levels are chains, each part of the one below; an item nobody is    *)
(* changing is on the levels it was made for, and has no other pointers.   *)
Levelled(L) ==
  /\ L \in [Levels -> SUBSET DOMAIN item]
  /\ \A i \in Levels : Chain(L[i], i)
  /\ \A i, j \in Levels : i <= j => L[j] \subseteq L[i]
  /\ \A x \in L[0] \ Handled, i \in Levels :
       /\ x \in L[i] <=> i <= item[x].level
       /\ Stored(x, i) => x \in L[i]

(* What is allocated is linked, cached or in the hands of the writer.      *)
Accounted(L) ==
  /\ DOMAIN item = L[0] \cup deleted \cup Handled
  /\ deleted \cap (L[0] \cup Handled) = {}
  /\ IsFiniteSet(deleted) /\ cached = Cardinality(deleted)

(* An item before the key of t's call, on which a walk at level i may stand.*)
Foothold(t, x, i, G) ==
  /\ x \in G \ {TailItem} /\ Stored(x, i)
  /\ x = Header \/ Key(x) < call[t].key

(* A thread that searches: skipFind and the traversal of skipLock.         *)
ReaderOK(t, G) ==
  pc[t] \in {"reading", "wlock"} =>
    /\ Foothold(t, reg[t].x, reg[t].i, G)
    /\ reg[t].y \in G
    /\ pc[t] = "wlock" => reg[t].step = "examine"
    /\ pc[t] = "reading" => reg[t].step \in {"walk", "found", "next"}
    /\ reg[t].step = "found" => reg[t].i = 0 /\ Key(reg[t].y) >= call[t].key
    /\ reg[t].step = "next" => call[t].op = "next"
    /\ reg[t].step = "examine" => reg[t].i = 0

(* The items skipLock found on its way down.                               *)
SavesOK(t, G) ==
  pc[t] \in {"reading", "wlock", "writing"} =>
    \A i \in Levels : reg[t].save[i] # Wild => Foothold(t, reg[t].save[i], i, G)

(* The writer between two of its stores.                                   *)
Inserting(t, L) ==
  LET y == reg[t].y
      i == reg[t].i
  IN  /\ call[t].op \in {"insert", "update"}
      /\ y \in Blocks \cap DOMAIN item /\ Key(y) = call[t].key
      /\ i <= item[y].level /\ item[y].level <= topLevel
      /\ \A j \in Levels : y \in L[j] <=> j < i
      /\ \A j \in Levels : Stored(y, j) <=> j < i \/ (j = i /\ reg[t].step = "publish")
      /\ \A x \in L[0] : Key(x) = Key(y) => x = y

Deleting(t, G, L) ==
  LET y == reg[t].y
      i == reg[t].i
  IN  /\ call[t].op = "delete"
      /\ y \in Blocks \cap G /\ Key(y) = call[t].key
      /\ \A j \in Levels : y \in L[j] <=> j < i \/ (j = i /\ reg[t].step = "unlink")
      /\ \A j \in 0 .. i : Stored(y, j)

(* The place in the chain at which the writer stores.                      *)
Place(t, L) ==
  LET r == reg[t]
  IN  /\ r.x \in L[r.i] \ {TailItem}
      /\ Key(r.x) < Key(r.y) /\ Key(r.y) <= Key(Next(r.x, r.i))
      /\ r.step \in {"publish", "backlink"} => Next(r.y, r.i) = Next(r.x, r.i)

WriterOK(t, G, L) ==
  pc[t] = "writing" =>
    /\ reg[t].step \in {"examine", "forward", "publish", "unlink", "backlink"}
    /\ {reg[t].x, reg[t].y} \subseteq DOMAIN item
    /\ reg[t].step = "examine" => reg[t].i = 0 /\ Foothold(t, reg[t].x, 0, G)
    /\ reg[t].step # "examine" => \A i \in Levels : reg[t].save[i] # Wild
    /\ reg[t].step \in {"forward", "publish"} => Inserting(t, L)
    /\ reg[t].step \in {"unlink", "backlink"} => Deleting(t, G, L)
    /\ reg[t].step = "forward" /\ reg[t].i = 0 => Place(t, L)
    /\ reg[t].step \in {"publish", "backlink"} => Place(t, L)

(* What a thread keeps that is in none of these places.                    *)
OutsideOK(t, G) ==
  pc[t] \notin {"reading", "wlock", "writing"} =>
    /\ reg[t].x = Header /\ reg[t].save = [i \in Levels |-> Wild]
    /\ reg[t].step = "walk" \/ (pc[t] = "runlock" /\ reg[t].step = "lock")
    /\ reg[t].step = "walk" => reg[t].y = Header
    /\ reg[t].step = "lock" => reg[t].y \in G /\ Map!IsSearch(call[t]) /\ call[t].plock

(* The call of a thread is one of its program and fits where it is.        *)
CallOK(t) ==
  /\ pc[t] \in {"rlock", "rwait", "rwoken"} \cup ReadSection => call[t] # Map!NoCall
  /\ pc[t] \in {"wlock", "hint"} \cup WriteSection => ~Map!IsSearch(call[t])
  /\ call[t] # Map!NoCall /\ Map!IsSearch(call[t]) /\ call[t].plock
       /\ pc[t] \in {"rlock", "rwait", "rwoken", "reading", "runlock"} => held[t] = {}

(* No level above levelHint is in use, and levelHint is, except where an   *)
(* update is to adjust it.                                                 *)
Changing(ops) ==
  \E t \in At({"writing", "hint"}) :
    call[t].op \in ops /\ (pc[t] = "writing" => reg[t].step # "examine")
HintOK ==
  /\ \A i \in Levels : i > topLevel => Next(Header, i) = TailItem
  /\ ~Changing({"insert", "update"}) =>
       \A i \in Levels : i > levelHint => Next(Header, i) = TailItem
  /\ ~Changing({"delete"}) /\ levelHint > 0 => Next(Header, levelHint) # TailItem

ThreadOK(t, G, L) ==
  /\ CallOK(t) /\ ReaderOK(t, G) /\ SavesOK(t, G)
  /\ WriterOK(t, G, L) /\ OutsideOK(t, G)

Shape(G, L) ==
  /\ HeapOK /\ Levelled(L) /\ Walkable(G, L) /\ Accounted(L) /\ LocksExact /\ HintOK
  /\ \A t \in Threads : ThreadOK(t, G, L)

ListInv == LockInv /\ \E G, L : Shape(G, L)

-----------------------------------------------------------------------------
(* The list under its locks                                                *)

(* Every step of the list is a step of the locking protocol, or does not   *)
(* touch its variables.                                                    *)
LEMMA StepIsLocked ==
  ASSUME NEW t \in Threads, Step(t)
  PROVE  Begin(t) \/ Run(t) \/ SpuriousWakeup(t) \/ UNCHANGED lockVars
<1> USE DEF Run
<1>1. CASE BeginCall(t)
  BY <1>1 DEF BeginCall
<1>2. CASE EnterRead(t)
  BY <1>2 DEF EnterRead
<1>3. CASE Walk(t)
  BY <1>3 DEF Walk
<1>4. CASE FollowNext(t)
  BY <1>4 DEF FollowNext
<1>5. CASE FinishSearch(t)
  BY <1>5 DEF FinishSearch
<1>6. CASE LeaveRead(t)
  BY <1>6 DEF LeaveRead
<1>7. CASE Return(t)
  BY <1>7 DEF Return
<1>8. CASE Release(t)
  BY <1>8 DEF Release
<1>9. CASE Traversed(t)
  BY <1>9 DEF Traversed
<1>10. CASE InsertFound(t)
  BY <1>10 DEF InsertFound, EndEarly
<1>11. CASE NewItem(t)
  BY <1>11 DEF NewItem, EndEarly
<1>12. CASE Forward(t)
  BY <1>12 DEF Forward
<1>13. CASE Publish(t)
  BY <1>13 DEF Publish
<1>14. CASE DeleteMissing(t)
  BY <1>14 DEF DeleteMissing, EndEarly
<1>15. CASE DeleteFound(t)
  BY <1>15 DEF DeleteFound
<1>16. CASE Unlink(t)
  BY <1>16 DEF Unlink
<1>17. CASE Backlink(t)
  BY <1>17 DEF Backlink
<1>18. CASE RaiseHint(t)
  BY <1>18 DEF RaiseHint
<1>19. CASE LowerHint(t)
  BY <1>19 DEF LowerHint
<1>20. CASE FinishUpdate(t)
  BY <1>20 DEF FinishUpdate
<1>21. CASE Flush(t)
  BY <1>21 DEF Flush
<1>22. CASE Synchronize(t)
  BY <1>22 DEF Synchronize
<1> QED
  BY <1>1, <1>2, <1>3, <1>4, <1>5, <1>6, <1>7, <1>8, <1>9, <1>10, <1>11,
     <1>12, <1>13, <1>14, <1>15, <1>16, <1>17, <1>18, <1>19, <1>20, <1>21,
     <1>22 DEF Step

(* The list takes and releases its locks as the protocol does.             *)
THEOREM ListFollowsLocks == ListSpec => LockSpec
<1>1. ListInit => LockInit
  BY DEF ListInit
<1>2. ASSUME [ListNext]_vars PROVE [LockNext]_lockVars
  <2>1. CASE UNCHANGED vars
    BY <2>1 DEF vars
  <2>2. ASSUME NEW t \in Threads, Step(t) PROVE [LockNext]_lockVars
    BY <2>2, StepIsLocked DEF LockNext
  <2> QED
    BY <1>2, <2>1, <2>2 DEF ListNext
<1> QED
  BY <1>1, <1>2, PTL DEF ListSpec, LockSpec

(* "at this point no readers/writers are active" (skiplist.c:227), for the *)
(* whole list and two threads without spurious wakeups.                    *)
THEOREM ListFlushesAlone ==
  ASSUME Pair
  PROVE  ListSpec => []FlushAlone
<1>1. LockSpec => []FlushAlone
  BY Pair, FlushAloneInPair
<1> QED
  BY <1>1, ListFollowsLocks, PTL

-----------------------------------------------------------------------------
(* Keys                                                                    *)

(* The tail sorts after every key, the header (key 0) before.              *)
LEMMA TailKeyIsLast ==
  /\ Keys \subseteq Nat \ {0}
  /\ TailKey \in Nat
  /\ \A k \in Keys \cup {0} : k < TailKey
<1> DEFINE IsLast(k) == \A l \in Keys : l <= k
           last == CHOOSE k \in Keys : IsLast(k)
<1>1. Keys \subseteq Nat \ {0} /\ IsFiniteSet(Keys) /\ Keys # {}
  BY ListAssumption
<1>2. last \in Keys /\ IsLast(last)
  BY <1>1, FiniteHasLast
<1>3. TailKey = 1 + last
  BY DEF TailKey
<1> HIDE DEF last
<1> QED
  BY <1>1, <1>2, <1>3

-----------------------------------------------------------------------------
(* Walks                                                                   *)

(* Where one gets to from x, going on from each item in On to the next.    *)
Reach(D, On, next, x) ==
  {z \in D : \A S \in SUBSET D :
     x \in S /\ (\A n \in S \cap On : next[n] \in S) => z \in S}

(* Reach is a way of going on: x, and what can be reached from next[x].    *)
LEMMA ReachUnfolds ==
  ASSUME NEW D, NEW On \in SUBSET D, NEW next, \A n \in On : next[n] \in D,
         NEW x \in D
  PROVE  Reach(D, On, next, x)
           = {x} \cup IF x \in On THEN Reach(D, On, next, next[x]) ELSE {}
<1> DEFINE Closed(S) == \A n \in S \cap On : next[n] \in S
           R == Reach(D, On, next, x)
           Q == IF x \in On THEN Reach(D, On, next, next[x]) ELSE {}
<1>1. R = {z \in D : \A S \in SUBSET D : x \in S /\ Closed(S) => z \in S}
  BY DEF Reach
<1>2. x \in On => Q = {z \in D : \A S \in SUBSET D : next[x] \in S /\ Closed(S) => z \in S}
  BY DEF Reach
<1>3. {x} \cup Q \subseteq R
  BY <1>1, <1>2
<1>4. {x} \cup Q \in SUBSET D
  BY <1>2
<1>5. Closed({x} \cup Q)
  <2>1. ASSUME x \in On PROVE next[x] \in Q
    BY <1>2, <2>1
  <2>2. ASSUME NEW n \in Q \cap On PROVE next[n] \in Q
    BY <1>2, <2>2
  <2> QED
    BY <2>1, <2>2
<1>6. R \subseteq {x} \cup Q
  <2> HIDE DEF Q, R, Closed
  <2> QED
    BY <1>1, <1>4, <1>5
<1> QED
  BY <1>3, <1>6

(* The recursive definitions of Linked and Closest have solutions.         *)
SetsOf(D, On, next, f) == f = [n \in D |-> {n} \cup IF n \in On THEN f[next[n]] ELSE {}]
EndsOf(D, On, next, f) == f = [n \in D |-> IF n \in On THEN f[next[n]] ELSE n]

(* There is a function that collects the items along the pointers ...      *)
LEMMA SetsAlong ==
  ASSUME NEW D, NEW On \in SUBSET D, NEW next, \A n \in On : next[n] \in D
  PROVE  \E f : SetsOf(D, On, next, f)
<1> DEFINE f == [n \in D |-> Reach(D, On, next, n)]
<1>1. \A n \in D : f[n] = {n} \cup IF n \in On THEN f[next[n]] ELSE {}
  BY ReachUnfolds
<1> HIDE DEF f
<1>2. f = [n \in D |-> f[n]]
  BY DEF f
<1>3. SetsOf(D, On, next, f)
  BY <1>1, <1>2 DEF SetsOf
<1> QED
  BY <1>3

(* ... and one that finds the end of the walk.                             *)
LEMMA EndsAlong ==
  ASSUME NEW D, NEW On \in SUBSET D, NEW next, \A n \in On : next[n] \in D
  PROVE  \E f : EndsOf(D, On, next, f)
<1> DEFINE Ends(n) == Reach(D, On, next, n) \ On
           f == [n \in D |-> CHOOSE z : z \in Ends(n)]
<1>1. ASSUME NEW n \in D, n \in On PROVE Ends(n) = Ends(next[n])
  BY <1>1, ReachUnfolds
<1>2. ASSUME NEW n \in D, n \notin On PROVE Ends(n) = {n}
  BY <1>2, ReachUnfolds
<1> HIDE DEF Ends
<1>3. \A n \in D : f[n] = IF n \in On THEN f[next[n]] ELSE n
  BY <1>1, <1>2
<1> HIDE DEF f
<1>4. f = [n \in D |-> f[n]]
  BY DEF f
<1>5. EndsOf(D, On, next, f)
  BY <1>3, <1>4 DEF EndsOf
<1> QED
  BY <1>5

(* skipClosest goes on while the next item is lower.                       *)
LEMMA ClosestUnfolds ==
  ASSUME NEW k, NEW i
  PROVE  \A x \in DOMAIN item :
           Closest(x, k, i) = IF Lower(x, k, i) THEN Closest(Next(x, i), k, i) ELSE x
<1> DEFINE D == DOMAIN item
           On == {n \in D : Lower(n, k, i)}
           next == [n \in D |-> Next(n, i)]
           Solves(f) == f = [n \in D |-> IF Lower(n, k, i) THEN f[Next(n, i)] ELSE n]
           from == CHOOSE f : Solves(f)
<1>1. \E f : EndsOf(D, On, next, f)
  <2>1. On \in SUBSET D /\ \A n \in On : next[n] \in D
    BY DEF Lower
  <2> HIDE DEF On, next, D
  <2> QED
    BY <2>1, EndsAlong
<1>2. \E f : Solves(f)
  <2>1. PICK f : EndsOf(D, On, next, f)
    BY <1>1
  <2>2. Solves(f)
    BY <2>1 DEF EndsOf
  <2> QED
    BY <2>2
<1>3. \A x : Closest(x, k, i) = from[x]
  BY DEF Closest
<1> HIDE DEF Solves
<1>4. Solves(from)
  BY <1>2
<1> HIDE DEF from
<1>5. \A x \in D : from[x] = IF Lower(x, k, i) THEN from[Next(x, i)] ELSE x
  BY <1>4 DEF Solves
<1> QED
  BY <1>3, <1>5

(* If there is a chain at level i, it is what is linked there.             *)
LEMMA LinkedIsChain ==
  ASSUME NEW i \in Levels, NEW S \in SUBSET DOMAIN item, Chain(S, i), HeapOK
  PROVE  Linked(i) = S
<1> DEFINE D == DOMAIN item
           On == {n \in D : Grows(n, i)}
           next == [n \in D |-> Next(n, i)]
           Solves(f) == f = [n \in D |-> {n} \cup IF Grows(n, i) THEN f[Next(n, i)] ELSE {}]
           from == CHOOSE f : Solves(f)
<1>1. \E f : SetsOf(D, On, next, f)
  <2>1. On \in SUBSET D /\ \A n \in On : next[n] \in D
    BY DEF Grows
  <2> HIDE DEF On, next, D
  <2> QED
    BY <2>1, SetsAlong
<1>2. \E f : Solves(f)
  <2>1. PICK f : SetsOf(D, On, next, f)
    BY <1>1
  <2>2. Solves(f)
    BY <2>1 DEF SetsOf
  <2> QED
    BY <2>2
<1>3. Linked(i) = from[Header]
  BY DEF Linked
<1> HIDE DEF Solves
<1>4. Solves(from)
  BY <1>2
<1> HIDE DEF from
<1>5. \A x \in D : from[x] = {x} \cup IF Grows(x, i) THEN from[Next(x, i)] ELSE {}
  BY <1>4 DEF Solves
<1> DEFINE Rest(x) == {z \in S : Key(x) <= Key(z)}
           Bad == {x \in S : from[x] # Rest(x)}
           Ranks == {TailKey - Key(x) : x \in Bad}
<1>6. /\ Header \in S /\ TailItem \in S /\ TailItem \in D /\ S \subseteq D
      /\ Key(Header) = 0 /\ Key(TailItem) = TailKey /\ TailKey \in Nat
      /\ Next(TailItem, i) = Wild /\ Wild \notin D
      /\ \A x \in D : Key(x) \in Nat /\ Key(x) <= TailKey
  BY TailKeyIsLast, ListAssumption DEF HeapOK, Chain, Key, Nodes, Node
<1>7. /\ \A x \in S \ {TailItem} : Next(x, i) \in S /\ Key(x) < Key(Next(x, i))
      /\ \A x \in S \ {TailItem}, z \in S : Key(x) < Key(z) => Key(Next(x, i)) <= Key(z)
      /\ \A x, z \in S : Key(x) = Key(z) => x = z
  BY DEF Chain
<1>8. ASSUME Bad # {} PROVE FALSE
  <2>1. Ranks \in SUBSET Nat /\ Ranks # {}
    BY <1>6, <1>8
  <2>2. Min(Ranks) \in Ranks /\ \A n \in Ranks : Min(Ranks) <= n
    <3> HIDE DEF Ranks
    <3> QED
      BY <2>1, Least
  <2>3. PICK x \in Bad : \A z \in Bad : TailKey - Key(x) <= TailKey - Key(z)
    BY <2>2
  <2>4. \A z \in S : Key(x) < Key(z) => from[z] = Rest(z)
    BY <1>6, <2>3
  <2>5. CASE x = TailItem
    <3>1. from[x] = {x}
      BY <1>5, <1>6, <2>5 DEF Grows
    <3>2. Rest(x) = {x}
      BY <1>6, <1>7, <2>5
    <3> QED
      BY <2>3, <3>1, <3>2
  <2>6. CASE x # TailItem
    <3>1. Next(x, i) \in S /\ Key(x) < Key(Next(x, i))
      BY <1>7, <2>6
    <3>2. from[x] = {x} \cup Rest(Next(x, i))
      BY <1>5, <1>6, <2>4, <3>1 DEF Grows
    <3>3. Rest(x) = {x} \cup Rest(Next(x, i))
      <4>1. ASSUME NEW z \in S, Key(x) <= Key(z)
            PROVE  z = x \/ Key(Next(x, i)) <= Key(z)
        BY <1>6, <1>7, <4>1
      <4>2. ASSUME NEW z \in S, Key(Next(x, i)) <= Key(z)
            PROVE  Key(x) <= Key(z)
        BY <1>6, <3>1, <4>2
      <4> QED
        BY <1>6, <4>1, <4>2
    <3> QED
      BY <2>3, <3>2, <3>3
  <2> QED
    BY <2>5, <2>6
<1>9. from[Header] = Rest(Header)
  BY <1>6, <1>8
<1> QED
  BY <1>3, <1>6, <1>9

(* skipClosest, from wherever a walk at level i stands before key k, ends  *)
(* at the place of k in the chain.                                         *)
LEMMA ClosestIsPlace ==
  ASSUME NEW G, NEW L, HeapOK, Levelled(L), Walkable(G, L),
         NEW i \in Levels, NEW k \in Keys, \A n \in G : ~Moving(n, i),
         NEW x \in G \ {TailItem}, Stored(x, i), Key(x) < k
  PROVE  LET p == Closest(x, k, i)
         IN  p \in L[i] \ {TailItem} /\ Key(p) < k /\ k <= Key(Next(p, i))
<1> DEFINE C(n) == Closest(n, k, i)
           Good(n) == /\ C(n) \in L[i] \ {TailItem} /\ Key(C(n)) < k
                      /\ k <= Key(Next(C(n), i))
           Bad == {n \in L[i] : Key(n) < k /\ ~Good(n)}
           Far == {n \in G \ {TailItem} : Stored(n, i) /\ Key(n) < k /\ ~Good(n)}
<1>1. /\ TailItem \in DOMAIN item /\ Key(TailItem) = TailKey /\ TailKey \in Nat
      /\ k \in Nat /\ k < TailKey
      /\ \A n \in DOMAIN item : Key(n) \in Nat /\ Key(n) <= TailKey
  BY TailKeyIsLast DEF HeapOK, Key, Nodes, Node
<1>2. /\ L[i] \subseteq DOMAIN item /\ G \subseteq DOMAIN item
      /\ \A n \in L[i] \ {TailItem} : Next(n, i) \in L[i] /\ Key(n) < Key(Next(n, i))
  BY DEF Levelled, Chain, Walkable
<1>3. \A n \in DOMAIN item : C(n) = IF Lower(n, k, i) THEN C(Next(n, i)) ELSE n
  BY ClosestUnfolds
<1> HIDE DEF C
<1>4. ASSUME Bad # {} PROVE FALSE
  <2> DEFINE Ranks == {TailKey - Key(n) : n \in Bad}
  <2>1. Ranks \in SUBSET Nat /\ Ranks # {}
    BY <1>1, <1>2, <1>4
  <2>2. Min(Ranks) \in Ranks /\ \A n \in Ranks : Min(Ranks) <= n
    <3> HIDE DEF Ranks
    <3> QED
      BY <2>1, Least
  <2>3. PICK n \in Bad : \A z \in Bad : TailKey - Key(n) <= TailKey - Key(z)
    BY <2>2
  <2>4. n # TailItem /\ Next(n, i) \in L[i] /\ Key(n) < Key(Next(n, i))
    BY <1>1, <1>2, <2>3
  <2>5. CASE Key(Next(n, i)) < k
    <3>1. Next(n, i) \notin Bad
      BY <1>1, <1>2, <2>3, <2>4
    <3>2. C(n) = C(Next(n, i))
      BY <1>2, <1>3, <2>3, <2>4, <2>5 DEF Lower
    <3> QED
      BY <2>3, <2>4, <2>5, <3>1, <3>2
  <2>6. CASE ~(Key(Next(n, i)) < k)
    <3>1. C(n) = n
      BY <1>2, <1>3, <2>3, <2>6 DEF Lower
    <3> QED
      BY <1>1, <1>2, <2>3, <2>4, <2>6, <3>1
  <2> QED
    BY <2>5, <2>6
<1>5. ASSUME Far # {} PROVE FALSE
  <2> DEFINE Ranks == {Key(n) : n \in Far}
  <2>1. Ranks \in SUBSET Nat /\ Ranks # {}
    BY <1>1, <1>2, <1>5
  <2>2. Min(Ranks) \in Ranks /\ \A n \in Ranks : Min(Ranks) <= n
    <3> HIDE DEF Ranks
    <3> QED
      BY <2>1, Least
  <2>3. PICK n \in Far : \A z \in Far : Key(n) <= Key(z)
    BY <2>2
  <2>4. n \notin L[i]
    BY <1>4, <2>3
  <2>5. /\ Next(n, i) \in G /\ Key(Next(n, i)) < Key(n)
        /\ Next(n, i) # TailItem => Stored(Next(n, i), i)
    BY <2>3, <2>4 DEF Walkable
  <2>6. Next(n, i) \in G \ {TailItem} /\ Key(Next(n, i)) < k /\ n \in DOMAIN item
    BY <1>1, <1>2, <2>3, <2>5
  <2>7. Next(n, i) \notin Far
    BY <1>1, <1>2, <2>3, <2>5, <2>6
  <2>8. C(n) = C(Next(n, i))
    BY <1>2, <1>3, <2>6 DEF Lower
  <2> QED
    BY <2>3, <2>5, <2>6, <2>7, <2>8
<1>6. Good(x)
  BY <1>5
<1> QED
  BY <1>6 DEF C

-----------------------------------------------------------------------------
(* What a step leaves as it was                                            *)

(* Levels are counted from 0.                                              *)
LEMMA LevelsAreNumbers ==
  /\ 0 \in Levels /\ MaxLevel \in Levels /\ Levels \subseteq Nat
  /\ \A i \in Levels : 0 .. i \subseteq Levels /\ i <= MaxLevel
BY ListAssumption DEF Levels

(* No pointer, key or level changes.                                       *)
SameLinks ==
  /\ DOMAIN item' = DOMAIN item
  /\ \A x \in DOMAIN item : Key(x)' = Key(x) /\ item'[x].level = item[x].level
                            /\ \A i \in Levels : Next(x, i)' = Next(x, i)

(* Where threads could stand they can stand still.                         *)
Extends(G, G2) ==
  /\ G \subseteq G2
  /\ \A x \in G : Key(x)' = Key(x) /\ \A i \in Levels : Stored(x, i) => Stored(x, i)'

(* One store changes one pointer.                                          *)
LEMMA LinkEffect ==
  ASSUME HeapOK, NEW x \in DOMAIN item, NEW i \in Levels, NEW y \in Nodes \cup {Wild},
         item' = Link(x, i, y)
  PROVE  /\ DOMAIN item' = DOMAIN item
         /\ item' \in [DOMAIN item -> Node]
         /\ \A z \in DOMAIN item :
              /\ Key(z)' = Key(z) /\ item'[z].level = item[z].level
              /\ item'[z].locks = item[z].locks /\ item'[z].value = item[z].value
              /\ \A j \in Levels : Next(z, j)' = IF z = x /\ j = i THEN y ELSE Next(z, j)
<1> DEFINE n == [item[x] EXCEPT !.next[i] = y]
<1>1. item[x] \in Node
  BY DEF HeapOK
<1>2. item[x].next \in [Levels -> Nodes \cup {Wild}]
  BY <1>1 DEF Node
<1>3. /\ n \in Node /\ n.key = item[x].key /\ n.level = item[x].level
      /\ n.locks = item[x].locks /\ n.value = item[x].value
      /\ \A j \in Levels : n.next[j] = IF j = i THEN y ELSE item[x].next[j]
  BY <1>1, <1>2 DEF Node
<1>4. item' = [item EXCEPT ![x] = n]
  BY DEF Link
<1> HIDE DEF n
<1> QED
  BY <1>3, <1>4 DEF HeapOK, Key, Next

(* A chain whose keys and pointers stay is a chain.                        *)
LEMMA ChainStays ==
  ASSUME NEW i, NEW S, Chain(S, i),
         \A x \in S : Key(x)' = Key(x),
         \A x \in S \ {TailItem} : Next(x, i)' = Next(x, i)
  PROVE  Chain(S, i)'
<1>1. \A x \in S \ {TailItem} : Next(x, i) \in S /\ Key(Next(x, i))' = Key(Next(x, i))
  BY DEF Chain
<1> QED
  BY <1>1 DEF Chain

(* Only one thread is between writeLock and writeUnlock.                   *)
LEMMA OneWriter ==
  ASSUME LockInv, NEW t \in Threads, pc[t] \in WriteSection
  PROVE  \A u \in Threads \ {t} : pc[u] \notin WriteSection
BY LockAssumption DEF LockInv, MutexesOwned

(* What thread u relies on stays true while another thread takes a step.   *)
LEMMA OthersStay ==
  ASSUME NEW G, NEW L, NEW G2, NEW L2, NEW u \in Threads, ThreadOK(u, G, L),
         G \subseteq DOMAIN item, Extends(G, G2), HeapOK, Levelled(L),
         reg'[u] = reg[u], call'[u] = call[u], held'[u] = held[u],
         \/ pc'[u] = pc[u]
         \/ {pc[u], pc'[u]} = {"rwait", "rwoken"} \/ {pc[u], pc'[u]} = {"fwait", "fwoken"},
         pc[u] = "writing" => SameLinks /\ L2 = L /\ topLevel <= topLevel' /\ topLevel' \in Nat
  PROVE  ThreadOK(u, G2, L2)'
<1> USE DEF ReadSection, WriteSection
<1>1. CallOK(u)'
  BY DEF ThreadOK, CallOK
<1>2. \A x, i : i \in Levels /\ Foothold(u, x, i, G) => Foothold(u, x, i, G2)'
  BY DEF Foothold, Extends
<1>3. ReaderOK(u, G2)'
  <2>1. reg[u].i \in Levels
    BY DEF HeapOK, Local
  <2>2. Key(reg[u].y)' = Key(reg[u].y) \/ pc[u] \notin {"reading", "wlock"}
    BY DEF ThreadOK, ReaderOK, Extends
  <2> QED
    BY <1>2, <2>1, <2>2 DEF ThreadOK, ReaderOK, Extends
<1>4. SavesOK(u, G2)'
  BY <1>2 DEF ThreadOK, SavesOK
<1>5. OutsideOK(u, G2)'
  BY DEF ThreadOK, OutsideOK, Extends
<1>6. WriterOK(u, G2, L2)'
  <2>1. CASE pc[u] # "writing"
    BY <2>1 DEF WriterOK
  <2>2. CASE pc[u] = "writing"
    <3>1. SameLinks /\ L2 = L /\ topLevel <= topLevel' /\ topLevel' \in Nat /\ pc'[u] = "writing"
      BY <2>2
    <3>2. WriterOK(u, G, L) /\ 0 \in Levels /\ reg[u].i \in Levels
      BY ListAssumption DEF ThreadOK, Levels, HeapOK, Local
    <3>3. ASSUME Inserting(u, L), L[0] \subseteq DOMAIN item PROVE Inserting(u, L2)'
      <4>1. reg[u].y \in DOMAIN item /\ topLevel \in Nat /\ item[reg[u].y].level \in Nat
        BY <3>3 DEF Inserting, HeapOK, Node, Levels
      <4>2. \A j \in Levels : Stored(reg[u].y, j)' <=> Stored(reg[u].y, j)
        BY <3>1, <4>1 DEF SameLinks, Stored
      <4> QED
        BY <3>1, <3>3, <4>1, <4>2 DEF Inserting, SameLinks
    <3>4. ASSUME Deleting(u, G, L) PROVE Deleting(u, G2, L2)'
      <4>1. reg[u].y \in DOMAIN item
        BY <3>4 DEF Deleting
      <4>2. \A j \in Levels : Stored(reg[u].y, j)' <=> Stored(reg[u].y, j)
        BY <3>1, <4>1 DEF SameLinks, Stored
      <4>3. 0 .. reg[u].i \subseteq Levels
        BY <3>2, LevelsAreNumbers
      <4> QED
        BY <3>1, <3>4, <4>1, <4>2, <4>3 DEF Deleting, SameLinks, Extends
    <3>5. ASSUME Place(u, L), L[reg[u].i] \subseteq DOMAIN item, reg[u].y \in DOMAIN item
          PROVE  Place(u, L2)'
      <4>1. reg[u].x \in DOMAIN item /\ Next(reg[u].x, reg[u].i) \in DOMAIN item
        BY <3>2, <3>5 DEF Place, Levelled, Chain
      <4> QED
        BY <3>1, <3>2, <3>5, <4>1 DEF Place, SameLinks
    <3>6. reg[u].step \in {"forward", "publish"} => reg[u].y \in DOMAIN item
      BY <2>2, <3>2 DEF WriterOK, Inserting
    <3>7. reg[u].step \in {"unlink", "backlink"} => reg[u].y \in DOMAIN item
      BY <2>2, <3>2 DEF WriterOK, Deleting
    <3>8. {reg'[u].x, reg'[u].y} \subseteq DOMAIN item'
      BY <2>2, <3>1, <3>2 DEF WriterOK, SameLinks
    <3> QED
      BY <1>2, <2>2, <3>1, <3>2, <3>3, <3>4, <3>5, <3>6, <3>7, <3>8 DEF WriterOK, Levelled
  <2> QED
    BY <2>1, <2>2
<1> QED
  BY <1>1, <1>3, <1>4, <1>5, <1>6 DEF ThreadOK

(* A step that stores no pointer.                                          *)
LEMMA QuietStep ==
  ASSUME NEW G, NEW L, Shape(G, L), NEW t \in Threads,
         SameLinks, deleted' = deleted, cached' = cached,
         HeapOK', LocksExact', HintOK',
         topLevel <= topLevel',
         \A u \in Threads \ {t} :
           /\ reg'[u] = reg[u] /\ call'[u] = call[u] /\ held'[u] = held[u]
           /\ \/ pc'[u] = pc[u]
              \/ {pc[u], pc'[u]} = {"rwait", "rwoken"}
              \/ {pc[u], pc'[u]} = {"fwait", "fwoken"},
         ~Handles(t), ~Handles(t)', ThreadOK(t, G, L)'
  PROVE  Shape(G, L)'
<1> USE DEF Shape
<1>1. /\ 0 \in Levels /\ L[0] \subseteq DOMAIN item /\ G \subseteq DOMAIN item
      /\ L \in [Levels -> SUBSET DOMAIN item] /\ DOMAIN item' = DOMAIN item
  BY LevelsAreNumbers DEF Levelled, Walkable, SameLinks
<1>2. /\ \A x \in DOMAIN item : Key(x)' = Key(x) /\ item'[x].level = item[x].level
      /\ \A x \in DOMAIN item, i \in Levels :
           Next(x, i)' = Next(x, i) /\ (Stored(x, i)' <=> Stored(x, i))
  BY DEF SameLinks, Stored
<1>3. \A u \in Threads : ThreadOK(u, G, L)'
  <2>1. ASSUME NEW u \in Threads \ {t} PROVE ThreadOK(u, G, L)'
    <3>1. Extends(G, G)
      BY <1>1, <1>2 DEF Extends
    <3>2. topLevel' \in Nat
      BY LevelsAreNumbers DEF HeapOK
    <3> QED
      BY <1>1, <2>1, <3>1, <3>2, OthersStay
  <2> QED
    BY <2>1
<1>4. \A u \in Threads : Handles(u)' <=> Handles(u)
  BY DEF Handles
<1>5. Handled' = Handled
  <2>1. Handled = {reg[u].y : u \in {v \in Threads : Handles(v)}}
    BY DEF Handled, Handles, At
  <2>2. Handled' = {reg[u].y : u \in {v \in Threads : Handles(v)}}'
    BY DEF Handled, Handles, At
  <2>3. \A u \in Threads : Handles(u) => reg'[u] = reg[u]
    OBVIOUS
  <2> QED
    BY <1>4, <2>1, <2>2, <2>3
<1>6. \A x, i : Moving(x, i)' <=> Moving(x, i)
  <2>1. \A u \in Threads : pc[u] = "writing" /\ reg[u].step \in {"publish", "backlink"} => Handles(u)
    BY DEF Handles
  <2>2. \A u \in Threads : (pc[u] = "writing" /\ reg[u].step \in {"publish", "backlink"})' => Handles(u)'
    BY DEF Handles
  <2> QED
    BY <2>1, <2>2 DEF Moving
<1>7. Levelled(L)'
  <2>1. ASSUME NEW i \in Levels PROVE Chain(L[i], i)'
    <3>1. L[i] \subseteq DOMAIN item /\ Chain(L[i], i)
      BY <1>1 DEF Levelled
    <3> QED
      BY <1>2, <3>1, ChainStays
  <2> QED
    BY <1>1, <1>2, <1>5, <2>1 DEF Levelled
<1>8. Walkable(G, L)'
  BY <1>1, <1>2, <1>6, LevelsAreNumbers DEF Walkable
<1>9. Accounted(L)'
  BY <1>1, <1>5 DEF Accounted
<1> QED
  BY <1>3, <1>7, <1>8, <1>9

(* A step that leaves the list alone.                                      *)
Alone(t) ==
  \A u \in Threads \ {t} :
    /\ reg'[u] = reg[u] /\ call'[u] = call[u] /\ held'[u] = held[u]
    /\ \/ pc'[u] = pc[u]
       \/ {pc[u], pc'[u]} = {"rwait", "rwoken"}
       \/ {pc[u], pc'[u]} = {"fwait", "fwoken"}

(* A step of thread t that changes its own locals and its call only.       *)
LEMMA LocalStep ==
  ASSUME NEW G, NEW L, Shape(G, L), NEW t \in Threads, Alone(t),
         UNCHANGED <<item, topLevel, levelHint, deleted, held, client, cached>>,
         reg' \in [Threads -> Local],
         call' \in [Threads -> Calls \cup {Map!NoCall}],
         pc[t] \notin {"writing", "hint"} \/ Writing(t, "examine"),
         ~Handles(t)', ThreadOK(t, G, L)'
  PROVE  Shape(G, L)'
<1>1. HeapOK'
  BY DEF Shape, HeapOK, Key, Next
<1>2. LocksExact'
  BY DEF Shape, LocksExact
<1>3. \A ops : Changing(ops) => Changing(ops)'
  <2>1. SUFFICES ASSUME NEW ops, NEW u \in At({"writing", "hint"}), call[u].op \in ops,
                        pc[u] = "writing" => reg[u].step # "examine"
                 PROVE  Changing(ops)'
    BY DEF Changing
  <2>2. u # t /\ u \in Threads /\ pc[u] \in {"writing", "hint"}
    BY <2>1 DEF At, Writing
  <2>3. pc'[u] = pc[u] /\ reg'[u] = reg[u] /\ call'[u] = call[u]
    BY <2>2 DEF Alone
  <2> QED
    BY <2>1, <2>2, <2>3 DEF Changing, At
<1>4. HintOK'
  BY <1>3 DEF Shape, HintOK, Next
<1>5. SameLinks
  BY DEF SameLinks, Key, Next
<1>6. ~Handles(t)
  BY DEF Handles, Writing
<1>7. topLevel <= topLevel'
  BY LevelsAreNumbers DEF Shape, HeapOK
<1> QED
  BY <1>1, <1>2, <1>4, <1>5, <1>6, <1>7, QuietStep DEF Alone

-----------------------------------------------------------------------------
(* Searches                                                                *)

(* What the types of a call and of the locals of thread t give.            *)
LEMMA CallTypes ==
  ASSUME NEW c \in Calls
  PROVE  /\ c # Map!NoCall
         /\ c.op \in {"search", "next", "insert", "update", "delete"}
         /\ Map!IsSearch(c) <=> c.op \in {"search", "next"}
         /\ c.op # "next" => c.key \in Keys
         /\ c.key \in Keys \cup {0}
         /\ c.op \in {"insert", "update"} => c.value \in Values
BY DEF Calls, Map!NoCall, Map!IsSearch

(* A call begins: its locals are those of nobody yet.                      *)
LEMMA BeginCallStep ==
  ASSUME LockInv, NEW G, NEW L, Shape(G, L), NEW t \in Threads, BeginCall(t),
         UNCHANGED client
  PROVE  Shape(G, L)'
<1>1. /\ pc[t] = "idle" /\ pc' = [pc EXCEPT ![t] = "rlock"] /\ pc \in [Threads -> Locations]
      /\ reg' = [reg EXCEPT ![t] = [NoReg EXCEPT !.i = levelHint]]
      /\ UNCHANGED <<item, topLevel, levelHint, deleted, held, client, cached>>
  BY DEF BeginCall, Begin, Goto, Reg, LockInv, LockTypeOK, heapVars
<1>2. PICK c \in client[t] :
        /\ Map!IsSearch(c) /\ c.plock => held[t] = {}
        /\ call' = [call EXCEPT ![t] = c]
  BY DEF BeginCall
<1>3. c \in Calls
  BY <1>2, ListAssumption DEF Shape, HeapOK
<1> DEFINE r == [NoReg EXCEPT !.i = levelHint]
<1>4. /\ r \in Local /\ r.x = Header /\ r.y = Header /\ r.step = "walk"
      /\ r.save = [i \in Levels |-> Wild]
  BY LevelsAreNumbers DEF Shape, HeapOK, NoReg, Local, Nodes, StepNames, Levels
<1> HIDE DEF r
<1>5. reg' \in [Threads -> Local] /\ reg'[t] = r /\ call'[t] = c /\ pc'[t] = "rlock"
  BY <1>1, <1>2, <1>4 DEF Shape, HeapOK, r
<1>6. call' \in [Threads -> Calls \cup {Map!NoCall}]
  BY <1>2, <1>3 DEF Shape, HeapOK
<1>7. Alone(t)
  BY <1>1, <1>2 DEF Alone, Shape, HeapOK
<1>8. ThreadOK(t, G, L)'
  <2>1. CallOK(t)'
    BY <1>1, <1>2, <1>3, <1>5, CallTypes DEF CallOK, WriteSection
  <2>2. ReaderOK(t, G)' /\ SavesOK(t, G)' /\ WriterOK(t, G, L)'
    BY <1>5 DEF ReaderOK, SavesOK, WriterOK
  <2>3. OutsideOK(t, G)'
    BY <1>4, <1>5 DEF OutsideOK
  <2> QED
    BY <2>1, <2>2, <2>3 DEF ThreadOK
<1> QED
  BY <1>1, <1>5, <1>6, <1>7, <1>8, LocalStep DEF Handles

(* readLock lets a thread in, or makes it wait; a search starts at the     *)
(* header.                                                                 *)
LEMMA EnterReadStep ==
  ASSUME LockInv, NEW G, NEW L, Shape(G, L), NEW t \in Threads, EnterRead(t),
         UNCHANGED client
  PROVE  Shape(G, L)'
<1>1. /\ pc[t] \in {"rlock", "rwoken"} /\ pc \in [Threads -> Locations]
      /\ pc' = [pc EXCEPT ![t] = "reading"] \/ pc' = [pc EXCEPT ![t] = "rwait"]
      /\ reg' = IF Map!IsSearch(call[t]) THEN [reg EXCEPT ![t].i = levelHint] ELSE reg
      /\ UNCHANGED <<item, topLevel, levelHint, deleted, held, client, cached, call>>
  BY DEF EnterRead, ReadLock, ResumeReader, Goto, LockInv, LockTypeOK, heapVars, callVars
<1> DEFINE r == reg'[t]
<1>2. /\ reg[t] \in Local /\ reg[t].x = Header /\ reg[t].y = Header /\ reg[t].step = "walk"
      /\ reg[t].save = [i \in Levels |-> Wild]
  BY <1>1 DEF Shape, HeapOK, ThreadOK, OutsideOK
<1>3. levelHint \in Levels
  BY LevelsAreNumbers DEF Shape, HeapOK, Levels
<1>4. /\ reg' \in [Threads -> Local] /\ r \in Local /\ r.x = Header /\ r.y = Header
      /\ r.step = "walk" /\ r.save = [i \in Levels |-> Wild]
      /\ \A u \in Threads \ {t} : reg'[u] = reg[u]
  <2> DEFINE new == [reg[t] EXCEPT !.i = levelHint]
  <2>1. /\ new \in Local /\ new.x = Header /\ new.y = Header
        /\ new.step = "walk" /\ new.save = [i \in Levels |-> Wild]
    BY <1>2, <1>3 DEF Local
  <2>2. reg' = [reg EXCEPT ![t] = new] \/ reg' = reg
    BY <1>1
  <2> HIDE DEF new
  <2> QED
    BY <1>2, <2>1, <2>2 DEF Shape, HeapOK
<1> HIDE DEF r
<1>5. pc'[t] \in {"reading", "rwait"} /\ \A u \in Threads \ {t} : pc'[u] = pc[u]
  BY <1>1
<1>6. Alone(t)
  BY <1>1, <1>4, <1>5 DEF Alone
<1>7. ThreadOK(t, G, L)'
  <2>0. reg'[t] = r /\ call'[t] = call[t]
    BY <1>1 DEF r
  <2>1. CallOK(t)'
    BY <1>1, <1>5 DEF Shape, ThreadOK, CallOK, WriteSection, ReadSection
  <2>2. \A i \in Levels : Foothold(t, Header, i, G)'
    BY <1>1, LevelsAreNumbers, ListAssumption
    DEF Foothold, Shape, HeapOK, Levelled, Chain, Walkable, Stored, Next
  <2>3. Header \in G /\ r.i \in Levels
    BY <1>4, LevelsAreNumbers DEF Shape, Levelled, Chain, Walkable, Local
  <2>4. ReaderOK(t, G)'
    BY <1>4, <1>5, <2>0, <2>2, <2>3 DEF ReaderOK
  <2>5. SavesOK(t, G)' /\ WriterOK(t, G, L)'
    BY <1>4, <1>5, <2>0 DEF SavesOK, WriterOK
  <2>6. OutsideOK(t, G)'
    BY <1>4, <1>5, <2>0 DEF OutsideOK
  <2> QED
    BY <2>1, <2>4, <2>5, <2>6 DEF ThreadOK
<1> QED
  BY <1>1, <1>4, <1>5, <1>6, <1>7, LocalStep DEF Handles, Shape, HeapOK

(* Where a thread gets when it follows a pointer.                          *)
LEMMA Follow ==
  ASSUME NEW G, NEW L, Shape(G, L), NEW x \in G \ {TailItem}, NEW i \in Levels, Stored(x, i)
  PROVE  /\ Next(x, i) \in G /\ G \subseteq Nodes /\ G \subseteq DOMAIN item
         /\ Next(x, i) # TailItem => Stored(Next(x, i), i)
         /\ \A j \in 0 .. i : Stored(x, j)
BY DEF Shape, Walkable, HeapOK

(* A thread stays in or comes to a place outside the list.                 *)
LEMMA OutsideStep ==
  ASSUME NEW G, NEW L, Shape(G, L), NEW t \in Threads, Alone(t),
         UNCHANGED <<item, topLevel, levelHint, deleted, held, client, cached>>,
         reg' = reg, call' = call,
         pc[t] \notin {"reading", "wlock", "writing", "hint"},
         pc'[t] \notin {"reading", "wlock", "writing", "hint", "wunlock", "rlock"},
         pc'[t] \in {"rwait", "rwoken"} => pc[t] \in {"rlock", "rwait", "rwoken"},
         pc[t] = "runlock" => reg[t].step # "lock",
         pc'[t] = "runlock" => pc[t] = "wunlock"
  PROVE  Shape(G, L)'
<1>1. reg' \in [Threads -> Local] /\ call' \in [Threads -> Calls \cup {Map!NoCall}]
  BY DEF Shape, HeapOK
<1>2. ThreadOK(t, G, L)
  BY DEF Shape
<1>3. CallOK(t)'
  BY <1>2 DEF ThreadOK, CallOK, ReadSection, WriteSection
<1>4. ReaderOK(t, G)' /\ SavesOK(t, G)' /\ WriterOK(t, G, L)'
  BY DEF ReaderOK, SavesOK, WriterOK
<1>5. OutsideOK(t, G)'
  BY <1>2 DEF ThreadOK, OutsideOK
<1> QED
  BY <1>1, <1>3, <1>4, <1>5, LocalStep DEF ThreadOK, Handles

(* A step that only locks, unlocks, waits or signals leaves the list       *)
(* alone.                                                                  *)
LEMMA SynchronizeStep ==
  ASSUME LockInv, NEW G, NEW L, Shape(G, L), NEW t \in Threads, Synchronize(t),
         UNCHANGED client
  PROVE  Shape(G, L)'
<1>1. /\ UNCHANGED <<item, topLevel, levelHint, deleted, held, client, cached>>
      /\ reg' = reg /\ call' = call /\ pc \in [Threads -> Locations]
      /\ ThreadOK(t, G, L)
  BY DEF Synchronize, listVars, heapVars, callVars, LockInv, LockTypeOK, Shape, Signal,
    WriteLock, WriteUnlock, ReadBlock, ResumeFlusher, EndFlush, ReadUnblock,
    Broadcast, SpuriousWakeup
<1>2. CASE WriteLock(t)
  <2>1. pc[t] = "wlock" /\ pc' = [pc EXCEPT ![t] = "writing"]
    BY <1>2 DEF WriteLock, Goto
  <2>2. Alone(t) /\ pc'[t] = "writing" /\ reg' \in [Threads -> Local]
        /\ call' \in [Threads -> Calls \cup {Map!NoCall}]
    BY <1>1, <2>1 DEF Alone, Shape, HeapOK
  <2>3. \A x, i : Foothold(t, x, i, G)' <=> Foothold(t, x, i, G)
    BY <1>1 DEF Foothold, Stored, Next, Key
  <2>4. /\ reg[t].step = "examine" /\ reg[t].i = 0 /\ Foothold(t, reg[t].x, 0, G)'
        /\ \A i \in Levels : reg[t].save[i] # Wild => Foothold(t, reg[t].save[i], i, G)'
    BY <1>1, <2>1, <2>3 DEF ThreadOK, ReaderOK, SavesOK
  <2>4a. {reg'[t].x, reg'[t].y} \subseteq DOMAIN item'
    BY <1>1, <2>1 DEF ThreadOK, ReaderOK, Foothold, Shape, Walkable
  <2>5. CallOK(t)'
    BY <1>1, <2>1, <2>2 DEF ThreadOK, CallOK, ReadSection, WriteSection
  <2>6. ReaderOK(t, G)' /\ SavesOK(t, G)' /\ WriterOK(t, G, L)' /\ OutsideOK(t, G)'
    BY <1>1, <2>2, <2>4, <2>4a DEF ReaderOK, SavesOK, WriterOK, OutsideOK
  <2> QED
    BY <1>1, <2>1, <2>2, <2>4, <2>5, <2>6, LocalStep DEF ThreadOK, Handles
<1>3. CASE Signal(t)
  <2>1. pc[t] = "signal" /\ pc'[t] \in {"fblock", "idle"}
    BY <1>1, <1>3 DEF Signal, AfterReadUnlock, At
  <2>2. Alone(t)
    BY <1>1, <1>3 DEF Signal, At, Alone
  <2> QED
    BY <1>1, <2>1, <2>2, OutsideStep
<1>4. CASE Broadcast(t)
  <2>1. pc[t] = "broadcast" /\ pc'[t] = "idle"
    BY <1>1, <1>4 DEF Broadcast
  <2>2. Alone(t)
    BY <1>1, <1>4 DEF Broadcast, Alone
  <2> QED
    BY <1>1, <2>1, <2>2, OutsideStep
<1>5. CASE WriteUnlock(t) \/ ReadBlock(t) \/ ResumeFlusher(t) \/ EndFlush(t)
           \/ ReadUnblock(t) \/ SpuriousWakeup(t)
  <2>1. PICK from, to :
          /\ Goto(t, from, to)
          /\ <<from, to>> \in {<<"wunlock", "runlock">>, <<"fblock", "fwait">>,
               <<"fblock", "fflush">>, <<"fwoken", "fflush">>, <<"fdone", "unblock">>,
               <<"unblock", "broadcast">>, <<"rwait", "rwoken">>, <<"fwait", "fwoken">>}
    BY <1>5 DEF WriteUnlock, ReadBlock, ResumeFlusher, EndFlush, ReadUnblock, SpuriousWakeup
  <2>2. pc[t] = from /\ pc'[t] = to /\ \A u \in Threads \ {t} : pc'[u] = pc[u]
    BY <1>1, <2>1 DEF Goto
  <2>3. Alone(t)
    BY <1>1, <2>2 DEF Alone
  <2> QED
    BY <1>1, <2>1, <2>2, <2>3, OutsideStep
<1> QED
  BY <1>2, <1>3, <1>4, <1>5 DEF Synchronize

(* The thread t that is inside the list, and what it knows.                *)
LEMMA InsideFacts ==
  ASSUME LockInv, NEW G, NEW L, Shape(G, L), NEW t \in Threads,
         pc[t] \in {"reading", "wlock", "writing"}
  PROVE  /\ call[t] \in Calls /\ reg[t] \in Local /\ G \subseteq Nodes
         /\ pc \in [Threads -> Locations]
         /\ \A x \in G : Key(x) \in Nat
         /\ call[t].key \in Nat /\ Key(TailItem) \in Nat /\ Key(TailItem) > call[t].key
         /\ CallOK(t) /\ ReaderOK(t, G) /\ SavesOK(t, G) /\ WriterOK(t, G, L)
<1>1. /\ call[t] \in Calls \cup {Map!NoCall} /\ reg[t] \in Local /\ ThreadOK(t, G, L)
      /\ G \subseteq DOMAIN item /\ DOMAIN item \subseteq Nodes
  BY DEF Shape, HeapOK, Walkable
<1>2. call[t] \in Calls
  BY <1>1 DEF ThreadOK, CallOK, ReadSection
<1>3. call[t].key \in Keys \cup {0}
  BY <1>2, CallTypes
<1>4. call[t].key \in Nat /\ Key(TailItem) \in Nat /\ Key(TailItem) > call[t].key
  BY <1>3, TailKeyIsLast DEF Shape, HeapOK, Key
<1>5. \A x \in DOMAIN item : Key(x) \in Nat
  BY DEF Shape, HeapOK, Key, Node
<1> QED
  BY <1>1, <1>2, <1>4, <1>5 DEF ThreadOK, LockInv, LockTypeOK

(* Changing the locals field by field.                                     *)
LEMMA NewX ==
  ASSUME NEW r \in Local, NEW x \in Nodes
  PROVE  LET m == [r EXCEPT !.x = x]
         IN  m \in Local /\ m.x = x /\ m.y = r.y /\ m.i = r.i 
             /\ m.step = r.step /\ m.save = r.save
BY DEF Local

(* The same for the step of the call,                                      *)
LEMMA NewStep ==
  ASSUME NEW r \in Local, NEW step \in StepNames
  PROVE  LET m == [r EXCEPT !.step = step]
         IN  m \in Local /\ m.x = r.x /\ m.y = r.y /\ m.i = r.i 
             /\ m.step = step /\ m.save = r.save
BY DEF Local

(* for the item it is about,                                               *)
LEMMA NewY ==
  ASSUME NEW r \in Local, NEW y \in Nodes
  PROVE  LET m == [r EXCEPT !.y = y]
         IN  m \in Local /\ m.x = r.x /\ m.y = y /\ m.i = r.i
             /\ m.step = r.step /\ m.save = r.save
BY DEF Local

(* and for its level.                                                      *)
LEMMA NewI ==
  ASSUME NEW r \in Local, NEW i \in Levels
  PROVE  LET m == [r EXCEPT !.i = i]
         IN  m \in Local /\ m.x = r.x /\ m.y = r.y /\ m.i = i
             /\ m.step = r.step /\ m.save = r.save
BY DEF Local

(* A search follows a pointer, or goes one level down.                     *)
LEMMA WalkStep ==
  ASSUME LockInv, NEW G, NEW L, Shape(G, L), NEW t \in Threads, Walk(t),
         UNCHANGED client
  PROVE  Shape(G, L)'
<1> DEFINE r == reg[t]
           y == Next(r.x, r.i)
           n == reg'[t]
           Onward == Reg(t, [r EXCEPT !.x = y])
           Turn == Reg(t, [r EXCEPT
                 !.y = y,
                 !.i = IF r.i > 0 THEN r.i - 1 ELSE 0,
                 !.step = IF r.i > 0 THEN "walk" ELSE "found",
                 !.save = IF Map!IsSearch(call[t]) THEN @ ELSE [@ EXCEPT ![r.i] = r.x]])
<1>0. \/ Key(y) < call[t].key /\ Onward
      \/ Key(y) >= call[t].key /\ Turn
  BY DEF Walk
<1>1. /\ pc[t] = "reading" /\ r.step = "walk" /\ pc' = pc
      /\ UNCHANGED <<item, topLevel, levelHint, deleted, held, client, cached, call>>
  BY DEF Walk, lockVars, heapVars, callVars
<1>2. /\ call[t] \in Calls /\ r \in Local /\ G \subseteq Nodes
      /\ \A x \in G : Key(x) \in Nat
      /\ call[t].key \in Nat /\ Key(TailItem) \in Nat /\ Key(TailItem) > call[t].key
      /\ CallOK(t) /\ ReaderOK(t, G) /\ SavesOK(t, G)
  BY <1>1, InsideFacts
<1>3. /\ Foothold(t, r.x, r.i, G) /\ r.y \in G /\ r.i \in Levels
      /\ r.save \in [Levels -> Nodes \cup {Wild}] /\ r.x \in Nodes
      /\ \A i \in Levels : r.save[i] # Wild => Foothold(t, r.save[i], i, G)
      /\ reg \in [Threads -> Local]
  BY <1>1, <1>2 DEF ReaderOK, SavesOK, Foothold, Local, Shape, HeapOK
<1>4. /\ y \in G /\ y \in Nodes
      /\ y # TailItem => Stored(y, r.i)
      /\ \A j \in 0 .. r.i : Stored(r.x, j)
      /\ Key(y) \in Nat
  BY <1>2, <1>3, Follow DEF Foothold
<1> HIDE DEF y, r
<1>5. /\ reg' = [reg EXCEPT ![t] = n] /\ n \in Local
      /\ Foothold(t, n.x, n.i, G) /\ n.y \in G
      /\ n.step \in {"walk", "found"}
      /\ n.step = "found" => n.i = 0 /\ Key(n.y) >= call[t].key
      /\ \A i \in Levels : n.save[i] # Wild => Foothold(t, n.save[i], i, G)
  <2>1. CASE Key(y) < call[t].key /\ Onward
    <3> DEFINE m == [r EXCEPT !.x = y]
    <3>1. /\ m \in Local /\ m.x = y /\ m.y = r.y /\ m.i = r.i /\ m.step = r.step
          /\ m.save = r.save
      BY <1>2, <1>4, NewX
    <3>2. reg' = [reg EXCEPT ![t] = m]
      BY <2>1 DEF Reg
    <3> HIDE DEF m
    <3>3. n = m
      BY <1>3, <3>2
    <3>4. Foothold(t, y, r.i, G)
      BY <1>2, <1>4, <2>1 DEF Foothold
    <3> QED
      BY <1>1, <1>3, <3>1, <3>2, <3>3, <3>4
  <2>2. CASE Key(y) >= call[t].key /\ Turn
    <3> DEFINE j == IF r.i > 0 THEN r.i - 1 ELSE 0
               step == IF r.i > 0 THEN "walk" ELSE "found"
               save == IF Map!IsSearch(call[t]) THEN r.save
                                                ELSE [r.save EXCEPT ![r.i] = r.x]
               m == [r EXCEPT !.y = y, !.i = j, !.step = step, !.save = save]
    <3>1. j \in 0 .. r.i /\ j \in Levels
      <4>1. r.i \in Nat /\ 0 .. r.i \subseteq Levels
        BY <1>3, LevelsAreNumbers
      <4>2. j \in 0 .. r.i
        BY <4>1
      <4> QED
        BY <4>1, <4>2
    <3>2. /\ save \in [Levels -> Nodes \cup {Wild}]
          /\ \A i \in Levels : save[i] # Wild => Foothold(t, save[i], i, G)
      BY <1>3
    <3>3. step \in {"walk", "found"} /\ step \in StepNames /\ (step = "found" => j = 0)
      BY DEF StepNames
    <3>4. reg' = [reg EXCEPT ![t] = m]
      BY <2>2 DEF Reg
    <3> HIDE DEF j, step, save
    <3>5. /\ m \in Local /\ m.x = r.x /\ m.y = y /\ m.i = j /\ m.step = step
          /\ m.save = save
      <4> DEFINE m1 == [r EXCEPT !.y = y]
                 m2 == [m1 EXCEPT !.i = j]
                 m3 == [m2 EXCEPT !.step = step]
                 m4 == [m3 EXCEPT !.save = save]
      <4>1. m = m4
        OBVIOUS
      <4>2. m1 \in Local /\ m1.x = r.x /\ m1.y = y
        BY <1>2, <1>4 DEF Local
      <4> HIDE DEF m, m1
      <4>3. m2 \in Local /\ m2.x = r.x /\ m2.y = y /\ m2.i = j
        BY <3>1, <4>2 DEF Local
      <4> HIDE DEF m2
      <4>4. m3 \in Local /\ m3.x = r.x /\ m3.y = y /\ m3.i = j /\ m3.step = step
        BY <3>3, <4>3 DEF Local
      <4> HIDE DEF m3
      <4>5. /\ m4 \in Local /\ m4.x = r.x /\ m4.y = y /\ m4.i = j /\ m4.step = step
            /\ m4.save = save
        BY <3>2, <4>4 DEF Local
      <4> HIDE DEF m4
      <4> QED
        BY <4>1, <4>5
    <3> HIDE DEF m
    <3>6. n = m
      BY <1>3, <3>4
    <3>7. Foothold(t, r.x, j, G)
      BY <1>3, <1>4, <3>1 DEF Foothold
    <3> QED
      BY <1>4, <2>2, <3>2, <3>3, <3>4, <3>5, <3>6, <3>7
  <2> QED
    BY <1>0, <2>1, <2>2
<1>6. reg' \in [Threads -> Local] /\ Alone(t)
  BY <1>1, <1>3, <1>5 DEF Alone
<1>7. ThreadOK(t, G, L)'
  <2>1. CallOK(t)'
    BY <1>1, <1>2 DEF CallOK
  <2>2. \A x, i : Foothold(t, x, i, G)' <=> Foothold(t, x, i, G)
    BY <1>1 DEF Foothold, Stored, Next, Key
  <2>3. ReaderOK(t, G)' /\ SavesOK(t, G)'
    BY <1>1, <1>5, <2>2 DEF ReaderOK, SavesOK, Key
  <2>4. WriterOK(t, G, L)' /\ OutsideOK(t, G)'
    BY <1>1 DEF WriterOK, OutsideOK
  <2> QED
    BY <2>1, <2>3, <2>4 DEF ThreadOK
<1> QED
  BY <1>1, <1>6, <1>7, LocalStep DEF Handles, Shape, HeapOK

(* skipNext goes on to the item after the one it found.                    *)
LEMMA FollowNextStep ==
  ASSUME LockInv, NEW G, NEW L, Shape(G, L), NEW t \in Threads, FollowNext(t),
         UNCHANGED client
  PROVE  Shape(G, L)'
<1> DEFINE r == reg[t]
           y == Next(r.y, 0)
           n == [r EXCEPT !.y = y, !.step = "next"]
<1>1. /\ pc[t] = "reading" /\ r.step = "found" /\ pc' = pc
      /\ call[t].op = "next" /\ Key(r.y) = call[t].key
      /\ reg' = [reg EXCEPT ![t] = n]
      /\ UNCHANGED <<item, topLevel, levelHint, deleted, held, client, cached, call>>
  BY DEF FollowNext, Reg, lockVars, heapVars, callVars
<1>2. /\ call[t] \in Calls /\ r \in Local /\ G \subseteq Nodes
      /\ Key(TailItem) > call[t].key /\ call[t].key \in Nat
      /\ CallOK(t) /\ ReaderOK(t, G) /\ SavesOK(t, G)
      /\ reg \in [Threads -> Local]
  BY <1>1, InsideFacts DEF Shape, HeapOK
<1>3. /\ Foothold(t, r.x, r.i, G) /\ r.y \in G \ {TailItem}
      /\ \A i \in Levels : r.save[i] # Wild => Foothold(t, r.save[i], i, G)
  BY <1>1, <1>2 DEF ReaderOK, SavesOK
<1>4. y \in G /\ y \in Nodes
  BY <1>2, <1>3, Follow, LevelsAreNumbers DEF Shape, Walkable
<1> HIDE DEF y, r
<1>5. n \in Local /\ n.x = r.x /\ n.y = y /\ n.i = r.i /\ n.step = "next" /\ n.save = r.save
  <2> DEFINE m == [r EXCEPT !.y = y]
  <2>1. n = [m EXCEPT !.step = "next"]
    OBVIOUS
  <2>2. m \in Local /\ m.x = r.x /\ m.y = y /\ m.i = r.i /\ m.save = r.save
    BY <1>2, <1>4, NewY
  <2> HIDE DEF n, m
  <2> QED
    BY <2>1, <2>2, NewStep DEF StepNames
<1> HIDE DEF n
<1>6. reg' \in [Threads -> Local] /\ reg'[t] = n /\ Alone(t)
  BY <1>1, <1>2, <1>5 DEF Alone
<1>7. ThreadOK(t, G, L)'
  <2>1. CallOK(t)'
    BY <1>1, <1>2 DEF CallOK
  <2>2. \A x, i : Foothold(t, x, i, G)' <=> Foothold(t, x, i, G)
    BY <1>1 DEF Foothold, Stored, Next, Key
  <2>3. ReaderOK(t, G)' /\ SavesOK(t, G)'
    BY <1>1, <1>3, <1>4, <1>5, <1>6, <2>2 DEF ReaderOK, SavesOK
  <2>4. WriterOK(t, G, L)' /\ OutsideOK(t, G)'
    BY <1>1 DEF WriterOK, OutsideOK
  <2> QED
    BY <2>1, <2>3, <2>4 DEF ThreadOK
<1> QED
  BY <1>1, <1>6, <1>7, LocalStep DEF Handles, Shape, HeapOK

(* Locals that a call does not use any more.                               *)
LEMMA NoRegIsLocal ==
  /\ NoReg \in Local /\ NoReg.x = Header /\ NoReg.y = Header /\ NoReg.i = 0
  /\ NoReg.step = "walk" /\ NoReg.save = [i \in Levels |-> Wild]
BY LevelsAreNumbers DEF NoReg, Local, Nodes, StepNames

(* A search ends on an item that it may be asked to lock.                  *)
LEMMA FinishSearchStep ==
  ASSUME LockInv, NEW G, NEW L, Shape(G, L), NEW t \in Threads, FinishSearch(t),
         UNCHANGED client
  PROVE  Shape(G, L)'
<1> DEFINE r == reg[t]
           locking == call[t].plock /\ Hit(t)
           n == IF locking THEN [NoReg EXCEPT !.y = r.y, !.step = "lock"] ELSE NoReg
<1>1. /\ pc[t] = "reading" /\ pc' = [pc EXCEPT ![t] = "runlock"]
      /\ Map!IsSearch(call[t])
      /\ reg' = [reg EXCEPT ![t] = n]
      /\ UNCHANGED <<item, topLevel, levelHint, deleted, held, client, cached, call>>
  BY DEF FinishSearch, EndFind, Goto, Reg, heapVars
<1>2. /\ call[t] \in Calls /\ r \in Local /\ pc \in [Threads -> Locations]
      /\ CallOK(t) /\ ReaderOK(t, G) /\ reg \in [Threads -> Local]
  BY <1>1, InsideFacts DEF Shape, HeapOK
<1>3. r.y \in G /\ r.y \in Nodes
  BY <1>1, <1>2 DEF ReaderOK, Local
<1>4. /\ n \in Local /\ n.x = Header /\ n.save = [i \in Levels |-> Wild]
      /\ \/ n.step = "walk" /\ n.y = Header
         \/ n.step = "lock" /\ n.y = r.y /\ call[t].plock
  <2>1. "lock" \in StepNames
    BY DEF StepNames
  <2> DEFINE m == [NoReg EXCEPT !.y = r.y, !.step = "lock"]
  <2>2. /\ m \in Local /\ m.x = NoReg.x /\ m.y = r.y /\ m.step = "lock"
        /\ m.save = NoReg.save
    <3> DEFINE k == [NoReg EXCEPT !.y = r.y]
    <3>1. m = [k EXCEPT !.step = "lock"]
      OBVIOUS
    <3>2. k \in Local /\ k.x = NoReg.x /\ k.y = r.y /\ k.save = NoReg.save
      BY <1>3, NoRegIsLocal, NewY
    <3> HIDE DEF m, k
    <3> QED
      BY <2>1, <3>1, <3>2, NewStep
  <2> HIDE DEF m
  <2>3. n = IF locking THEN m ELSE NoReg
    BY DEF m
  <2> HIDE DEF n, r
  <2> QED
    BY <2>2, <2>3, NoRegIsLocal
<1> HIDE DEF n, r
<1>5. /\ reg' \in [Threads -> Local] /\ reg'[t] = n /\ pc'[t] = "runlock" /\ Alone(t)
  BY <1>1, <1>2, <1>4 DEF Alone
<1>6. CallOK(t)'
  BY <1>1, <1>2, <1>5, CallTypes DEF CallOK, ReadSection, WriteSection
<1>7. OutsideOK(t, G)'
  BY <1>1, <1>3, <1>4, <1>5 DEF OutsideOK
<1>8. ReaderOK(t, G)' /\ SavesOK(t, G)' /\ WriterOK(t, G, L)'
  BY <1>5 DEF ReaderOK, SavesOK, WriterOK
<1> QED
  BY <1>1, <1>5, <1>6, <1>7, <1>8, LocalStep DEF ThreadOK, Handles, Shape, HeapOK

(* A call that returns takes nothing out of the list with it.              *)
LEMMA ReturnStep ==
  ASSUME LockInv, NEW G, NEW L, Shape(G, L), NEW t \in Threads, Return(t),
         UNCHANGED client
  PROVE  Shape(G, L)'
<1>1. /\ pc[t] = "idle" /\ pc' = pc /\ reg' = reg
      /\ call' = [call EXCEPT ![t] = Map!NoCall]
      /\ UNCHANGED <<item, topLevel, levelHint, deleted, held, client, cached>>
      /\ reg \in [Threads -> Local] /\ call \in [Threads -> Calls \cup {Map!NoCall}]
      /\ ThreadOK(t, G, L)
  BY DEF Return, lockVars, heapVars, Shape, HeapOK
<1>2. /\ Alone(t) /\ reg' \in [Threads -> Local] /\ pc'[t] = "idle"
      /\ call' \in [Threads -> Calls \cup {Map!NoCall}] /\ call'[t] = Map!NoCall
  BY <1>1 DEF Alone
<1>3. CallOK(t)'
  BY <1>2 DEF CallOK, ReadSection, WriteSection
<1>4. OutsideOK(t, G)'
  BY <1>1, <1>2 DEF ThreadOK, OutsideOK
<1>5. ReaderOK(t, G)' /\ SavesOK(t, G)' /\ WriterOK(t, G, L)'
  BY <1>2 DEF ReaderOK, SavesOK, WriterOK
<1> QED
  BY <1>1, <1>2, <1>3, <1>4, <1>5, LocalStep DEF ThreadOK, Handles

(* skipLock has found its places and waits for list->write.                *)
LEMMA TraversedStep ==
  ASSUME LockInv, NEW G, NEW L, Shape(G, L), NEW t \in Threads, Traversed(t),
         UNCHANGED client
  PROVE  Shape(G, L)'
<1> DEFINE r == reg[t]
           n == [r EXCEPT !.step = "examine"]
<1>1. /\ pc[t] = "reading" /\ pc' = [pc EXCEPT ![t] = "wlock"]
      /\ ~Map!IsSearch(call[t]) /\ r.step = "found"
      /\ reg' = [reg EXCEPT ![t] = n]
      /\ UNCHANGED <<item, topLevel, levelHint, deleted, held, client, cached, call>>
  BY DEF Traversed, EndTraverse, Goto, Reg, heapVars, callVars
<1>2. /\ call[t] \in Calls /\ r \in Local /\ pc \in [Threads -> Locations]
      /\ CallOK(t) /\ ReaderOK(t, G) /\ SavesOK(t, G) /\ reg \in [Threads -> Local]
  BY <1>1, InsideFacts DEF Shape, HeapOK
<1>3. /\ Foothold(t, r.x, r.i, G) /\ r.y \in G /\ r.i = 0
      /\ \A i \in Levels : r.save[i] # Wild => Foothold(t, r.save[i], i, G)
  BY <1>1, <1>2 DEF ReaderOK, SavesOK
<1> HIDE DEF r
<1>4. n \in Local /\ n.x = r.x /\ n.y = r.y /\ n.i = r.i /\ n.step = "examine" /\ n.save = r.save
  BY <1>2, NewStep DEF StepNames
<1> HIDE DEF n
<1>5. /\ reg' \in [Threads -> Local] /\ reg'[t] = n /\ pc'[t] = "wlock" /\ Alone(t)
  BY <1>1, <1>2, <1>4 DEF Alone
<1>6. \A x, i : Foothold(t, x, i, G)' <=> Foothold(t, x, i, G)
  BY <1>1 DEF Foothold, Stored, Next, Key
<1>7. CallOK(t)'
  BY <1>1, <1>2, <1>5, CallTypes DEF CallOK, ReadSection, WriteSection
<1>8. ReaderOK(t, G)' /\ SavesOK(t, G)'
  BY <1>3, <1>4, <1>5, <1>6 DEF ReaderOK, SavesOK
<1>9. WriterOK(t, G, L)' /\ OutsideOK(t, G)'
  BY <1>5 DEF WriterOK, OutsideOK
<1> QED
  BY <1>1, <1>5, <1>7, <1>8, <1>9, LocalStep DEF ThreadOK, Handles, Shape, HeapOK

(* A thread outside the list locks or releases a value.                    *)
LEMMA ValueLockStep ==
  ASSUME LockInv, NEW G, NEW L, Shape(G, L), NEW t \in Threads,
         NEW x \in DOMAIN item, NEW n \in Nat, item' = [item EXCEPT ![x].locks = n],
         UNCHANGED <<topLevel, levelHint, deleted, client, cached, call>>,
         reg' \in [Threads -> Local], held' \in [Threads -> SUBSET Nodes],
         \A u \in Threads \ {t} :
           pc'[u] = pc[u] /\ reg'[u] = reg[u] /\ held'[u] = held[u],
         pc[t] \notin {"reading", "wlock", "writing", "hint"},
         pc'[t] \notin {"reading", "wlock", "writing", "hint"},
         \A u \in Threads : held'[u] \subseteq DOMAIN item,
         \A z \in DOMAIN item \ {x} : z \in held'[t] <=> z \in held[t],
         n = Cardinality({u \in Threads : x \in held'[u]}),
         CallOK(t)', OutsideOK(t, G)'
  PROVE  Shape(G, L)'
<1> DEFINE m == [item[x] EXCEPT !.locks = n]
<1>1. m \in Node /\ m.key = item[x].key /\ m.level = item[x].level /\ m.locks = n
      /\ m.next = item[x].next
  BY SMTT(30) DEF Shape, HeapOK, Node
<1>2. item' = [item EXCEPT ![x] = m]
  OBVIOUS
<1> HIDE DEF m
<1>3. /\ DOMAIN item' = DOMAIN item /\ item' \in [DOMAIN item -> Node]
      /\ \A z \in DOMAIN item :
           /\ item'[z].key = item[z].key /\ item'[z].level = item[z].level
           /\ item'[z].next = item[z].next
           /\ item'[z].locks = IF z = x THEN n ELSE item[z].locks
  BY <1>1, <1>2 DEF Shape, HeapOK
<1>4. SameLinks
  BY <1>3 DEF SameLinks, Key, Next
<1>5. HeapOK'
  BY <1>3 DEF Shape, HeapOK, Key, Next
<1>6. LocksExact'
  <2>1. ASSUME NEW z \in DOMAIN item, z # x
        PROVE  {u \in Threads : z \in held'[u]} = {u \in Threads : z \in held[u]}
    BY <2>1
  <2>2. ASSUME NEW z \in DOMAIN item
        PROVE  item'[z].locks = Cardinality({u \in Threads : z \in held'[u]})
    <3>1. CASE z = x
      BY <1>3, <3>1, ZenonT(60)
    <3>2. CASE z # x
      <4>1. item'[z].locks = Cardinality({u \in Threads : z \in held[u]})
        BY <1>3, <3>2 DEF Shape, LocksExact
      <4> QED
        BY <2>1, <3>2, <4>1
    <3> QED
      BY <3>1, <3>2
  <2> QED
    BY <1>3, <2>2 DEF LocksExact
<1>7. HintOK'
  <2>1. \A ops : Changing(ops) => Changing(ops)'
    BY DEF Changing, At
  <2> QED
    BY <1>3, <2>1 DEF Shape, HeapOK, HintOK, Next
<1>8. ThreadOK(t, G, L)'
  BY DEF ThreadOK, ReaderOK, SavesOK, WriterOK
<1>9. ~Handles(t) /\ ~Handles(t)' /\ topLevel <= topLevel'
  BY LevelsAreNumbers DEF Handles, Shape, HeapOK
<1> QED
  BY <1>4, <1>5, <1>6, <1>7, <1>8, <1>9, QuietStep

(* readUnlock: the value a search was asked to lock is locked before.      *)
LEMMA LeaveReadStep ==
  ASSUME LockInv, NEW G, NEW L, Shape(G, L), NEW t \in Threads, LeaveRead(t),
         UNCHANGED client
  PROVE  Shape(G, L)'
<1> DEFINE y == reg[t].y
<1>1. /\ pc[t] = "runlock" /\ reg' = [reg EXCEPT ![t] = NoReg]
      /\ pc' = [pc EXCEPT ![t] = pc'[t]] /\ pc'[t] \in {"signal", "fblock", "idle"}
      /\ UNCHANGED <<topLevel, levelHint, deleted, client, cached, call>>
      /\ ThreadOK(t, G, L) /\ reg \in [Threads -> Local] /\ pc \in [Threads -> Locations]
      /\ held \in [Threads -> SUBSET Nodes] /\ LocksExact
      /\ G \subseteq DOMAIN item /\ DOMAIN item \subseteq Nodes
      /\ call \in [Threads -> Calls \cup {Map!NoCall}]
  BY DEF LeaveRead, ReadUnlock, Goto, AfterReadUnlock, Reg, LockInv, LockTypeOK, callVars,
    Shape, HeapOK, Walkable
<1>2. /\ reg' \in [Threads -> Local] /\ reg'[t] = NoReg
      /\ \A u \in Threads \ {t} : reg'[u] = reg[u] /\ pc'[u] = pc[u]
  BY <1>1, NoRegIsLocal
<1>3. CallOK(t)'
  BY <1>1 DEF CallOK, ReadSection, WriteSection
<1>4. OutsideOK(t, G)'
  BY <1>1, <1>2, NoRegIsLocal DEF OutsideOK
<1>5. CASE reg[t].step = "lock"
  <2>1. /\ item' = [item EXCEPT ![y].locks = item[y].locks + 1]
        /\ held' = [held EXCEPT ![t] = held[t] \cup {y}]
    BY <1>5 DEF LeaveRead
  <2>2. y \in DOMAIN item /\ y \in Nodes /\ held[t] = {}
    BY <1>1, <1>5 DEF ThreadOK, OutsideOK, CallOK, ReadSection
  <2> HIDE DEF y
  <2>3. /\ held' \in [Threads -> SUBSET Nodes] /\ held'[t] = {y}
        /\ \A u \in Threads \ {t} : held'[u] = held[u]
    BY <1>1, <2>1, <2>2
  <2> DEFINE before == {u \in Threads : y \in held[u]}
             after == {u \in Threads : y \in held'[u]}
  <2>4. IsFiniteSet(before) /\ t \notin before /\ after = before \cup {t}
    BY <2>2, <2>3, LockAssumption, FS_Subset
  <2>5. item[y].locks = Cardinality(before) /\ item[y].locks \in Nat
    BY <1>1, <2>2, <2>4, FS_CardinalityType DEF LocksExact
  <2>6. item[y].locks + 1 = Cardinality(after) /\ item[y].locks + 1 \in Nat
    <3> HIDE DEF before, after
    <3> QED
      BY <2>4, <2>5, FS_AddElement, SMTT(30)
  <2>7. \A u \in Threads : held'[u] \subseteq DOMAIN item
    BY <1>1, <2>2, <2>3 DEF LocksExact
  <2> QED
    BY <1>1, <1>2, <1>3, <1>4, <2>1, <2>2, <2>3, <2>6, <2>7, ValueLockStep
<1>6. CASE reg[t].step # "lock"
  <2>1. UNCHANGED <<item, held>>
    BY <1>6 DEF LeaveRead
  <2>2. Alone(t)
    BY <1>1, <1>2, <2>1 DEF Alone
  <2>3. ReaderOK(t, G)' /\ SavesOK(t, G)' /\ WriterOK(t, G, L)'
    BY <1>1 DEF ReaderOK, SavesOK, WriterOK
  <2> QED
    BY <1>1, <1>2, <1>3, <1>4, <2>1, <2>2, <2>3, LocalStep DEF ThreadOK, Handles
<1> QED
  BY <1>5, <1>6

(* skipRelease gives back the lock of a value.                             *)
LEMMA ReleaseStep ==
  ASSUME LockInv, NEW G, NEW L, Shape(G, L), NEW t \in Threads, Release(t),
         UNCHANGED client
  PROVE  Shape(G, L)'
<1>1. PICK x \in held[t] : /\ item' = [item EXCEPT ![x].locks = item[x].locks - 1]
                          /\ held' = [held EXCEPT ![t] = held[t] \ {x}]
  BY DEF Release
<1>2. /\ pc[t] = "idle" /\ call[t] = Map!NoCall /\ pc' = pc /\ reg' = reg /\ call' = call
      /\ UNCHANGED <<topLevel, levelHint, deleted, client, cached>>
      /\ ThreadOK(t, G, L) /\ reg \in [Threads -> Local]
      /\ held \in [Threads -> SUBSET Nodes] /\ LocksExact
  BY DEF Release, lockVars, callVars, Shape, HeapOK
<1>3. x \in DOMAIN item
  BY <1>1, <1>2 DEF LocksExact
<1>4. /\ held' \in [Threads -> SUBSET Nodes] /\ held'[t] = held[t] \ {x}
      /\ \A u \in Threads \ {t} : held'[u] = held[u]
  BY <1>1, <1>2
<1> DEFINE before == {u \in Threads : x \in held[u]}
           after == {u \in Threads : x \in held'[u]}
<1>5. IsFiniteSet(before) /\ t \in before /\ after = before \ {t} /\ IsFiniteSet(after)
  BY <1>1, <1>4, LockAssumption, FS_Subset
<1>6. item[x].locks = Cardinality(before)
  BY <1>2, <1>3 DEF LocksExact
<1>7. item[x].locks - 1 = Cardinality(after) /\ item[x].locks - 1 \in Nat
  <2> HIDE DEF before, after
  <2> QED
    BY <1>5, <1>6, FS_RemoveElement, FS_CardinalityType
<1>8. \A u \in Threads : held'[u] \subseteq DOMAIN item
  BY <1>2, <1>4 DEF LocksExact
<1>9. CallOK(t)' /\ OutsideOK(t, G)'
  BY <1>2 DEF ThreadOK, CallOK, OutsideOK, ReadSection, WriteSection
<1> HIDE DEF before
<1> QED
  BY <1>1, <1>2, <1>3, <1>4, <1>7, <1>8, <1>9, ValueLockStep

-----------------------------------------------------------------------------
(* Updates                                                                 *)

(* There is one writer, and what is said of a writer is said of it.        *)
LEMMA WriterAlone ==
  ASSUME LockInv, NEW t \in Threads, pc[t] \in {"writing", "hint"}
  PROVE  /\ \A u \in Threads \ {t} : pc[u] \notin {"writing", "hint"}
         /\ \A u \in Threads \ {t} : ~Handles(u)
         /\ Handled = IF Handles(t) THEN {reg[t].y} ELSE {}
         /\ \A x, i : Moving(x, i) <=> /\ pc[t] = "writing"
                                      /\ reg[t].step \in {"publish", "backlink"}
                                      /\ reg[t].y = x /\ reg[t].i = i
         /\ \A ops : Changing(ops) <=> /\ call[t].op \in ops
                                       /\ pc[t] = "writing" => reg[t].step # "examine"
<1>1. \A u \in Threads \ {t} : pc[u] \notin {"writing", "hint"}
  BY OneWriter DEF WriteSection
<1>2. \A u \in Threads \ {t} : ~Handles(u)
  BY <1>1 DEF Handles
<1>3. Handled = IF Handles(t) THEN {reg[t].y} ELSE {}
  BY <1>1, <1>2 DEF Handled, Handles, At
<1>4. \A x, i : Moving(x, i) <=> /\ pc[t] = "writing"
                                 /\ reg[t].step \in {"publish", "backlink"}
                                 /\ reg[t].y = x /\ reg[t].i = i
  BY <1>1 DEF Moving
<1>5. \A ops : Changing(ops) <=> /\ call[t].op \in ops
                                 /\ pc[t] = "writing" => reg[t].step # "examine"
  BY <1>1 DEF Changing, At
<1> QED
  BY <1>1, <1>2, <1>3, <1>4, <1>5

(* What an update finds when it has its lock.                              *)
LEMMA PlaceFound ==
  ASSUME LockInv, NEW G, NEW L, Shape(G, L), NEW t \in Threads, Writing(t, "examine")
  PROVE  /\ Before(t) \in L[0] \ {TailItem} /\ After(t) \in L[0]
         /\ After(t) = Next(Before(t), 0)
         /\ Key(Before(t)) < call[t].key /\ call[t].key <= Key(After(t))
         /\ call[t].key \in Keys
<1>1. /\ call[t] \in Calls /\ Foothold(t, reg[t].x, 0, G) /\ call[t].op # "next"
  BY InsideFacts, CallTypes DEF Writing, WriterOK, CallOK, WriteSection
<1>2. call[t].key \in Keys
  BY <1>1, CallTypes
<1>3. /\ reg[t].x \in G \ {TailItem} /\ Stored(reg[t].x, 0) /\ Key(reg[t].x) < call[t].key
      /\ HeapOK /\ Levelled(L) /\ Walkable(G, L)
  BY <1>1, <1>2, ListAssumption DEF Foothold, Key, Shape, HeapOK
<1>4. \A n \in G : ~Moving(n, 0)
  BY WriterAlone DEF Writing
<1>5. /\ Before(t) \in L[0] \ {TailItem} /\ Key(Before(t)) < call[t].key
      /\ call[t].key <= Key(Next(Before(t), 0))
  BY <1>2, <1>3, <1>4, LevelsAreNumbers, ClosestIsPlace DEF Before
<1>6. Next(Before(t), 0) \in L[0]
  BY <1>3, <1>5, LevelsAreNumbers DEF Levelled, Chain
<1> QED
  BY <1>2, <1>5, <1>6 DEF After

(* An update ends without having linked or unlinked anything.              *)
LEMMA EndEarlyStep ==
  ASSUME LockInv, NEW G, NEW L, Shape(G, L), NEW t \in Threads, Writing(t, "examine"),
         NEW status, EndEarly(t, status),
         UNCHANGED <<levelHint, deleted, held, call, client>>,
         SameLinks, item' \in [DOMAIN item -> Node],
         \A x \in DOMAIN item : item'[x].locks = item[x].locks,
         topLevel' \in Levels, topLevel <= topLevel'
  PROVE  Shape(G, L)'
<1>1. /\ pc[t] = "writing" /\ pc' = [pc EXCEPT ![t] = "wunlock"] /\ cached' = cached
      /\ reg[t].step = "examine" /\ reg' = [reg EXCEPT ![t] = NoReg]
      /\ pc \in [Threads -> Locations] /\ reg \in [Threads -> Local]
      /\ ThreadOK(t, G, L) /\ HeapOK
  BY DEF Writing, EndEarly, EndUpdate, Goto, Reg, LockInv, LockTypeOK, Shape, HeapOK
<1>2. /\ pc'[t] = "wunlock" /\ reg'[t] = NoReg /\ reg' \in [Threads -> Local]
      /\ \A u \in Threads \ {t} : pc'[u] = pc[u] /\ reg'[u] = reg[u]
  BY <1>1, NoRegIsLocal
<1>3. /\ DOMAIN item' = DOMAIN item /\ {Header, TailItem} \subseteq DOMAIN item
      /\ \A x \in DOMAIN item : item'[x].key = item[x].key /\ item'[x].level = item[x].level
      /\ \A x \in DOMAIN item, i \in Levels : Next(x, i)' = Next(x, i)
  BY <1>1 DEF SameLinks, Key, HeapOK
<1>4. HeapOK'
  <2>1. levelHint' \in 0 .. topLevel'
    BY <1>1, LevelsAreNumbers DEF HeapOK
  <2> QED
    BY <1>1, <1>2, <1>3, <2>1 DEF HeapOK
<1>5. LocksExact'
  BY <1>3 DEF Shape, LocksExact
<1>6. HintOK'
  <2>1. \A ops : ~Changing(ops)
    BY <1>1, WriterAlone
  <2>2. HintOK /\ Header \in DOMAIN item /\ levelHint \in Levels /\ topLevel \in Nat
    BY <1>1, <1>3, LevelsAreNumbers DEF Shape, HeapOK
  <2> QED
    BY <1>3, <2>1, <2>2, LevelsAreNumbers DEF HintOK
<1>7. ThreadOK(t, G, L)'
  <2>1. CallOK(t)'
    BY <1>1, <1>2 DEF ThreadOK, CallOK, WriteSection, ReadSection
  <2>2. OutsideOK(t, G)'
    BY <1>2, NoRegIsLocal DEF OutsideOK
  <2>3. ReaderOK(t, G)' /\ SavesOK(t, G)' /\ WriterOK(t, G, L)'
    BY <1>2 DEF ReaderOK, SavesOK, WriterOK
  <2> QED
    BY <2>1, <2>2, <2>3 DEF ThreadOK
<1>8. ~Handles(t) /\ ~Handles(t)'
  BY <1>1, <1>2 DEF Handles
<1> QED
  BY <1>1, <1>2, <1>4, <1>5, <1>6, <1>7, <1>8, QuietStep

(* skipInsert finds its key and stores the value, or fails.                *)
LEMMA InsertFoundStep ==
  ASSUME LockInv, NEW G, NEW L, Shape(G, L), NEW t \in Threads, InsertFound(t),
         UNCHANGED client
  PROVE  Shape(G, L)'
<1>1. /\ Writing(t, "examine") /\ call[t].op \in {"insert", "update"}
      /\ UNCHANGED <<topLevel, levelHint, deleted, held, call, client>>
  BY DEF InsertFound
<1>2. topLevel' \in Levels /\ topLevel <= topLevel'
  BY <1>1, LevelsAreNumbers DEF Shape, HeapOK
<1>3. CASE UNCHANGED item /\ EndEarly(t, "duplicate")
  <2>1. SameLinks /\ item' \in [DOMAIN item -> Node]
    BY <1>3 DEF SameLinks, Key, Next, Shape, HeapOK
  <2> QED
    BY <1>1, <1>2, <1>3, <2>1, EndEarlyStep
<1>4. CASE item' = [item EXCEPT ![After(t)].value = call[t].value] /\ EndEarly(t, "ok")
  <2> DEFINE x == After(t)
             n == [item[x] EXCEPT !.value = call[t].value]
  <2>1. x \in DOMAIN item
    BY <1>1, PlaceFound, LevelsAreNumbers DEF Shape, Levelled
  <2>2. call[t].value \in Values
    BY <1>1, InsideFacts, CallTypes DEF Writing
  <2>3. /\ n \in Node /\ n.key = item[x].key /\ n.level = item[x].level
        /\ n.locks = item[x].locks /\ n.next = item[x].next
    BY <2>1, <2>2 DEF Shape, HeapOK, Node
  <2>4. item' = [item EXCEPT ![x] = n]
    BY <1>4
  <2> HIDE DEF n, x
  <2>5. /\ item' \in [DOMAIN item -> Node]
        /\ \A z \in DOMAIN item : item'[z].locks = item[z].locks
    BY <2>1, <2>3, <2>4 DEF Shape, HeapOK
  <2>6. SameLinks
    BY <2>1, <2>3, <2>4 DEF SameLinks, Key, Next
  <2> QED
    BY <1>1, <1>2, <1>4, <2>5, <2>6, EndEarlyStep
<1> QED
  BY <1>3, <1>4 DEF InsertFound

(* skipDelete does not find its key.                                       *)
LEMMA DeleteMissingStep ==
  ASSUME LockInv, NEW G, NEW L, Shape(G, L), NEW t \in Threads, DeleteMissing(t),
         UNCHANGED client
  PROVE  Shape(G, L)'
<1>1. /\ Writing(t, "examine") /\ EndEarly(t, "ok")
      /\ UNCHANGED <<item, topLevel, levelHint, deleted, held, call, client>>
  BY DEF DeleteMissing, heapVars
<1>2. topLevel' \in Levels /\ topLevel <= topLevel'
  BY <1>1, LevelsAreNumbers DEF Shape, HeapOK
<1>3. SameLinks /\ item' \in [DOMAIN item -> Node]
  BY <1>1 DEF SameLinks, Key, Next, Shape, HeapOK
<1> QED
  BY <1>1, <1>2, <1>3, EndEarlyStep

(* An update leaves its loop when levelHint is right.                      *)
LEMMA FinishUpdateStep ==
  ASSUME LockInv, NEW G, NEW L, Shape(G, L), NEW t \in Threads, FinishUpdate(t),
         UNCHANGED client
  PROVE  Shape(G, L)'
<1>1. /\ pc[t] = "hint" /\ pc' = [pc EXCEPT ![t] = "wunlock"]
      /\ UNCHANGED <<item, topLevel, levelHint, deleted, held, client, cached, call, reg>>
      /\ pc \in [Threads -> Locations] /\ ThreadOK(t, G, L) /\ HeapOK /\ HintOK
      /\ IF call[t].op = "delete" THEN ~MayLowerHint ELSE ~MayRaiseHint
  BY DEF FinishUpdate, EndUpdate, Goto, listVars, heapVars, callVars, LockInv, LockTypeOK,
    Shape
<1>2. pc'[t] = "wunlock" /\ \A u \in Threads \ {t} : pc'[u] = pc[u]
  BY <1>1
<1>3. call[t].op \in {"insert", "update", "delete"}
  <2>1. call[t] \in Calls \cup {Map!NoCall} /\ ~Map!IsSearch(call[t])
    BY <1>1 DEF ThreadOK, CallOK, HeapOK
  <2>2. call[t] # Map!NoCall
    BY <1>1 DEF ThreadOK, CallOK, ReadSection
  <2> QED
    BY <2>1, <2>2, CallTypes
<1>4. HintOK'
  <2>1. /\ \A i \in Levels : i > topLevel => Next(Header, i) = TailItem
        /\ call[t].op = "delete" => \A i \in Levels : i > levelHint => Next(Header, i) = TailItem
        /\ call[t].op # "delete" /\ levelHint > 0 => Next(Header, levelHint) # TailItem
    BY <1>1, <1>3, WriterAlone DEF HintOK
  <2>2. ASSUME call[t].op # "delete"
        PROVE  \A i \in Levels : i > levelHint => Next(Header, i) = TailItem
    <3>1. levelHint \in Nat /\ topLevel \in Levels \cap Nat /\ levelHint <= topLevel
      BY <1>1, LevelsAreNumbers DEF HeapOK
    <3>2. CASE levelHint = topLevel
      BY <2>1, <3>2
    <3>3. CASE levelHint < topLevel
      <4> DEFINE j == levelHint + 1
      <4>1. j \in Levels /\ Next(Header, j) = TailItem
        BY <1>1, <2>2, <3>1, <3>3, LevelsAreNumbers DEF MayRaiseHint, Levels
      <4>2. L[j] \subseteq {Header, TailItem}
        <5>1. /\ L[j] \subseteq DOMAIN item /\ Chain(L[j], j)
              /\ \A x \in DOMAIN item : Key(x) \in Nat /\ Key(x) <= TailKey
              /\ Key(Header) = 0 /\ Key(TailItem) = TailKey /\ TailKey \in Nat
              /\ Header # TailItem
          BY <1>1, <4>1, TailKeyIsLast, ListAssumption, SMTT(30)
DEF Shape, Levelled, HeapOK, Key, Nodes, Node
        <5>2. ASSUME NEW z \in L[j], z # Header PROVE z = TailItem
          <6>1. Key(Header) < Key(z)
            BY <5>1, <5>2 DEF Chain
          <6>2. Key(Next(Header, j)) <= Key(z)
            BY <5>1, <6>1 DEF Chain
          <6>3. Key(z) = Key(TailItem)
            BY <4>1, <5>1, <6>2
          <6> QED
            BY <5>1, <6>3 DEF Chain
        <5> QED
          BY <5>2
      <4>3. ASSUME NEW i \in Levels, i > levelHint PROVE Next(Header, i) = TailItem
        <5>1. j <= i
          BY <3>1, <4>3, LevelsAreNumbers
        <5>2. L[i] \subseteq {Header, TailItem} /\ Chain(L[i], i) /\ Key(Header) \in Nat
          BY <1>1, <4>1, <4>2, <4>3, <5>1 DEF Shape, Levelled, HeapOK, Key
        <5> QED
          BY <5>2, ListAssumption DEF Chain
      <4> QED
        BY <4>3
    <3> QED
      BY <3>1, <3>2, <3>3
  <2>3. ASSUME call[t].op = "delete", levelHint > 0 PROVE Next(Header, levelHint) # TailItem
    BY <1>1, <2>3 DEF MayLowerHint
  <2> QED
    BY <1>1, <2>1, <2>2, <2>3 DEF HintOK, Next
<1>5. HeapOK' /\ LocksExact'
  BY <1>1 DEF Shape, HeapOK, LocksExact, Key, Next
<1>6. ThreadOK(t, G, L)'
  <2>1. CallOK(t)'
    BY <1>1, <1>2 DEF ThreadOK, CallOK, ReadSection, WriteSection
  <2>2. OutsideOK(t, G)'
    BY <1>1, <1>2 DEF ThreadOK, OutsideOK
  <2>3. ReaderOK(t, G)' /\ SavesOK(t, G)' /\ WriterOK(t, G, L)'
    BY <1>2 DEF ReaderOK, SavesOK, WriterOK
  <2> QED
    BY <2>1, <2>2, <2>3 DEF ThreadOK
<1>7. SameLinks /\ ~Handles(t) /\ ~Handles(t)' /\ topLevel <= topLevel'
  BY <1>1, <1>2, LevelsAreNumbers DEF SameLinks, Key, Next, Handles, HeapOK
<1> QED
  BY <1>1, <1>2, <1>4, <1>5, <1>6, <1>7, QuietStep

(* The loops that adjust levelHint.                                        *)
LEMMA HintStep ==
  ASSUME LockInv, NEW G, NEW L, Shape(G, L), NEW t \in Threads, pc[t] = "hint",
         UNCHANGED <<lockVars, item, topLevel, deleted, held, reg, callVars, client>>,
         levelHint' \in 0 .. topLevel,
         \/ /\ call[t].op = "delete"
            /\ \A i \in Levels : i > levelHint' => Next(Header, i) = TailItem
         \/ /\ call[t].op # "delete"
            /\ levelHint' > 0 => Next(Header, levelHint') # TailItem
  PROVE  Shape(G, L)'
<1>1. /\ pc' = pc /\ cached' = cached /\ reg' = reg /\ call' = call /\ HeapOK /\ HintOK
      /\ ThreadOK(t, G, L)
  BY DEF lockVars, callVars, Shape
<1>2. call[t].op \in {"insert", "update", "delete"}
  <2>1. call[t] \in Calls \cup {Map!NoCall} /\ ~Map!IsSearch(call[t])
    BY <1>1 DEF ThreadOK, CallOK, HeapOK
  <2>2. call[t] # Map!NoCall
    BY <1>1 DEF ThreadOK, CallOK, ReadSection
  <2> QED
    BY <2>1, <2>2, CallTypes
<1>3. HintOK'
  <2>1. \A ops : Changing(ops) <=> call[t].op \in ops
    BY WriterAlone
  <2>2. \A ops : Changing(ops)' <=> call[t].op \in ops
    BY <1>1, <2>1 DEF Changing, At
  <2> QED
    BY <1>1, <1>2, <2>1, <2>2 DEF HintOK, Next
<1>4. HeapOK' /\ LocksExact'
  BY <1>1 DEF Shape, HeapOK, LocksExact, Key, Next
<1>5. ThreadOK(t, G, L)'
  BY <1>1 DEF ThreadOK, CallOK, ReaderOK, SavesOK, WriterOK, OutsideOK, WriteSection
<1>6. SameLinks /\ ~Handles(t) /\ ~Handles(t)' /\ topLevel <= topLevel'
  BY <1>1, LevelsAreNumbers DEF SameLinks, Key, Next, Handles, HeapOK
<1> QED
  BY <1>1, <1>3, <1>4, <1>5, <1>6, QuietStep

(* skipInsert raises levelHint only to a level in use,                     *)
LEMMA RaiseHintStep ==
  ASSUME LockInv, NEW G, NEW L, Shape(G, L), NEW t \in Threads, RaiseHint(t),
         UNCHANGED client
  PROVE  Shape(G, L)'
<1>1. levelHint' \in 0 .. topLevel /\ Next(Header, levelHint') # TailItem
  BY LevelsAreNumbers DEF RaiseHint, MayRaiseHint, Shape, HeapOK
<1> QED
  BY <1>1, HintStep DEF RaiseHint

(* and skipDelete lowers it only past a level that is not.                 *)
LEMMA LowerHintStep ==
  ASSUME LockInv, NEW G, NEW L, Shape(G, L), NEW t \in Threads, LowerHint(t),
         UNCHANGED client
  PROVE  Shape(G, L)'
<1>1. pc[t] = "hint" /\ call[t].op = "delete" /\ HintOK /\ topLevel \in Levels
      /\ levelHint \in 0 .. topLevel
  BY DEF LowerHint, Shape, HeapOK
<1>2. \A i \in Levels : i > levelHint => Next(Header, i) = TailItem
  BY <1>1, WriterAlone DEF HintOK
<1>3. levelHint > 0 /\ Next(Header, levelHint) = TailItem /\ levelHint' = levelHint - 1
  BY DEF LowerHint, MayLowerHint
<1>4. levelHint' \in 0 .. topLevel
  BY <1>1, <1>3, LevelsAreNumbers
<1>5. \A i \in Levels : i > levelHint' => i = levelHint \/ i > levelHint
  BY <1>1, <1>3, LevelsAreNumbers
<1> QED
  BY <1>1, <1>2, <1>3, <1>4, <1>5, HintStep DEF LowerHint

(* What other threads rely on stays true while the writer stores.          *)
LEMMA WriterStep ==
  ASSUME LockInv, NEW G, NEW L, Shape(G, L), NEW t \in Threads, pc[t] = "writing",
         NEW G2, NEW L2, Extends(G, G2), Alone(t),
         HeapOK', Levelled(L2)', Walkable(G2, L2)', Accounted(L2)', LocksExact', HintOK',
         ThreadOK(t, G2, L2)'
  PROVE  Shape(G2, L2)'
<1>1. HeapOK /\ Levelled(L) /\ G \subseteq DOMAIN item
  BY DEF Shape, Walkable
<1>2. ASSUME NEW u \in Threads \ {t} PROVE ThreadOK(u, G2, L2)'
  <2>1. pc[u] # "writing" /\ ThreadOK(u, G, L)
    BY <1>2, WriterAlone DEF Shape
  <2> QED
    BY <1>1, <1>2, <2>1, OthersStay DEF Alone
<1> QED
  BY <1>2 DEF Shape

(* One store into an item of the list leaves all else as it is.            *)
LEMMA LinkKeeps ==
  ASSUME NEW G, NEW L, Shape(G, L),
         NEW x \in DOMAIN item \ {TailItem}, NEW i \in Levels, NEW y \in Nodes,
         item' = Link(x, i, y), UNCHANGED <<topLevel, levelHint, held, call, client>>,
         deleted' \in SUBSET Blocks, reg' \in [Threads -> Local]
  PROVE  /\ HeapOK' /\ LocksExact' /\ Extends(G, G)
         /\ DOMAIN item' = DOMAIN item
         /\ \A z \in DOMAIN item :
              /\ Key(z)' = Key(z) /\ item'[z].level = item[z].level
              /\ \A j \in Levels : Next(z, j)' = IF z = x /\ j = i THEN y ELSE Next(z, j)
              /\ \A j \in Levels : Stored(z, j)' <=> Stored(z, j) \/ (z = x /\ j = i)
<1>1. HeapOK /\ LocksExact /\ G \subseteq DOMAIN item /\ Wild \notin Nodes
  BY ListAssumption DEF Shape, Walkable, Nodes
<1>2. /\ DOMAIN item' = DOMAIN item
      /\ item' \in [DOMAIN item -> Node]
      /\ \A z \in DOMAIN item :
           /\ Key(z)' = Key(z) /\ item'[z].level = item[z].level
           /\ item'[z].locks = item[z].locks
           /\ \A j \in Levels : Next(z, j)' = IF z = x /\ j = i THEN y ELSE Next(z, j)
  BY <1>1, LinkEffect
<1>3. \A z \in DOMAIN item, j \in Levels :
        Stored(z, j)' <=> Stored(z, j) \/ (z = x /\ j = i)
  BY <1>1, <1>2 DEF Stored
<1>4. HeapOK'
  <2>1. \A z \in DOMAIN item : item'[z].key = item[z].key
    BY <1>2 DEF Key
  <2>2. \A j \in Levels : Next(Header, j)' # Wild /\ Next(TailItem, j)' = Wild
    BY <1>1, <1>2 DEF HeapOK
  <2> QED
    BY <1>1, <1>2, <2>1, <2>2 DEF HeapOK
<1>5. LocksExact'
  BY <1>1, <1>2 DEF LocksExact
<1>6. Extends(G, G)
  BY <1>1, <1>2, <1>3 DEF Extends
<1> QED
  BY <1>2, <1>3, <1>4, <1>5, <1>6

(* The place of the key at level i, for a writer about to store there.     *)
LEMMA PlaceAt ==
  ASSUME LockInv, NEW G, NEW L, Shape(G, L), NEW t \in Threads,
         Writing(t, "forward") \/ Writing(t, "unlink")
  PROVE  LET i == reg[t].i
             x == Closest(reg[t].save[i], call[t].key, i)
         IN  /\ x \in L[i] \ {TailItem} /\ Key(x) < call[t].key
             /\ call[t].key <= Key(Next(x, i)) /\ call[t].key \in Keys
<1> DEFINE i == reg[t].i
           n == reg[t].save[i]
<1>1. /\ call[t] \in Calls /\ i \in Levels /\ Foothold(t, n, i, G)
      /\ call[t].op # "next"
  BY InsideFacts, CallTypes DEF Writing, WriterOK, SavesOK, Local, Inserting, Deleting
<1>2. call[t].key \in Keys
  BY <1>1, CallTypes
<1>3. /\ n \in G \ {TailItem} /\ Stored(n, i) /\ Key(n) < call[t].key
      /\ HeapOK /\ Levelled(L) /\ Walkable(G, L)
  BY <1>1, <1>2, ListAssumption DEF Foothold, Key, Shape, HeapOK
<1>4. \A m \in G : ~Moving(m, i)
  BY WriterAlone DEF Writing
<1> HIDE DEF n, i
<1> QED
  BY <1>1, <1>2, <1>3, <1>4, ClosestIsPlace DEF n, i

(* An item is linked into a chain ...                                      *)
LEMMA ChainInsert ==
  ASSUME HeapOK, NEW i \in Levels, NEW S \in SUBSET DOMAIN item, Chain(S, i),
         NEW x \in S \ {TailItem}, NEW y \in (DOMAIN item \cap Blocks) \ S,
         Key(x) < Key(y), Key(y) < Key(Next(x, i)), Next(y, i) = Next(x, i),
         \A z \in DOMAIN item : /\ Key(z)' = Key(z)
                               /\ Next(z, i)' = IF z = x THEN y ELSE Next(z, i)
  PROVE  Chain(S \cup {y}, i)'
<1> DEFINE T == S \cup {y}
<1>1. /\ \A z \in DOMAIN item : Key(z) \in Nat
      /\ T \subseteq DOMAIN item /\ {Header, TailItem} \subseteq S
      /\ y \notin {Header, TailItem}
      /\ \A z \in S \ {TailItem} : Next(z, i) \in S /\ Key(z) < Key(Next(z, i))
      /\ \A z \in S \ {TailItem}, w \in S : Key(z) < Key(w) => Key(Next(z, i)) <= Key(w)
      /\ \A z, w \in S : Key(z) = Key(w) => z = w
  BY ListAssumption DEF HeapOK, Node, Key, Chain
<1>2. ASSUME NEW z \in T \ {TailItem}
      PROVE  Next(z, i)' \in T /\ Key(z)' < Key(Next(z, i))'
  BY <1>1, <1>2
<1>3. ASSUME NEW z \in S, Key(z) = Key(y) PROVE FALSE
  BY <1>1, <1>3
<1>4. ASSUME NEW z \in T \ {TailItem}, NEW w \in T, Key(z) < Key(w)
      PROVE  Key(Next(z, i))' <= Key(w)
  <2>1. CASE z = x
    BY <1>1, <1>4, <2>1
  <2>2. CASE z = y
    BY <1>1, <1>4, <2>2
  <2>3. CASE z \notin {x, y} /\ w = y
    <3>1. z \in S \ {TailItem} /\ Key(z) < Key(y) /\ Key(z) # Key(x)
      BY <1>1, <1>4, <2>3
    <3>2. Key(z) < Key(x)
      BY <1>1, <3>1
    <3> QED
      BY <1>1, <2>3, <3>1, <3>2
  <2>4. CASE z \notin {x, y} /\ w # y
    BY <1>1, <1>4, <2>4
  <2> QED
    BY <2>1, <2>2, <2>3, <2>4
<1>5. \A z, w \in T : Key(z)' = Key(w)' => z = w
  BY <1>1, <1>3
<1> QED
  BY <1>1, <1>2, <1>4, <1>5 DEF Chain

(* ... or taken out of it.                                                 *)
LEMMA ChainRemove ==
  ASSUME HeapOK, NEW i \in Levels, NEW S \in SUBSET DOMAIN item, Chain(S, i),
         NEW x \in S \ {TailItem}, NEW y \in S \cap Blocks,
         Key(x) < Key(y), Key(y) <= Key(Next(x, i)),
         \A z \in DOMAIN item :
           /\ Key(z)' = Key(z)
           /\ Next(z, i)' = IF z = x THEN Next(y, i) ELSE Next(z, i)
  PROVE  Chain(S \ {y}, i)' /\ Next(x, i) = y
<1> DEFINE T == S \ {y}
<1>1. /\ \A z \in DOMAIN item : Key(z) \in Nat
      /\ T \subseteq DOMAIN item /\ {Header, TailItem} \subseteq S
      /\ y \notin {Header, TailItem} /\ x # y
      /\ \A z \in S \ {TailItem} : Next(z, i) \in S /\ Key(z) < Key(Next(z, i))
      /\ \A z \in S \ {TailItem}, w \in S : Key(z) < Key(w) => Key(Next(z, i)) <= Key(w)
      /\ \A z, w \in S : Key(z) = Key(w) => z = w
  BY ListAssumption DEF HeapOK, Node, Key, Chain
<1>2. Next(x, i) = y
  BY <1>1
<1>3. ASSUME NEW z \in T \ {TailItem}, z # x PROVE Next(z, i) # y
  <2>1. CASE Key(z) < Key(x)
    BY <1>1, <1>3, <2>1
  <2>2. CASE Key(z) > Key(x)
    BY <1>1, <1>2, <1>3, <2>2
  <2>3. Key(z) # Key(x)
    BY <1>1, <1>3
  <2> QED
    BY <1>1, <1>3, <2>1, <2>2, <2>3
<1>4. Next(y, i) \in S /\ Key(y) < Key(Next(y, i)) /\ Next(y, i) # y
  BY <1>1
<1>5. ASSUME NEW z \in T \ {TailItem}
      PROVE  Next(z, i)' \in T /\ Key(z)' < Key(Next(z, i))'
  BY <1>1, <1>3, <1>4, <1>5
<1>6. ASSUME NEW z \in T \ {TailItem}, NEW w \in T, Key(z) < Key(w)
      PROVE  Key(Next(z, i))' <= Key(w)
  <2>1. CASE z = x
    <3>1. Key(y) <= Key(w) /\ Key(y) # Key(w)
      BY <1>1, <1>2, <1>6, <2>1
    <3> QED
      BY <1>1, <1>4, <1>6, <2>1, <3>1
  <2>2. CASE z # x
    BY <1>1, <1>6, <2>2
  <2> QED
    BY <2>1, <2>2
<1> QED
  BY <1>1, <1>2, <1>5, <1>6 DEF Chain

(* A step that does not touch the header.                                  *)
LEMMA HintStays ==
  ASSUME HeapOK, HintOK, UNCHANGED <<topLevel, levelHint>>,
         \A j \in Levels : Next(Header, j)' = Next(Header, j),
         \A ops : Changing(ops) => Changing(ops)'
  PROVE  HintOK'
<1>1. levelHint \in Levels
  BY LevelsAreNumbers DEF HeapOK, Levels
<1> QED
  BY <1>1 DEF HintOK

(* A pointer the writer stores into an item that is not at that level.     *)
LEMMA ForwardStep ==
  ASSUME LockInv, NEW G, NEW L, Shape(G, L), NEW t \in Threads, Forward(t),
         UNCHANGED client
  PROVE  Shape(G, L)'
<1> DEFINE r == reg[t]
           y == r.y
           i == r.i
           x == IF i = 0 THEN r.x ELSE Closest(r.save[i], call[t].key, i)
           n == [r EXCEPT !.x = x, !.step = "publish"]
<1>1. /\ Writing(t, "forward") /\ pc[t] = "writing" /\ r.step = "forward"
      /\ item' = Link(y, i, Next(x, i)) /\ reg' = [reg EXCEPT ![t] = n]
      /\ pc' = pc /\ cached' = cached
      /\ UNCHANGED <<topLevel, levelHint, deleted, held, call, client>>
  BY DEF Forward, Writing, Reg, lockVars, callVars
<1>2. /\ r \in Local /\ WriterOK(t, G, L) /\ SavesOK(t, G) /\ CallOK(t)
      /\ call[t] \in Calls
      /\ HeapOK /\ Levelled(L) /\ Walkable(G, L) /\ Accounted(L) /\ HintOK
      /\ reg \in [Threads -> Local]
  BY <1>1, InsideFacts DEF Shape, HeapOK
<1>3. /\ Inserting(t, L) /\ (i = 0 => Place(t, L)) /\ \A j \in Levels : r.save[j] # Wild
      /\ i \in Levels /\ r.save \in [Levels -> Nodes \cup {Wild}]
  BY <1>1, <1>2 DEF WriterOK, Local
<1>4. /\ x \in L[i] \ {TailItem} /\ Key(x) < Key(y) /\ Key(y) <= Key(Next(x, i))
  BY <1>1, <1>3, PlaceAt DEF Inserting, Place
<1>5. /\ y \in Blocks \cap DOMAIN item /\ y \notin L[i] /\ y # x
      /\ \A j \in Levels : Stored(y, j) <=> j < i
      /\ \A j \in Levels : y \in L[j] <=> j < i
      /\ y # TailItem /\ y # Header
  BY <1>1, <1>3, <1>4, LevelsAreNumbers, ListAssumption DEF Inserting
<1>6. /\ L[i] \subseteq L[0] /\ L[0] \subseteq G /\ G \subseteq DOMAIN item
      /\ L \in [Levels -> SUBSET DOMAIN item]
      /\ x \in DOMAIN item /\ x \in Nodes /\ Next(x, i) \in L[i] /\ Next(x, i) \in Nodes
  BY <1>2, <1>3, <1>4, LevelsAreNumbers DEF Levelled, Walkable, Chain, HeapOK
<1> HIDE DEF x
<1>7. /\ n \in Local /\ n.x = x /\ n.y = y /\ n.i = i /\ n.step = "publish" /\ n.save = r.save
  <2> DEFINE m == [r EXCEPT !.x = x]
  <2>1. n = [m EXCEPT !.step = "publish"]
    OBVIOUS
  <2>2. m \in Local /\ m.x = x /\ m.y = y /\ m.i = i /\ m.save = r.save
    BY <1>2, <1>6, NewX
  <2> HIDE DEF n, m, y, i
  <2> QED
    BY <2>1, <2>2, NewStep DEF StepNames
<1> HIDE DEF n
<1>8. reg' \in [Threads -> Local] /\ reg'[t] = n /\ Alone(t)
  BY <1>1, <1>2, <1>7 DEF Alone
<1> HIDE DEF r, y, i
<1>9. /\ HeapOK' /\ LocksExact' /\ Extends(G, G)
      /\ DOMAIN item' = DOMAIN item
      /\ \A z \in DOMAIN item :
           /\ Key(z)' = Key(z) /\ item'[z].level = item[z].level
           /\ \A j \in Levels : Next(z, j)' = IF z = y /\ j = i THEN Next(x, i) ELSE Next(z, j)
           /\ \A j \in Levels : Stored(z, j)' <=> Stored(z, j) \/ (z = y /\ j = i)
  <2>1. deleted' \in SUBSET Blocks
    BY <1>1, <1>2 DEF HeapOK
  <2> QED
    BY <1>1, <1>3, <1>5, <1>6, <1>8, <2>1, LinkKeeps
<1>10. /\ Handled = {y} /\ Handled' = {y}
       /\ \A z, j : ~Moving(z, j)
       /\ \A z, j : Moving(z, j)' <=> z = y /\ j = i
       /\ \A ops : Changing(ops) <=> call[t].op \in ops
       /\ \A ops : Changing(ops)' <=> call[t].op \in ops
  <2>1. \A u \in Threads \ {t} : pc[u] \notin {"writing", "hint"} /\ ~Handles(u)
    BY <1>1, WriterAlone
  <2>2. Handled = {y} /\ \A z, j : ~Moving(z, j)
    BY <1>1, WriterAlone DEF Handles, r, y
  <2>3. Handled' = {y}
    BY <1>1, <1>7, <1>8, <2>1 DEF Handled, At
  <2>4. \A z, j : Moving(z, j)' <=> z = y /\ j = i
    BY <1>1, <1>7, <1>8, <2>1 DEF Moving
  <2>5. \A ops : Changing(ops) <=> call[t].op \in ops
    BY <1>1, WriterAlone DEF r
  <2>6. \A ops : Changing(ops)' <=> call[t].op \in ops
    BY <1>1, <1>7, <1>8, <2>1 DEF Changing, At
  <2> QED
    BY <2>2, <2>3, <2>4, <2>5, <2>6
<1>11. Levelled(L)'
  <2>1. ASSUME NEW j \in Levels PROVE Chain(L[j], j)'
    <3>1. Chain(L[j], j) /\ L[j] \subseteq DOMAIN item
      BY <1>2, <1>6 DEF Levelled
    <3>2. \A z \in L[j] \ {TailItem} : Next(z, j)' = Next(z, j)
      BY <1>5, <1>9, <3>1
    <3> QED
      BY <1>9, <3>1, <3>2, ChainStays
  <2>2. \A z \in L[0] : z # y => \A j \in Levels : Stored(z, j)' <=> Stored(z, j)
    BY <1>6, <1>9
  <2>3. \A z \in L[0] \ {y}, j \in Levels :
          (z \in L[j] <=> j <= item[z].level) /\ (Stored(z, j) => z \in L[j])
    BY <1>2, <1>10 DEF Levelled
  <2>4. \A z \in L[0] \ {y}, j \in Levels :
          (z \in L[j] <=> j <= item'[z].level) /\ (Stored(z, j)' => z \in L[j])
    BY <1>6, <1>9, <2>2, <2>3
  <2> QED
    BY <1>2, <1>6, <1>9, <1>10, <2>1, <2>4 DEF Levelled
<1>12. Walkable(G, L)'
  <2>1. \A z \in G \ {TailItem} : Stored(z, 0) /\ Stored(z, 0)'
    BY <1>2, <1>6, <1>9, LevelsAreNumbers DEF Walkable
  <2>2. ASSUME NEW z \in G \ {TailItem}, NEW j \in Levels, Stored(z, j)'
        PROVE  /\ Next(z, j)' \in G
               /\ Next(z, j)' # TailItem => Stored(Next(z, j), j)'
               /\ \A k \in 0 .. j : Stored(z, k)'
               /\ z \in L[j] \/ Moving(z, j)' \/ Key(Next(z, j))' < Key(z)'
    <3>1. CASE z = y /\ j = i
      <4>1. Next(x, i) \in G /\ (Next(x, i) # TailItem => Stored(Next(x, i), i))
        <5>1. x \in G \ {TailItem} /\ Stored(x, i)
          BY <1>4, <1>6, ListAssumption DEF Stored, Nodes
        <5> QED
          BY <1>3, <5>1, Follow
      <4>2. ASSUME NEW k \in 0 .. i PROVE Stored(z, k)'
        <5>1. k \in Levels /\ (k < i \/ k = i)
          BY <1>3, LevelsAreNumbers
        <5> QED
          BY <1>5, <1>9, <3>1, <5>1
      <4>3. Next(z, j)' = Next(x, i)
        BY <1>3, <1>5, <1>9, <3>1
      <4>4. Next(x, i) # TailItem => Stored(Next(z, j), j)'
        BY <1>3, <1>6, <1>9, <3>1, <4>1, <4>3
      <4> QED
        BY <1>10, <3>1, <4>1, <4>2, <4>3, <4>4
    <3>2. CASE ~(z = y /\ j = i)
      <4>1. Stored(z, j) /\ Next(z, j)' = Next(z, j) /\ z \in DOMAIN item
        BY <1>6, <1>9, <2>2, <3>2
      <4>2. /\ Next(z, j) \in G
            /\ Next(z, j) # TailItem => Stored(Next(z, j), j)
            /\ \A k \in 0 .. j : Stored(z, k)
            /\ z \in L[j] \/ Key(Next(z, j)) < Key(z)
        BY <1>2, <1>10, <4>1 DEF Walkable
      <4> QED
        BY <1>6, <1>9, <4>1, <4>2, LevelsAreNumbers
    <3> QED
      BY <3>1, <3>2
  <2> QED
    BY <1>6, <1>9, <2>1, <2>2 DEF Walkable
<1>13. Accounted(L)'
  BY <1>1, <1>2, <1>9, <1>10 DEF Accounted
<1>14. HintOK'
  <2>1. \A j \in Levels : Next(Header, j)' = Next(Header, j)
    BY <1>2, <1>5, <1>9 DEF HeapOK
  <2> QED
    BY <1>1, <1>2, <1>10, <2>1, HintStays
<1>15. ThreadOK(t, G, L)'
  <2>1. CallOK(t)'
    BY <1>1, <1>2 DEF CallOK
  <2>2. SavesOK(t, G)'
    BY <1>1, <1>2, <1>7, <1>8, <1>9 DEF SavesOK, Foothold, Extends, r
  <2>3. Inserting(t, L)'
    BY <1>1, <1>3, <1>5, <1>6, <1>7, <1>8, <1>9 DEF Inserting, r, y, i
  <2>4. Place(t, L)'
    BY <1>3, <1>4, <1>5, <1>6, <1>7, <1>8, <1>9 DEF Place
  <2>4a. {reg'[t].x, reg'[t].y} \subseteq DOMAIN item'
    BY <1>5, <1>6, <1>7, <1>8, <1>9
  <2>5. WriterOK(t, G, L)'
    BY <1>3, <1>7, <1>8, <2>3, <2>4, <2>4a DEF WriterOK
  <2>6. ReaderOK(t, G)' /\ OutsideOK(t, G)'
    BY <1>1 DEF ReaderOK, OutsideOK
  <2> QED
    BY <2>1, <2>2, <2>5, <2>6 DEF ThreadOK
<1> QED
  BY <1>1, <1>8, <1>9, <1>11, <1>12, <1>13, <1>14, <1>15, WriterStep

(* The same of the writer after its step.                                  *)
LEMMA WriterAfter ==
  ASSUME LockInv, NEW t \in Threads, pc[t] = "writing", Alone(t), call' = call,
         pc'[t] \in {"writing", "hint"}, pc'[t] = "writing" => reg'[t].step # "examine"
  PROVE  /\ Handled' = IF pc'[t] = "writing" /\ reg'[t].step \in
                           {"forward", "publish", "unlink", "backlink"}
                       THEN {reg'[t].y} ELSE {}
         /\ \A x, i : Moving(x, i)' <=> /\ pc'[t] = "writing"
                                       /\ reg'[t].step \in {"publish", "backlink"}
                                       /\ reg'[t].y = x /\ reg'[t].i = i
         /\ \A ops : Changing(ops)' <=> call[t].op \in ops
<1>1. \A u \in Threads \ {t} : pc'[u] \notin {"writing", "hint"}
  BY WriterAlone DEF Alone
<1>2. Handled' = IF pc'[t] = "writing" /\ reg'[t].step \in
                      {"forward", "publish", "unlink", "backlink"}
                 THEN {reg'[t].y} ELSE {}
  BY <1>1 DEF Handled, At
<1>3. \A x, i : Moving(x, i)' <=> /\ pc'[t] = "writing"
                                 /\ reg'[t].step \in {"publish", "backlink"}
                                 /\ reg'[t].y = x /\ reg'[t].i = i
  BY <1>1 DEF Moving
<1>4. \A ops : Changing(ops)' <=> call[t].op \in ops
  BY <1>1 DEF Changing, At
<1> QED
  BY <1>2, <1>3, <1>4

(* An item that has left level i points back at its predecessor there.     *)
LEMMA BacklinkStep ==
  ASSUME LockInv, NEW G, NEW L, Shape(G, L), NEW t \in Threads, Backlink(t),
         UNCHANGED client
  PROVE  Shape(G, L)'
<1> DEFINE r == reg[t]
           y == r.y
           i == r.i
           x == r.x
           n == reg'[t]
<1>1. /\ Writing(t, "backlink") /\ pc[t] = "writing" /\ r.step = "backlink"
      /\ item' = Link(y, i, x)
      /\ UNCHANGED <<topLevel, levelHint, held, call, client>>
  BY DEF Backlink, Writing, callVars
<1>2. /\ r \in Local /\ WriterOK(t, G, L) /\ SavesOK(t, G) /\ CallOK(t)
      /\ call[t] \in Calls /\ pc \in [Threads -> Locations]
      /\ HeapOK /\ Levelled(L) /\ Walkable(G, L) /\ Accounted(L) /\ HintOK
      /\ reg \in [Threads -> Local]
  BY <1>1, InsideFacts DEF Shape, HeapOK
<1>3. /\ Deleting(t, G, L) /\ Place(t, L) /\ \A j \in Levels : r.save[j] # Wild
      /\ i \in Levels
  BY <1>1, <1>2 DEF WriterOK, Local
<1>4. /\ x \in L[i] \ {TailItem} /\ Key(x) < Key(y)
      /\ y \in Blocks \cap G /\ y \notin L[i] /\ call[t].op = "delete"
      /\ \A j \in Levels : y \in L[j] <=> j < i
      /\ \A j \in 0 .. i : Stored(y, j)
      /\ y # TailItem /\ y # Header /\ Key(y) = call[t].key
  <2>1. \A j \in Levels : y \in L[j] <=> j < i
    BY <1>1, <1>3 DEF Deleting
  <2>2. y \notin L[i]
    <3> HIDE DEF y, i
    <3>1. i \in Levels /\ i \in Nat
      BY <1>3, LevelsAreNumbers
    <3>2. ~(i < i)
      BY <3>1
    <3> QED
      BY <2>1, <3>1, <3>2
  <2>3. y \in Blocks /\ y # TailItem /\ y # Header
    BY <1>3, ListAssumption DEF Deleting
  <2> QED
    BY <1>1, <1>3, <2>1, <2>2, <2>3 DEF Deleting, Place
<1>5. /\ L[i] \subseteq L[0] /\ L[0] \subseteq G /\ G \subseteq DOMAIN item
      /\ L \in [Levels -> SUBSET DOMAIN item]
      /\ x \in DOMAIN item /\ x \in Nodes /\ Stored(x, i)
  BY <1>2, <1>3, <1>4, LevelsAreNumbers, ListAssumption
  DEF Levelled, Walkable, Chain, HeapOK, Stored, Nodes
<1>6. \/ /\ i > 0 /\ pc' = pc /\ cached' = cached /\ deleted' = deleted
         /\ reg' = [reg EXCEPT ![t] = [r EXCEPT !.i = i - 1, !.step = "unlink"]]
      \/ /\ i = 0 /\ reg' = [reg EXCEPT ![t] = NoReg] /\ deleted' = deleted \cup {y}
         /\ pc' = [pc EXCEPT ![t] = "hint"] /\ cached' = cached + 1
  BY DEF Backlink, Reg, lockVars, Update, Goto
<1> HIDE DEF r, y, i, x
<1>7. /\ reg' = [reg EXCEPT ![t] = n] /\ n \in Local
      /\ \A u \in Threads \ {t} : pc'[u] = pc[u]
      /\ i = 0 => n = NoReg /\ pc'[t] = "hint"
      /\ i > 0 => /\ n.i = i - 1 /\ n.step = "unlink" /\ n.y = y /\ n.save = r.save
                  /\ n.x = x /\ pc'[t] = "writing"
  <2>1. CASE i > 0
    <3> DEFINE m == [r EXCEPT !.i = i - 1]
               k == [m EXCEPT !.step = "unlink"]
    <3>1. i - 1 \in Levels
      BY <1>3, <2>1, LevelsAreNumbers
    <3>2. m \in Local /\ m.i = i - 1 /\ m.x = x /\ m.y = y /\ m.save = r.save
      BY <1>2, <3>1, NewI DEF x, y
    <3>3. reg' = [reg EXCEPT ![t] = k]
      BY <1>6, <2>1
    <3> HIDE DEF m
    <3>4. /\ k \in Local /\ k.i = i - 1 /\ k.step = "unlink" /\ k.x = x /\ k.y = y
          /\ k.save = r.save
      BY <3>2, NewStep DEF StepNames
    <3> HIDE DEF k
    <3> QED
      BY <1>1, <1>2, <1>6, <2>1, <3>3, <3>4
  <2>2. CASE i = 0
    BY <1>2, <1>6, <2>2, NoRegIsLocal
  <2> QED
    BY <1>3, <2>1, <2>2, LevelsAreNumbers
<1> HIDE DEF n
<1>8. /\ reg' \in [Threads -> Local] /\ reg'[t] = n /\ Alone(t)
      /\ (i = 0 \/ i > 0) /\ i \in Nat
  BY <1>1, <1>2, <1>3, <1>7, LevelsAreNumbers DEF Alone
<1>9. /\ HeapOK' /\ LocksExact' /\ Extends(G, G)
      /\ DOMAIN item' = DOMAIN item
      /\ \A z \in DOMAIN item :
           /\ Key(z)' = Key(z) /\ item'[z].level = item[z].level
           /\ \A j \in Levels : Next(z, j)' = IF z = y /\ j = i THEN x ELSE Next(z, j)
           /\ \A j \in Levels : Stored(z, j)' <=> Stored(z, j) \/ (z = y /\ j = i)
  <2>1. deleted' \in SUBSET Blocks
    BY <1>2, <1>4, <1>6 DEF HeapOK
  <2> QED
    BY <1>1, <1>3, <1>4, <1>5, <1>8, <2>1, LinkKeeps
<1>10. /\ Handled = {y} /\ Handled' = IF i = 0 THEN {} ELSE {y}
       /\ \A z, j : Moving(z, j) <=> z = y /\ j = i
       /\ \A z, j : ~Moving(z, j)'
       /\ \A ops : Changing(ops) => Changing(ops)'
  <2>1. /\ Handled = {y} /\ \A z, j : Moving(z, j) <=> z = y /\ j = i
        /\ \A ops : Changing(ops) <=> call[t].op \in ops
    BY <1>1, WriterAlone DEF Handles, r, y, i
  <2>2. /\ Handled' = IF i = 0 THEN {} ELSE {y}
        /\ \A z, j : ~Moving(z, j)'
        /\ \A ops : Changing(ops)' <=> call[t].op \in ops
    BY <1>1, <1>7, <1>8, WriterAfter
  <2> QED
    BY <2>1, <2>2
<1>11. Levelled(L)'
  <2>1. ASSUME NEW j \in Levels PROVE Chain(L[j], j)'
    <3>1. Chain(L[j], j) /\ L[j] \subseteq DOMAIN item
      BY <1>2, <1>5 DEF Levelled
    <3>2. \A z \in L[j] \ {TailItem} : Next(z, j)' = Next(z, j)
      BY <1>4, <1>9, <3>1
    <3> QED
      BY <1>9, <3>1, <3>2, ChainStays
  <2>2. y \notin L[0] \/ i > 0
    BY <1>4, <1>8
  <2>3. \A z \in L[0] \ {y}, j \in Levels :
          (z \in L[j] <=> j <= item[z].level) /\ (Stored(z, j) => z \in L[j])
    BY <1>2, <1>10 DEF Levelled
  <2>4. \A z \in L[0] \ {y}, j \in Levels :
          (z \in L[j] <=> j <= item'[z].level) /\ (Stored(z, j)' => z \in L[j])
    BY <1>5, <1>9, <2>3
  <2> QED
    BY <1>2, <1>5, <1>9, <1>10, <2>1, <2>2, <2>4 DEF Levelled
<1>12. Walkable(G, L)'
  <2>1. \A z \in G \ {TailItem} : Stored(z, 0)'
    BY <1>2, <1>5, <1>9, LevelsAreNumbers DEF Walkable
  <2>2. ASSUME NEW z \in G \ {TailItem}, NEW j \in Levels, Stored(z, j)'
        PROVE  /\ Next(z, j)' \in G
               /\ Next(z, j)' # TailItem => Stored(Next(z, j), j)'
               /\ \A k \in 0 .. j : Stored(z, k)'
               /\ z \in L[j] \/ Moving(z, j)' \/ Key(Next(z, j))' < Key(z)'
    <3>1. CASE z = y /\ j = i
      <4>1. ASSUME NEW k \in 0 .. i PROVE Stored(z, k)'
        <5>1. k \in Levels
          BY <1>3, LevelsAreNumbers
        <5> QED
          BY <1>4, <1>5, <1>9, <3>1, <5>1
      <4>2. Next(z, j)' = x
        BY <1>3, <1>4, <1>5, <1>9, <3>1
      <4>3. Stored(Next(z, j), j)'
        BY <1>3, <1>5, <1>9, <3>1, <4>2
      <4>4. Key(Next(z, j))' < Key(z)'
        BY <1>4, <1>5, <1>9, <3>1, <4>2
      <4> QED
        BY <1>5, <3>1, <4>1, <4>2, <4>3, <4>4, <1>4
    <3>2. CASE ~(z = y /\ j = i)
      <4>1. Stored(z, j) /\ Next(z, j)' = Next(z, j) /\ z \in DOMAIN item
        BY <1>5, <1>9, <2>2, <3>2
      <4>2. /\ Next(z, j) \in G
            /\ Next(z, j) # TailItem => Stored(Next(z, j), j)
            /\ \A k \in 0 .. j : Stored(z, k)
            /\ z \in L[j] \/ Key(Next(z, j)) < Key(z)
        BY <1>2, <1>10, <3>2, <4>1 DEF Walkable
      <4> QED
        BY <1>5, <1>9, <4>1, <4>2, LevelsAreNumbers
    <3> QED
      BY <3>1, <3>2
  <2> QED
    BY <1>5, <1>9, <2>1, <2>2 DEF Walkable
<1>13. Accounted(L)'
  <2>1. CASE i > 0
    BY <1>2, <1>6, <1>9, <1>10, <2>1 DEF Accounted
  <2>2. CASE i = 0
    <3>1. y \notin L[0] /\ y \notin deleted /\ IsFiniteSet(deleted)
          /\ cached = Cardinality(deleted)
      BY <1>2, <1>4, <1>10, <2>2 DEF Accounted
    <3>2. deleted' = deleted \cup {y} /\ cached' = cached + 1
      BY <1>6, <2>2
    <3>3. IsFiniteSet(deleted') /\ cached' = Cardinality(deleted')
      BY <3>1, <3>2, FS_AddElement
    <3> QED
      BY <1>2, <1>9, <1>10, <2>2, <3>1, <3>2, <3>3 DEF Accounted
  <2> QED
    BY <1>8, <2>1, <2>2
<1>14. HintOK'
  <2>1. \A j \in Levels : Next(Header, j)' = Next(Header, j)
    BY <1>2, <1>4, <1>9 DEF HeapOK
  <2> QED
    BY <1>1, <1>2, <1>10, <2>1, HintStays
<1>15. ThreadOK(t, G, L)'
  <2>1. CallOK(t)'
    BY <1>1, <1>2, <1>7, <1>8 DEF CallOK, ReadSection, WriteSection
  <2>2. CASE i = 0
    <3>1. pc'[t] = "hint" /\ reg'[t] = NoReg
      BY <1>7, <1>8, <2>2
    <3>2. OutsideOK(t, G)'
      BY <3>1, NoRegIsLocal DEF OutsideOK
    <3>3. ReaderOK(t, G)' /\ SavesOK(t, G)' /\ WriterOK(t, G, L)'
      BY <3>1 DEF ReaderOK, SavesOK, WriterOK
    <3> QED
      BY <2>1, <3>2, <3>3 DEF ThreadOK
  <2>3. CASE i > 0
    <3>1. /\ pc'[t] = "writing" /\ n.i = i - 1 /\ n.step = "unlink" /\ n.y = y
          /\ n.save = r.save /\ n.x = x
      BY <1>7, <2>3
    <3>2. SavesOK(t, G)'
      BY <1>1, <1>2, <1>8, <1>9, <3>1 DEF SavesOK, Foothold, Extends, r
    <3>3. Deleting(t, G, L)'
      <4>1. \A j \in Levels : y \in L[j] <=> j < n.i \/ j = n.i
        <5>1. \A k, l \in Nat : l > 0 => (k < l <=> k < l - 1 \/ k = l - 1)
          OBVIOUS
        <5>2. \A j \in Levels : j < i <=> j < i - 1 \/ j = i - 1
          BY <1>8, <2>3, <5>1, LevelsAreNumbers
        <5> QED
          BY <1>4, <3>1, <5>2
      <4>2. \A j \in 0 .. n.i : j \in Levels /\ j \in 0 .. i
        BY <1>3, <1>8, <3>1, LevelsAreNumbers
      <4>3. \A z : z = y => \A j \in 0 .. n.i : Stored(z, j)'
        BY <1>4, <1>5, <1>9, <4>2
      <4>4. \A z : z = y => Key(z)' = call[t].key
        BY <1>4, <1>5, <1>9
      <4> QED
        BY <1>1, <1>4, <1>8, <3>1, <4>1, <4>3, <4>4 DEF Deleting
    <3>3a. {reg'[t].x, reg'[t].y} \subseteq DOMAIN item'
      BY <1>4, <1>5, <1>8, <1>9, <3>1
    <3>4. WriterOK(t, G, L)'
      BY <1>3, <1>8, <3>1, <3>3, <3>3a DEF WriterOK
    <3>5. ReaderOK(t, G)' /\ OutsideOK(t, G)'
      BY <3>1 DEF ReaderOK, OutsideOK
    <3> QED
      BY <2>1, <3>2, <3>4, <3>5 DEF ThreadOK
  <2> QED
    BY <1>8, <2>2, <2>3
<1> QED
  BY <1>1, <1>8, <1>9, <1>11, <1>12, <1>13, <1>14, <1>15, WriterStep

(* The item is bypassed at level i, and stays where it was below.          *)
LEMMA UnlinkStep ==
  ASSUME LockInv, NEW G, NEW L, Shape(G, L), NEW t \in Threads, Unlink(t),
         UNCHANGED client
  PROVE  \E L2 : /\ L2 = [L EXCEPT ![reg[t].i] = L[reg[t].i] \ {reg[t].y}]
                  /\ Shape(G, L2)'
<1>0. PICK r, y, i : r = reg[t] /\ y = r.y /\ i = r.i
  OBVIOUS
<1>0a. PICK x : x = Closest(r.save[i], call[t].key, i)
  OBVIOUS
<1>0b. PICK n, M : n = [r EXCEPT !.x = x, !.step = "backlink"] /\ M = [L EXCEPT ![i] = L[i] \ {y}]
  OBVIOUS
<1>1. /\ Writing(t, "unlink") /\ pc[t] = "writing" /\ r.step = "unlink"
      /\ item' = Link(x, i, Next(y, i)) /\ reg' = [reg EXCEPT ![t] = n]
      /\ pc' = pc /\ cached' = cached
      /\ UNCHANGED <<topLevel, levelHint, deleted, held, call, client>>
  BY <1>0, <1>0a, <1>0b DEF Unlink, Writing, Reg, lockVars
<1>2. /\ r \in Local /\ WriterOK(t, G, L) /\ SavesOK(t, G) /\ CallOK(t)
      /\ call[t] \in Calls
      /\ HeapOK /\ Levelled(L) /\ Walkable(G, L) /\ Accounted(L) /\ HintOK
      /\ reg \in [Threads -> Local]
  BY <1>0, <1>1, InsideFacts DEF Shape, HeapOK
<1>3. /\ Deleting(t, G, L) /\ \A j \in Levels : r.save[j] # Wild
      /\ i \in Levels /\ i \in Nat
  BY <1>0, <1>1, <1>2, LevelsAreNumbers DEF WriterOK, Local
<1>4. /\ x \in L[i] \ {TailItem} /\ Key(x) < call[t].key /\ call[t].key <= Key(Next(x, i))
  BY <1>0, <1>0a, <1>1, PlaceAt
<1>5. /\ y \in Blocks \cap G /\ call[t].op = "delete" /\ Key(y) = call[t].key
      /\ \A j \in Levels : y \in L[j] <=> j < i \/ j = i
      /\ \A j \in 0 .. i : Stored(y, j)
      /\ y # TailItem /\ y # Header
  <2>1. \A j \in Levels : y \in L[j] <=> j < i \/ j = i
    BY <1>0, <1>1, <1>3 DEF Deleting
  <2>2. y \in Blocks /\ y # TailItem /\ y # Header
    BY <1>0, <1>3, ListAssumption DEF Deleting
  <2> QED
    BY <1>0, <1>3, <2>1, <2>2 DEF Deleting
<1>6. /\ y \in L[i] /\ L[i] \subseteq L[0] /\ L[0] \subseteq G /\ G \subseteq DOMAIN item
      /\ L \in [Levels -> SUBSET DOMAIN item] /\ Chain(L[i], i)
      /\ x \in DOMAIN item /\ x \in Nodes
  BY <1>2, <1>3, <1>4, <1>5, LevelsAreNumbers
  DEF Levelled, Walkable, Chain, HeapOK
<1>7. /\ n \in Local /\ n.x = x /\ n.y = y /\ n.i = i /\ n.step = "backlink" /\ n.save = r.save
  <2> DEFINE m == [r EXCEPT !.x = x]
  <2>1. n = [m EXCEPT !.step = "backlink"]
    BY <1>0b
  <2>2. m \in Local /\ m.x = x /\ m.y = y /\ m.i = i /\ m.save = r.save
    BY <1>0, <1>2, <1>6, NewX
  <2> HIDE DEF m
  <2> QED
    BY <2>1, <2>2, NewStep DEF StepNames
<1>8. reg' \in [Threads -> Local] /\ reg'[t] = n /\ Alone(t)
  BY <1>1, <1>2, <1>7 DEF Alone
<1>9. /\ Next(y, i) \in L[i] /\ Next(y, i) \in Nodes /\ Key(y) < Key(Next(y, i))
      /\ Next(y, i) # y
  BY <1>2, <1>5, <1>6 DEF Chain, HeapOK, Key, Node
<1>10. /\ HeapOK' /\ LocksExact' /\ Extends(G, G)
       /\ DOMAIN item' = DOMAIN item
       /\ \A z \in DOMAIN item :
            /\ Key(z)' = Key(z) /\ item'[z].level = item[z].level
            /\ \A j \in Levels : Next(z, j)' = IF z = x /\ j = i THEN Next(y, i) ELSE Next(z, j)
            /\ \A j \in Levels : Stored(z, j)' <=> Stored(z, j)
  <2>1. deleted' \in SUBSET Blocks
    BY <1>1, <1>2 DEF HeapOK
  <2>2. Stored(x, i)
    BY <1>2, <1>4, <1>6, ListAssumption DEF Chain, HeapOK, Stored, Nodes
  <2>3. x \in DOMAIN item \ {TailItem}
    BY <1>4, <1>6
  <2> QED
    BY <1>1, <1>3, <1>8, <1>9, <2>1, <2>2, <2>3, LinkKeeps
<1>11. /\ Handled = {y} /\ Handled' = {y}
       /\ \A z, j : ~Moving(z, j)
       /\ \A z, j : Moving(z, j)' <=> z = y /\ j = i
       /\ \A ops : Changing(ops) <=> call[t].op \in ops
       /\ \A ops : Changing(ops)' <=> call[t].op \in ops
  <2>1. /\ Handled = {y} /\ \A z, j : ~Moving(z, j)
        /\ \A ops : Changing(ops) <=> call[t].op \in ops
    BY <1>0, <1>1, WriterAlone DEF Handles
  <2>2. /\ Handled' = {y} /\ \A z, j : Moving(z, j)' <=> z = y /\ j = i
        /\ \A ops : Changing(ops)' <=> call[t].op \in ops
    BY <1>1, <1>7, <1>8, WriterAfter
  <2> QED
    BY <2>1, <2>2
<1>12. Chain(L[i] \ {y}, i)' /\ Next(x, i) = y /\ x # y
  <2>1. /\ L[i] \in SUBSET DOMAIN item /\ x \in L[i] \ {TailItem} /\ y \in L[i] \cap Blocks
        /\ Key(x) < Key(y) /\ Key(y) <= Key(Next(x, i))
    BY <1>3, <1>4, <1>5, <1>6
  <2>2. \A z \in DOMAIN item :
          /\ Key(z)' = Key(z)
          /\ Next(z, i)' = IF z = x THEN Next(y, i) ELSE Next(z, i)
    BY <1>3, <1>10
  <2>3. Key(x) \in Nat
    BY <1>2, <1>6 DEF HeapOK, Key, Node
  <2> QED
    BY <1>2, <1>3, <1>6, <2>1, <2>2, <2>3, ChainRemove
<1>13. /\ M \in [Levels -> SUBSET DOMAIN item]
       /\ \A j \in Levels : M[j] = IF j = i THEN L[i] \ {y} ELSE L[j]
  BY <1>0b, <1>3, <1>6
<1>14. Levelled(M)'
  <2>1. ASSUME NEW j \in Levels PROVE Chain(M[j], j)'
    <3>1. CASE j = i
      BY <1>12, <1>13, <3>1
    <3>2. CASE j # i
      <4>1. Chain(L[j], j) /\ L[j] \subseteq DOMAIN item /\ M[j] = L[j]
        BY <1>2, <1>6, <1>13, <3>2 DEF Levelled
      <4>2. \A z \in L[j] \ {TailItem} : Next(z, j)' = Next(z, j)
        BY <1>10, <3>2, <4>1
      <4> QED
        BY <1>10, <4>1, <4>2, ChainStays
    <3> QED
      BY <3>1, <3>2
  <2>2. ASSUME NEW j \in Levels, NEW k \in Levels, j <= k PROVE M[k] \subseteq M[j]
    <3>1. L[k] \subseteq L[j]
      BY <1>2, <2>2 DEF Levelled
    <3>2. j = i /\ k # i => y \notin L[k]
      BY <1>5, <2>2, LevelsAreNumbers
    <3> QED
      BY <1>13, <3>1, <3>2
  <2>3. ASSUME NEW z \in M[0] \ {y}, NEW j \in Levels
        PROVE  (z \in M[j] <=> j <= item'[z].level) /\ (Stored(z, j)' => z \in M[j])
    <3>1. z \in L[0] /\ z \in DOMAIN item
      BY <1>6, <1>13, <2>3, LevelsAreNumbers
    <3>2. (z \in L[j] <=> j <= item[z].level) /\ (Stored(z, j) => z \in L[j])
      BY <1>2, <1>11, <2>3, <3>1 DEF Levelled
    <3>3. z \in M[j] <=> z \in L[j]
      BY <1>13, <2>3
    <3> QED
      BY <1>10, <3>1, <3>2, <3>3
  <2> QED
    BY <1>10, <1>11, <1>13, <2>1, <2>2, <2>3 DEF Levelled
<1>15. Walkable(G, M)'
  <2>1. \A z \in G \ {TailItem} : Stored(z, 0)'
    BY <1>2, <1>6, <1>10, LevelsAreNumbers DEF Walkable
  <2>2. ASSUME NEW z \in G \ {TailItem}, NEW j \in Levels, Stored(z, j)'
        PROVE  /\ Next(z, j)' \in G
               /\ Next(z, j)' # TailItem => Stored(Next(z, j), j)'
               /\ \A k \in 0 .. j : Stored(z, k)'
               /\ z \in M[j] \/ Moving(z, j)' \/ Key(Next(z, j))' < Key(z)'
    <3>1. Stored(z, j) /\ z \in DOMAIN item /\ \A k \in 0 .. j : k \in Levels
      BY <1>6, <1>10, <2>2, LevelsAreNumbers
    <3>2. /\ Next(z, j) \in G
          /\ Next(z, j) # TailItem => Stored(Next(z, j), j)
          /\ \A k \in 0 .. j : Stored(z, k)
          /\ z \in L[j] \/ Key(Next(z, j)) < Key(z)
      BY <1>2, <1>11, <3>1 DEF Walkable
    <3>3. \A k \in 0 .. j : Stored(z, k)'
      BY <1>10, <3>1, <3>2
    <3>4. CASE z = x /\ j = i
      <4>1. Next(z, j)' = Next(y, i) /\ Next(y, i) \in G
        BY <1>3, <1>6, <1>9, <1>10, <3>4
      <4>2. Next(y, i) # TailItem => Stored(Next(y, i), i)
        BY <1>2, <1>3, <1>6, <1>9, ListAssumption
        DEF Chain, HeapOK, Stored, Nodes
      <4>3. Next(z, j)' # TailItem => Stored(Next(z, j), j)'
        BY <1>3, <1>6, <1>10, <3>4, <4>1, <4>2
      <4>4. z \in M[j]
        BY <1>4, <1>12, <1>13, <3>4
      <4> QED
        BY <3>3, <4>1, <4>3, <4>4
    <3>5. CASE ~(z = x /\ j = i)
      <4>1. Next(z, j)' = Next(z, j)
        BY <1>10, <3>1, <3>5
      <4>2. Next(z, j)' # TailItem => Stored(Next(z, j), j)'
        BY <1>6, <1>10, <3>2, <4>1
      <4>3. z \in L[j] => z \in M[j] \/ Moving(z, j)'
        BY <1>11, <1>13
      <4>4. Key(Next(z, j)) < Key(z) => Key(Next(z, j))' < Key(z)'
        BY <1>6, <1>10, <3>1, <3>2, <4>1
      <4> QED
        BY <3>2, <3>3, <4>1, <4>2, <4>3, <4>4
    <3> QED
      BY <3>4, <3>5
  <2>3. M[0] \subseteq G
    BY <1>6, <1>13, LevelsAreNumbers
  <2> QED
    BY <1>6, <1>10, <2>1, <2>2, <2>3 DEF Walkable
<1>16. Accounted(M)'
  <2>1. M[0] \cup {y} = L[0] \cup {y} /\ M[0] \subseteq L[0]
    BY <1>13, LevelsAreNumbers
  <2> QED
    BY <1>1, <1>2, <1>10, <1>11, <2>1 DEF Accounted
<1>17. HintOK'
  <2>1. /\ \A j \in Levels : j > topLevel => Next(Header, j) = TailItem
        /\ \A j \in Levels : j > levelHint => Next(Header, j) = TailItem
    BY <1>2, <1>5, <1>11 DEF HintOK
  <2>2. \A j \in Levels : Next(Header, j) = TailItem => Next(Header, j)' = TailItem
    BY <1>2, <1>5, <1>10, <1>12 DEF HeapOK
  <2> QED
    BY <1>1, <1>5, <1>11, <2>1, <2>2 DEF HintOK
<1>18. ThreadOK(t, G, M)'
  <2>1. CallOK(t)'
    BY <1>1, <1>2 DEF CallOK
  <2>2. SavesOK(t, G)'
    BY <1>0, <1>1, <1>2, <1>7, <1>8, <1>10 DEF SavesOK, Foothold, Extends
  <2>3. Deleting(t, G, M)'
    <3>1. \A j \in Levels : y \in M[j] <=> j < i
      BY <1>3, <1>5, <1>13, LevelsAreNumbers
    <3>2. \A z : z = y => \A j \in 0 .. i : Stored(z, j)'
      BY <1>3, <1>5, <1>6, <1>10, LevelsAreNumbers
    <3>3. \A z : z = y => Key(z)' = call[t].key
      BY <1>5, <1>6, <1>10
    <3> QED
      BY <1>1, <1>5, <1>7, <1>8, <3>1, <3>2, <3>3 DEF Deleting
  <2>4. Place(t, M)'
    <3>1. x \in M[i] \ {TailItem} /\ Key(x) < Key(y)
      BY <1>3, <1>4, <1>5, <1>12, <1>13
    <3>2. \A z, w : z = x /\ w = y =>
            /\ Key(z)' < Key(w)' /\ Key(w)' <= Key(Next(z, i))'
            /\ Next(w, i)' = Next(z, i)'
      <4>1. \A z, w : z = x /\ w = y =>
              Next(w, i)' = Next(y, i) /\ Next(z, i)' = Next(y, i)
        BY <1>3, <1>6, <1>10, <1>12
      <4>2. Key(y) <= Key(Next(y, i)) /\ Next(y, i) \in DOMAIN item
        BY <1>2, <1>6, <1>9 DEF HeapOK, Key, Node
      <4> QED
        BY <1>6, <1>10, <3>1, <4>1, <4>2
    <3> QED
      BY <1>7, <1>8, <3>1, <3>2 DEF Place
  <2>4a. {reg'[t].x, reg'[t].y} \subseteq DOMAIN item'
    BY <1>5, <1>6, <1>7, <1>8, <1>10
  <2>5. WriterOK(t, G, M)'
    BY <1>3, <1>7, <1>8, <2>3, <2>4, <2>4a DEF WriterOK
  <2>6. ReaderOK(t, G)' /\ OutsideOK(t, G)'
    BY <1>1 DEF ReaderOK, OutsideOK
  <2> QED
    BY <2>1, <2>2, <2>5, <2>6 DEF ThreadOK
<1>19. Shape(G, M)'
  BY <1>1, <1>8, <1>10, <1>14, <1>15, <1>16, <1>17, <1>18, WriterStep
<1> QED
  BY <1>0, <1>0b, <1>19

(* An item that is linked at level i can be reached there.                 *)
LEMMA PublishStep ==
  ASSUME LockInv, NEW G, NEW L, Shape(G, L), NEW t \in Threads, Publish(t),
         UNCHANGED client
  PROVE  \E G2, L2 : /\ L2 = [L EXCEPT ![reg[t].i] = L[reg[t].i] \cup {reg[t].y}]
                      /\ Shape(G2, L2)'
<1>0. PICK r, x, y, i : r = reg[t] /\ x = r.x /\ y = r.y /\ i = r.i
  OBVIOUS
<1>0a. PICK n : n = reg'[t]
  OBVIOUS
<1>0b. PICK H, M : H = G \cup {y} /\ M = [L EXCEPT ![i] = L[i] \cup {y}]
  OBVIOUS
<1>0c. PICK ends \in BOOLEAN : ends <=> i = item[y].level
  OBVIOUS
<1>1. /\ Writing(t, "publish") /\ pc[t] = "writing" /\ r.step = "publish"
      /\ item' = Link(x, i, y)
      /\ UNCHANGED <<topLevel, levelHint, deleted, held, call, client>> /\ cached' = cached
  BY <1>0 DEF Publish, Writing, lockVars
<1>2. /\ r \in Local /\ WriterOK(t, G, L) /\ SavesOK(t, G) /\ CallOK(t)
      /\ call[t] \in Calls /\ pc \in [Threads -> Locations]
      /\ HeapOK /\ Levelled(L) /\ Walkable(G, L) /\ Accounted(L) /\ HintOK
      /\ reg \in [Threads -> Local]
  BY <1>0, <1>1, InsideFacts DEF Shape, HeapOK
<1>3. /\ Inserting(t, L) /\ Place(t, L) /\ \A j \in Levels : r.save[j] # Wild
      /\ i \in Levels /\ i \in Nat
  BY <1>0, <1>1, <1>2, LevelsAreNumbers DEF WriterOK, Local
<1>4. /\ call[t].op \in {"insert", "update"} /\ Key(y) = call[t].key
      /\ y \in Blocks \cap DOMAIN item /\ y # TailItem /\ y # Header
      /\ item[y].level \in Levels \cap Nat /\ i <= item[y].level /\ item[y].level <= topLevel
      /\ \A j \in Levels : y \in L[j] <=> j < i
      /\ \A j \in Levels : Stored(y, j) <=> j < i \/ j = i
      /\ \A z \in L[0] : Key(z) = Key(y) => z = y
  BY <1>0, <1>1, <1>2, <1>3, LevelsAreNumbers, ListAssumption DEF Inserting, HeapOK, Node
<1>5. /\ x \in L[i] \ {TailItem} /\ Key(x) < Key(y) /\ Key(y) <= Key(Next(x, i))
      /\ Next(y, i) = Next(x, i)
  BY <1>0, <1>1, <1>3 DEF Place
<1>6. /\ \A j \in Levels : L[j] \subseteq L[0] /\ L[j] \subseteq DOMAIN item /\ Chain(L[j], j)
      /\ L[0] \subseteq G /\ G \subseteq DOMAIN item
      /\ L \in [Levels -> SUBSET DOMAIN item]
      /\ x \in DOMAIN item /\ y \notin L[i] /\ x # y
      /\ \A z \in DOMAIN item : Key(z) \in Nat
  BY <1>2, <1>3, <1>4, <1>5, LevelsAreNumbers
  DEF Levelled, Walkable, HeapOK, Key, Node
<1>7. Next(x, i) \in L[i] /\ Key(y) < Key(Next(x, i))
  <2>1. Next(x, i) \in L[i] /\ L[i] \subseteq L[0]
    BY <1>3, <1>5, <1>6 DEF Chain
  <2>2. Key(y) # Key(Next(x, i))
    BY <1>4, <1>6, <2>1
  <2>3. Key(y) \in Nat /\ Key(Next(x, i)) \in Nat
    BY <1>4, <1>3, <1>6, <2>1
  <2> QED
    BY <1>5, <2>1, <2>2, <2>3
<1>8. /\ reg' = [reg EXCEPT ![t] = n] /\ n \in Local
      /\ ~ends => /\ n.y = y /\ n.i = i + 1 /\ n.step = "forward" /\ n.save = r.save
                  /\ n.x = x /\ i < item[y].level /\ pc' = pc
      /\ ends => n = NoReg /\ pc' = [pc EXCEPT ![t] = "hint"]
  <2>1. CASE i < item[y].level
    <3> DEFINE m == [r EXCEPT !.i = i + 1]
               w == [m EXCEPT !.step = "forward"]
    <3>1. reg' = [reg EXCEPT ![t] = [r EXCEPT !.i = i + 1, !.step = "forward"]] /\ pc' = pc
      BY <1>0, <1>4, <2>1, LevelsAreNumbers DEF Publish, Reg, lockVars
    <3>2. [r EXCEPT !.i = i + 1, !.step = "forward"] = w
      OBVIOUS
    <3>3. i + 1 \in Levels
      BY <1>3, <1>4, <2>1, LevelsAreNumbers DEF Levels
    <3>4. m \in Local /\ m.x = x /\ m.y = y /\ m.i = i + 1 /\ m.save = r.save
      BY <1>0, <1>2, <3>3, NewI
    <3> HIDE DEF m
    <3>5. /\ w \in Local /\ w.x = x /\ w.y = y /\ w.i = i + 1 /\ w.step = "forward"
          /\ w.save = r.save
      BY <3>4, NewStep DEF StepNames
    <3>6. reg' = [reg EXCEPT ![t] = w]
      BY <3>1, <3>2
    <3> HIDE DEF w
    <3>7. n = w
      BY <1>0a, <1>2, <3>6
    <3>8. ~ends
      <4>1. \A k, l \in Nat : k < l => k # l
        OBVIOUS
      <4> QED
        BY <1>0c, <1>3, <1>4, <2>1, <4>1
    <3> QED
      BY <2>1, <3>1, <3>5, <3>6, <3>7, <3>8
  <2>2. CASE i = item[y].level
    <3>1. reg' = [reg EXCEPT ![t] = NoReg] /\ pc' = [pc EXCEPT ![t] = "hint"]
      BY <1>0, <1>3, <2>2 DEF Publish, Reg, Update, Goto
    <3>2. n = NoReg
      BY <1>0a, <1>2, <3>1
    <3> QED
      BY <1>0c, <2>2, <3>1, <3>2, NoRegIsLocal
  <2>3. \A k, l \in Nat : k <= l => k < l \/ k = l
    OBVIOUS
  <2> QED
    BY <1>3, <1>4, <2>1, <2>2, <2>3
<1>9. /\ reg' \in [Threads -> Local] /\ reg'[t] = n /\ Alone(t)
      /\ pc'[t] = IF ends THEN "hint" ELSE "writing"
  BY <1>1, <1>2, <1>8 DEF Alone
<1>10. /\ HeapOK' /\ LocksExact' /\ Extends(G, G)
       /\ DOMAIN item' = DOMAIN item
       /\ \A z \in DOMAIN item :
            /\ Key(z)' = Key(z) /\ item'[z].level = item[z].level
            /\ \A j \in Levels : Next(z, j)' = IF z = x /\ j = i THEN y ELSE Next(z, j)
            /\ \A j \in Levels : Stored(z, j)' <=> Stored(z, j)
  <2>1. deleted' \in SUBSET Blocks /\ y \in Nodes
    BY <1>1, <1>2, <1>4 DEF HeapOK
  <2>2. Stored(x, i)
    BY <1>2, <1>3, <1>7, <1>6, ListAssumption DEF HeapOK, Stored, Nodes
  <2>3. x \in DOMAIN item \ {TailItem}
    BY <1>5, <1>6
  <2> QED
    BY <1>1, <1>3, <1>9, <2>1, <2>2, <2>3, LinkKeeps
<1>11. /\ Handled = {y} /\ Handled' = IF ends THEN {} ELSE {y}
       /\ \A z, j : Moving(z, j) <=> z = y /\ j = i
       /\ \A z, j : ~Moving(z, j)'
       /\ \A ops : Changing(ops) <=> call[t].op \in ops
       /\ \A ops : Changing(ops)' <=> call[t].op \in ops
  <2>1. /\ Handled = {y} /\ \A z, j : Moving(z, j) <=> z = y /\ j = i
        /\ \A ops : Changing(ops) <=> call[t].op \in ops
    BY <1>0, <1>1, WriterAlone DEF Handles
  <2>2. /\ Handled' = IF ends THEN {} ELSE {y}
        /\ \A z, j : ~Moving(z, j)'
        /\ \A ops : Changing(ops)' <=> call[t].op \in ops
    BY <1>1, <1>8, <1>9, WriterAfter
  <2> QED
    BY <2>1, <2>2
<1>12. Chain(L[i] \cup {y}, i)'
  <2>1. /\ L[i] \in SUBSET DOMAIN item /\ x \in L[i] \ {TailItem}
        /\ y \in (DOMAIN item \cap Blocks) \ L[i] /\ Chain(L[i], i)
    BY <1>3, <1>4, <1>5, <1>6
  <2>2. \A z \in DOMAIN item :
          /\ Key(z)' = Key(z)
          /\ Next(z, i)' = IF z = x THEN y ELSE Next(z, i)
    BY <1>3, <1>10
  <2> QED
    BY <1>2, <1>3, <1>5, <1>7, <2>1, <2>2, ChainInsert
<1>13. /\ M \in [Levels -> SUBSET DOMAIN item]
       /\ \A j \in Levels : M[j] = IF j = i THEN L[i] \cup {y} ELSE L[j]
       /\ \A j \in Levels : y \in M[j] <=> j < i \/ j = i
       /\ M[0] = L[0] \cup {y}
  <2>1. /\ M \in [Levels -> SUBSET DOMAIN item]
        /\ \A j \in Levels : M[j] = IF j = i THEN L[i] \cup {y} ELSE L[j]
    BY <1>0b, <1>3, <1>4, <1>6
  <2>2. \A j \in Levels : y \in M[j] <=> j < i \/ j = i
    BY <1>3, <1>4, <2>1
  <2>3. M[0] = L[0] \cup {y}
    BY <1>3, <1>4, <2>1, LevelsAreNumbers
  <2> QED
    BY <2>1, <2>2, <2>3
<1>14. Levelled(M)'
  <2>1. ASSUME NEW j \in Levels PROVE Chain(M[j], j)'
    <3>1. CASE j = i
      BY <1>12, <1>13, <3>1
    <3>2. CASE j # i
      <4>1. Chain(L[j], j) /\ L[j] \subseteq DOMAIN item /\ M[j] = L[j]
        BY <1>6, <1>13, <3>2
      <4>2. \A z \in L[j] \ {TailItem} : Next(z, j)' = Next(z, j)
        BY <1>10, <3>2, <4>1
      <4> QED
        BY <1>10, <4>1, <4>2, ChainStays
    <3> QED
      BY <3>1, <3>2
  <2>2. ASSUME NEW j \in Levels, NEW k \in Levels, j <= k PROVE M[k] \subseteq M[j]
    <3>1. L[k] \subseteq L[j]
      BY <1>2, <2>2 DEF Levelled
    <3>2. k = i => y \in M[j]
      BY <1>3, <1>13, <2>2, LevelsAreNumbers
    <3> QED
      BY <1>13, <3>1, <3>2
  <2>3. ASSUME NEW z \in M[0] \ Handled', NEW j \in Levels
        PROVE  (z \in M[j] <=> j <= item'[z].level) /\ (Stored(z, j)' => z \in M[j])
    <3>1. CASE z = y
      <4>1. i = item'[z].level
        BY <1>0c, <1>4, <1>10, <1>11, <2>3, <3>1
      <4> QED
        BY <1>3, <1>4, <1>10, <1>13, <3>1, <4>1, LevelsAreNumbers
    <3>2. CASE z # y
      <4>1. z \in L[0] /\ z \in DOMAIN item
        BY <1>6, <1>13, <2>3, <3>2, LevelsAreNumbers
      <4>2. (z \in L[j] <=> j <= item[z].level) /\ (Stored(z, j) => z \in L[j])
        BY <1>2, <1>11, <3>2, <4>1 DEF Levelled
      <4>3. z \in M[j] <=> z \in L[j]
        BY <1>13, <3>2
      <4> QED
        BY <1>10, <4>1, <4>2, <4>3
    <3> QED
      BY <3>1, <3>2
  <2> QED
    BY <1>10, <1>13, <2>1, <2>2, <2>3 DEF Levelled
<1>15. Extends(G, H) /\ H \subseteq DOMAIN item /\ M[0] \subseteq H /\ y \in H
       /\ \A z \in H : z \in G \/ z = y
  BY <1>0b, <1>4, <1>6, <1>10, <1>13 DEF Extends
<1>16. Walkable(H, M)'
  <2>1. \A z \in H \ {TailItem} : Stored(z, 0)'
    <3>1. Stored(y, 0)'
      BY <1>3, <1>4, <1>10, LevelsAreNumbers
    <3>2. \A z \in G \ {TailItem} : Stored(z, 0)'
      BY <1>2, <1>6, <1>10, LevelsAreNumbers DEF Walkable
    <3> QED
      BY <1>15, <3>1, <3>2
  <2>2. ASSUME NEW z \in H \ {TailItem}, NEW j \in Levels, Stored(z, j)'
        PROVE  /\ Next(z, j)' \in H
               /\ Next(z, j)' # TailItem => Stored(Next(z, j), j)'
               /\ \A k \in 0 .. j : Stored(z, k)'
               /\ z \in M[j] \/ Moving(z, j)' \/ Key(Next(z, j))' < Key(z)'
    <3>1. Stored(z, j) /\ z \in DOMAIN item /\ \A k \in 0 .. j : k \in Levels
      BY <1>10, <1>15, <2>2, LevelsAreNumbers
    <3>2. CASE z = y
      <4>1. j < i \/ j = i
        BY <1>4, <3>1, <3>2
      <4>2. y \in M[j] /\ Next(y, j)' = Next(y, j)
        BY <1>4, <1>6, <1>10, <1>13, <4>1
      <4>3. Next(y, j) \in L[j]
        <5>1. CASE j = i
          BY <1>5, <1>7, <5>1
        <5>2. CASE j < i
          <6>1. y \in L[j]
            BY <1>4, <5>2
          <6> QED
            BY <1>4, <1>6, <6>1 DEF Chain
        <5> QED
          BY <4>1, <5>1, <5>2
      <4>4. Next(y, j) # TailItem => Stored(Next(y, j), j)
        <5>1. \A w \in L[j] \ {TailItem} : Next(w, j) \in DOMAIN item
          BY <1>6 DEF Chain
        <5> QED
          BY <1>2, <4>3, <5>1, ListAssumption DEF HeapOK, Stored, Nodes
      <4>5. Next(z, j)' # TailItem => Stored(Next(z, j), j)'
        BY <1>6, <1>10, <3>2, <4>2, <4>3, <4>4
      <4>6. \A k \in 0 .. j : Stored(z, k)'
        BY <1>3, <1>4, <1>10, <3>1, <3>2, <4>1, LevelsAreNumbers
      <4>7. Next(z, j)' \in H
        BY <1>6, <1>0b, <3>2, <4>2, <4>3
      <4> QED
        BY <3>2, <4>2, <4>5, <4>6, <4>7
    <3>3. CASE z # y
      <4>1. z \in G \ {TailItem}
        BY <1>15, <3>3
      <4>2. /\ Next(z, j) \in G
            /\ Next(z, j) # TailItem => Stored(Next(z, j), j)
            /\ \A k \in 0 .. j : Stored(z, k)
            /\ z \in L[j] \/ Key(Next(z, j)) < Key(z)
        BY <1>2, <1>11, <3>1, <3>3, <4>1 DEF Walkable
      <4>3. \A k \in 0 .. j : Stored(z, k)'
        BY <1>10, <3>1, <4>2
      <4>4. CASE z = x /\ j = i
        <5>1. Next(z, j)' = y /\ Stored(y, i)'
          BY <1>3, <1>4, <1>6, <1>10, <4>4
        <5>2. Stored(Next(z, j), j)'
          BY <4>4, <5>1
        <5>3. z \in M[j]
          BY <1>5, <1>13, <4>4
        <5> QED
          BY <1>15, <4>3, <5>1, <5>2, <5>3
      <4>5. CASE ~(z = x /\ j = i)
        <5>1. Next(z, j)' = Next(z, j)
          BY <1>10, <3>1, <4>5
        <5>2. Next(z, j)' # TailItem => Stored(Next(z, j), j)'
          BY <1>6, <1>10, <4>2, <5>1
        <5>3. z \in L[j] => z \in M[j]
          BY <1>13
        <5>4. Key(Next(z, j)) < Key(z) => Key(Next(z, j))' < Key(z)'
          BY <1>6, <1>10, <3>1, <4>2, <5>1
        <5>5. Next(z, j)' \in H
          BY <1>0b, <4>2, <5>1
        <5> QED
          BY <4>2, <4>3, <5>2, <5>3, <5>4, <5>5
      <4> QED
        BY <4>4, <4>5
    <3> QED
      BY <3>2, <3>3
  <2> QED
    BY <1>10, <1>15, <2>1, <2>2 DEF Walkable
<1>17. Accounted(M)'
  BY <1>1, <1>2, <1>10, <1>11, <1>13 DEF Accounted
<1>18. HintOK'
  <2>1. /\ \A j \in Levels : j > topLevel => Next(Header, j) = TailItem
        /\ levelHint > 0 => Next(Header, levelHint) # TailItem
    BY <1>2, <1>4, <1>11 DEF HintOK
  <2>2. \A j \in Levels : j > topLevel => j # i
    BY <1>2, <1>3, <1>4, LevelsAreNumbers DEF HeapOK
  <2>3. Header \in DOMAIN item /\ levelHint \in Levels
    BY <1>2, LevelsAreNumbers DEF HeapOK, Levels
  <2>4. \A j \in Levels : Next(Header, j)' = Next(Header, j) \/ (j = i /\ Next(Header, j)' = y)
    BY <1>10, <2>3
  <2>5. Changing({"insert", "update"})'
    BY <1>4, <1>11
  <2> QED
    BY <1>1, <1>4, <2>1, <2>2, <2>3, <2>4, <2>5 DEF HintOK
<1>19. ThreadOK(t, H, M)'
  <2>1. CallOK(t)'
    BY <1>1, <1>2, <1>8, <1>9 DEF CallOK, ReadSection, WriteSection
  <2>2. CASE ends
    <3>1. pc'[t] = "hint" /\ reg'[t] = NoReg
      BY <1>8, <1>9, <2>2
    <3>2. OutsideOK(t, H)'
      BY <3>1, NoRegIsLocal DEF OutsideOK
    <3>3. ReaderOK(t, H)' /\ SavesOK(t, H)' /\ WriterOK(t, H, M)'
      BY <3>1 DEF ReaderOK, SavesOK, WriterOK
    <3> QED
      BY <2>1, <3>2, <3>3 DEF ThreadOK
  <2>3. CASE ~ends
    <3>1. /\ pc'[t] = "writing" /\ n.i = i + 1 /\ n.step = "forward" /\ n.y = y
          /\ n.save = r.save /\ n.x = x /\ i < item[y].level
      BY <1>8, <1>9, <2>3
    <3>2. SavesOK(t, H)'
      BY <1>0, <1>1, <1>2, <1>9, <1>15, <3>1 DEF SavesOK, Foothold, Extends
    <3>3. Inserting(t, M)'
      <4>0. \A j \in Levels : j < n.i <=> j < i \/ j = i
        <5>1. \A k, l \in Nat : k < l + 1 <=> k < l \/ k = l
          OBVIOUS
        <5> QED
          BY <1>3, <3>1, <5>1, LevelsAreNumbers
      <4>1. \A j \in Levels : y \in M[j] <=> j < n.i
        BY <1>13, <4>0
      <4>2. \A j \in Levels : Stored(y, j)' <=> j < n.i
        BY <1>4, <1>10, <4>0
      <4>3. /\ Key(y)' = call[t].key /\ y \in Blocks \cap DOMAIN item'
            /\ item'[y].level = item[y].level
        BY <1>4, <1>10
      <4>4. n.i <= item'[y].level /\ item'[y].level <= topLevel'
        <5>1. \A k, l \in Nat : k < l => k + 1 <= l
          OBVIOUS
        <5> QED
          BY <1>1, <1>3, <1>4, <3>1, <4>3, <5>1
      <4>5. \A z \in M[0] : Key(z)' = Key(y)' => z = y
        BY <1>4, <1>6, <1>10, <1>13
      <4> QED
        BY <1>1, <1>4, <1>9, <3>1, <4>1, <4>2, <4>3, <4>4, <4>5 DEF Inserting
    <3>4. WriterOK(t, H, M)'
      <4>1. n.i # 0
        BY <1>3, <3>1
      <4>2. {reg'[t].x, reg'[t].y} \subseteq DOMAIN item'
        BY <1>4, <1>6, <1>9, <1>10, <3>1
      <4> QED
        BY <1>3, <1>9, <3>1, <3>3, <4>1, <4>2 DEF WriterOK
    <3>5. ReaderOK(t, H)' /\ OutsideOK(t, H)'
      BY <3>1 DEF ReaderOK, OutsideOK
    <3> QED
      BY <2>1, <3>2, <3>4, <3>5 DEF ThreadOK
  <2> QED
    BY <2>2, <2>3
<1>20. Shape(H, M)'
  BY <1>1, <1>9, <1>10, <1>14, <1>15, <1>16, <1>17, <1>18, <1>19, WriterStep
<1> QED
  BY <1>0, <1>0b, <1>20

(* skipDelete takes the item it found into its hands.                      *)
LEMMA DeleteFoundStep ==
  ASSUME LockInv, NEW G, NEW L, Shape(G, L), NEW t \in Threads, DeleteFound(t),
         UNCHANGED client
  PROVE  Shape(G, L)'
<1>0. PICK r, x, y, i : r = reg[t] /\ x = Before(t) /\ y = After(t) /\ i = item[y].level
  OBVIOUS
<1>0a. PICK s, n : s = FillSave(r.save) /\ n = [x |-> x, y |-> y, i |-> i, step |-> "unlink", save |-> s]
  OBVIOUS
<1>1. /\ Writing(t, "examine") /\ pc[t] = "writing" /\ r.step = "examine"
      /\ call[t].op = "delete" /\ Key(y) = call[t].key
      /\ reg' = [reg EXCEPT ![t] = n] /\ pc' = pc /\ cached' = cached
      /\ UNCHANGED <<item, topLevel, levelHint, deleted, held, call, client>>
  BY <1>0, <1>0a DEF DeleteFound, Present, Writing, Reg, lockVars, heapVars, callVars
<1>2. /\ r \in Local /\ WriterOK(t, G, L) /\ SavesOK(t, G) /\ CallOK(t)
      /\ HeapOK /\ Levelled(L) /\ Walkable(G, L) /\ Accounted(L) /\ HintOK /\ LocksExact
      /\ reg \in [Threads -> Local]
  BY <1>0, <1>1, InsideFacts DEF Shape, HeapOK
<1>3. /\ x \in L[0] \ {TailItem} /\ y \in L[0] /\ y = Next(x, 0)
      /\ Key(x) < call[t].key /\ call[t].key <= Key(y)
      /\ call[t].key \in Keys
  BY <1>0, <1>1, PlaceFound
<1>4. /\ L[0] \subseteq G /\ L[0] \subseteq DOMAIN item /\ G \subseteq DOMAIN item
      /\ DOMAIN item \subseteq Nodes /\ Header \in L[0]
      /\ \A j \in Levels : Header \in L[j] /\ Stored(Header, j)
      /\ Header # TailItem /\ Header # Wild
  BY <1>2, LevelsAreNumbers, ListAssumption DEF Levelled, Walkable, HeapOK, Chain, Stored
<1>5. /\ y \in Blocks /\ y # TailItem /\ y # Header /\ i \in Levels
      /\ x \in Nodes /\ y \in Nodes /\ y \in DOMAIN item /\ x \in DOMAIN item
  <2>1. Key(Header) = 0 /\ Key(TailItem) = TailKey
    BY <1>2 DEF HeapOK, Key
  <2>2. y # TailItem /\ y # Header
    BY <1>1, <1>3, <2>1, TailKeyIsLast
  <2>3. i \in Levels
    BY <1>0, <1>2, <1>3, <1>4 DEF HeapOK, Node
  <2> QED
    BY <1>3, <1>4, <2>2, <2>3 DEF Nodes
<1>6. /\ s \in [Levels -> Nodes \cup {Wild}] /\ \A j \in Levels : s[j] # Wild
      /\ \A j \in Levels : Foothold(t, s[j], j, G)
  <2>1. \A j \in Levels : Foothold(t, Header, j, G)
    BY <1>4 DEF Foothold
  <2>2. \A j \in Levels : r.save[j] # Wild => Foothold(t, r.save[j], j, G)
    BY <1>0, <1>1, <1>2 DEF SavesOK
  <2>3. r.save \in [Levels -> Nodes \cup {Wild}]
    BY <1>2 DEF Local
  <2>4. s = [j \in Levels |-> IF r.save[j] = Wild THEN Header ELSE r.save[j]]
    BY <1>0a DEF FillSave
  <2> QED
    BY <1>4, <2>1, <2>2, <2>3, <2>4 DEF Nodes
<1>7. /\ n \in Local /\ n.x = x /\ n.y = y /\ n.i = i /\ n.step = "unlink" /\ n.save = s
  BY <1>0a, <1>5, <1>6 DEF Local, StepNames
<1>8. reg' \in [Threads -> Local] /\ reg'[t] = n /\ Alone(t)
  BY <1>1, <1>2, <1>7 DEF Alone
<1>9. /\ \A z : Key(z)' = Key(z)
      /\ \A z, j : Next(z, j)' = Next(z, j) /\ (Stored(z, j)' <=> Stored(z, j))
  BY <1>1 DEF Key, Next, Stored
<1>10. /\ Handled = {} /\ Handled' = {y}
       /\ \A z, j : ~Moving(z, j)
       /\ \A z, j : ~Moving(z, j)'
       /\ \A ops : ~Changing(ops)
  <2>1. Handled = {} /\ (\A z, j : ~Moving(z, j)) /\ \A ops : ~Changing(ops)
    BY <1>0, <1>1, WriterAlone DEF Handles
  <2>2. Handled' = {y} /\ \A z, j : ~Moving(z, j)'
    BY <1>1, <1>7, <1>8, WriterAfter
  <2> QED
    BY <2>1, <2>2
<1>11. HeapOK' /\ LocksExact' /\ Extends(G, G)
  BY <1>1, <1>2, <1>8, <1>9 DEF HeapOK, LocksExact, Extends
<1>12. Levelled(L)'
  <2>1. ASSUME NEW j \in Levels PROVE Chain(L[j], j)'
    BY <1>2, <1>9 DEF Levelled, Chain
  <2> QED
    BY <1>1, <1>2, <1>9, <1>10, <2>1 DEF Levelled
<1>13. Walkable(G, L)'
  BY <1>1, <1>2, <1>9, <1>10 DEF Walkable
<1>14. Accounted(L)'
  <2>1. y \notin deleted
    BY <1>2, <1>3 DEF Accounted
  <2> QED
    BY <1>1, <1>2, <1>3, <1>10, <2>1 DEF Accounted
<1>15. HintOK'
  BY <1>1, <1>2, <1>9, <1>10, HintStays
<1>16. ThreadOK(t, G, L)'
  <2>1. CallOK(t)'
    BY <1>1, <1>2 DEF CallOK
  <2>2. SavesOK(t, G)'
    BY <1>1, <1>6, <1>7, <1>8, <1>9 DEF SavesOK, Foothold
  <2>3. Deleting(t, G, L)'
    <3>1. \A j \in Levels : y \in L[j] <=> j <= i
      BY <1>0, <1>2, <1>3, <1>10 DEF Levelled
    <3>2. \A j \in Levels : j <= i <=> j < i \/ j = i
      BY <1>5, LevelsAreNumbers
    <3>3. \A j \in 0 .. i : j \in Levels /\ j <= i
      BY <1>5, LevelsAreNumbers
    <3>4. ASSUME NEW j \in 0 .. i PROVE Stored(y, j)
      <4>1. Next(y, j) \in L[j] /\ L[j] \subseteq DOMAIN item
        BY <1>2, <1>5, <3>1, <3>3 DEF Levelled, Chain
      <4> QED
        BY <1>4, <4>1, ListAssumption DEF Stored, Nodes
    <3> QED
      BY <1>1, <1>3, <1>4, <1>5, <1>7, <1>8, <1>9, <3>1, <3>2, <3>4 DEF Deleting
  <2>3a. {reg'[t].x, reg'[t].y} \subseteq DOMAIN item'
    BY <1>1, <1>5, <1>7, <1>8
  <2>4. WriterOK(t, G, L)'
    BY <1>6, <1>7, <1>8, <2>3, <2>3a DEF WriterOK
  <2>5. ReaderOK(t, G)' /\ OutsideOK(t, G)'
    BY <1>1 DEF ReaderOK, OutsideOK
  <2> QED
    BY <2>1, <2>2, <2>4, <2>5 DEF ThreadOK
<1> QED
  BY <1>1, <1>8, <1>11, <1>12, <1>13, <1>14, <1>15, <1>16, WriterStep

(* A new item is in nobody's way.                                          *)
LEMMA NewItemStep ==
  ASSUME LockInv, NEW G, NEW L, Shape(G, L), NEW t \in Threads, NewItem(t),
         UNCHANGED client
  PROVE  Shape(G, L)'
<1>0. PICK r, x, z : r = reg[t] /\ x = Before(t) /\ z = After(t)
  OBVIOUS
<1>1. PICK random, y, level :
        /\ random \in Levels
        /\ level = IF random > topLevel THEN topLevel + 1 ELSE random
        /\ topLevel' = IF random > topLevel THEN topLevel + 1 ELSE topLevel
        /\ \/ /\ y \in Blocks \ DOMAIN item
              /\ item' = [b \in DOMAIN item \cup {y} |->
                           IF b = y THEN NewNode(call[t].key, call[t].value, level)
                                    ELSE item[b]]
              /\ Reg(t, [x |-> x, y |-> y, i |-> 0, step |-> "forward",
                         save |-> FillSave(r.save)])
              /\ UNCHANGED <<lockVars, ret>>
           \/ EndEarly(t, "nomem") /\ UNCHANGED item
  <2>1. PICK random \in Levels :
          LET level == IF random > topLevel THEN topLevel + 1 ELSE random
              free == Blocks \ DOMAIN item
              y == CHOOSE b \in free : TRUE
          IN  /\ topLevel' = IF random > topLevel THEN topLevel + 1 ELSE topLevel
              /\ \/ /\ free # {}
                    /\ item' = [b \in DOMAIN item \cup {y} |->
                                 IF b = y THEN NewNode(call[t].key, call[t].value, level)
                                          ELSE item[b]]
                    /\ Reg(t, [x |-> Before(t), y |-> y, i |-> 0, step |-> "forward",
                               save |-> FillSave(reg[t].save)])
                    /\ UNCHANGED <<lockVars, ret>>
                 \/ EndEarly(t, "nomem") /\ UNCHANGED item
    BY DEF NewItem
  <2>2. PICK y, level :
          /\ y = CHOOSE b \in Blocks \ DOMAIN item : TRUE
          /\ level = IF random > topLevel THEN topLevel + 1 ELSE random
    OBVIOUS
  <2>3. Blocks \ DOMAIN item # {} => y \in Blocks \ DOMAIN item
    BY <2>2
  <2> QED
    BY <1>0, <2>1, <2>2, <2>3, ZenonT(60)
<1>2. /\ Writing(t, "examine") /\ pc[t] = "writing" /\ r.step = "examine"
      /\ call[t].op \in {"insert", "update"} /\ Key(z) # call[t].key
      /\ UNCHANGED <<levelHint, deleted, held, call, client>>
  BY <1>0 DEF NewItem, Writing
<1>3. /\ r \in Local /\ WriterOK(t, G, L) /\ SavesOK(t, G) /\ CallOK(t)
      /\ call[t] \in Calls
      /\ HeapOK /\ Levelled(L) /\ Walkable(G, L) /\ Accounted(L) /\ HintOK /\ LocksExact
      /\ reg \in [Threads -> Local]
  BY <1>0, <1>2, InsideFacts DEF Shape, HeapOK
<1>4. /\ topLevel' \in Levels /\ topLevel <= topLevel' /\ level \in Levels
      /\ level <= topLevel' /\ topLevel \in Nat /\ topLevel' \in Nat /\ level \in Nat
  <2>1. topLevel \in Nat /\ random \in Nat /\ MaxLevel \in Nat /\ random <= MaxLevel
        /\ topLevel <= MaxLevel
    BY <1>1, <1>3, LevelsAreNumbers DEF HeapOK
  <2>2. CASE random > topLevel
    BY <1>1, <2>1, <2>2 DEF Levels
  <2>3. CASE ~(random > topLevel)
    BY <1>1, <2>1, <2>3 DEF Levels
  <2> QED
    BY <2>2, <2>3
<1>5. CASE EndEarly(t, "nomem") /\ UNCHANGED item
  <2>1. SameLinks /\ item' \in [DOMAIN item -> Node]
    BY <1>3, <1>5 DEF SameLinks, Key, Next, HeapOK
  <2> QED
    BY <1>2, <1>4, <1>5, <2>1, EndEarlyStep
<1>6. ASSUME y \in Blocks \ DOMAIN item,
             item' = [b \in DOMAIN item \cup {y} |->
                       IF b = y THEN NewNode(call[t].key, call[t].value, level)
                                ELSE item[b]],
             Reg(t, [x |-> x, y |-> y, i |-> 0, step |-> "forward", save |-> FillSave(r.save)]),
             UNCHANGED <<lockVars, ret>>
      PROVE  Shape(G, L)'
  <2>0. PICK s, n : s = FillSave(r.save)
                    /\ n = [x |-> x, y |-> y, i |-> 0, step |-> "forward", save |-> s]
    OBVIOUS
  <2>1. reg' = [reg EXCEPT ![t] = n] /\ pc' = pc /\ cached' = cached
    BY <1>6, <2>0 DEF Reg, lockVars
  <2>2. /\ x \in L[0] \ {TailItem} /\ z \in L[0] /\ z = Next(x, 0)
        /\ Key(x) < call[t].key /\ call[t].key <= Key(z)
        /\ call[t].key \in Keys /\ call[t].key \in Nat /\ call[t].value \in Values
    BY <1>0, <1>2, <1>3, PlaceFound, CallTypes, TailKeyIsLast
  <2>3. /\ L[0] \subseteq G /\ L[0] \subseteq DOMAIN item /\ G \subseteq DOMAIN item
        /\ DOMAIN item \subseteq Nodes /\ x \in Nodes
        /\ \A j \in Levels : Header \in L[j] /\ Stored(Header, j) /\ L[j] \subseteq DOMAIN item
        /\ Header # TailItem /\ Header # Wild /\ 0 \in Levels
        /\ y # Header /\ y # TailItem /\ y \in Nodes
        /\ \A w \in DOMAIN item : Key(w) \in Nat
    BY <1>3, <1>6, <2>2, LevelsAreNumbers, ListAssumption
    DEF Levelled, Walkable, HeapOK, Chain, Stored, Nodes, Node, Key
  <2>4. /\ s \in [Levels -> Nodes \cup {Wild}] /\ \A j \in Levels : s[j] # Wild
        /\ \A j \in Levels : Foothold(t, s[j], j, G)
    <3>1. \A j \in Levels : Foothold(t, Header, j, G)
      BY <2>3 DEF Foothold
    <3>2. \A j \in Levels : r.save[j] # Wild => Foothold(t, r.save[j], j, G)
      BY <1>0, <1>2, <1>3 DEF SavesOK
    <3>3. r.save \in [Levels -> Nodes \cup {Wild}]
      BY <1>3 DEF Local
    <3>4. s = [j \in Levels |-> IF r.save[j] = Wild THEN Header ELSE r.save[j]]
      BY <2>0 DEF FillSave
    <3> QED
      BY <2>3, <3>1, <3>2, <3>3, <3>4 DEF Nodes
  <2>5. /\ n \in Local /\ n.x = x /\ n.y = y /\ n.i = 0 /\ n.step = "forward" /\ n.save = s
    BY <2>0, <2>3, <2>4 DEF Local, StepNames
  <2>6. reg' \in [Threads -> Local] /\ reg'[t] = n /\ Alone(t)
    BY <1>2, <1>3, <2>1, <2>5 DEF Alone
  <2> DEFINE new == NewNode(call[t].key, call[t].value, level)
  <2>7. /\ new \in Node /\ new.key = call[t].key /\ new.level = level /\ new.locks = 0
        /\ \A j \in Levels : new.next[j] = Wild
    BY <1>4, <2>2 DEF NewNode, Node
  <2>8. /\ DOMAIN item' = DOMAIN item \cup {y} /\ item'[y] = new
        /\ \A w \in DOMAIN item : item'[w] = item[w]
    BY <1>6
  <2> HIDE DEF new
  <2>9. /\ \A w \in DOMAIN item :
             /\ Key(w)' = Key(w) /\ w # y
             /\ \A j \in Levels : Next(w, j)' = Next(w, j) /\ (Stored(w, j)' <=> Stored(w, j))
        /\ Key(y)' = call[t].key
        /\ \A j \in Levels : ~Stored(y, j)'
    BY <1>6, <2>7, <2>8 DEF Key, Next, Stored
  <2>10. /\ Handled = {} /\ Handled' = {y}
         /\ \A w, j : ~Moving(w, j)
         /\ \A w, j : ~Moving(w, j)'
         /\ \A ops : ~Changing(ops)
         /\ \A ops : Changing(ops)' <=> call[t].op \in ops
    <3>1. Handled = {} /\ (\A w, j : ~Moving(w, j)) /\ \A ops : ~Changing(ops)
      BY <1>0, <1>2, WriterAlone DEF Handles
    <3>2. Handled' = {y} /\ (\A w, j : ~Moving(w, j)') /\ \A ops : Changing(ops)' <=> call[t].op \in ops
      BY <1>2, <2>1, <2>5, <2>6, WriterAfter
    <3> QED
      BY <3>1, <3>2
  <2>11. HeapOK'
    <3>1. item' \in [DOMAIN item' -> Node]
      <4>1. item' = [b \in DOMAIN item' |-> item'[b]]
        BY <1>6
      <4>2. \A b \in DOMAIN item' : item'[b] \in Node
        BY <1>3, <2>7, <2>8 DEF HeapOK
      <4> QED
        BY <4>1, <4>2
    <3>2. levelHint' \in 0 .. topLevel'
      BY <1>2, <1>3, <1>4, LevelsAreNumbers DEF HeapOK
    <3>3. /\ DOMAIN item' \subseteq Nodes /\ {Header, TailItem} \subseteq DOMAIN item'
          /\ item'[Header] = item[Header] /\ item'[TailItem] = item[TailItem]
      BY <1>3, <2>3, <2>8 DEF HeapOK
    <3>4. \A b \in DOMAIN item' \cap Blocks : item'[b].key \in Keys
      BY <1>3, <2>2, <2>7, <2>8 DEF HeapOK
    <3>5. \A j \in Levels : Next(Header, j)' # Wild /\ Next(TailItem, j)' = Wild
      BY <1>3, <2>9 DEF HeapOK
    <3> QED
      BY <1>2, <1>3, <1>4, <2>6, <3>1, <3>2, <3>3, <3>4, <3>5 DEF HeapOK
  <2>12. LocksExact'
    <3>1. {u \in Threads : y \in held[u]} = {}
      BY <1>3, <1>6 DEF LocksExact
    <3>2. item'[y].locks = Cardinality({u \in Threads : y \in held[u]})
      BY <2>7, <2>8, <3>1, FS_EmptySet
    <3> QED
      BY <1>2, <1>3, <2>8, <3>2 DEF LocksExact
  <2>13. Extends(G, G)
    BY <2>3, <2>9 DEF Extends
  <2>14. Levelled(L)'
    <3>1. ASSUME NEW j \in Levels PROVE Chain(L[j], j)'
      <4>1. Chain(L[j], j) /\ L[j] \subseteq DOMAIN item
        BY <1>3, <2>3 DEF Levelled
      <4> QED
        BY <2>9, <4>1, ChainStays
    <3>2. L \in [Levels -> SUBSET DOMAIN item']
      BY <1>3, <2>8 DEF Levelled
    <3>3. \A w \in L[0], j \in Levels :
            (w \in L[j] <=> j <= item[w].level) /\ (Stored(w, j) => w \in L[j])
      BY <1>3, <2>10 DEF Levelled
    <3>4. \A w \in L[0], j \in Levels :
            (w \in L[j] <=> j <= item'[w].level) /\ (Stored(w, j)' => w \in L[j])
      BY <2>3, <2>8, <2>9, <3>3
    <3> QED
      BY <1>3, <3>1, <3>2, <3>4 DEF Levelled
  <2>15. Walkable(G, L)'
    <3>1. \A w \in G \ {TailItem} : Stored(w, 0)'
      BY <1>3, <2>3, <2>9 DEF Walkable
    <3>2. ASSUME NEW w \in G \ {TailItem}, NEW j \in Levels, Stored(w, j)'
          PROVE  /\ Next(w, j)' \in G
                 /\ Next(w, j)' # TailItem => Stored(Next(w, j), j)'
                 /\ \A k \in 0 .. j : Stored(w, k)'
                 /\ w \in L[j] \/ Moving(w, j)' \/ Key(Next(w, j))' < Key(w)'
      <4>1. Stored(w, j) /\ Next(w, j)' = Next(w, j)
        BY <2>3, <2>9, <3>2
      <4>2. /\ Next(w, j) \in G
            /\ Next(w, j) # TailItem => Stored(Next(w, j), j)
            /\ \A k \in 0 .. j : Stored(w, k)
            /\ w \in L[j] \/ Key(Next(w, j)) < Key(w)
        BY <1>3, <2>10, <4>1 DEF Walkable
      <4> QED
        BY <2>3, <2>9, <4>1, <4>2, LevelsAreNumbers
    <3> QED
      BY <2>3, <2>8, <3>1, <3>2, <1>3 DEF Walkable
  <2>16. Accounted(L)'
    BY <1>2, <1>3, <1>6, <2>1, <2>8, <2>10 DEF Accounted
  <2>17. HintOK'
    <3>1. /\ \A j \in Levels : j > topLevel => Next(Header, j) = TailItem
          /\ levelHint > 0 => Next(Header, levelHint) # TailItem
      BY <1>3, <2>10 DEF HintOK
    <3>2. Changing({"insert", "update"})'
      BY <1>2, <2>10
    <3>3. levelHint \in Levels /\ Header \in DOMAIN item
      BY <1>3, LevelsAreNumbers DEF HeapOK, Levels
    <3>4. \A j \in Levels : j > topLevel' => j > topLevel
      BY <1>4, LevelsAreNumbers
    <3> QED
      BY <1>2, <2>9, <3>1, <3>2, <3>3, <3>4 DEF HintOK
  <2>18. ThreadOK(t, G, L)'
    <3>1. CallOK(t)'
      BY <1>2, <1>3, <2>1 DEF CallOK
    <3>2. SavesOK(t, G)'
      BY <1>2, <2>3, <2>4, <2>5, <2>6, <2>9 DEF SavesOK, Foothold
    <3>3. ASSUME NEW w \in L[0] PROVE Key(w)' # Key(y)'
      <4>1. Key(x) < Key(w) => Key(Next(x, 0)) <= Key(w)
        BY <1>3, <2>2, <2>3 DEF Levelled, Chain
      <4>2. Key(w) # call[t].key
        BY <1>2, <2>2, <2>3, <4>1
      <4> QED
        BY <2>3, <2>9, <4>2
    <3>4. Inserting(t, L)'
      <4>0. \A j \in Nat : ~(j < 0)
        OBVIOUS
      <4>1. \A j \in Levels : y \notin L[j] /\ ~(j < 0)
        BY <1>6, <2>3, <4>0, LevelsAreNumbers
      <4>2. item'[y].level = level /\ 0 <= level /\ level <= topLevel'
        BY <1>4, <2>7, <2>8
      <4> QED
        BY <1>2, <1>6, <2>5, <2>6, <2>8, <2>9, <3>3, <4>1, <4>2 DEF Inserting
    <3>5. Place(t, L)'
      BY <2>2, <2>3, <2>5, <2>6, <2>9 DEF Place
    <3>5a. {reg'[t].x, reg'[t].y} \subseteq DOMAIN item'
      BY <2>2, <2>3, <2>5, <2>6, <2>8
    <3>6. WriterOK(t, G, L)'
      BY <2>4, <2>5, <2>6, <3>4, <3>5, <3>5a DEF WriterOK
    <3>7. ReaderOK(t, G)' /\ OutsideOK(t, G)'
      BY <1>2, <2>1 DEF ReaderOK, OutsideOK
    <3> QED
      BY <3>1, <3>2, <3>6, <3>7 DEF ThreadOK
  <2> QED
    BY <1>2, <2>6, <2>11, <2>12, <2>13, <2>14, <2>15, <2>16, <2>17, <2>18, WriterStep
<1> QED
  BY <1>1, <1>5, <1>6

(* A flush that meets nobody in the list frees what nobody can come by.    *)
LEMMA FreeStep ==
  ASSUME LockInv, FlushAlone, NEW G, NEW L, Shape(G, L), NEW t \in Threads, Flush(t),
         UNCHANGED client
  PROVE  Shape(L[0], L)'
<1>0. PICK gone : gone = {x \in deleted : item[x].locks = 0}
  OBVIOUS
<1>1. /\ pc[t] = "fflush" /\ pc' = [pc EXCEPT ![t] = "fdone"] /\ pc \in [Threads -> Locations]
      /\ deleted' = deleted \ gone /\ item' = [x \in DOMAIN item \ gone |-> item[x]]
      /\ cached' = cached - Cardinality(gone)
      /\ UNCHANGED <<topLevel, levelHint, held, reg, call, client>>
  BY <1>0 DEF Flush, FlushDeleted, Goto, callVars, LockInv, LockTypeOK
<1>2. \A u \in Threads : pc[u] \notin ReadSection
  <2>1. readers = 0
    BY <1>1 DEF FlushAlone, At
  <2>2. IsFiniteSet(At(ReadSection))
    BY LockAssumption, FS_Subset DEF At
  <2>3. At(ReadSection) = {}
    BY <2>1, <2>2, FS_EmptySet DEF LockInv, ReadersExact
  <2> QED
    BY <2>3 DEF At
<1>3. \A u \in Threads : pc'[u] \notin ReadSection
  BY <1>1, <1>2 DEF ReadSection
<1>4. /\ Handled = {} /\ Handled' = {}
      /\ (\A z, j : ~Moving(z, j)) /\ (\A z, j : ~Moving(z, j)')
      /\ (\A ops : ~Changing(ops)) /\ (\A ops : ~Changing(ops)')
  BY <1>2, <1>3 DEF Handled, Moving, Changing, At, ReadSection
<1>5. /\ HeapOK /\ Levelled(L) /\ Accounted(L) /\ LocksExact /\ HintOK
      /\ L[0] \cap gone = {} /\ gone \subseteq deleted /\ deleted \subseteq DOMAIN item
      /\ 0 \in Levels /\ L \in [Levels -> SUBSET DOMAIN item]
      /\ \A j \in Levels : L[j] \subseteq L[0]
  BY <1>0, LevelsAreNumbers DEF Shape, Accounted, Levelled
<1>6. /\ DOMAIN item' = DOMAIN item \ gone
      /\ \A w \in DOMAIN item \ gone : item'[w] = item[w]
  BY <1>1
<1>7. \A w \in DOMAIN item \ gone :
        /\ Key(w)' = Key(w)
        /\ \A j \in Levels : Next(w, j)' = Next(w, j) /\ (Stored(w, j)' <=> Stored(w, j))
  BY <1>6 DEF Key, Next, Stored
<1>8. Header \notin gone /\ TailItem \notin gone /\ {Header, TailItem} \subseteq DOMAIN item
      /\ levelHint \in Levels
  BY <1>5, LevelsAreNumbers, ListAssumption DEF HeapOK, Levels
<1>9. HeapOK'
  <2>1. item' \in [DOMAIN item' -> Node]
    BY <1>1, <1>5 DEF HeapOK
  <2>2. /\ DOMAIN item' \subseteq Nodes /\ {Header, TailItem} \subseteq DOMAIN item'
        /\ item'[Header] = item[Header] /\ item'[TailItem] = item[TailItem]
    BY <1>5, <1>6, <1>8 DEF HeapOK
  <2>3. \A b \in DOMAIN item' \cap Blocks : item'[b].key \in Keys
    BY <1>5, <1>6 DEF HeapOK
  <2>4. \A j \in Levels : Next(Header, j)' # Wild /\ Next(TailItem, j)' = Wild
    BY <1>5, <1>7, <1>8 DEF HeapOK
  <2>5. deleted' \subseteq Blocks
    BY <1>1, <1>5 DEF HeapOK
  <2> QED
    BY <1>1, <1>5, <2>1, <2>2, <2>3, <2>4, <2>5 DEF HeapOK
<1>10. LocksExact'
  <2>1. ASSUME NEW u \in Threads, NEW w \in held[u] PROVE w \notin gone
    <3>1. w \in DOMAIN item /\ item[w].locks = Cardinality({v \in Threads : w \in held[v]})
      BY <1>5, <2>1 DEF LocksExact
    <3>2. IsFiniteSet({v \in Threads : w \in held[v]}) /\ {v \in Threads : w \in held[v]} # {}
      BY <2>1, LockAssumption, FS_Subset
    <3>3. item[w].locks # 0
      BY <3>1, <3>2, FS_EmptySet
    <3> QED
      BY <1>0, <3>3
  <2>2. \A u \in Threads : held[u] \subseteq DOMAIN item \ gone
    BY <1>5, <2>1 DEF LocksExact
  <2> QED
    BY <1>1, <1>5, <1>6, <2>2 DEF LocksExact
<1>11. \A j \in Levels : L[j] \subseteq DOMAIN item \ gone
  BY <1>5
<1>12. Levelled(L)'
  <2>1. ASSUME NEW j \in Levels PROVE Chain(L[j], j)'
    <3>1. Chain(L[j], j)
      BY <1>5 DEF Levelled
    <3> QED
      BY <1>7, <1>11, <3>1, ChainStays
  <2>2. L \in [Levels -> SUBSET DOMAIN item']
    BY <1>5, <1>6, <1>11
  <2>3. \A w \in L[0], j \in Levels :
          (w \in L[j] <=> j <= item[w].level) /\ (Stored(w, j) => w \in L[j])
    BY <1>4, <1>5 DEF Levelled
  <2>4. \A w \in L[0], j \in Levels :
          (w \in L[j] <=> j <= item'[w].level) /\ (Stored(w, j)' => w \in L[j])
    BY <1>5, <1>6, <1>7, <1>11, <2>3
  <2> QED
    BY <1>5, <2>1, <2>2, <2>4 DEF Levelled
<1>13. Walkable(L[0], L)'
  <2>1. ASSUME NEW j \in Levels, NEW w \in L[j] \ {TailItem}
        PROVE  Next(w, j) \in L[j] /\ Stored(w, j)
    <3>1. Next(w, j) \in L[j] /\ L[j] \subseteq DOMAIN item /\ DOMAIN item \subseteq Nodes
      BY <1>5, <2>1 DEF Levelled, Chain, HeapOK
    <3> QED
      BY <3>1, ListAssumption DEF Stored, Nodes
  <2>2. \A w \in L[0] \ {TailItem} : Stored(w, 0)'
    BY <1>5, <1>7, <1>11, <2>1
  <2>3. ASSUME NEW w \in L[0] \ {TailItem}, NEW j \in Levels, Stored(w, j)'
        PROVE  /\ Next(w, j)' \in L[0]
               /\ Next(w, j)' # TailItem => Stored(Next(w, j), j)'
               /\ \A k \in 0 .. j : Stored(w, k)'
               /\ w \in L[j]
    <3>1. Stored(w, j) /\ w \in L[j] /\ Next(w, j)' = Next(w, j)
      BY <1>4, <1>5, <1>7, <1>11, <2>3 DEF Levelled
    <3>2. Next(w, j) \in L[j] /\ (Next(w, j) # TailItem => Stored(Next(w, j), j))
      BY <2>1, <2>3, <3>1
    <3>3. Next(w, j)' # TailItem => Stored(Next(w, j), j)'
      BY <1>7, <1>11, <3>1, <3>2
    <3>4. ASSUME NEW k \in 0 .. j PROVE Stored(w, k)'
      <4>1. k \in Levels /\ k <= j
        BY LevelsAreNumbers
      <4>2. w \in L[k]
        BY <1>5, <3>1, <4>1 DEF Levelled
      <4> QED
        BY <1>7, <1>11, <2>1, <2>3, <4>1, <4>2
    <3> QED
      BY <1>5, <3>1, <3>2, <3>3, <3>4
  <2> QED
    BY <1>5, <1>6, <1>11, <2>2, <2>3 DEF Walkable
<1>14. Accounted(L)'
  <2>1. IsFiniteSet(deleted) /\ cached = Cardinality(deleted) /\ deleted \cap gone = gone
    BY <1>5 DEF Accounted
  <2>2. IsFiniteSet(deleted \ gone) /\ cached' = Cardinality(deleted \ gone)
    BY <1>1, <2>1, FS_Difference, ZenonT(60)
  <2> QED
    BY <1>1, <1>4, <1>5, <1>6, <2>2 DEF Accounted
<1>15. HintOK'
  BY <1>1, <1>4, <1>5, <1>7, <1>8 DEF HintOK
<1>16. ASSUME NEW u \in Threads PROVE ThreadOK(u, L[0], L)'
  <2>1. ThreadOK(u, G, L) /\ pc'[u] \in {pc[u], "fdone"}
    BY <1>1 DEF Shape
  <2>2. CallOK(u)'
    BY <1>1, <1>3, <2>1 DEF ThreadOK, CallOK, ReadSection, WriteSection
  <2>3. ReaderOK(u, L[0])' /\ SavesOK(u, L[0])' /\ WriterOK(u, L[0], L)'
    BY <1>3 DEF ReaderOK, SavesOK, WriterOK, ReadSection
  <2>4. OutsideOK(u, L[0])'
    BY <1>1, <1>2, <1>3, <2>1 DEF ThreadOK, OutsideOK, ReadSection
  <2> QED
    BY <2>2, <2>3, <2>4 DEF ThreadOK
<1> QED
  BY <1>9, <1>10, <1>12, <1>13, <1>14, <1>15, <1>16 DEF Shape

-----------------------------------------------------------------------------
(* The list as it is when it is made.                                      *)
LEMMA ListStarts == ListInit => Shape({Header, TailItem}, [i \in Levels |-> {Header, TailItem}])
<1> SUFFICES ASSUME ListInit
             PROVE  Shape({Header, TailItem}, [i \in Levels |-> {Header, TailItem}])
  OBVIOUS
<1>0. PICK E, L : E = {Header, TailItem} /\ L = [i \in Levels |-> E]
  OBVIOUS
<1>1. /\ DOMAIN item = E /\ Header \in E /\ TailItem \in E /\ Header # TailItem
      /\ \A w \in E : w = Header \/ w = TailItem
      /\ E \subseteq Nodes /\ E \cap Blocks = {} /\ Wild \notin E
  BY <1>0, ListAssumption DEF ListInit, Nodes
<1>2. /\ item[Header] = [NewNode(0, NoValue, MaxLevel) EXCEPT !.next = [i \in Levels |-> TailItem]]
      /\ item[TailItem] = NewNode(TailKey, NoValue, MaxLevel)
  BY <1>1 DEF ListInit
<1>3. /\ item[Header] \in Node /\ item[TailItem] \in Node
      /\ item[Header].key = 0 /\ item[TailItem].key = TailKey
      /\ item[Header].level = MaxLevel /\ item[TailItem].level = MaxLevel
      /\ item[Header].locks = 0 /\ item[TailItem].locks = 0
      /\ \A i \in Levels : item[Header].next[i] = TailItem /\ item[TailItem].next[i] = Wild
  BY <1>1, <1>2, TailKeyIsLast, LevelsAreNumbers DEF NewNode, Node
<1>4. /\ Key(Header) = 0 /\ Key(TailItem) = TailKey /\ 0 < TailKey /\ TailKey \in Nat
      /\ \A i \in Levels : Next(Header, i) = TailItem /\ Next(TailItem, i) = Wild
  BY <1>3, TailKeyIsLast DEF Key, Next
<1>5. /\ pc = [t \in Threads |-> "idle"] /\ cached = 0 /\ topLevel = 0 /\ levelHint = 0
      /\ deleted = {} /\ held = [t \in Threads |-> {}] /\ reg = [t \in Threads |-> NoReg]
      /\ call = [t \in Threads |-> Map!NoCall] /\ client \in Clients
  BY DEF ListInit, LockInit
<1>6. HeapOK
  <2>1. item \in [DOMAIN item -> Node]
    <3>1. item = [w \in DOMAIN item |-> item[w]]
      BY DEF ListInit
    <3> QED
      BY <1>1, <1>3, <3>1
  <2> QED
    BY <1>1, <1>3, <1>4, <1>5, <2>1, NoRegIsLocal, LevelsAreNumbers DEF HeapOK
<1>7. /\ Handled = {} /\ (\A x, i : ~Moving(x, i)) /\ \A ops : ~Changing(ops)
  BY <1>5 DEF Handled, Moving, Changing, At
<1>8. Levelled(L)
  <2>1. L \in [Levels -> SUBSET DOMAIN item] /\ \A i \in Levels : L[i] = E
    BY <1>0, <1>1
  <2>2. ASSUME NEW i \in Levels PROVE Chain(E, i)
    BY <1>1, <1>4 DEF Chain
  <2>3. \A x \in E, i \in Levels : i <= item[x].level
    BY <1>1, <1>3, LevelsAreNumbers
  <2> QED
    BY <2>1, <2>2, <2>3, LevelsAreNumbers DEF Levelled
<1>9. Walkable(E, L)
  <2>1. \A i \in Levels : L[i] = E
    BY <1>0
  <2>2. \A i \in Levels : Stored(Header, i)
    BY <1>1, <1>4 DEF Stored
  <2> QED
    BY <1>1, <1>4, <2>1, <2>2, LevelsAreNumbers DEF Walkable
<1>10. Accounted(L)
  BY <1>0, <1>1, <1>5, <1>7, LevelsAreNumbers, FS_EmptySet DEF Accounted
<1>11. LocksExact
  <2>1. \A x : {t \in Threads : x \in held[t]} = {}
    BY <1>5
  <2> QED
    BY <1>1, <1>3, <1>5, <2>1, FS_EmptySet DEF LocksExact
<1>12. HintOK
  BY <1>4, <1>5 DEF HintOK
<1>13. ASSUME NEW t \in Threads PROVE ThreadOK(t, E, L)
  <2>1. pc[t] = "idle" /\ reg[t] = NoReg /\ call[t] = Map!NoCall
    BY <1>5
  <2> QED
    BY <2>1, NoRegIsLocal DEF ThreadOK, CallOK, ReaderOK, SavesOK, WriterOK, OutsideOK,
      ReadSection, WriteSection
<1> QED
  BY <1>0, <1>6, <1>8, <1>9, <1>10, <1>11, <1>12, <1>13 DEF Shape

-----------------------------------------------------------------------------
(* The invariant                                                           *)

Shaped == \E G, L : Shape(G, L)

(* Every step of every thread keeps the list in shape.                     *)
LEMMA StepKeepsShape ==
  ASSUME LockInv, FlushAlone, NEW G, NEW L, Shape(G, L), NEW t \in Threads, Step(t),
         UNCHANGED client
  PROVE  Shaped'
<1>1. CASE BeginCall(t)
  BY <1>1, BeginCallStep DEF Shaped
<1>2. CASE EnterRead(t)
  BY <1>2, EnterReadStep DEF Shaped
<1>3. CASE Walk(t)
  BY <1>3, WalkStep DEF Shaped
<1>4. CASE FollowNext(t)
  BY <1>4, FollowNextStep DEF Shaped
<1>5. CASE FinishSearch(t)
  BY <1>5, FinishSearchStep DEF Shaped
<1>6. CASE LeaveRead(t)
  BY <1>6, LeaveReadStep DEF Shaped
<1>7. CASE Return(t)
  BY <1>7, ReturnStep DEF Shaped
<1>8. CASE Release(t)
  BY <1>8, ReleaseStep DEF Shaped
<1>9. CASE Traversed(t)
  BY <1>9, TraversedStep DEF Shaped
<1>10. CASE InsertFound(t)
  BY <1>10, InsertFoundStep DEF Shaped
<1>11. CASE NewItem(t)
  BY <1>11, NewItemStep DEF Shaped
<1>12. CASE Forward(t)
  BY <1>12, ForwardStep DEF Shaped
<1>13. CASE Publish(t)
  BY <1>13, PublishStep DEF Shaped
<1>14. CASE DeleteMissing(t)
  BY <1>14, DeleteMissingStep DEF Shaped
<1>15. CASE DeleteFound(t)
  BY <1>15, DeleteFoundStep DEF Shaped
<1>16. CASE Unlink(t)
  BY <1>16, UnlinkStep DEF Shaped
<1>17. CASE Backlink(t)
  BY <1>17, BacklinkStep DEF Shaped
<1>18. CASE RaiseHint(t)
  BY <1>18, RaiseHintStep DEF Shaped
<1>19. CASE LowerHint(t)
  BY <1>19, LowerHintStep DEF Shaped
<1>20. CASE FinishUpdate(t)
  BY <1>20, FinishUpdateStep DEF Shaped
<1>21. CASE Flush(t)
  BY <1>21, FreeStep DEF Shaped
<1>22. CASE Synchronize(t)
  BY <1>22, SynchronizeStep DEF Shaped
<1> QED
  BY <1>1, <1>2, <1>3, <1>4, <1>5, <1>6, <1>7, <1>8, <1>9, <1>10, <1>11,
     <1>12, <1>13, <1>14, <1>15, <1>16, <1>17, <1>18, <1>19, <1>20, <1>21,
     <1>22 DEF Step

(* What the list does not share with the world does not change by itself.  *)
LEMMA ShapeStutters ==
  ASSUME NEW G, NEW L, Shape(G, L), UNCHANGED vars
  PROVE  Shape(G, L)'
<1>1. /\ UNCHANGED <<item, topLevel, levelHint, deleted, held, reg, call, client>>
      /\ UNCHANGED <<pc, cached>>
  BY DEF vars, listVars, heapVars, callVars, lockVars
<1>2. HeapOK' /\ LocksExact'
  BY <1>1 DEF Shape, HeapOK, LocksExact, Next
<1>3. Levelled(L)' /\ Accounted(L)'
  <2>1. Handled' = Handled
    BY <1>1 DEF Handled, At
  <2>2. Levelled(L)'
    <3>1. \A i \in Levels : Chain(L[i], i) => Chain(L[i], i)'
      BY <1>1 DEF Chain, Next, Key
    <3> QED
      BY <1>1, <2>1, <3>1 DEF Shape, Levelled, Stored, Next
  <2>3. Accounted(L)'
    BY <1>1, <2>1 DEF Shape, Accounted
  <2> QED
    BY <2>2, <2>3
<1>4. Walkable(G, L)'
  BY <1>1 DEF Shape, Walkable, Moving, Stored, Next, Key
<1>5. HintOK'
  BY <1>1 DEF Shape, HintOK, Changing, Next, At
<1>6. ASSUME NEW t \in Threads PROVE ThreadOK(t, G, L)'
  <2>1. \A x, i : Foothold(t, x, i, G)' <=> Foothold(t, x, i, G)
    BY <1>1 DEF Foothold, Stored, Next, Key
  <2>2. CallOK(t)' /\ OutsideOK(t, G)'
    BY <1>1 DEF Shape, ThreadOK, CallOK, OutsideOK
  <2>3. ReaderOK(t, G)' /\ SavesOK(t, G)'
    BY <1>1, <2>1 DEF Shape, ThreadOK, ReaderOK, SavesOK, Key
  <2>4. /\ Inserting(t, L) => Inserting(t, L)'
        /\ Deleting(t, G, L) => Deleting(t, G, L)'
        /\ Place(t, L) => Place(t, L)'
    BY <1>1 DEF Inserting, Deleting, Place, Stored, Next, Key
  <2>5. WriterOK(t, G, L)'
    BY <1>1, <2>1, <2>4 DEF Shape, ThreadOK, WriterOK
  <2> QED
    BY <2>2, <2>3, <2>5 DEF ThreadOK
<1> QED
  BY <1>2, <1>3, <1>4, <1>5, <1>6 DEF Shape

(* While no flush meets a thread inside the list, the list keeps its shape:*)
(* chains on every level, one below the other, and out of every deleted    *)
(* item that a search may stand on a way back into them.                   *)
THEOREM ListInvariant == ListSpec /\ []FlushAlone => []ListInv
<1>1. ListInit => Shaped
  BY ListStarts DEF Shaped
<1>2. LockInv /\ FlushAlone /\ Shaped /\ [ListNext]_vars => Shaped'
  <2>1. ASSUME Shaped, UNCHANGED vars PROVE Shaped'
    BY <2>1, ShapeStutters DEF Shaped
  <2>2. ASSUME LockInv, FlushAlone, Shaped, ListNext PROVE Shaped'
    BY <2>2, StepKeepsShape DEF Shaped, ListNext
  <2> QED
    BY <2>1, <2>2
<1>3. LockInv /\ Shaped => ListInv
  BY DEF ListInv, Shaped
<1> QED
  BY <1>1, <1>2, <1>3, ListFollowsLocks, LockInvariant, PTL DEF ListSpec

(* What is linked at a level is the chain of the invariant.                *)
LEMMA LevelsAreLinked ==
  ASSUME NEW G, NEW L, Shape(G, L)
  PROVE  \A i \in Levels : Linked(i) = L[i]
<1>1. ASSUME NEW i \in Levels PROVE Linked(i) = L[i]
  <2>1. HeapOK /\ L[i] \in SUBSET DOMAIN item /\ Chain(L[i], i)
    BY DEF Shape, Levelled
  <2> QED
    BY <2>1, LinkedIsChain
<1> QED
  BY <1>1

(* The invariant says that the list is well formed ...                     *)
LEMMA ShapeIsWellFormed ==
  ASSUME LockInv, NEW G, NEW L, Shape(G, L)
  PROVE  ListWellFormed
<1>1. /\ HeapOK /\ Levelled(L) /\ Walkable(G, L) /\ LocksExact /\ HintOK
      /\ \A t \in Threads : ThreadOK(t, G, L)
      /\ G \subseteq DOMAIN item
  BY DEF Shape, Walkable
<1>2. ListTypeOK
  <2>1. ASSUME NEW x \in DOMAIN item PROVE item[x].locks \in 0 .. Cardinality(Threads)
    <3>1. item[x].locks = Cardinality({t \in Threads : x \in held[t]})
      BY <1>1 DEF LocksExact
    <3>2. /\ IsFiniteSet({t \in Threads : x \in held[t]})
          /\ Cardinality({t \in Threads : x \in held[t]}) <= Cardinality(Threads)
      BY LockAssumption, FS_Subset
    <3> QED
      BY <3>1, <3>2, LockAssumption, FS_CardinalityType
  <2>2. ASSUME NEW x \in DOMAIN item
        PROVE  /\ item[x].level \in Levels
               /\ \A i \in Levels : Next(x, i) \in Blocks \cup {Header, TailItem, Wild}
    BY <1>1 DEF HeapOK, Node, Next, Nodes
  <2>3. \A t \in Threads : reg[t].i \in Levels
    BY <1>1 DEF HeapOK, Local
  <2> QED
    BY <1>1, <2>1, <2>2, <2>3 DEF ListTypeOK, HeapOK, Nodes
<1>3. PointersValid
  <2>1. SUFFICES ASSUME NEW t \in Threads, pc[t] \in ReadSection
                 PROVE  /\ {reg[t].x, reg[t].y} \subseteq DOMAIN item
                        /\ pc[t] = "reading" => Next(reg[t].x, reg[t].i) \in DOMAIN item
    BY DEF PointersValid, At
  <2>2. ThreadOK(t, G, L) /\ reg[t].i \in Levels
    BY <1>1 DEF HeapOK, Local
  <2>3. CASE pc[t] \in {"reading", "wlock"}
    <3>1. Foothold(t, reg[t].x, reg[t].i, G) /\ reg[t].y \in G
      BY <2>2, <2>3 DEF ThreadOK, ReaderOK
    <3>2. Next(reg[t].x, reg[t].i) \in G
      BY <2>2, <3>1, Follow DEF Foothold
    <3> QED
      BY <1>1, <3>1, <3>2 DEF Foothold
  <2>4. CASE pc[t] = "writing"
    BY <2>2, <2>4 DEF ThreadOK, WriterOK
  <2>5. CASE pc[t] \in {"hint", "wunlock", "runlock"}
    <3>1. reg[t].x = Header /\ (reg[t].y = Header \/ reg[t].y \in G)
      BY <2>2, <2>5 DEF ThreadOK, OutsideOK
    <3> QED
      BY <1>1, <2>5, <3>1 DEF HeapOK
  <2> QED
    BY <2>1, <2>3, <2>4, <2>5 DEF ReadSection
<1>4. LevelsNested
  <2>1. SUFFICES ASSUME NEW i \in Levels
                 PROVE  TailItem \in L[i] /\ (i > 0 => L[i] \subseteq L[i - 1] /\ i - 1 \in Levels)
    BY LevelsAreLinked DEF LevelsNested
  <2>2. i > 0 => i - 1 \in Levels /\ i - 1 <= i
    BY LevelsAreNumbers DEF Levels
  <2> QED
    BY <1>1, <2>2 DEF Levelled, Chain
<1>5. PredecessorLinked
  <2>1. SUFFICES ASSUME NEW t \in Threads, pc[t] = "writing"
                 PROVE  /\ reg[t].step = "examine" => Before(t) \in L[0]
                        /\ reg[t].step \in {"publish", "backlink"} => reg[t].x \in L[reg[t].i]
    <3>1. \A t \in Threads : Linked(reg[t].i) = L[reg[t].i]
      BY <1>1, LevelsAreLinked DEF HeapOK, Local
    <3>2. Linked(0) = L[0]
      BY LevelsAreLinked, LevelsAreNumbers
    <3>3. At({"writing"}) = {t \in Threads : pc[t] = "writing"}
      BY DEF At
    <3> QED
      BY <2>1, <3>1, <3>2, <3>3 DEF PredecessorLinked
  <2>2. reg[t].step = "examine" => Before(t) \in L[0]
    BY <2>1, PlaceFound DEF Writing
  <2>3. reg[t].step \in {"publish", "backlink"} => reg[t].x \in L[reg[t].i]
    BY <1>1, <2>1 DEF ThreadOK, WriterOK, Place
  <2> QED
    BY <2>2, <2>3
<1>6. HintExact
  <2>1. At(WriteSection) = {} => \A ops : ~Changing(ops)
    BY DEF At, Changing, WriteSection
  <2> QED
    BY <1>1, <2>1 DEF HintExact, HintOK
<1> QED
  BY <1>2, <1>3, <1>4, <1>5, <1>6 DEF ListWellFormed

(* ... and that its memory is.                                             *)
LEMMA ShapeIsMemorySound ==
  ASSUME NEW G, NEW L, Shape(G, L)
  PROVE  MemorySound
<1>1. Linked(0) = L[0]
  BY LevelsAreLinked, LevelsAreNumbers
<1> QED
  BY <1>1 DEF Shape, Accounted, MemorySound, ItemsAccounted

(* No pointer leads to freed memory, each level is part of the one below,  *)
(* and the place where an update writes is in the list (skiplist.c:537-620)*)
(* - as long as "no readers/writers are active" (skiplist.c:227) when      *)
(* deleted items are freed.                                                *)
THEOREM ListIsWellFormed == ListSpec /\ []FlushAlone => []ListWellFormed
<1>1. ListInv => ListWellFormed
  BY ShapeIsWellFormed DEF ListInv
<1> QED
  BY <1>1, ListInvariant, PTL

(* No item is lost, and none is freed whose value is locked, as long as    *)
(* "no readers/writers are active" (skiplist.c:227) at a flush.            *)
THEOREM ListMemoryIsSound == ListSpec /\ []FlushAlone => []MemorySound
<1>1. ListInv => MemorySound
  BY ShapeIsMemorySound DEF ListInv
<1> QED
  BY <1>1, ListInvariant, PTL

(* Two threads whose waits do not end by themselves need no such proviso.  *)
THEOREM PairIsWellFormed ==
  ASSUME Pair
  PROVE  ListSpec => [](ListWellFormed /\ MemorySound)
<1>1. ListSpec => []FlushAlone
  BY Pair, ListFlushesAlone
<1> QED
  BY <1>1, ListIsWellFormed, ListMemoryIsSound, PTL
-----------------------------------------------------------------------------
(***************************************************************************)
(* The list is the map of SkipMap: the answer of every call is right at    *)
(* some moment between its start and its return.  As before a flush has to *)
(* meet nobody (FlushAlone); and a program that calls skipNext must not    *)
(* delete or update meanwhile (ScansApart), for skipNext goes on from an   *)
(* item that it has passed.                                                *)
(***************************************************************************)

(* No program calls skipNext beside skipDelete or an insertion that may    *)
(* overwrite.                                                              *)
ScansApart ==
  \A c \in Clients, t, u \in Threads : \A a \in c[t], b \in c[u] :
    a.op = "next" => b.op \notin {"update", "delete"}

-----------------------------------------------------------------------------
(* The map that a set of items stands for                                  *)

ContentsOf(S, it) ==
  [k \in Keys |-> IF \E x \in S : it[x].key = k
                  THEN it[CHOOSE x \in S : it[x].key = k].value
                  ELSE NoValue]

Mapped(S, it) ==
  /\ \A x \in S : it[x].key \in Keys => it[x].value \in Values
  /\ \A x, z \in S : it[x].key = it[z].key => x = z

(* What the map of a set of items says.                                    *)
LEMMA ContentsAre ==
  ASSUME NEW S, NEW it, Mapped(S, it)
  PROVE  /\ ContentsOf(S, it) \in [Keys -> Values \cup {NoValue}]
         /\ \A x \in S : it[x].key \in Keys => ContentsOf(S, it)[it[x].key] = it[x].value
         /\ \A k \in Keys : ContentsOf(S, it)[k] = NoValue <=> \A x \in S : it[x].key # k
<1> DEFINE at(k) == CHOOSE x \in S : it[x].key = k
           m == ContentsOf(S, it)
<1>1. \A k \in Keys : m[k] = IF \E x \in S : it[x].key = k THEN it[at(k)].value ELSE NoValue
  BY DEF ContentsOf
<1>2. \A k : (\E x \in S : it[x].key = k) => at(k) \in S /\ it[at(k)].key = k
  OBVIOUS
<1>3. m = [k \in Keys |-> m[k]]
  BY DEF ContentsOf
<1> HIDE DEF at
<1>4. \A x \in S : at(it[x].key) = x
  BY <1>2 DEF Mapped
<1> HIDE DEF m
<1>5. \A k \in Keys : m[k] \in Values \cup {NoValue}
  BY <1>1, <1>2 DEF Mapped
<1>6. \A x \in S : it[x].key \in Keys => m[it[x].key] = it[x].value
  BY <1>1, <1>4
<1>7. \A k \in Keys : m[k] = NoValue <=> \A x \in S : it[x].key # k
  BY <1>1, <1>2, ListAssumption DEF Mapped
<1> QED
  BY <1>3, <1>5, <1>6, <1>7 DEF m

(* Two sets of items that say the same of every key but k.                 *)
LEMMA ContentsDiffer ==
  ASSUME NEW S, NEW it, Mapped(S, it), NEW S2, NEW it2, Mapped(S2, it2),
         NEW k \in Keys, NEW v,
         \A l \in Keys \ {k} : (\E x \in S : it[x].key = l) <=> (\E x \in S2 : it2[x].key = l),
         \A x \in S : it[x].key \in Keys \ {k} =>
           \E z \in S2 : it2[z].key = it[x].key /\ it2[z].value = it[x].value,
         ContentsOf(S2, it2)[k] = v
  PROVE  ContentsOf(S2, it2) = [ContentsOf(S, it) EXCEPT ![k] = v]
<1> DEFINE m == ContentsOf(S, it)
           n == ContentsOf(S2, it2)
<1>1. /\ m \in [Keys -> Values \cup {NoValue}] /\ n \in [Keys -> Values \cup {NoValue}]
      /\ \A x \in S : it[x].key \in Keys => m[it[x].key] = it[x].value
      /\ \A x \in S2 : it2[x].key \in Keys => n[it2[x].key] = it2[x].value
      /\ \A l \in Keys : m[l] = NoValue <=> \A x \in S : it[x].key # l
      /\ \A l \in Keys : n[l] = NoValue <=> \A x \in S2 : it2[x].key # l
  BY ContentsAre
<1> HIDE DEF m, n
<1>2. ASSUME NEW l \in Keys \ {k} PROVE n[l] = m[l]
  <2>1. CASE \E x \in S : it[x].key = l
    <3>1. PICK x \in S : it[x].key = l
      BY <2>1
    <3>2. PICK z \in S2 : it2[z].key = l /\ it2[z].value = it[x].value
      BY <3>1
    <3> QED
      BY <1>1, <3>1, <3>2
  <2>2. CASE ~\E x \in S : it[x].key = l
    BY <1>1, <2>2
  <2> QED
    BY <2>1, <2>2
<1>3. n[k] = v
  BY DEF n
<1>4. n = [m EXCEPT ![k] = v]
  BY <1>1, <1>2, <1>3
<1> QED
  BY <1>4 DEF m, n

(* Two that say the same of every key.                                     *)
LEMMA ContentsAgree ==
  ASSUME NEW S, NEW it, Mapped(S, it), NEW it2,
         \A x \in S : it2[x].key = it[x].key /\ it2[x].value = it[x].value
  PROVE  ContentsOf(S, it2) = ContentsOf(S, it)
<1> DEFINE m == ContentsOf(S, it)
           n == ContentsOf(S, it2)
<1>1. Mapped(S, it2)
  BY DEF Mapped
<1>2. /\ m \in [Keys -> Values \cup {NoValue}] /\ n \in [Keys -> Values \cup {NoValue}]
      /\ \A x \in S : it[x].key \in Keys => m[it[x].key] = it[x].value
      /\ \A x \in S : it2[x].key \in Keys => n[it2[x].key] = it2[x].value
      /\ \A l \in Keys : m[l] = NoValue <=> \A x \in S : it[x].key # l
      /\ \A l \in Keys : n[l] = NoValue <=> \A x \in S : it2[x].key # l
  BY <1>1, ContentsAre
<1> HIDE DEF m, n
<1>3. \A l \in Keys : n[l] = m[l]
  BY <1>2
<1>4. n = m
  BY <1>2, <1>3
<1> QED
  BY <1>4 DEF m, n

-----------------------------------------------------------------------------
(* The right answers                                                       *)

(* Keys are numbers.                                                       *)
LEMMA CallKeys ==
  Keys \subseteq Nat /\ \A c \in Calls : c.key \in Nat
<1>1. Keys \subseteq Nat
  BY TailKeyIsLast
<1>2. \A c \in Calls : c.key \in Keys \cup {0}
  BY CallTypes
<1>3. Keys \cup {0} \subseteq Nat
  BY <1>1
<1> QED
  BY <1>1, <1>2, <1>3

(* A successor is the least larger key of the map.                         *)
LEMMA SuccessorIs ==
  ASSUME NEW m, NEW k \in Nat, Map!Larger(m, k) # {}
  PROVE  /\ Map!Successor(m, k) \in Map!Larger(m, k)
         /\ \A l \in Map!Larger(m, k) : Map!Successor(m, k) <= l
<1> DEFINE S == Map!Larger(m, k)
<1>1. S \in SUBSET Nat
  BY ListAssumption DEF Map!Larger
<1> HIDE DEF S
<1>2. \E l \in S : \A o \in S : l <= o
  BY <1>1, Least DEF S
<1> QED
  BY <1>2 DEF S, Map!Successor

(* What a search for a key may answer.                                     *)
LEMMA RightForKey ==
  ASSUME NEW S, NEW it, Mapped(S, it), NEW c \in Calls, c.op = "search"
  PROVE  LET a == Map!Right(c, ContentsOf(S, it))
         IN  /\ \A y \in S : it[y].key = c.key =>
                  a = [status |-> "ok", key |-> it[y].key, value |-> it[y].value]
             /\ (\A y \in S : it[y].key # c.key) =>
                  a = [status |-> "ok", key |-> c.key, value |-> NoValue]
<1> DEFINE m == ContentsOf(S, it)
<1>1. c.key \in Keys
  BY CallTypes
<1>2. /\ \A y \in S : it[y].key = c.key => m[c.key] = it[y].value
      /\ (\A y \in S : it[y].key # c.key) => m[c.key] = NoValue
  BY <1>1, ContentsAre
<1> HIDE DEF m
<1>3. Map!Right(c, m) = [status |-> "ok", key |-> c.key, value |-> m[c.key]]
  BY DEF Map!Right
<1> QED
  BY <1>2, <1>3 DEF m

(* What a search for the next key may answer: y is the item that follows.  *)
LEMMA RightForNext ==
  ASSUME NEW S, NEW it, Mapped(S, it), NEW c \in Calls, c.op = "next",
         \A x \in S : it[x].key \in Nat,
         NEW y \in S, it[y].key > c.key, \A x \in S : it[x].key > c.key => it[y].key <= it[x].key
  PROVE  LET a == Map!Right(c, ContentsOf(S, it))
         IN  /\ it[y].key \in Keys =>
                  a = [status |-> "ok", key |-> it[y].key, value |-> it[y].value]
             /\ (\A x \in S : it[x].key \in Keys => it[x].key < it[y].key) =>
                  a = [status |-> "ok", key |-> c.key, value |-> NoValue]
<1> DEFINE m == ContentsOf(S, it)
           k == c.key
<1>1. k \in Nat /\ Keys \subseteq Nat
  BY CallKeys
<1>2. /\ \A x \in S : it[x].key \in Keys => m[it[x].key] = it[x].value
      /\ \A l \in Keys : m[l] = NoValue <=> \A x \in S : it[x].key # l
  BY ContentsAre
<1> HIDE DEF m
<1>3. \A l : l \in Map!Larger(m, k) <=> l \in Keys /\ l > k /\ \E x \in S : it[x].key = l
  BY <1>2 DEF Map!Larger
<1>4. ASSUME it[y].key \in Keys
      PROVE  Map!Right(c, m) = [status |-> "ok", key |-> it[y].key, value |-> it[y].value]
  <2>1. it[y].key \in Map!Larger(m, k)
    BY <1>3, <1>4
  <2>2. /\ Map!Successor(m, k) \in Map!Larger(m, k)
        /\ Map!Successor(m, k) <= it[y].key
    BY <1>1, <2>1, SuccessorIs
  <2>3. Map!Successor(m, k) = it[y].key
    <3>1. PICK x \in S : it[x].key = Map!Successor(m, k) /\ it[x].key > k
      BY <1>3, <2>2
    <3>2. it[y].key <= it[x].key
      BY <3>1
    <3> QED
      BY <2>2, <3>1, <3>2
  <2>4. Map!Right(c, m) = [status |-> "ok", key |-> Map!Successor(m, k),
                           value |-> m[Map!Successor(m, k)]]
    BY <2>1 DEF Map!Right
  <2> QED
    BY <1>2, <1>4, <2>3, <2>4
<1>5. ASSUME \A x \in S : it[x].key \in Keys => it[x].key < it[y].key
      PROVE  Map!Right(c, m) = [status |-> "ok", key |-> k, value |-> NoValue]
  <2>1. ASSUME NEW l \in Map!Larger(m, k) PROVE FALSE
    <3>1. PICK x \in S : it[x].key = l /\ l \in Keys /\ l > k
      BY <1>3, <2>1
    <3>2. it[y].key <= it[x].key /\ it[x].key < it[y].key
      BY <1>5, <3>1
    <3> QED
      BY <3>2
  <2>2. Map!Larger(m, k) = {}
    BY <2>1
  <2> QED
    BY <2>2 DEF Map!Right
<1> QED
  BY <1>4, <1>5 DEF m

(* The key of a next item is larger.                                       *)
LEMMA RightIsLarger ==
  ASSUME NEW m, NEW c \in Calls, c.op = "next", Map!Right(c, m).value # NoValue
  PROVE  Map!Right(c, m).key > c.key
<1>1. c.key \in Nat
  BY CallKeys
<1>2. Map!Larger(m, c.key) # {}
  BY DEF Map!Right
<1>3. Map!Successor(m, c.key) > c.key
  BY <1>1, <1>2, SuccessorIs DEF Map!Larger
<1> QED
  BY <1>2, <1>3 DEF Map!Right

-----------------------------------------------------------------------------
(* What the history variables record                                       *)

ValuesOK == \A x \in DOMAIN item \cap Blocks : item[x].value \in Values

(* A call is one of its thread's program; its answer is settled where the  *)
(* first level is changed, or found to need no change.                     *)
AnswerOK(t) ==
  /\ call[t] = Map!NoCall => ret[t] = Map!NoAnswer
  /\ call[t] # Map!NoCall => call[t] \in client[t]
  /\ pc[t] \in {"rlock", "rwait", "rwoken", "reading", "wlock"} => ret[t] = Map!NoAnswer
  /\ pc[t] = "writing" =>
       /\ reg[t].step \in {"examine", "unlink"} => ret[t] = Map!NoAnswer
       /\ reg[t].step = "backlink" /\ reg[t].i > 0 => ret[t] = Map!NoAnswer
       /\ reg[t].step \in {"forward", "publish"} =>
            /\ ret[t] = IF reg[t].i = 0 THEN Map!NoAnswer ELSE Map!Done("ok")
            /\ item[reg[t].y].value = call[t].value

(* What a search is about to answer: S is the items in the list.           *)
ReadingOK(t, S) ==
  pc[t] = "reading" =>
    /\ call[t].op = "search" /\ reg[t].step = "found" =>
         Found(t) \in seen[t] \/ (reg[t].y \in S /\ Key(reg[t].y) = call[t].key)
    /\ call[t].op = "next" /\ reg[t].step \in {"found", "next"} =>
         /\ reg[t].y \in S
         /\ reg[t].step = "next" \/ Key(reg[t].y) # call[t].key => Found(t) \in seen[t]

(* A search has seen every answer that was right since it began: the one   *)
(* that is right now, if it is not over, and the one it is about to give.  *)
SearchOK(t, S) ==
  Map!IsSearch(call[t]) =>
    /\ ret[t] = Map!NoAnswer => Map!Right(call[t], ContentsOf(S, item)) \in seen[t]
    /\ call[t].op = "next" =>
         \A a \in seen[t] \cup ({ret[t]} \ {Map!NoAnswer}) :
           a.value # NoValue => a.key > call[t].key
    /\ ReadingOK(t, S)

History(S) ==
  /\ ValuesOK
  /\ seen = [t \in Threads |-> seen[t]] /\ ret = [t \in Threads |-> ret[t]]
  /\ \A t \in Threads : AnswerOK(t) /\ SearchOK(t, S)

(* The items in the list are a map.                                        *)
LEMMA ShapeIsMap ==
  ASSUME NEW G, NEW L, Shape(G, L), ValuesOK
  PROVE  /\ Mapped(L[0], item)
         /\ \A x \in L[0] : Key(x) \in Nat /\ (Key(x) \in Keys <=> x \in Blocks)
         /\ L[0] \subseteq G /\ G \subseteq DOMAIN item
<1>1. /\ HeapOK /\ L[0] \subseteq DOMAIN item /\ Chain(L[0], 0)
      /\ L[0] \subseteq G /\ G \subseteq DOMAIN item
  BY LevelsAreNumbers DEF Shape, Levelled, Walkable
<1>2. \A x \in DOMAIN item : Key(x) \in Nat /\ (Key(x) \in Keys <=> x \in Blocks)
  <2>1. 0 \notin Keys /\ TailKey \notin Keys
    <3>1. \A k \in Keys : k \in Nat /\ k # 0 /\ k < TailKey
      BY TailKeyIsLast
    <3> QED
      BY <3>1, TailKeyIsLast
  <2>2. \A x \in DOMAIN item : x \in Blocks \/ x = Header \/ x = TailItem
    BY <1>1 DEF HeapOK, Nodes
  <2>3. \A x \in DOMAIN item : item[x].key \in Nat
    BY <1>1 DEF HeapOK, Node
  <2>4. Header \notin Blocks /\ TailItem \notin Blocks
    BY ListAssumption
  <2> QED
    BY <1>1, <2>1, <2>2, <2>3, <2>4 DEF HeapOK, Key
<1>3. \A x, z \in L[0] : item[x].key = item[z].key => x = z
  BY <1>1 DEF Chain, Key
<1> QED
  BY <1>1, <1>2, <1>3 DEF Mapped, ValuesOK, Key

(* The same, and what Contents is.                                         *)
LevelIsMap ==
  \A G, L : Shape(G, L) =>
    /\ Contents = ContentsOf(L[0], item)
    /\ ValuesOK => Mapped(L[0], item)

(* So it is in every state.                                                *)
LEMMA ListAlwaysIsMap == LevelIsMap /\ LevelIsMap'
<1>1. LevelIsMap
  <2> SUFFICES ASSUME NEW G, NEW L, Shape(G, L)
               PROVE  /\ Contents = ContentsOf(L[0], item)
                      /\ ValuesOK => Mapped(L[0], item)
    BY DEF LevelIsMap
  <2>1. Linked(0) = L[0]
    BY LevelsAreLinked, LevelsAreNumbers
  <2> QED
    BY <2>1, ShapeIsMap DEF Contents, ContentsOf, Key
<1> QED
  BY <1>1, PTL

(* From an item at or before key k that points to one at or after it, a    *)
(* search comes to an item in the list, and to the first one there.        *)
LEMMA Landing ==
  ASSUME NEW G, NEW L, Shape(G, L), NEW x \in G \ {TailItem}, Key(x) <= Key(Next(x, 0))
  PROVE  /\ Next(x, 0) \in L[0]
         /\ \A z \in L[0] : Key(z) > Key(x) => Key(Next(x, 0)) <= Key(z)
<1>1. /\ HeapOK /\ Chain(L[0], 0) /\ L[0] \subseteq DOMAIN item
      /\ Walkable(G, L) /\ G \subseteq DOMAIN item
  BY LevelsAreNumbers DEF Shape, Levelled, Walkable
<1>2. \A z \in DOMAIN item : Key(z) \in Nat
  BY <1>1 DEF HeapOK, Node, Key
<1>3. Next(x, 0) \in DOMAIN item /\ Stored(x, 0)
  BY <1>1, LevelsAreNumbers DEF Walkable
<1>4. CASE x \in L[0]
  BY <1>1, <1>4 DEF Chain
<1>5. CASE Moving(x, 0)
  <2>1. PICK u \in Threads : /\ pc[u] = "writing" /\ reg[u].step \in {"publish", "backlink"}
                             /\ reg[u].y = x /\ reg[u].i = 0
    BY <1>5 DEF Moving
  <2>2. Place(u, L)
    BY <2>1 DEF Shape, ThreadOK, WriterOK
  <2>3. PICK p \in L[0] \ {TailItem} : /\ Key(p) < Key(x) /\ Next(x, 0) = Next(p, 0)
    BY <2>1, <2>2 DEF Place
  <2>4. /\ Next(p, 0) \in L[0]
        /\ \A z \in L[0] : Key(p) < Key(z) => Key(Next(p, 0)) <= Key(z)
    BY <1>1, <2>3 DEF Chain
  <2>5. ASSUME NEW z \in L[0], Key(z) > Key(x) PROVE Key(p) < Key(z)
    BY <1>1, <1>2, <2>3, <2>5
  <2> QED
    BY <2>3, <2>4, <2>5
<1>6. CASE Key(Next(x, 0)) < Key(x)
  BY <1>1, <1>2, <1>3, <1>6
<1> QED
  BY <1>1, <1>3, <1>4, <1>5, <1>6, LevelsAreNumbers DEF Walkable

(* The right answer for an item with the key of the search.                *)
LEMMA FoundIsRight ==
  ASSUME NEW G, NEW L, Shape(G, L), ValuesOK, NEW t \in Threads,
         call[t] \in Calls, call[t].op = "search", reg[t].y \in L[0], Key(reg[t].y) = call[t].key
  PROVE  Found(t) = Map!Right(call[t], ContentsOf(L[0], item))
<1>1. Mapped(L[0], item)
  BY ShapeIsMap
<1>2. Map!Right(call[t], ContentsOf(L[0], item))
        = [status |-> "ok", key |-> item[reg[t].y].key, value |-> item[reg[t].y].value]
  BY <1>1, RightForKey DEF Key
<1> QED
  BY <1>2 DEF Found, Hit, Key

(* What thread u has of the history while another thread takes a step.  An *)
(* item changes its value in the list only.                                *)
Undisturbed(u, S, T) ==
  /\ call'[u] = call[u] /\ ret'[u] = ret[u] /\ reg'[u] = reg[u]
  /\ \/ pc'[u] = pc[u]
     \/ {pc[u], pc'[u]} = {"rwait", "rwoken"} \/ {pc[u], pc'[u]} = {"fwait", "fwoken"}
  /\ \A x \in DOMAIN item \cap DOMAIN item' : item'[x].key = item[x].key
  /\ \A x \in DOMAIN item \cap DOMAIN item' :
       item'[x].value = item[x].value \/ x \in S \cap T
  /\ pc[u] = "writing" => item'[reg[u].y].value = item[reg[u].y].value
  /\ call[u].op = "next" =>
       S \subseteq T /\ \A x \in DOMAIN item \cap DOMAIN item' : item'[x].value = item[x].value
  /\ seen'[u] = IF Map!IsSearch(call[u]) /\ ret[u] = Map!NoAnswer
                THEN seen[u] \cup {Map!Right(call[u], ContentsOf(T, item'))}
                ELSE seen[u]

(* It keeps what it knows.                                                 *)
LEMMA OthersRemember ==
  ASSUME NEW G, NEW L, Shape(G, L), NEW G2, NEW L2, Shape(G2, L2)', ValuesOK,
         NEW u \in Threads, AnswerOK(u), SearchOK(u, L[0]), client' = client,
         Undisturbed(u, L[0], L2[0])
  PROVE  AnswerOK(u)' /\ SearchOK(u, L2[0])'
<1>1. call'[u] = call[u] /\ ret'[u] = ret[u] /\ reg'[u] = reg[u]
  BY DEF Undisturbed
<1>2. /\ pc'[u] \in {"reading", "writing", "wlock"} => pc'[u] = pc[u]
      /\ pc'[u] \in {"rlock", "rwait", "rwoken", "reading", "wlock"}
           => pc[u] \in {"rlock", "rwait", "rwoken", "reading", "wlock"}
  BY DEF Undisturbed
<1>3. AnswerOK(u)'
  BY <1>1, <1>2 DEF AnswerOK, Undisturbed
<1>4. ASSUME Map!IsSearch(call[u]) PROVE SearchOK(u, L2[0])'
  <2>1. call[u] \in Calls /\ call[u].op \in {"search", "next"}
    BY <1>4 DEF Shape, HeapOK, Map!IsSearch, Map!NoCall
  <2>2. ret[u] = Map!NoAnswer => Map!Right(call[u], ContentsOf(L2[0], item')) \in seen'[u]
    BY <1>4 DEF Undisturbed
  <2>3. ASSUME call[u].op = "next", NEW a \in seen'[u] \cup ({ret[u]} \ {Map!NoAnswer}),
               a.value # NoValue
        PROVE  a.key > call[u].key
    <3>1. CASE a \in seen[u] \cup ({ret[u]} \ {Map!NoAnswer})
      BY <1>4, <2>3, <3>1 DEF SearchOK
    <3>2. CASE a = Map!Right(call[u], ContentsOf(L2[0], item'))
      BY <2>1, <2>3, <3>2, RightIsLarger
    <3> QED
      BY <2>3, <3>1, <3>2 DEF Undisturbed
  <2>4. ASSUME pc'[u] = "reading", reg[u].step \in {"found", "next"}
        PROVE  /\ reg[u].y \in DOMAIN item \cap DOMAIN item'
               /\ ret[u] = Map!NoAnswer /\ seen[u] \subseteq seen'[u]
               /\ Found(u)' = Found(u) \/ (item'[reg[u].y].value # item[reg[u].y].value
                                           /\ Key(reg[u].y) = call[u].key
                                           /\ call[u].op = "search")
    <3>1. pc[u] = "reading"
      BY <1>2, <2>4
    <3>2. reg[u].y \in G /\ G \subseteq DOMAIN item
      BY <3>1 DEF Shape, ThreadOK, ReaderOK, Walkable
    <3>3. (reg[u].y \in G2 /\ G2 \subseteq DOMAIN item)'
      BY <2>4 DEF Shape, ThreadOK, ReaderOK, Walkable
    <3>4. reg[u].y \in DOMAIN item \cap DOMAIN item'
      BY <1>1, <3>2, <3>3
    <3>5. item'[reg[u].y].key = item[reg[u].y].key
      BY <3>4 DEF Undisturbed
    <3>6. call[u].op = "next" => item'[reg[u].y].value = item[reg[u].y].value
      BY <3>4 DEF Undisturbed
    <3>7. \/ Found(u)' = Found(u)
          \/ /\ item'[reg[u].y].value # item[reg[u].y].value
             /\ Key(reg[u].y) = call[u].key /\ call[u].op = "search"
      BY <1>1, <2>1, <3>5, <3>6 DEF Found, Hit, Key
    <3> QED
      BY <3>1, <3>4, <3>7 DEF AnswerOK, Undisturbed
  <2>5. ASSUME pc'[u] = "reading", call[u].op = "search", reg[u].step = "found"
        PROVE  Found(u)' \in seen'[u] \/ (reg[u].y \in L2[0] /\ Key(reg[u].y)' = call[u].key)
    <3>1. Found(u) \in seen[u] \/ (reg[u].y \in L[0] /\ Key(reg[u].y) = call[u].key)
      BY <1>2, <1>4, <2>5 DEF SearchOK, ReadingOK
    <3>2. Found(u) \in seen[u]
      BY <1>4, <2>1, <2>4, <2>5, <3>1, FoundIsRight DEF SearchOK
    <3>3. CASE Found(u)' = Found(u)
      BY <2>4, <2>5, <3>2, <3>3
    <3>4. CASE item'[reg[u].y].value # item[reg[u].y].value /\ Key(reg[u].y) = call[u].key
      BY <1>1, <2>4, <2>5, <3>4 DEF Undisturbed, Key
    <3> QED
      BY <2>4, <2>5, <3>3, <3>4
  <2>6. ASSUME pc'[u] = "reading", call[u].op = "next", reg[u].step \in {"found", "next"}
        PROVE  /\ reg[u].y \in L2[0]
               /\ reg[u].step = "next" \/ Key(reg[u].y)' # call[u].key => Found(u)' \in seen'[u]
    <3>1. /\ reg[u].y \in L[0]
          /\ reg[u].step = "next" \/ Key(reg[u].y) # call[u].key => Found(u) \in seen[u]
      BY <1>2, <1>4, <2>6 DEF SearchOK, ReadingOK
    <3>2. L[0] \subseteq L2[0]
      BY <2>6 DEF Undisturbed
    <3>3. Key(reg[u].y)' = Key(reg[u].y)
      BY <1>1, <2>4, <2>6 DEF Undisturbed, Key
    <3>4. Found(u)' = Found(u)
      BY <2>4, <2>6
    <3> QED
      BY <2>4, <2>6, <3>1, <3>2, <3>3, <3>4
  <2> QED
    BY <1>1, <2>2, <2>3, <2>5, <2>6 DEF SearchOK, ReadingOK
<1>5. ~Map!IsSearch(call[u]) => SearchOK(u, L2[0])'
  BY <1>1 DEF SearchOK
<1> QED
  BY <1>3, <1>4, <1>5

-----------------------------------------------------------------------------
(* Steps that do not change the map                                        *)

MapShape == \E G, L : Shape(G, L) /\ History(L[0])
Simulated == MapShape' /\ (Map!MapNext \/ UNCHANGED Map!mapVars)

(* The other threads' variables stay.                                      *)
Aside(t) ==
  /\ Alone(t)
  /\ \A u \in Threads \ {t} : ret'[u] = ret[u]
SameValues ==
  \A x \in DOMAIN item \cap DOMAIN item' :
    item'[x].key = item[x].key /\ item'[x].value = item[x].value

(* What a step leaves of the history that does not change the map.         *)
LEMMA QuietHistory ==
  ASSUME NEW G, NEW L, Shape(G, L), NEW G2, NEW L2, Shape(G2, L2)', L2[0] = L[0],
         History(L[0]), NEW t \in Threads, client' = client, Aside(t), SameValues, ValuesOK',
         seen' = [u \in Threads |-> seen'[u]], ret' = [u \in Threads |-> ret'[u]],
         \A u \in Threads \ {t} : seen'[u] = seen[u],
         AnswerOK(t)', SearchOK(t, L[0])'
  PROVE  History(L2[0])' /\ Contents' = Contents
<1>1. ContentsOf(L[0], item') = ContentsOf(L[0], item)
  <2>1. Mapped(L[0], item) /\ L[0] \subseteq DOMAIN item
    BY ShapeIsMap DEF History
  <2>2. L[0] \subseteq DOMAIN item'
    BY DEF Shape, Walkable
  <2>3. \A x \in L[0] : item'[x].key = item[x].key /\ item'[x].value = item[x].value
    BY <2>1, <2>2 DEF SameValues
  <2> QED
    BY <2>1, <2>3, ContentsAgree
<1>2. Contents' = Contents
  BY <1>1, ListAlwaysIsMap DEF LevelIsMap
<1>3. ASSUME NEW u \in Threads \ {t} PROVE AnswerOK(u)' /\ SearchOK(u, L2[0])'
  <2>1. /\ call'[u] = call[u] /\ ret'[u] = ret[u] /\ reg'[u] = reg[u] /\ seen'[u] = seen[u]
        /\ \/ pc'[u] = pc[u]
           \/ {pc[u], pc'[u]} = {"rwait", "rwoken"} \/ {pc[u], pc'[u]} = {"fwait", "fwoken"}
    BY DEF Aside, Alone
  <2>2. AnswerOK(u) /\ SearchOK(u, L[0]) /\ ValuesOK
    BY DEF History
  <2>3. pc[u] = "writing" => item'[reg[u].y].value = item[reg[u].y].value
    <3>1. SUFFICES ASSUME pc[u] = "writing"
                   PROVE  reg[u].y \in DOMAIN item \cap DOMAIN item'
      BY DEF SameValues
    <3>2. reg[u].y \in DOMAIN item
      BY <3>1 DEF Shape, ThreadOK, WriterOK
    <3>3. pc'[u] = "writing"
      BY <2>1, <3>1
    <3>4. reg'[u].y \in DOMAIN item'
      BY <3>3 DEF Shape, ThreadOK, WriterOK
    <3> QED
      BY <2>1, <3>2, <3>4
  <2>4. Undisturbed(u, L[0], L2[0])
    <3>1. Map!IsSearch(call[u]) /\ ret[u] = Map!NoAnswer =>
            Map!Right(call[u], ContentsOf(L2[0], item')) \in seen[u]
      BY <1>1, <2>2 DEF SearchOK
    <3> QED
      BY <2>1, <2>3, <3>1 DEF Undisturbed, SameValues
  <2> QED
    BY <2>2, <2>4, OthersRemember
<1>4. \A u \in Threads : AnswerOK(u)' /\ SearchOK(u, L2[0])'
  BY <1>3
<1>5. History(L2[0])'
  BY <1>4 DEF History
<1> QED
  BY <1>2, <1>5

(* A step that the map does not see.                                       *)
LEMMA SilentStep ==
  ASSUME NEW G, NEW L, Shape(G, L), NEW G2, NEW L2, Shape(G2, L2)', L2[0] = L[0],
         History(L[0]), NEW t \in Threads, client' = client, Alone(t),
         SameValues, DOMAIN item' \subseteq DOMAIN item, UNCHANGED callVars,
         AnswerOK(t)', Map!IsSearch(call[t]) => ReadingOK(t, L[0])'
  PROVE  Simulated
<1>1. call' = call /\ seen' = seen /\ ret' = ret
  BY DEF callVars
<1>2. ContentsOf(L[0], item') = ContentsOf(L[0], item)
  <2>1. Mapped(L[0], item) /\ L[0] \subseteq DOMAIN item
    BY ShapeIsMap DEF History
  <2>2. L[0] \subseteq DOMAIN item'
    BY DEF Shape, Walkable
  <2>3. \A x \in L[0] : item'[x].key = item[x].key /\ item'[x].value = item[x].value
    BY <2>1, <2>2 DEF SameValues
  <2> QED
    BY <2>1, <2>3, ContentsAgree
<1>3. SearchOK(t, L[0])'
  BY <1>1, <1>2 DEF History, SearchOK
<1>4. ValuesOK'
  BY DEF History, ValuesOK, SameValues
<1>5. Aside(t) /\ seen' = [u \in Threads |-> seen'[u]] /\ ret' = [u \in Threads |-> ret'[u]]
  BY <1>1 DEF Aside, History
<1>6. History(L2[0])' /\ Contents' = Contents
  BY <1>1, <1>3, <1>4, <1>5, QuietHistory
<1> QED
  BY <1>1, <1>6 DEF Simulated, MapShape, Map!mapVars

(* What a step leaves to the other threads.                                *)
LEMMA StepIsAside ==
  ASSUME LockInv, HeapOK, NEW S, History(S), NEW t \in Threads, Step(t)
  PROVE  Aside(t)
<1>1. /\ reg \in [Threads -> Local] /\ call \in [Threads -> Calls \cup {Map!NoCall}]
      /\ held \in [Threads -> SUBSET Nodes] /\ ret = [u \in Threads |-> ret[u]]
      /\ pc \in [Threads -> Locations]
  BY DEF HeapOK, History, LockInv, LockTypeOK
<1>2. ASSUME NEW u \in Threads \ {t}
      PROVE  reg'[u] = reg[u] /\ call'[u] = call[u] /\ held'[u] = held[u] /\ ret'[u] = ret[u]
  <2> USE <1>1 DEF Reg, heapVars, callVars, listVars
  <2>1. CASE BeginCall(t) \/ EnterRead(t) \/ Walk(t) \/ FollowNext(t)
    BY <2>1 DEF BeginCall, EnterRead, Walk, FollowNext
  <2>2. CASE FinishSearch(t) \/ LeaveRead(t) \/ Return(t) \/ Release(t) \/ Traversed(t)
    BY <2>2 DEF FinishSearch, LeaveRead, Return, Release, Traversed
  <2>3. CASE InsertFound(t) \/ NewItem(t) \/ DeleteMissing(t) \/ DeleteFound(t)
    BY <2>3 DEF InsertFound, NewItem, DeleteMissing, DeleteFound, EndEarly
  <2>4. CASE Forward(t) \/ Publish(t) \/ Unlink(t) \/ Backlink(t)
    BY <2>4 DEF Forward, Publish, Unlink, Backlink
  <2>5. CASE RaiseHint(t) \/ LowerHint(t) \/ FinishUpdate(t) \/ Flush(t) \/ Synchronize(t)
    BY <2>5 DEF RaiseHint, LowerHint, FinishUpdate, Flush, Synchronize
  <2> QED
    BY <2>1, <2>2, <2>3, <2>4, <2>5 DEF Step
<1>3. ASSUME NEW u \in Threads \ {t}
      PROVE  \/ pc'[u] = pc[u]
             \/ {pc[u], pc'[u]} = {"rwait", "rwoken"}
             \/ {pc[u], pc'[u]} = {"fwait", "fwoken"}
  <2>1. CASE \E from, to : Goto(t, from, to)
    BY <1>1, <2>1 DEF Goto
  <2>2. CASE Signal(t)
    BY <1>1, <2>2 DEF Signal, At
  <2>3. CASE Broadcast(t)
    BY <1>1, <2>3 DEF Broadcast
  <2>4. CASE UNCHANGED lockVars
    BY <2>4 DEF lockVars
  <2> QED
    BY <2>1, <2>2, <2>3, <2>4, StepIsLocked DEF Run, Begin, SpuriousWakeup, ReadLock,
      ResumeReader, EndFind, ReadUnlock, EndTraverse, WriteLock, Update, EndUpdate,
      WriteUnlock, ReadBlock, ResumeFlusher, FlushDeleted, EndFlush, ReadUnblock
<1> QED
  BY <1>2, <1>3 DEF Aside, Alone

(* What skipNext finds is the right answer when it finds it.               *)
LEMMA NextIsRight ==
  ASSUME NEW G, NEW L, Shape(G, L), ValuesOK, NEW c \in Calls, c.op = "next",
         NEW y \in L[0], Key(y) > c.key, \A z \in L[0] : Key(z) > c.key => Key(y) <= Key(z)
  PROVE  Map!Right(c, ContentsOf(L[0], item))
           = IF y # TailItem THEN [status |-> "ok", key |-> Key(y), value |-> item[y].value]
                             ELSE [status |-> "ok", key |-> c.key, value |-> NoValue]
<1>1. /\ Mapped(L[0], item) /\ c.key \in Nat
      /\ \A x \in L[0] : Key(x) \in Nat /\ (Key(x) \in Keys <=> x \in Blocks)
      /\ \A x \in L[0] : x \in Nodes
  BY ShapeIsMap, CallKeys DEF Shape, HeapOK, Levelled
<1>2. Key(Header) = 0 /\ Key(TailItem) = TailKey
  BY DEF Shape, HeapOK, Key
<1>3. CASE y # TailItem
  <2>1. y # Header
    BY <1>1, <1>2
  <2>2. Key(y) \in Keys
    BY <1>1, <1>3, <2>1 DEF Nodes
  <2> QED
    BY <1>1, <1>3, <2>2, RightForNext DEF Key
<1>4. CASE y = TailItem
  <2>1. \A x \in L[0] : Key(x) \in Keys => Key(x) < Key(y)
    BY <1>2, <1>4, TailKeyIsLast
  <2> QED
    BY <1>1, <1>4, <2>1, RightForNext DEF Key
<1> QED
  BY <1>3, <1>4

(* A search is let in.                                                     *)
LEMMA EnterReadIsSilent ==
  ASSUME LockInv, NEW G, NEW L, Shape(G, L), NEW t \in Threads, EnterRead(t),
         UNCHANGED client, History(L[0]), Alone(t)
  PROVE  Simulated
<1>1. /\ Shape(G, L)' /\ item' = item /\ UNCHANGED callVars
      /\ pc[t] \in {"rlock", "rwoken"} /\ pc'[t] \in {"rwait", "reading"}
      /\ reg'[t].step = reg[t].step
  <2>1. pc \in [Threads -> Locations] /\ reg \in [Threads -> Local]
    BY DEF LockInv, LockTypeOK, Shape, HeapOK
  <2>2. reg'[t].step = reg[t].step
    BY <2>1 DEF EnterRead, Local
  <2> QED
    BY <2>1, <2>2, EnterReadStep DEF EnterRead, ReadLock, ResumeReader, Goto, heapVars
<1>2. reg[t].step = "walk"
  BY <1>1 DEF Shape, ThreadOK, OutsideOK
<1>3. AnswerOK(t)' /\ ReadingOK(t, L[0])'
  BY <1>1, <1>2 DEF callVars, History, AnswerOK, ReadingOK
<1>4. SameValues /\ DOMAIN item' \subseteq DOMAIN item
  BY <1>1 DEF SameValues
<1> QED
  BY <1>1, <1>3, <1>4, SilentStep

(* A search that ends its walk has found the right answer.                 *)
LEMMA WalkIsSilent ==
  ASSUME LockInv, NEW G, NEW L, Shape(G, L), NEW t \in Threads, Walk(t),
         UNCHANGED client, History(L[0]), Alone(t)
  PROVE  Simulated
<1>0. PICK r, y : r = reg[t] /\ y = Next(r.x, r.i)
  OBVIOUS
<1>1. /\ pc[t] = "reading" /\ r.step = "walk" /\ pc' = pc
      /\ UNCHANGED <<item, call, ret, seen>> /\ UNCHANGED callVars
      /\ reg \in [Threads -> Local]
  BY <1>0 DEF Walk, lockVars, heapVars, callVars, Shape, HeapOK
<1>2. Shape(G, L)'
  BY WalkStep
<1>3. /\ call[t] \in Calls /\ ReaderOK(t, G)
      /\ \A x \in G : Key(x) \in Nat
      /\ call[t].key \in Nat
  BY <1>1, InsideFacts
<1>4. /\ ret[t] = Map!NoAnswer /\ ValuesOK
      /\ Map!IsSearch(call[t]) => Map!Right(call[t], ContentsOf(L[0], item)) \in seen[t]
  BY <1>1 DEF History, AnswerOK, SearchOK
<1>5. \/ reg'[t].step = "walk"
      \/ /\ reg'[t].step = "found" /\ reg'[t].y = y /\ r.i = 0
         /\ Key(y) >= call[t].key
  <2>1. r \in Local /\ t \in DOMAIN reg
    BY <1>0, <1>1
  <2>2. \/ reg'[t] = [r EXCEPT !.x = y]
        \/ /\ Key(y) >= call[t].key
           /\ \E save : reg'[t] = [r EXCEPT !.y = y, !.i = IF r.i > 0 THEN r.i - 1 ELSE 0,
                           !.step = IF r.i > 0 THEN "walk" ELSE "found", !.save = save]
    BY <1>0, <2>1 DEF Walk, Reg
  <2>3. CASE reg'[t] = [r EXCEPT !.x = y]
    BY <1>0, <1>1, <2>1, <2>3 DEF Local
  <2>4. ASSUME NEW save, Key(y) >= call[t].key,
               reg'[t] = [r EXCEPT !.y = y, !.i = IF r.i > 0 THEN r.i - 1 ELSE 0,
                           !.step = IF r.i > 0 THEN "walk" ELSE "found", !.save = save]
        PROVE  \/ reg'[t].step = "walk"
               \/ reg'[t].step = "found" /\ reg'[t].y = y /\ r.i = 0
    <3>1. reg'[t].step = (IF r.i > 0 THEN "walk" ELSE "found") /\ reg'[t].y = y
      BY <2>1, <2>4 DEF Local
    <3>2. r.i \in Nat
      BY <2>1, LevelsAreNumbers DEF Local
    <3> QED
      BY <3>1, <3>2
  <2> QED
    BY <2>2, <2>3, <2>4
<1>6. ASSUME reg'[t].step = "found", Map!IsSearch(call[t]) PROVE ReadingOK(t, L[0])'
  <2>1. reg'[t].y = y /\ r.i = 0 /\ Key(y) >= call[t].key
    BY <1>5, <1>6
  <2>2. r.x \in G \ {TailItem} /\ (r.x = Header \/ Key(r.x) < call[t].key)
    BY <1>0, <1>1, <1>3 DEF ReaderOK, Foothold
  <2>3. Key(r.x) <= call[t].key /\ Key(r.x) \in Nat
    BY <1>3, <2>2 DEF Shape, HeapOK, Key
  <2>4. y \in G /\ Key(y) \in Nat
    <3>1. r.i = 0 /\ Foothold(t, r.x, 0, G)
      BY <1>0, <1>1, <1>3, <2>1 DEF ReaderOK
    <3>2. Next(r.x, 0) \in G
      BY <2>2, <3>1, LevelsAreNumbers, Follow DEF Foothold
    <3> QED
      BY <1>0, <1>3, <3>1, <3>2
  <2>5. /\ y \in L[0]
        /\ \A z \in L[0] : Key(z) > Key(r.x) => Key(y) <= Key(z)
    <3>1. Key(r.x) <= Key(Next(r.x, 0))
      BY <1>0, <1>3, <2>1, <2>3, <2>4
    <3> QED
      BY <1>0, <2>1, <2>2, <3>1, Landing
  <2>6. \A z \in L[0] : Key(z) \in Nat
    BY ShapeIsMap, <1>4
  <2>7. ASSUME call[t].op = "search"
        PROVE  Found(t)' \in seen[t] \/ (y \in L[0] /\ Key(y) = call[t].key)
    <3>1. call[t].key \in Keys
      BY <1>3, <2>7, CallTypes
    <3>2. Key(r.x) < call[t].key
      BY <1>3, <2>2, <2>3, <3>1, TailKeyIsLast DEF Shape, HeapOK, Key
    <3>3. CASE Key(y) # call[t].key
      <4>1. \A z \in L[0] : Key(z) # call[t].key
        BY <1>3, <2>1, <2>4, <2>5, <2>6, <3>2, <3>3
      <4>2. Map!Right(call[t], ContentsOf(L[0], item))
              = [status |-> "ok", key |-> call[t].key, value |-> NoValue]
        BY <1>3, <1>4, <2>7, <4>1, RightForKey, ShapeIsMap DEF Key
      <4>3. Found(t)' = [status |-> "ok", key |-> call[t].key, value |-> NoValue]
        BY <1>1, <2>1, <2>7, <3>3 DEF Found, Hit, Key
      <4> QED
        BY <1>4, <1>6, <4>2, <4>3
    <3> QED
      BY <2>5, <3>3
  <2>8. ASSUME call[t].op = "next", Key(y) # call[t].key
        PROVE  Found(t)' \in seen[t]
    <3>1. Key(y) > call[t].key
      BY <1>3, <2>1, <2>4, <2>8
    <3>2. \A z \in L[0] : Key(z) > call[t].key => Key(y) <= Key(z)
      BY <1>3, <2>3, <2>4, <2>5, <2>6
    <3>3. Map!Right(call[t], ContentsOf(L[0], item))
            = IF y # TailItem THEN [status |-> "ok", key |-> Key(y), value |-> item[y].value]
                              ELSE [status |-> "ok", key |-> call[t].key, value |-> NoValue]
      BY <1>3, <1>4, <2>5, <2>8, <3>1, <3>2, NextIsRight
    <3>4. Found(t)' = IF y # TailItem
                      THEN [status |-> "ok", key |-> Key(y), value |-> item[y].value]
                      ELSE [status |-> "ok", key |-> call[t].key, value |-> NoValue]
      BY <1>1, <2>1, <2>8 DEF Found, Hit, Key
    <3> QED
      BY <1>4, <1>6, <3>3, <3>4
  <2>9. Key(y)' = Key(y)
    BY <1>1 DEF Key
  <2> QED
    BY <1>1, <1>6, <2>1, <2>5, <2>7, <2>8, <2>9 DEF ReadingOK, Key
<1>7. AnswerOK(t)' /\ (Map!IsSearch(call[t]) => ReadingOK(t, L[0])')
  <2>1. AnswerOK(t)'
    BY <1>1, <1>4 DEF AnswerOK, History
  <2>2. reg'[t].step = "walk" => ReadingOK(t, L[0])'
    BY DEF ReadingOK
  <2> QED
    BY <1>5, <1>6, <2>1, <2>2
<1> QED
  BY <1>1, <1>2, <1>7, SilentStep DEF SameValues

(* skipNext goes on from an item in the list to the one that follows it.   *)
LEMMA FollowNextIsSilent ==
  ASSUME LockInv, NEW G, NEW L, Shape(G, L), NEW t \in Threads, FollowNext(t),
         UNCHANGED client, History(L[0]), Alone(t)
  PROVE  Simulated
<1>0. PICK r, y : r = reg[t] /\ y = Next(r.y, 0)
  OBVIOUS
<1>1. /\ pc[t] = "reading" /\ r.step = "found" /\ pc' = pc
      /\ call[t].op = "next" /\ Key(r.y) = call[t].key
      /\ UNCHANGED <<item, call, ret, seen>> /\ UNCHANGED callVars
      /\ reg \in [Threads -> Local]
  BY <1>0 DEF FollowNext, lockVars, heapVars, callVars, Shape, HeapOK
<1>2. Shape(G, L)' /\ reg'[t].y = y /\ reg'[t].step = "next"
  BY <1>0, <1>1, FollowNextStep DEF FollowNext, Reg, Local
<1>3. /\ call[t] \in Calls /\ call[t].key \in Nat /\ Key(TailItem) > call[t].key
  BY <1>1, InsideFacts
<1>4. /\ ret[t] = Map!NoAnswer /\ ValuesOK
      /\ Map!Right(call[t], ContentsOf(L[0], item)) \in seen[t]
      /\ r.y \in L[0]
  BY <1>0, <1>1 DEF History, AnswerOK, SearchOK, ReadingOK, Map!IsSearch
<1>5. \A z \in L[0] : Key(z) \in Nat
  BY ShapeIsMap, <1>4
<1>6. /\ y \in L[0] /\ Key(y) > call[t].key
      /\ \A z \in L[0] : Key(z) > call[t].key => Key(y) <= Key(z)
  <2>1. r.y # TailItem
    BY <1>1, <1>3
  <2>2. Chain(L[0], 0)
    BY LevelsAreNumbers DEF Shape, Levelled
  <2>3. /\ y \in L[0] /\ Key(r.y) < Key(y)
        /\ \A z \in L[0] : Key(r.y) < Key(z) => Key(y) <= Key(z)
    BY <1>0, <1>4, <2>1, <2>2 DEF Chain
  <2> QED
    BY <1>1, <1>3, <1>5, <2>3
<1>7. Map!Right(call[t], ContentsOf(L[0], item))
        = IF y # TailItem THEN [status |-> "ok", key |-> Key(y), value |-> item[y].value]
                          ELSE [status |-> "ok", key |-> call[t].key, value |-> NoValue]
  BY <1>1, <1>3, <1>4, <1>6, NextIsRight
<1>8. Found(t)' = IF y # TailItem
                  THEN [status |-> "ok", key |-> Key(y), value |-> item[y].value]
                  ELSE [status |-> "ok", key |-> call[t].key, value |-> NoValue]
  BY <1>1, <1>2 DEF Found, Hit, Key
<1>9. ReadingOK(t, L[0])'
  BY <1>1, <1>2, <1>4, <1>6, <1>7, <1>8 DEF ReadingOK
<1>10. AnswerOK(t)'
  BY <1>1, <1>4 DEF AnswerOK, History
<1> QED
  BY <1>1, <1>2, <1>9, <1>10, SilentStep DEF SameValues

(* Keys and values stay where nothing but a count of locks or a pointer is *)
(* written.                                                                *)
LEMMA ValuesStay ==
  ASSUME HeapOK,
         \/ item' = item
         \/ \E x \in DOMAIN item : \E n : item' = [item EXCEPT ![x].locks = n]
         \/ \E x, i, y : item' = Link(x, i, y)
         \/ \E gone : item' = [x \in DOMAIN item \ gone |-> item[x]]
  PROVE  SameValues /\ DOMAIN item' \subseteq DOMAIN item
<1>1. item \in [DOMAIN item -> Node]
  BY DEF HeapOK
<1>2. CASE \E x \in DOMAIN item : \E n : item' = [item EXCEPT ![x].locks = n]
  <2>1. PICK x, n : x \in DOMAIN item /\ item' = [item EXCEPT ![x] = [item[x] EXCEPT !.locks = n]]
    BY <1>2
  <2>2. /\ [item[x] EXCEPT !.locks = n].key = item[x].key
        /\ [item[x] EXCEPT !.locks = n].value = item[x].value
    BY <1>1 DEF Node
  <2> HIDE <1>2
  <2> QED
    BY <1>1, <2>1, <2>2 DEF SameValues
<1>3. CASE \E x, i, y : item' = Link(x, i, y)
  <2>1. PICK x, n : item' = [item EXCEPT ![x] = [item[x] EXCEPT !.next = n]]
    BY <1>3 DEF Link
  <2>2. x \in DOMAIN item => /\ [item[x] EXCEPT !.next = n].key = item[x].key
                             /\ [item[x] EXCEPT !.next = n].value = item[x].value
    BY <1>1 DEF Node
  <2> HIDE <1>3
  <2> QED
    BY <1>1, <2>1, <2>2 DEF SameValues
<1>4. CASE \E gone : item' = [x \in DOMAIN item \ gone |-> item[x]]
  BY <1>4 DEF SameValues
<1>5. CASE item' = item
  BY <1>5 DEF SameValues
<1> QED
  BY <1>2, <1>3, <1>4, <1>5

(* Steps of a thread that is not searching.                                *)
LEMMA UnseenStep ==
  ASSUME NEW G, NEW L, Shape(G, L), NEW G2, Shape(G2, L)', History(L[0]),
         NEW t \in Threads, client' = client, Alone(t), UNCHANGED callVars,
         \/ item' = item
         \/ \E x \in DOMAIN item : \E n : item' = [item EXCEPT ![x].locks = n]
         \/ \E x, i, y : item' = Link(x, i, y)
         \/ \E gone : item' = [x \in DOMAIN item \ gone |-> item[x]],
         pc'[t] # "reading", AnswerOK(t)'
  PROVE  Simulated
<1>1. SameValues /\ DOMAIN item' \subseteq DOMAIN item
  BY ValuesStay DEF Shape
<1>2. ReadingOK(t, L[0])'
  BY DEF ReadingOK
<1> QED
  BY <1>1, <1>2, SilentStep

(* Steps at the locks, on the way in and out, and between two stores.      *)
LEMMA OutsideIsSilent ==
  ASSUME LockInv, FlushAlone, NEW G, NEW L, Shape(G, L), NEW t \in Threads, Step(t),
         UNCHANGED client, History(L[0]), Alone(t),
         \/ Traversed(t) \/ LeaveRead(t) \/ Release(t) \/ Synchronize(t)
         \/ RaiseHint(t) \/ LowerHint(t) \/ FinishUpdate(t) \/ Flush(t)
  PROVE  Simulated
<1>1. /\ pc \in [Threads -> Locations] /\ reg \in [Threads -> Local]
      /\ AnswerOK(t) /\ ThreadOK(t, G, L)
  BY DEF LockInv, LockTypeOK, Shape, HeapOK, History
<1>2. CASE Traversed(t)
  <2>1. /\ Shape(G, L)' /\ item' = item /\ UNCHANGED callVars
        /\ pc[t] = "reading" /\ pc'[t] = "wlock"
    BY <1>1, <1>2, TraversedStep DEF Traversed, EndTraverse, Goto, heapVars
  <2>2. AnswerOK(t)'
    BY <1>1, <2>1 DEF AnswerOK, callVars
  <2> QED
    BY <2>1, <2>2, UnseenStep
<1>3. CASE LeaveRead(t)
  <2>1. /\ Shape(G, L)' /\ UNCHANGED callVars
        /\ pc'[t] \in {"signal", "fblock", "idle"}
    BY <1>1, <1>3, LeaveReadStep DEF LeaveRead, ReadUnlock, Goto, AfterReadUnlock
  <2>2. AnswerOK(t)'
    BY <1>1, <2>1 DEF AnswerOK, callVars
  <2>3. item' = item \/ \E x \in DOMAIN item : \E n : item' = [item EXCEPT ![x].locks = n]
    <3>1. CASE reg[t].step = "lock"
      <4>1. pc[t] = "runlock"
        BY <1>3 DEF LeaveRead, ReadUnlock, Goto
      <4>2. reg[t].y \in DOMAIN item
        BY <1>1, <3>1, <4>1 DEF ThreadOK, OutsideOK, Shape, Walkable
      <4>3. item' = [item EXCEPT ![reg[t].y].locks = item[reg[t].y].locks + 1]
        BY <1>3, <3>1 DEF LeaveRead
      <4> QED
        BY <4>2, <4>3
    <3>2. CASE reg[t].step # "lock"
      BY <1>3, <3>2 DEF LeaveRead
    <3> QED
      BY <3>1, <3>2
  <2> QED
    BY <2>1, <2>2, <2>3, UnseenStep
<1>4. CASE Release(t)
  <2>1. /\ Shape(G, L)' /\ UNCHANGED callVars /\ pc' = pc /\ pc[t] = "idle"
    BY <1>4, ReleaseStep DEF Release, lockVars
  <2>2. AnswerOK(t)'
    BY <1>1, <2>1 DEF AnswerOK, callVars
  <2>3. \E x \in DOMAIN item : \E n : item' = [item EXCEPT ![x].locks = n]
    <3>1. PICK x \in held[t] : item' = [item EXCEPT ![x].locks = item[x].locks - 1]
      BY <1>4 DEF Release
    <3>2. x \in DOMAIN item
      BY DEF Shape, LocksExact
    <3> QED
      BY <3>1, <3>2
  <2> QED
    BY <2>1, <2>2, <2>3, UnseenStep
<1>5. CASE Synchronize(t)
  <2>1. /\ Shape(G, L)' /\ item' = item /\ reg' = reg /\ UNCHANGED callVars
    BY <1>5, SynchronizeStep DEF Synchronize, listVars, heapVars
  <2>2. \/ pc[t] = "wlock" /\ pc'[t] = "writing"
        \/ pc[t] = "rwait" /\ pc'[t] = "rwoken"
        \/ pc'[t] \in {"runlock", "fwait", "fwoken", "fflush", "fdone", "unblock", "fblock",
                       "broadcast", "idle"}
    <3>1. CASE Signal(t)
      BY <1>1, <3>1 DEF Signal, AfterReadUnlock, At
    <3>2. CASE Broadcast(t)
      BY <1>1, <3>2 DEF Broadcast
    <3>3. CASE WriteLock(t) \/ WriteUnlock(t) \/ ReadBlock(t) \/ ResumeFlusher(t)
               \/ EndFlush(t) \/ ReadUnblock(t) \/ SpuriousWakeup(t)
      BY <1>1, <3>3 DEF WriteLock, WriteUnlock, ReadBlock, ResumeFlusher, EndFlush,
        ReadUnblock, SpuriousWakeup, Goto
    <3> QED
      BY <1>5, <3>1, <3>2, <3>3 DEF Synchronize
  <2>3. pc[t] = "wlock" => reg[t].step = "examine"
    BY <1>1 DEF ThreadOK, ReaderOK
  <2>4. AnswerOK(t)'
    BY <1>1, <2>1, <2>2, <2>3 DEF AnswerOK, callVars
  <2>5. pc'[t] # "reading"
    BY <2>2
  <2> QED
    BY <2>1, <2>4, <2>5, UnseenStep
<1>6. CASE RaiseHint(t) \/ LowerHint(t) \/ FinishUpdate(t)
  <2>1. /\ Shape(G, L)'
        /\ item' = item /\ UNCHANGED callVars /\ pc'[t] \in {"hint", "wunlock"}
    BY <1>1, <1>6, RaiseHintStep, LowerHintStep, FinishUpdateStep DEF RaiseHint, LowerHint,
      FinishUpdate, EndUpdate, Goto, lockVars, listVars, heapVars
  <2>2. AnswerOK(t)'
    BY <1>1, <2>1 DEF AnswerOK, callVars
  <2> QED
    BY <2>1, <2>2, UnseenStep
<1>7. CASE Flush(t)
  <2>1. /\ Shape(L[0], L)' /\ UNCHANGED callVars /\ pc'[t] = "fdone"
        /\ \E gone : item' = [x \in DOMAIN item \ gone |-> item[x]]
    BY <1>1, <1>7, FreeStep DEF Flush, FlushDeleted, Goto
  <2>2. AnswerOK(t)'
    BY <1>1, <2>1 DEF AnswerOK, callVars
  <2> QED
    BY <2>1, <2>2, UnseenStep
<1> QED
  BY <1>2, <1>3, <1>4, <1>5, <1>6, <1>7

(* The writer between two levels.                                          *)
LEMMA BetweenLevelsIsSilent ==
  ASSUME LockInv, NEW G, NEW L, Shape(G, L), NEW t \in Threads,
         UNCHANGED client, History(L[0]), Alone(t),
         DeleteFound(t) \/ Forward(t) \/ Backlink(t)
  PROVE  Simulated
<1>0. PICK r, y, i : r = reg[t] /\ y = r.y /\ i = r.i
  OBVIOUS
<1>1. /\ pc \in [Threads -> Locations] /\ reg \in [Threads -> Local]
      /\ AnswerOK(t) /\ pc[t] = "writing" /\ WriterOK(t, G, L) /\ HeapOK
  BY DEF LockInv, LockTypeOK, Shape, HeapOK, History, DeleteFound, Forward, Backlink,
    Writing, ThreadOK
<1>2. CASE DeleteFound(t)
  <2>1. /\ Shape(G, L)' /\ item' = item /\ UNCHANGED callVars /\ pc' = pc
        /\ reg[t].step = "examine" /\ reg'[t].step = "unlink"
    BY <1>1, <1>2, DeleteFoundStep DEF DeleteFound, Reg, Writing, heapVars, lockVars
  <2>2. AnswerOK(t)'
    BY <1>1, <2>1 DEF AnswerOK, callVars
  <2> QED
    BY <1>1, <2>1, <2>2, UnseenStep
<1>3. CASE Forward(t)
  <2>1. /\ Shape(G, L)' /\ UNCHANGED callVars /\ pc' = pc
        /\ r.step = "forward" /\ y \in DOMAIN item
        /\ \E z : item' = Link(y, i, z)
    BY <1>0, <1>1, <1>3, ForwardStep DEF Forward, Writing, WriterOK, lockVars
  <2>2. \E x : reg'[t] = [r EXCEPT !.x = x, !.step = "publish"]
    BY <1>0, <1>1, <1>3 DEF Forward, Reg
  <2>3. r \in Local
    BY <1>0, <1>1
  <2>4. reg'[t].step = "publish" /\ reg'[t].y = y /\ reg'[t].i = i
    BY <1>0, <2>2, <2>3 DEF Local
  <2>5. item'[y].value = item[y].value
    <3>1. SameValues /\ y \in DOMAIN item'
      BY <1>1, <2>1, ValuesStay DEF Link
    <3> QED
      BY <2>1, <3>1 DEF SameValues
  <2>6. AnswerOK(t)'
    BY <1>0, <1>1, <2>1, <2>4, <2>5 DEF AnswerOK, callVars
  <2> QED
    BY <1>1, <2>1, <2>6, UnseenStep
<1>4. CASE Backlink(t)
  <2>1. /\ Shape(G, L)' /\ UNCHANGED callVars /\ r.step = "backlink"
        /\ \E x, j, z : item' = Link(x, j, z)
    BY <1>0, <1>4, BacklinkStep DEF Backlink, Writing
  <2>2. r \in Local
    BY <1>0, <1>1
  <2>3. CASE r.i > 0 /\ Reg(t, [r EXCEPT !.i = r.i - 1, !.step = "unlink"]) /\ UNCHANGED lockVars
    <3>1. reg'[t].step = "unlink" /\ pc' = pc
      BY <1>1, <2>2, <2>3 DEF Reg, lockVars, Local
    <3>2. ret[t] = Map!NoAnswer
      BY <1>0, <1>1, <2>1, <2>3 DEF AnswerOK
    <3>3. AnswerOK(t)'
      BY <1>1, <2>1, <3>1, <3>2 DEF AnswerOK, callVars
    <3> QED
      BY <1>1, <2>1, <3>1, <3>3, UnseenStep
  <2>4. CASE Update(t)
    <3>1. pc'[t] = "hint"
      BY <1>1, <2>4 DEF Update, Goto
    <3>2. AnswerOK(t)'
      BY <1>1, <2>1, <3>1 DEF AnswerOK, callVars
    <3> QED
      BY <2>1, <3>1, <3>2, UnseenStep
  <2> QED
    BY <1>0, <1>4, <2>3, <2>4 DEF Backlink
<1> QED
  BY <1>2, <1>3, <1>4

-----------------------------------------------------------------------------
(* Steps of the map                                                        *)

(* Nobody sees anything new while the map stays.                           *)
LEMMA NothingToNotice ==
  ASSUME NEW S, History(S)
  PROVE  Map!Notice(ContentsOf(S, item)) = seen
<1>1. \A u \in Threads : Map!IsSearch(call[u]) /\ ret[u] = Map!NoAnswer =>
        Map!Right(call[u], ContentsOf(S, item)) \in seen[u]
  BY DEF History, SearchOK
<1> DEFINE m == ContentsOf(S, item)
<1>2. Map!Notice(m) = [u \in Threads |-> IF Map!IsSearch(call[u]) /\ ret[u] = Map!NoAnswer
                                         THEN seen[u] \cup {Map!Right(call[u], m)}
                                         ELSE seen[u]]
  BY DEF Map!Notice
<1> HIDE DEF m
<1>3. \A u \in Threads : (IF Map!IsSearch(call[u]) /\ ret[u] = Map!NoAnswer
                          THEN seen[u] \cup {Map!Right(call[u], m)}
                          ELSE seen[u]) = seen[u]
  BY <1>1 DEF m
<1>4. Map!Notice(m) = [u \in Threads |-> seen[u]]
  BY <1>2, <1>3
<1>5. seen = [u \in Threads |-> seen[u]]
  BY DEF History
<1> QED
  BY <1>4, <1>5 DEF m

(* A call begins, and a search sees the first right answer.                *)
LEMMA BeginCallIsCall ==
  ASSUME LockInv, NEW G, NEW L, Shape(G, L), NEW t \in Threads, BeginCall(t),
         UNCHANGED client, History(L[0]), Aside(t)
  PROVE  Simulated
<1>1. /\ Shape(G, L)' /\ item' = item /\ ret' = ret /\ call[t] = Map!NoCall
      /\ pc'[t] = "rlock" /\ client \in Clients
      /\ call \in [Threads -> Calls \cup {Map!NoCall}]
  BY BeginCallStep DEF BeginCall, Begin, Goto, heapVars, LockInv, LockTypeOK, Shape, HeapOK
<1>2. PICK c \in client[t] :
        /\ call' = [call EXCEPT ![t] = c]
        /\ seen' = [seen EXCEPT ![t] = IF Map!IsSearch(c) THEN {Map!Right(c, Contents)} ELSE {}]
  BY DEF BeginCall
<1>3. c \in Calls /\ c # Map!NoCall /\ c \in UNION {p[t] : p \in Clients}
  BY <1>1, CallTypes, ListAssumption
<1>4. /\ call'[t] = c /\ ret'[t] = Map!NoAnswer
      /\ seen'[t] = IF Map!IsSearch(c) THEN {Map!Right(c, Contents)} ELSE {}
      /\ \A u \in Threads \ {t} : seen'[u] = seen[u]
      /\ seen' = [u \in Threads |-> seen'[u]] /\ ret' = [u \in Threads |-> ret'[u]]
  BY <1>1, <1>2 DEF History, AnswerOK
<1>5. Contents = ContentsOf(L[0], item) /\ Contents' = Contents
  BY <1>1, ListAlwaysIsMap DEF LevelIsMap
<1>6. AnswerOK(t)'
  BY <1>1, <1>3, <1>4 DEF AnswerOK
<1>7. SearchOK(t, L[0])'
  <2>1. SUFFICES ASSUME Map!IsSearch(c)
                 PROVE  /\ Map!Right(c, ContentsOf(L[0], item)) \in seen'[t]
                        /\ c.op = "next" => \A a \in seen'[t] : a.value # NoValue => a.key > c.key
    BY <1>1, <1>4 DEF SearchOK, ReadingOK
  <2>2. seen'[t] = {Map!Right(c, ContentsOf(L[0], item))}
    BY <1>4, <1>5, <2>1
  <2> QED
    BY <1>3, <2>2, RightIsLarger
<1>8. SameValues /\ ValuesOK'
  BY <1>1 DEF SameValues, History, ValuesOK
<1>9. History(L[0])'
  BY <1>1, <1>4, <1>6, <1>7, <1>8, QuietHistory
<1>10. Map!Call(t)
  BY <1>1, <1>2, <1>3, <1>5 DEF Map!Call
<1> QED
  BY <1>1, <1>9, <1>10 DEF Simulated, MapShape, Map!MapNext

(* A search answers what was right.                                        *)
LEMMA FinishSearchIsAnswer ==
  ASSUME LockInv, NEW G, NEW L, Shape(G, L), NEW t \in Threads, FinishSearch(t),
         UNCHANGED client, History(L[0]), Aside(t)
  PROVE  Simulated
<1>1. /\ Shape(G, L)' /\ item' = item /\ call' = call
      /\ pc[t] = "reading" /\ pc'[t] = "runlock" /\ Map!IsSearch(call[t])
      /\ ret' = [ret EXCEPT ![t] = Found(t)] /\ seen' = [seen EXCEPT ![t] = {}]
  BY FinishSearchStep DEF FinishSearch, EndFind, Goto, heapVars, LockInv, LockTypeOK
<1>2. /\ call[t] \in Calls /\ call[t].op \in {"search", "next"} /\ ValuesOK
      /\ ret[t] = Map!NoAnswer /\ AnswerOK(t) /\ SearchOK(t, L[0])
  BY <1>1, InsideFacts DEF History, AnswerOK, Map!IsSearch
<1>3. Found(t) \in seen[t]
  <2>1. CASE call[t].op = "search"
    <3>1. reg[t].step = "found"
      BY <1>1, <2>1, InsideFacts DEF FinishSearch, ReaderOK
    <3>2. Found(t) \in seen[t] \/ (reg[t].y \in L[0] /\ Key(reg[t].y) = call[t].key)
      BY <1>1, <1>2, <2>1, <3>1 DEF SearchOK, ReadingOK
    <3> QED
      BY <1>1, <1>2, <2>1, <3>2, FoundIsRight DEF SearchOK
  <2>2. CASE call[t].op = "next"
    BY <1>1, <1>2, <2>2 DEF FinishSearch, SearchOK, ReadingOK
  <2> QED
    BY <1>2, <2>1, <2>2
<1>4. Found(t) # Map!NoAnswer
  BY DEF Found, Map!NoAnswer
<1>5. /\ ret'[t] = Found(t) /\ seen'[t] = {}
      /\ \A u \in Threads \ {t} : seen'[u] = seen[u]
      /\ seen' = [u \in Threads |-> seen'[u]] /\ ret' = [u \in Threads |-> ret'[u]]
  BY <1>1 DEF History
<1>6. AnswerOK(t)'
  BY <1>1, <1>2, <1>4, <1>5, CallTypes DEF AnswerOK
<1>7. SearchOK(t, L[0])'
  BY <1>1, <1>2, <1>3, <1>4, <1>5 DEF SearchOK, ReadingOK
<1>8. SameValues /\ ValuesOK'
  BY <1>1 DEF SameValues, History, ValuesOK
<1>9. History(L[0])' /\ Contents' = Contents
  BY <1>1, <1>5, <1>6, <1>7, <1>8, QuietHistory
<1>10. Map!Answer(t)
  BY <1>1, <1>2, <1>3, <1>9 DEF Map!Answer, Map!Pending
<1> QED
  BY <1>1, <1>9, <1>10 DEF Simulated, MapShape, Map!MapNext

(* A call returns.                                                         *)
LEMMA ReturnIsReturn ==
  ASSUME LockInv, NEW G, NEW L, Shape(G, L), NEW t \in Threads, Return(t),
         UNCHANGED client, History(L[0]), Aside(t)
  PROVE  Simulated
<1>1. /\ Shape(G, L)' /\ item' = item /\ pc' = pc /\ pc[t] = "idle" /\ seen' = seen
      /\ ret[t] # Map!NoAnswer
      /\ call' = [call EXCEPT ![t] = Map!NoCall] /\ ret' = [ret EXCEPT ![t] = Map!NoAnswer]
      /\ call \in [Threads -> Calls \cup {Map!NoCall}]
  BY ReturnStep DEF Return, heapVars, lockVars, Shape, HeapOK
<1>2. /\ call'[t] = Map!NoCall /\ ret'[t] = Map!NoAnswer
      /\ seen' = [u \in Threads |-> seen'[u]] /\ ret' = [u \in Threads |-> ret'[u]]
  BY <1>1 DEF History
<1>3. AnswerOK(t)' /\ SearchOK(t, L[0])'
  BY <1>1, <1>2 DEF AnswerOK, SearchOK, Map!IsSearch, Map!NoCall
<1>4. SameValues /\ ValuesOK'
  BY <1>1 DEF SameValues, History, ValuesOK
<1>5. History(L[0])' /\ Contents' = Contents
  BY <1>1, <1>2, <1>3, <1>4, QuietHistory
<1>6. Map!Return(t)
  BY <1>1, <1>5 DEF Map!Return
<1> QED
  BY <1>1, <1>5, <1>6 DEF Simulated, MapShape, Map!MapNext

(* An update takes effect.                                                 *)
LEMMA LoudStep ==
  ASSUME NEW G, NEW L, Shape(G, L), NEW G2, NEW L2, Shape(G2, L2)', History(L[0]),
         NEW t \in Threads, client' = client, Aside(t), ValuesOK', call' = call,
         ret' = [u \in Threads |-> ret'[u]], seen' = Map!Notice(Contents'),
         ~Map!IsSearch(call[t]), AnswerOK(t)', \A u \in Threads \ {t} : pc[u] # "writing",
         \A x \in DOMAIN item \cap DOMAIN item' : item'[x].key = item[x].key,
         \A x \in DOMAIN item \cap DOMAIN item' :
           item'[x].value = item[x].value \/ x \in L[0] \cap L2[0],
         \/ L[0] \subseteq L2[0] /\ SameValues
         \/ \A u \in Threads \ {t} : call[u].op # "next"
  PROVE  History(L2[0])'
<1>1. Contents' = ContentsOf(L2[0], item')
  BY ListAlwaysIsMap DEF LevelIsMap
<1>2. \A u \in Threads : seen'[u] = IF Map!IsSearch(call[u]) /\ ret[u] = Map!NoAnswer
                THEN seen[u] \cup {Map!Right(call[u], ContentsOf(L2[0], item'))}
                ELSE seen[u]
  BY <1>1 DEF Map!Notice
<1>3. ASSUME NEW u \in Threads \ {t} PROVE AnswerOK(u)' /\ SearchOK(u, L2[0])'
  <2>1. /\ call'[u] = call[u] /\ ret'[u] = ret[u] /\ reg'[u] = reg[u]
        /\ \/ pc'[u] = pc[u]
           \/ {pc[u], pc'[u]} = {"rwait", "rwoken"} \/ {pc[u], pc'[u]} = {"fwait", "fwoken"}
    BY DEF Aside, Alone
  <2>2. call[u].op = "next" => L[0] \subseteq L2[0] /\ SameValues
    OBVIOUS
  <2>3. Undisturbed(u, L[0], L2[0])
    BY <1>2, <2>1, <2>2 DEF Undisturbed, SameValues
  <2>4. AnswerOK(u) /\ SearchOK(u, L[0]) /\ ValuesOK
    BY DEF History
  <2> QED
    BY <2>3, <2>4, OthersRemember
<1>4. SearchOK(t, L2[0])'
  BY DEF SearchOK
<1>5. seen' = [u \in Threads |-> seen'[u]]
  BY DEF Map!Notice
<1> QED
  BY <1>3, <1>4, <1>5 DEF History

(* No search for the next key runs beside an update or a deletion.         *)
LEMMA NoScanBeside ==
  ASSUME ScansApart, NEW G, NEW L, Shape(G, L), NEW S, History(S), NEW t \in Threads,
         call[t] \in Calls, call[t].op \in {"update", "delete"}
  PROVE  \A u \in Threads : call[u].op # "next"
<1>1. client \in Clients /\ \A u \in Threads : call[u] # Map!NoCall => call[u] \in client[u]
  BY DEF Shape, HeapOK, History, AnswerOK
<1>2. call[t] # Map!NoCall /\ Map!NoCall.op # "next"
  BY CallTypes DEF Map!NoCall
<1>3. ASSUME NEW u \in Threads, call[u].op = "next" PROVE FALSE
  <2>1. call[u] \in client[u] /\ call[t] \in client[t]
    BY <1>1, <1>2, <1>3
  <2> QED
    BY <1>1, <1>3, <2>1 DEF ScansApart
<1> QED
  BY <1>3

(* What the writer knows when it has found its place.                      *)
LEMMA ExamineFacts ==
  ASSUME LockInv, NEW G, NEW L, Shape(G, L), NEW t \in Threads, Writing(t, "examine"),
         History(L[0])
  PROVE  /\ call[t] \in Calls /\ ~Map!IsSearch(call[t])
         /\ call[t].op \in {"insert", "update", "delete"}
         /\ call[t].key \in Keys /\ ret[t] = Map!NoAnswer /\ AnswerOK(t)
         /\ Contents = ContentsOf(L[0], item) /\ Mapped(L[0], item)
         /\ After(t) \in L[0] /\ L[0] \subseteq DOMAIN item
         /\ (\E x \in L[0] : Key(x) = call[t].key) <=> Key(After(t)) = call[t].key
         /\ Contents[call[t].key] = NoValue <=> Key(After(t)) # call[t].key
         /\ pc \in [Threads -> Locations]
         /\ \A u \in Threads \ {t} : pc[u] # "writing"
<1>1. pc[t] = "writing" /\ reg[t].step = "examine"
  BY DEF Writing
<1>2. /\ call[t] \in Calls /\ CallOK(t) /\ pc \in [Threads -> Locations]
      /\ \A u \in Threads \ {t} : pc[u] # "writing"
  BY <1>1, InsideFacts, WriterAlone
<1>3. ~Map!IsSearch(call[t]) /\ call[t].op \in {"insert", "update", "delete"}
  BY <1>1, <1>2, CallTypes DEF CallOK, WriteSection, Map!IsSearch
<1>4. AnswerOK(t) /\ ret[t] = Map!NoAnswer /\ ValuesOK
  BY <1>1 DEF History, AnswerOK
<1>5. /\ Before(t) \in L[0] \ {TailItem} /\ After(t) \in L[0] /\ After(t) = Next(Before(t), 0)
      /\ Key(Before(t)) < call[t].key /\ call[t].key <= Key(After(t))
      /\ call[t].key \in Keys
  BY PlaceFound
<1>6. /\ Mapped(L[0], item) /\ Contents = ContentsOf(L[0], item)
      /\ \A x \in L[0] : Key(x) \in Nat
      /\ L[0] \subseteq DOMAIN item
  BY <1>4, ShapeIsMap, ListAlwaysIsMap DEF LevelIsMap
<1>7. \A x \in L[0] : Key(x) = call[t].key => Key(After(t)) = call[t].key
  <2>1. Chain(L[0], 0) /\ call[t].key \in Nat
    BY <1>2, CallKeys, LevelsAreNumbers DEF Shape, Levelled
  <2>2. ASSUME NEW x \in L[0], Key(x) = call[t].key PROVE Key(After(t)) <= Key(x)
    <3>1. Key(Before(t)) < Key(x)
      BY <1>5, <2>2
    <3> QED
      BY <1>5, <2>1, <3>1 DEF Chain
  <2> QED
    BY <1>5, <1>6, <2>1, <2>2
<1>8. Contents[call[t].key] = NoValue <=> \A x \in L[0] : Key(x) # call[t].key
  BY <1>5, <1>6, ContentsAre DEF Key
<1> QED
  BY <1>2, <1>3, <1>4, <1>5, <1>6, <1>7, <1>8

(* skipInsert overwrites a value or finds that it may not.                 *)
LEMMA InsertFoundIsStore ==
  ASSUME ScansApart, LockInv, NEW G, NEW L, Shape(G, L), NEW t \in Threads, InsertFound(t),
         UNCHANGED client, History(L[0]), Aside(t)
  PROVE  Simulated
<1>0. PICK a, c : a = After(t) /\ c = call[t]
  OBVIOUS
<1>1. /\ c \in Calls /\ ~Map!IsSearch(c) /\ c.op \in {"insert", "update", "delete"}
      /\ c.key \in Keys /\ ret[t] = Map!NoAnswer /\ AnswerOK(t)
      /\ Contents = ContentsOf(L[0], item) /\ Mapped(L[0], item)
      /\ a \in L[0] /\ L[0] \subseteq DOMAIN item
      /\ (Contents[c.key] = NoValue <=> Key(a) # c.key)
      /\ pc \in [Threads -> Locations]
      /\ \A u \in Threads \ {t} : pc[u] # "writing"
  BY <1>0, ExamineFacts DEF InsertFound
<1>2. /\ Shape(G, L)' /\ call' = call /\ seen' = Map!Notice(Contents')
      /\ Key(a) = c.key /\ c # Map!NoCall
      /\ item \in [DOMAIN item -> Node] /\ ret = [u \in Threads |-> ret[u]]
  BY <1>0, <1>1, InsertFoundStep, CallTypes DEF InsertFound, Shape, HeapOK, History
<1>3. ASSUME NEW status, ret' = [ret EXCEPT ![t] = Map!Done(status)], pc'[t] = "wunlock",
             status # "pending"
      PROVE  AnswerOK(t)' /\ ret' = [u \in Threads |-> ret'[u]]
  BY <1>0, <1>1, <1>2, <1>3 DEF AnswerOK
<1>4. CASE c.op = "insert"
  <2>1. /\ item' = item /\ pc'[t] = "wunlock" /\ ret' = [ret EXCEPT ![t] = Map!Done("duplicate")]
    BY <1>0, <1>1, <1>4 DEF InsertFound, EndEarly, EndUpdate, Goto
  <2>2. Contents' = Contents
    BY <1>1, <1>2, <2>1, ListAlwaysIsMap DEF LevelIsMap
  <2>3. seen' = seen
    BY <1>1, <1>2, <2>2, NothingToNotice
  <2>4. AnswerOK(t)' /\ SearchOK(t, L[0])'
    BY <1>0, <1>1, <1>2, <1>3, <2>1 DEF SearchOK
  <2>5. SameValues /\ ValuesOK' /\ seen' = [u \in Threads |-> seen'[u]]
    BY <2>1, <2>3 DEF SameValues, History, ValuesOK
  <2>6. ret' = [u \in Threads |-> ret'[u]]
    BY <1>3, <2>1
  <2>7. History(L[0])'
    BY <1>2, <2>3, <2>4, <2>5, <2>6, QuietHistory
  <2>8. Map!Store(t)
    BY <1>0, <1>1, <1>2, <1>4, <2>1, <2>2 DEF Map!Store, Map!Pending
  <2> QED
    BY <1>2, <2>7, <2>8 DEF Simulated, MapShape, Map!MapNext
<1>5. CASE c.op = "update"
  <2>1. /\ item' = [item EXCEPT ![a] = [item[a] EXCEPT !.value = c.value]]
        /\ pc'[t] = "wunlock" /\ ret' = [ret EXCEPT ![t] = Map!Done("ok")]
    BY <1>0, <1>1, <1>5 DEF InsertFound, EndEarly, EndUpdate, Goto
  <2>2. /\ DOMAIN item' = DOMAIN item /\ c.value \in Values
        /\ item'[a].key = item[a].key /\ item'[a].value = c.value
        /\ \A x \in DOMAIN item \ {a} : item'[x] = item[x]
    <3>1. item[a] \in Node
      BY <1>1, <1>2
    <3>2. /\ [item[a] EXCEPT !.value = c.value].key = item[a].key
          /\ [item[a] EXCEPT !.value = c.value].value = c.value
      BY <3>1 DEF Node
    <3> QED
      BY <1>1, <1>2, <1>5, <2>1, <3>2, CallTypes
  <2>3. ValuesOK'
    BY <2>2 DEF History, ValuesOK
  <2>4. /\ AnswerOK(t)' /\ ret' = [u \in Threads |-> ret'[u]]
        /\ \A u \in Threads : call[u].op # "next"
    BY <1>0, <1>1, <1>3, <1>5, <2>1, NoScanBeside
  <2>5. \A x \in DOMAIN item \cap DOMAIN item' :
          item'[x].key = item[x].key /\ (item'[x].value = item[x].value \/ x \in L[0])
    BY <1>1, <2>2
  <2>6. History(L[0])'
    BY <1>0, <1>1, <1>2, <2>3, <2>4, <2>5, LoudStep
  <2>7. Mapped(L[0], item') /\ Contents' = ContentsOf(L[0], item')
    BY <1>2, <2>3, ListAlwaysIsMap DEF LevelIsMap
  <2>8. ContentsOf(L[0], item')[c.key] = c.value
    BY <1>1, <1>2, <2>2, <2>7, ContentsAre DEF Key
  <2>9. \A x \in L[0] : item'[x].key = item[x].key /\ (item[x].key # c.key => item'[x] = item[x])
    BY <1>1, <1>2, <2>2 DEF Key
  <2>10. Contents' = [Contents EXCEPT ![c.key] = c.value]
    BY <1>1, <2>7, <2>8, <2>9, ContentsDiffer
  <2>11. Map!Store(t)
    BY <1>0, <1>1, <1>2, <1>5, <2>1, <2>10 DEF Map!Store, Map!Pending
  <2> QED
    BY <1>2, <2>6, <2>11 DEF Simulated, MapShape, Map!MapNext
<1> QED
  BY <1>0, <1>4, <1>5 DEF InsertFound

(* skipNewItem makes an item nobody sees yet, or finds no memory.          *)
LEMMA NewItemIsStore ==
  ASSUME LockInv, NEW G, NEW L, Shape(G, L), NEW t \in Threads, NewItem(t),
         UNCHANGED client, History(L[0]), Aside(t)
  PROVE  Simulated
<1>0. PICK c : c = call[t]
  OBVIOUS
<1>1. /\ c \in Calls /\ ~Map!IsSearch(c) /\ c.op \in {"insert", "update"}
      /\ ret[t] = Map!NoAnswer /\ AnswerOK(t)
      /\ Contents = ContentsOf(L[0], item) /\ Contents[c.key] = NoValue
      /\ pc \in [Threads -> Locations]
  BY <1>0, ExamineFacts DEF NewItem
<1>2. /\ Shape(G, L)' /\ call' = call /\ seen' = seen /\ c # Map!NoCall
      /\ reg \in [Threads -> Local] /\ ret = [u \in Threads |-> ret[u]]
      /\ seen = [u \in Threads |-> seen[u]] /\ pc[t] = "writing"
  <2>1. Shape(G, L)'
    BY NewItemStep
  <2>2. call' = call /\ seen' = seen /\ pc[t] = "writing"
    BY DEF NewItem, Writing
  <2>3. c # Map!NoCall
    BY <1>1, CallTypes
  <2> QED
    BY <2>1, <2>2, <2>3 DEF Shape, HeapOK, History
<1>3. CASE item' = item /\ EndEarly(t, "nomem")
  <2>1. pc'[t] = "wunlock" /\ ret' = [ret EXCEPT ![t] = Map!Done("nomem")]
    BY <1>1, <1>3 DEF EndEarly, EndUpdate, Goto
  <2>2. AnswerOK(t)' /\ ret' = [u \in Threads |-> ret'[u]]
    BY <1>0, <1>1, <1>2, <2>1 DEF AnswerOK
  <2>3. SearchOK(t, L[0])'
    BY <1>0, <1>1, <1>2 DEF SearchOK
  <2>4. SameValues /\ ValuesOK'
    BY <1>3 DEF SameValues, History, ValuesOK
  <2>5. History(L[0])' /\ Contents' = Contents
    BY <1>2, <2>2, <2>3, <2>4, QuietHistory
  <2>6. seen' = Map!Notice(Contents')
    BY <1>1, <1>2, <2>5, NothingToNotice
  <2>7. Map!Store(t)
    BY <1>0, <1>1, <1>2, <2>1, <2>5, <2>6 DEF Map!Store, Map!Pending
  <2> QED
    BY <1>2, <2>5, <2>7 DEF Simulated, MapShape, Map!MapNext
<1>4. ASSUME NEW level, NEW y, NEW x, NEW save, y \in Blocks \ DOMAIN item,
             item' = [b \in DOMAIN item \cup {y} |->
                        IF b = y THEN NewNode(c.key, c.value, level) ELSE item[b]],
             Reg(t, [x |-> x, y |-> y, i |-> 0, step |-> "forward", save |-> save]),
             UNCHANGED <<lockVars, ret>>
      PROVE  Simulated
  <2>1. /\ ret' = ret /\ pc' = pc
        /\ reg'[t].step = "forward" /\ reg'[t].i = 0 /\ reg'[t].y = y
        /\ item'[y].value = c.value /\ c.value \in Values
        /\ \A b \in DOMAIN item : item'[b] = item[b]
        /\ DOMAIN item' = DOMAIN item \cup {y}
    BY <1>1, <1>2, <1>4, CallTypes DEF Reg, lockVars, NewNode
  <2>2. AnswerOK(t)'
    BY <1>0, <1>1, <1>2, <2>1 DEF AnswerOK
  <2>3. SearchOK(t, L[0])'
    BY <1>0, <1>1, <1>2 DEF SearchOK
  <2>4. SameValues /\ ValuesOK'
    BY <2>1 DEF SameValues, History, ValuesOK
  <2>5. History(L[0])' /\ Contents' = Contents
    BY <1>2, <2>1, <2>2, <2>3, <2>4, QuietHistory
  <2> QED
    BY <1>2, <2>1, <2>5 DEF Simulated, MapShape, Map!mapVars
<1> QED
  <2>1. PICK random \in Levels :
          LET level == IF random > topLevel THEN topLevel + 1 ELSE random
              free == Blocks \ DOMAIN item
              y == CHOOSE b \in free : TRUE
          IN  \/ /\ free # {}
                 /\ item' = [b \in DOMAIN item \cup {y} |->
                              IF b = y THEN NewNode(call[t].key, call[t].value, level)
                                       ELSE item[b]]
                 /\ Reg(t, [x |-> Before(t), y |-> y, i |-> 0, step |-> "forward",
                            save |-> FillSave(reg[t].save)])
                 /\ UNCHANGED <<lockVars, ret>>
              \/ EndEarly(t, "nomem") /\ UNCHANGED item
    BY DEF NewItem
  <2>2. Blocks \ DOMAIN item # {} =>
          (CHOOSE b \in Blocks \ DOMAIN item : TRUE) \in Blocks \ DOMAIN item
    OBVIOUS
  <2> QED
    BY <1>0, <1>3, <1>4, <2>1, <2>2

(* skipDelete has nothing to delete.                                       *)
LEMMA DeleteMissingIsRemove ==
  ASSUME LockInv, NEW G, NEW L, Shape(G, L), NEW t \in Threads, DeleteMissing(t),
         UNCHANGED client, History(L[0]), Aside(t)
  PROVE  Simulated
<1>0. PICK a, c : a = After(t) /\ c = call[t]
  OBVIOUS
<1>1. /\ c \in Calls /\ ~Map!IsSearch(c) /\ c.op = "delete"
      /\ c.key \in Keys /\ ret[t] = Map!NoAnswer /\ AnswerOK(t)
      /\ Contents = ContentsOf(L[0], item) /\ Mapped(L[0], item)
      /\ a \in L[0] /\ L[0] \subseteq DOMAIN item
      /\ (Contents[c.key] = NoValue <=> Key(a) # c.key)
      /\ pc \in [Threads -> Locations]
  BY <1>0, ExamineFacts DEF DeleteMissing
<1>2. /\ Shape(G, L)' /\ call' = call /\ seen' = seen /\ item' = item
      /\ pc'[t] = "wunlock" /\ ret' = [ret EXCEPT ![t] = Map!Done("ok")]
      /\ ret = [u \in Threads |-> ret[u]] /\ seen = [u \in Threads |-> seen[u]]
      /\ c # Map!NoCall /\ ~Present(t)
  BY <1>1, DeleteMissingStep, CallTypes DEF DeleteMissing, EndEarly, EndUpdate, Goto,
    heapVars, History
<1>3. Contents[c.key] = NoValue
  <2>1. SUFFICES ASSUME Key(a) = c.key PROVE Present(t)
    BY <1>1, <1>2
  <2>2. /\ Chain(L[0], 0) /\ Key(TailItem) = TailKey /\ c.key < TailKey
    BY <1>1, TailKeyIsLast, LevelsAreNumbers DEF Shape, HeapOK, Levelled, Key
  <2>3. a # TailItem
    BY <1>1, <2>1, <2>2, CallKeys, TailKeyIsLast
  <2>4. Next(a, 0) \in L[0] /\ Key(a) < Key(Next(a, 0))
    BY <1>1, <2>2, <2>3 DEF Chain
  <2>5. Key(Next(a, 0)) \in Nat /\ Key(a) \in Nat
    BY <1>1, <2>4, ShapeIsMap DEF History
  <2> QED
    BY <1>0, <2>1, <2>4, <2>5 DEF Present
<1>4. AnswerOK(t)' /\ ret' = [u \in Threads |-> ret'[u]]
  BY <1>0, <1>1, <1>2 DEF AnswerOK
<1>5. SearchOK(t, L[0])'
  BY <1>0, <1>1, <1>2 DEF SearchOK
<1>6. SameValues /\ ValuesOK'
  BY <1>2 DEF SameValues, History, ValuesOK
<1>7. History(L[0])' /\ Contents' = Contents
  BY <1>2, <1>4, <1>5, <1>6, QuietHistory
<1>8. seen' = Map!Notice(Contents')
  BY <1>1, <1>2, <1>7, NothingToNotice
<1>9. Contents' = [Contents EXCEPT ![c.key] = NoValue]
  <2>1. Contents \in [Keys -> Values \cup {NoValue}]
    BY <1>1, ContentsAre
  <2> QED
    BY <1>3, <1>7, <2>1
<1>10. Map!Remove(t)
  BY <1>0, <1>1, <1>2, <1>8, <1>9 DEF Map!Remove, Map!Pending
<1> QED
  BY <1>2, <1>7, <1>10 DEF Simulated, MapShape, Map!MapNext

(* The map stays when level 0, keys and values do.                         *)
LEMMA SameContents ==
  ASSUME NEW G, NEW L, Shape(G, L), NEW G2, NEW L2, Shape(G2, L2)', L2[0] = L[0],
         ValuesOK, SameValues
  PROVE  Contents' = Contents
<1>1. Mapped(L[0], item) /\ L[0] \subseteq DOMAIN item
  BY ShapeIsMap
<1>2. L[0] \subseteq DOMAIN item'
  BY DEF Shape, Walkable
<1>3. \A x \in L[0] : item'[x].key = item[x].key /\ item'[x].value = item[x].value
  BY <1>1, <1>2 DEF SameValues
<1>4. ContentsOf(L[0], item') = ContentsOf(L[0], item)
  BY <1>1, <1>3, ContentsAgree
<1> QED
  BY <1>4, ListAlwaysIsMap DEF LevelIsMap

(* skipInsert takes effect when the new item is published at level 0.      *)
LEMMA PublishIsStore ==
  ASSUME LockInv, NEW G, NEW L, Shape(G, L), NEW t \in Threads, Publish(t),
         UNCHANGED client, History(L[0]), Aside(t)
  PROVE  Simulated
<1>0. PICK r, y, i, c : r = reg[t] /\ y = r.y /\ i = r.i /\ c = call[t]
  OBVIOUS
<1>1. /\ pc[t] = "writing" /\ r.step = "publish" /\ Inserting(t, L)
      /\ c \in Calls /\ r \in Local /\ AnswerOK(t) /\ ValuesOK /\ HeapOK
      /\ pc \in [Threads -> Locations] /\ reg \in [Threads -> Local]
      /\ \A u \in Threads \ {t} : pc[u] # "writing"
      /\ ret = [u \in Threads |-> ret[u]] /\ seen = [u \in Threads |-> seen[u]]
  <2>1. pc[t] = "writing" /\ r.step = "publish"
    BY <1>0 DEF Publish, Writing
  <2>2. WriterOK(t, G, L) /\ c \in Calls /\ r \in Local /\ pc \in [Threads -> Locations]
    BY <1>0, <2>1, InsideFacts
  <2>3. \A u \in Threads \ {t} : pc[u] # "writing"
    BY <2>1, WriterAlone
  <2> QED
    BY <1>0, <2>1, <2>2, <2>3 DEF WriterOK, History, Shape, HeapOK
<1>2. /\ c.op \in {"insert", "update"} /\ ~Map!IsSearch(c) /\ c.key \in Keys
      /\ y \in Blocks \cap DOMAIN item /\ Key(y) = c.key /\ i \in Nat
      /\ \A j \in Levels : y \in L[j] <=> j < i
      /\ \A x \in L[0] : Key(x) = Key(y) => x = y
      /\ ret[t] = IF i = 0 THEN Map!NoAnswer ELSE Map!Done("ok")
      /\ item[y].value = c.value /\ c # Map!NoCall /\ c.value \in Values
  <2>1. /\ c.op \in {"insert", "update"} /\ y \in Blocks \cap DOMAIN item /\ Key(y) = c.key
        /\ \A j \in Levels : y \in L[j] <=> j < i
        /\ \A x \in L[0] : Key(x) = Key(y) => x = y
    BY <1>0, <1>1 DEF Inserting
  <2>2. i \in Nat
    BY <1>0, <1>1, LevelsAreNumbers DEF Local
  <2>3. ret[t] = (IF i = 0 THEN Map!NoAnswer ELSE Map!Done("ok")) /\ item[y].value = c.value
    BY <1>0, <1>1 DEF AnswerOK
  <2> QED
    BY <1>1, <2>1, <2>2, <2>3, CallTypes DEF Map!IsSearch
<1>3. /\ item' = Link(r.x, i, y) /\ ret' = [ret EXCEPT ![t] = Map!Done("ok")]
      /\ call' = call /\ seen' = Map!Notice(Contents')
      /\ \/ Reg(t, [r EXCEPT !.i = i + 1, !.step = "forward"]) /\ UNCHANGED lockVars
         \/ Update(t)
  BY <1>0 DEF Publish
<1>4. /\ SameValues /\ DOMAIN item' = DOMAIN item
      /\ item'[y].value = item[y].value /\ item'[y].key = item[y].key
  <2>1. SameValues
    BY <1>1, <1>3, ValuesStay
  <2>2. DOMAIN item' = DOMAIN item
    BY <1>3 DEF Link
  <2> QED
    BY <1>2, <2>1, <2>2 DEF SameValues
<1>5. PICK G2, L2 : L2 = [L EXCEPT ![i] = L[i] \cup {y}] /\ Shape(G2, L2)'
  BY <1>0, PublishStep
<1>6. /\ i \in Levels /\ 0 \in Levels /\ DOMAIN L = Levels
      /\ L2[0] = IF i = 0 THEN L[0] \cup {y} ELSE L[0]
  BY <1>0, <1>1, <1>5, LevelsAreNumbers DEF Local, Shape, Levelled
<1>7. AnswerOK(t)' /\ ret' = [u \in Threads |-> ret'[u]] /\ ValuesOK'
  <2>1. ret'[t] = Map!Done("ok") /\ ret' = [u \in Threads |-> ret'[u]]
    BY <1>1, <1>3
  <2>2. CASE Reg(t, [r EXCEPT !.i = i + 1, !.step = "forward"]) /\ UNCHANGED lockVars
    <3>1. reg'[t].i = i + 1 /\ reg'[t].step = "forward" /\ reg'[t].y = y /\ pc' = pc
      BY <1>0, <1>1, <2>2 DEF Reg, lockVars, Local
    <3>2. i + 1 # 0
      BY <1>2
    <3> QED
      BY <1>0, <1>1, <1>2, <1>3, <1>4, <2>1, <3>1, <3>2, SMTT(60) DEF AnswerOK, ValuesOK, SameValues
  <2>3. CASE Update(t)
    <3>1. pc'[t] = "hint"
      BY <1>1, <2>3 DEF Update, Goto
    <3> QED
      BY <1>0, <1>1, <1>2, <1>3, <1>4, <2>1, <3>1, SMTT(30) DEF AnswerOK, ValuesOK, SameValues
  <2> QED
    BY <1>3, <2>2, <2>3
<1>8. CASE i > 0
  <2>1. L2[0] = L[0] /\ ret' = ret
    BY <1>1, <1>2, <1>3, <1>6, <1>8
  <2>2. Contents' = Contents
    BY <1>1, <1>4, <1>5, <2>1, SameContents
  <2>3. seen' = seen
    BY <1>3, <2>2, NothingToNotice, ListAlwaysIsMap DEF LevelIsMap
  <2>4. SearchOK(t, L[0])'
    BY <1>0, <1>2, <1>3 DEF SearchOK
  <2>5. History(L2[0])'
    BY <1>1, <1>4, <1>5, <1>7, <2>1, <2>3, <2>4, QuietHistory
  <2> QED
    BY <1>3, <1>5, <2>1, <2>2, <2>3, <2>5 DEF Simulated, MapShape, Map!mapVars
<1>9. CASE i = 0
  <2>1. L2[0] = L[0] \cup {y} /\ y \notin L[0] /\ ret[t] = Map!NoAnswer
    BY <1>2, <1>6, <1>9
  <2>2. History(L2[0])'
    <3>1. \A x \in DOMAIN item \cap DOMAIN item' :
            item'[x].key = item[x].key /\ item'[x].value = item[x].value
      BY <1>4 DEF SameValues
    <3>2. L[0] \subseteq L2[0] /\ ~Map!IsSearch(call[t])
      BY <1>0, <1>2, <2>1
    <3> QED
      BY <1>1, <1>3, <1>4, <1>5, <1>7, <3>1, <3>2, LoudStep
  <2>3. /\ Mapped(L[0], item) /\ Contents = ContentsOf(L[0], item)
        /\ Mapped(L2[0], item') /\ Contents' = ContentsOf(L2[0], item')
        /\ L[0] \subseteq DOMAIN item
    <3>1. Mapped(L[0], item) /\ L[0] \subseteq DOMAIN item
      BY <1>1, ShapeIsMap
    <3>2. Contents = ContentsOf(L[0], item)
      BY ListAlwaysIsMap DEF LevelIsMap
    <3>3. Mapped(L2[0], item') /\ Contents' = ContentsOf(L2[0], item')
      BY <1>5, <1>7, ListAlwaysIsMap DEF LevelIsMap
    <3> QED
      BY <3>1, <3>2, <3>3
  <2>4. Contents[c.key] = NoValue
    BY <1>2, <2>1, <2>3, ContentsAre DEF Key
  <2>5. \A x \in L[0] : item'[x].key = item[x].key /\ item'[x].value = item[x].value
    BY <1>4, <2>3 DEF SameValues
  <2>6. item'[y].key = c.key /\ item'[y].value = c.value /\ y \in L2[0]
    BY <1>2, <1>4, <2>1 DEF Key
  <2>7. ContentsOf(L2[0], item')[c.key] = c.value
    BY <1>2, <2>3, <2>6, ContentsAre
  <2>8. Contents' = [Contents EXCEPT ![c.key] = c.value]
    <3>1. \A l \in Keys \ {c.key} :
            (\E x \in L[0] : item[x].key = l) <=> (\E x \in L2[0] : item'[x].key = l)
      BY <2>1, <2>5, <2>6
    <3>2. \A x \in L[0] : item[x].key \in Keys \ {c.key} =>
            \E z \in L2[0] : item'[z].key = item[x].key /\ item'[z].value = item[x].value
      BY <2>1, <2>5
    <3> QED
      BY <1>2, <2>3, <2>7, <3>1, <3>2, ContentsDiffer
  <2>9. Map!Store(t)
    BY <1>0, <1>2, <1>3, <2>1, <2>4, <2>8 DEF Map!Store, Map!Pending
  <2> QED
    BY <1>5, <2>2, <2>9 DEF Simulated, MapShape, Map!MapNext
<1> QED
  BY <1>2, <1>8, <1>9

(* skipDelete takes effect when the item is bypassed at level 0.           *)
LEMMA UnlinkIsRemove ==
  ASSUME ScansApart, LockInv, NEW G, NEW L, Shape(G, L), NEW t \in Threads, Unlink(t),
         UNCHANGED client, History(L[0]), Aside(t)
  PROVE  Simulated
<1>0. PICK r, y, i, c : r = reg[t] /\ y = r.y /\ i = r.i /\ c = call[t]
  OBVIOUS
<1>1. /\ pc[t] = "writing" /\ r.step = "unlink" /\ Deleting(t, G, L)
      /\ c \in Calls /\ r \in Local /\ AnswerOK(t) /\ ValuesOK /\ HeapOK
      /\ reg \in [Threads -> Local]
      /\ \A u \in Threads \ {t} : pc[u] # "writing"
      /\ ret = [u \in Threads |-> ret[u]] /\ seen = [u \in Threads |-> seen[u]]
  <2>1. pc[t] = "writing" /\ r.step = "unlink"
    BY <1>0 DEF Unlink, Writing
  <2>2. WriterOK(t, G, L) /\ c \in Calls /\ r \in Local
    BY <1>0, <2>1, InsideFacts
  <2>3. \A u \in Threads \ {t} : pc[u] # "writing"
    BY <2>1, WriterAlone
  <2> QED
    BY <1>0, <2>1, <2>2, <2>3 DEF WriterOK, History, Shape, HeapOK
<1>2. /\ c.op = "delete" /\ ~Map!IsSearch(c) /\ c.key \in Keys
      /\ y \in Blocks /\ Key(y) = c.key /\ i \in Nat /\ i \in Levels
      /\ y \in L[i] /\ ret[t] = Map!NoAnswer /\ c # Map!NoCall
  <2>1. i \in Levels /\ i \in Nat
    BY <1>0, <1>1, LevelsAreNumbers DEF Local
  <2>2. c.op = "delete" /\ y \in Blocks /\ Key(y) = c.key /\ y \in L[i]
    BY <1>0, <1>1, <2>1 DEF Deleting
  <2> QED
    BY <1>0, <1>1, <2>1, <2>2, CallTypes DEF Map!IsSearch, AnswerOK
<1>3. /\ \E x : /\ item' = Link(x, i, Next(y, i))
                /\ Reg(t, [r EXCEPT !.x = x, !.step = "backlink"])
      /\ ret' = (IF i = 0 THEN [ret EXCEPT ![t] = Map!Done("ok")] ELSE ret)
      /\ call' = call /\ seen' = Map!Notice(Contents') /\ pc' = pc
  BY <1>0 DEF Unlink, lockVars
<1>4. SameValues /\ DOMAIN item' = DOMAIN item
  <2>1. SameValues
    BY <1>1, <1>3, ValuesStay
  <2>2. DOMAIN item' = DOMAIN item
    BY <1>3 DEF Link
  <2> QED
    BY <2>1, <2>2
<1>5. PICK L2 : L2 = [L EXCEPT ![i] = L[i] \ {y}] /\ Shape(G, L2)'
  BY <1>0, UnlinkStep
<1>6. /\ 0 \in Levels /\ DOMAIN L = Levels
      /\ L2[0] = IF i = 0 THEN L[0] \ {y} ELSE L[0]
  BY <1>2, <1>5, LevelsAreNumbers DEF Shape, Levelled
<1>7. AnswerOK(t)' /\ ret' = [u \in Threads |-> ret'[u]] /\ ValuesOK'
  <2>1. reg'[t].step = "backlink" /\ reg'[t].i = i
    BY <1>0, <1>1, <1>3 DEF Reg, Local
  <2>2. i > 0 => ret'[t] = Map!NoAnswer
    BY <1>2, <1>3
  <2>3. ret' = [u \in Threads |-> ret'[u]]
    BY <1>1, <1>3
  <2> QED
    BY <1>0, <1>1, <1>2, <1>3, <1>4, <2>1, <2>2, <2>3 DEF AnswerOK, ValuesOK, SameValues
<1>8. CASE i > 0
  <2>1. L2[0] = L[0] /\ ret' = ret
    BY <1>2, <1>3, <1>6, <1>8
  <2>2. Contents' = Contents
    BY <1>1, <1>4, <1>5, <2>1, SameContents
  <2>3. seen' = seen
    BY <1>3, <2>2, NothingToNotice, ListAlwaysIsMap DEF LevelIsMap
  <2>4. SearchOK(t, L[0])'
    BY <1>0, <1>2, <1>3 DEF SearchOK
  <2>5. History(L2[0])'
    BY <1>1, <1>4, <1>5, <1>7, <2>1, <2>3, <2>4, QuietHistory
  <2> QED
    BY <1>3, <1>5, <2>1, <2>2, <2>3, <2>5 DEF Simulated, MapShape, Map!mapVars
<1>9. CASE i = 0
  <2>1. L2[0] = L[0] \ {y} /\ y \in L[0] /\ ret' = [ret EXCEPT ![t] = Map!Done("ok")]
    BY <1>2, <1>3, <1>6, <1>9
  <2>2. History(L2[0])'
    <3>1. \A x \in DOMAIN item \cap DOMAIN item' :
            item'[x].key = item[x].key /\ item'[x].value = item[x].value
      BY <1>4 DEF SameValues
    <3>2. ~Map!IsSearch(call[t]) /\ \A u \in Threads : call[u].op # "next"
      BY <1>0, <1>1, <1>2, NoScanBeside
    <3> QED
      BY <1>1, <1>3, <1>4, <1>5, <1>7, <3>1, <3>2, LoudStep
  <2>3. /\ Mapped(L[0], item) /\ Contents = ContentsOf(L[0], item)
        /\ Mapped(L2[0], item') /\ Contents' = ContentsOf(L2[0], item')
        /\ L[0] \subseteq DOMAIN item
    <3>1. Mapped(L[0], item) /\ L[0] \subseteq DOMAIN item
      BY <1>1, ShapeIsMap
    <3>2. Contents = ContentsOf(L[0], item)
      BY ListAlwaysIsMap DEF LevelIsMap
    <3>3. Mapped(L2[0], item') /\ Contents' = ContentsOf(L2[0], item')
      BY <1>5, <1>7, ListAlwaysIsMap DEF LevelIsMap
    <3> QED
      BY <3>1, <3>2, <3>3
  <2>4. \A x \in L[0] : /\ item'[x].key = item[x].key /\ item'[x].value = item[x].value
                        /\ item[x].key = c.key <=> x = y
    BY <1>2, <1>4, <2>1, <2>3 DEF SameValues, Mapped, Key
  <2>5. ContentsOf(L2[0], item')[c.key] = NoValue
    BY <1>2, <2>1, <2>3, <2>4, ContentsAre
  <2>6. Contents' = [Contents EXCEPT ![c.key] = NoValue]
    <3>1. \A l \in Keys \ {c.key} :
            (\E x \in L[0] : item[x].key = l) <=> (\E x \in L2[0] : item'[x].key = l)
      BY <2>1, <2>4
    <3>2. \A x \in L[0] : item[x].key \in Keys \ {c.key} =>
            \E z \in L2[0] : item'[z].key = item[x].key /\ item'[z].value = item[x].value
      BY <2>1, <2>4
    <3> QED
      BY <1>2, <2>3, <2>5, <3>1, <3>2, ContentsDiffer
  <2>7. Map!Remove(t)
    BY <1>0, <1>2, <1>3, <2>1, <2>6 DEF Map!Remove, Map!Pending
  <2> QED
    BY <1>5, <2>2, <2>7 DEF Simulated, MapShape, Map!MapNext
<1> QED
  BY <1>2, <1>8, <1>9

-----------------------------------------------------------------------------
(* The list implements the map                                             *)

(* Every step of a thread is a step of the map, or one it does not see.    *)
LEMMA StepIsSimulated ==
  ASSUME ScansApart, LockInv, FlushAlone, NEW G, NEW L, Shape(G, L), History(L[0]),
         NEW t \in Threads, Step(t), UNCHANGED client
  PROVE  Simulated
<1>0. Aside(t) /\ Alone(t)
  BY StepIsAside DEF Aside, Shape
<1>1. CASE BeginCall(t)
  BY <1>0, <1>1, BeginCallIsCall
<1>2. CASE EnterRead(t)
  BY <1>0, <1>2, EnterReadIsSilent
<1>3. CASE Walk(t)
  BY <1>0, <1>3, WalkIsSilent
<1>4. CASE FollowNext(t)
  BY <1>0, <1>4, FollowNextIsSilent
<1>5. CASE FinishSearch(t)
  BY <1>0, <1>5, FinishSearchIsAnswer
<1>6. CASE Return(t)
  BY <1>0, <1>6, ReturnIsReturn
<1>7. CASE InsertFound(t)
  BY <1>0, <1>7, InsertFoundIsStore
<1>8. CASE NewItem(t)
  BY <1>0, <1>8, NewItemIsStore
<1>9. CASE Publish(t)
  BY <1>0, <1>9, PublishIsStore
<1>10. CASE DeleteMissing(t)
  BY <1>0, <1>10, DeleteMissingIsRemove
<1>11. CASE Unlink(t)
  BY <1>0, <1>11, UnlinkIsRemove
<1>12. CASE DeleteFound(t) \/ Forward(t) \/ Backlink(t)
  BY <1>0, <1>12, BetweenLevelsIsSilent
<1>13. CASE \/ Traversed(t) \/ LeaveRead(t) \/ Release(t) \/ Synchronize(t)
            \/ RaiseHint(t) \/ LowerHint(t) \/ FinishUpdate(t) \/ Flush(t)
  BY <1>0, <1>13, OutsideIsSilent
<1> QED
  BY <1>1, <1>2, <1>3, <1>4, <1>5, <1>6, <1>7, <1>8, <1>9, <1>10, <1>11, <1>12, <1>13
     DEF Step

(* The empty list is the empty map.                                        *)
LEMMA MapStarts == ListInit => MapShape /\ Map!MapInit
<1> SUFFICES ASSUME ListInit PROVE MapShape /\ Map!MapInit
  OBVIOUS
<1> DEFINE L == [i \in Levels |-> {Header, TailItem}]
<1>1. Shape({Header, TailItem}, L) /\ L[0] = {Header, TailItem}
  BY ListStarts, LevelsAreNumbers
<1> HIDE DEF L
<1>2. /\ DOMAIN item = {Header, TailItem}
      /\ seen = [t \in Threads |-> {}] /\ ret = [t \in Threads |-> Map!NoAnswer]
      /\ call = [t \in Threads |-> Map!NoCall] /\ pc = [t \in Threads |-> "idle"]
  BY DEF ListInit, LockInit
<1>3. ValuesOK
  BY <1>2, ListAssumption DEF ValuesOK
<1>4. \A t \in Threads : AnswerOK(t) /\ SearchOK(t, L[0])
  BY <1>2 DEF AnswerOK, SearchOK, Map!IsSearch, Map!NoCall
<1>5. History(L[0])
  BY <1>2, <1>3, <1>4 DEF History
<1>6. \A k \in Keys : Contents[k] = NoValue
  <2>1. Contents = ContentsOf(L[0], item) /\ Mapped(L[0], item)
    BY <1>1, <1>3, ListAlwaysIsMap DEF LevelIsMap
  <2>2. \A x \in L[0] : Key(x) \notin Keys
    BY <1>1, <1>3, ShapeIsMap, ListAssumption
  <2> QED
    BY <2>1, <2>2, ContentsAre DEF Key
<1>7. Contents = [k \in Keys |-> NoValue]
  <2>1. Contents = [k \in Keys |-> Contents[k]]
    BY <1>1, ListAlwaysIsMap DEF LevelIsMap, ContentsOf
  <2> QED
    BY <1>6, <2>1
<1> QED
  BY <1>1, <1>2, <1>5, <1>7 DEF MapShape, Map!MapInit

(* A step of something else changes neither.                               *)
LEMMA MapStutters ==
  ASSUME MapShape, UNCHANGED vars
  PROVE  MapShape' /\ UNCHANGED Map!mapVars
<1>1. PICK G, L : Shape(G, L) /\ History(L[0])
  BY DEF MapShape
<1>2. /\ Shape(G, L)' /\ UNCHANGED <<item, reg, call, seen, ret, client, pc>>
  BY <1>1, ShapeStutters DEF vars, listVars, heapVars, callVars, lockVars
<1>3. /\ \A t \in Threads : AnswerOK(t)' /\ SearchOK(t, L[0])'
      /\ ValuesOK'
  BY <1>1, <1>2 DEF History, ValuesOK, AnswerOK, SearchOK, ReadingOK, Found, Hit, Key
<1>4. History(L[0])'
  BY <1>1, <1>2, <1>3 DEF History
<1>5. Contents' = Contents
  BY <1>1, <1>2, ListAlwaysIsMap DEF LevelIsMap
<1> QED
  BY <1>2, <1>4, <1>5 DEF MapShape, Map!mapVars

(* What the refinement rests on holds in every state.                      *)
THEOREM MapShapeInvariant ==
  ASSUME ScansApart
  PROVE  ListSpec /\ []FlushAlone => []MapShape
<1>1. ListInit => MapShape
  BY MapStarts
<1>2. LockInv /\ FlushAlone /\ MapShape /\ [ListNext]_vars => MapShape'
  <2>1. ASSUME MapShape, UNCHANGED vars PROVE MapShape'
    BY <2>1, MapStutters
  <2>2. ASSUME LockInv, FlushAlone, MapShape, ListNext PROVE MapShape'
    BY <2>2, ScansApart, StepIsSimulated DEF MapShape, ListNext, Simulated
  <2> QED
    BY <2>1, <2>2
<1> QED
  BY <1>1, <1>2, ListFollowsLocks, LockInvariant, PTL DEF ListSpec

(* Searches, insertions and deletions that overlap behave like steps of a  *)
(* map, each taken at some moment of its call, whatever a search stands on *)
(* (skiplist.c:247-273, 537-620) - as long as "no readers/writers are      *)
(* active" (skiplist.c:227) when deleted items are freed, and skipNext is  *)
(* not called beside deletions and overwriting insertions.                 *)
THEOREM ListIsMap ==
  ASSUME ScansApart
  PROVE  ListSpec /\ []FlushAlone => ImplementsMap
<1>1. ListInit => Map!MapInit
  BY MapStarts
<1>2. LockInv /\ FlushAlone /\ MapShape /\ [ListNext]_vars => [Map!MapNext]_(Map!mapVars)
  <2>1. ASSUME MapShape, UNCHANGED vars PROVE UNCHANGED Map!mapVars
    BY <2>1, MapStutters
  <2>2. ASSUME LockInv, FlushAlone, MapShape, ListNext
        PROVE  Map!MapNext \/ UNCHANGED Map!mapVars
    BY <2>2, ScansApart, StepIsSimulated DEF MapShape, ListNext, Simulated
  <2> QED
    BY <2>1, <2>2
<1> QED
  BY <1>1, <1>2, MapShapeInvariant, ListFollowsLocks, LockInvariant, PTL
     DEF ListSpec, ImplementsMap, Map!MapSpec

(* The key that skipNext returns is larger than the one it was given       *)
(* (skiplist.h:83), under the same provisos.                               *)
THEOREM NextIsLarger ==
  ASSUME ScansApart
  PROVE  ListSpec /\ []FlushAlone => []NextLarger
<1>1. MapShape => NextLarger
  <2> SUFFICES ASSUME MapShape, NEW t \in Threads, call[t].op = "next",
                      ret[t] # Map!NoAnswer, ret[t].value # NoValue
               PROVE  ret[t].key > call[t].key
    BY DEF NextLarger
  <2> QED
    BY DEF MapShape, History, SearchOK, Map!IsSearch
<1> QED
  BY <1>1, MapShapeInvariant, PTL

(* Two threads need no proviso about flushes.                              *)
THEOREM PairIsMap ==
  ASSUME Pair, ScansApart
  PROVE  ListSpec => ImplementsMap /\ []NextLarger
<1>1. ListSpec => []FlushAlone
  BY Pair, ListFlushesAlone
<1> QED
  BY <1>1, ScansApart, ListIsMap, NextIsLarger, PTL

=============================================================================
