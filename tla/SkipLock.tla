------------------------------ MODULE SkipLock ------------------------------
(***************************************************************************)
(* The locking protocol of the thread-safe skip list (util/skiplist.c).    *)
(*                                                                         *)
(* Searches share the list with at most one writer.  Every search and      *)
(* every update counts itself in list->readers between readLock and        *)
(* readUnlock; an update also holds list->write.  Deleted items are only   *)
(* cached, because a search may still stand on them.  The writer that      *)
(* leaves more than flushLimit items cached becomes the flusher: it sets   *)
(* list->block, waits on the condition `flush' until the last reader       *)
(* leaves, frees the cached items while it owns list->read, clears block   *)
(* and broadcasts `resume' to the searches that waited for it.             *)
(*                                                                         *)
(* A section that takes list->read and releases it without waiting is one  *)
(* step, enabled when the mutex is free: block, readers and the wait sets  *)
(* are touched only by its owner.  The flusher keeps the mutex over        *)
(* several steps, so its owner is a variable.  The threads waiting on the  *)
(* condition `resume' are those at "rwait", on `flush' those at "fwait";   *)
(* a thread that has been woken ("rwoken", "fwoken") still has to get the  *)
(* mutex back before cWait returns.                                        *)
(***************************************************************************)
EXTENDS Naturals, FiniteSets

CONSTANTS
  Threads,          \* threads sharing the list
  NoThread,         \* "nobody": a free mutex
  FlushLimit,       \* list->flushLimit
  MaxCached,        \* bound of the model on list->cached
  SpuriousWakeups   \* may pthread_cond_wait return without a signal?

ASSUME LockAssumption ==
  /\ IsFiniteSet(Threads)
  /\ NoThread \notin Threads
  /\ FlushLimit \in Nat
  /\ MaxCached \in Nat
  /\ SpuriousWakeups \in BOOLEAN

VARIABLES
  readMutex,    \* owner of list->read between steps (only a flusher keeps it)
  writeMutex,   \* owner of list->write
  readers,      \* list->readers
  block,        \* list->block
  flushing,     \* list->flushing
  cached,       \* list->cached
  flush,        \* flush[t]: the local `flush' of skipWriteUnlock
  pc            \* pc[t]: where thread t is

lockVars == <<readMutex, writeMutex, readers, block, flushing, cached, flush, pc>>

(* Threads between the increment and the decrement of list->readers.       *)
ReadSection == {"reading", "wlock", "writing", "hint", "wunlock", "runlock"}

(* Threads that own list->write.                                           *)
WriteSection == {"writing", "hint", "wunlock"}

(* The flusher while list->flushing is set on its behalf after readUnlock. *)
FlushSection == {"fblock", "fwait", "fwoken", "fflush", "fdone"}

(* The flusher while list->block is set on its behalf.                     *)
BlockSection == {"fwait", "fwoken", "fflush", "fdone", "unblock"}

(* The flusher while it keeps list->read.                                  *)
OwnsRead == {"fflush", "fdone", "unblock"}

Locations ==
  {"idle", "rlock", "rwait", "rwoken", "signal", "broadcast"}
    \cup ReadSection \cup FlushSection \cup BlockSection

At(S) == {t \in Threads : pc[t] \in S}

Goto(t, from, to) == pc[t] = from /\ pc' = [pc EXCEPT ![t] = to]

(* Mutant: skipWriteUnlock returns although it decided to flush.           *)
AfterReadUnlockSkip(t) == "idle"

(* Where skipWriteUnlock or skipSearch continues after readUnlock.         *)
AfterReadUnlock(t) == IF flush[t] THEN "fblock" ELSE "idle"

-----------------------------------------------------------------------------
(* Searches: readLock .. readUnlock                                        *)

(* skipFind or skipLock is called.                                         *)
Begin(t) ==
  /\ Goto(t, "idle", "rlock")
  /\ UNCHANGED <<readMutex, writeMutex, readers, block, flushing, cached, flush>>

(* readLock: wait once on `resume' if a flusher blocks the list.           *)
ReadLock(t) ==
  /\ readMutex = NoThread
  /\ \/ /\ block
        /\ Goto(t, "rlock", "rwait")
        /\ UNCHANGED readers
     \/ /\ ~block
        /\ Goto(t, "rlock", "reading")
        /\ readers' = readers + 1
  /\ UNCHANGED <<readMutex, writeMutex, block, flushing, cached, flush>>

(* Mutant: readLock returns from the wait without counting itself.         *)
ResumeReaderUncounted(t) ==
  /\ readMutex = NoThread
  /\ Goto(t, "rwoken", "reading")
  /\ UNCHANGED <<readMutex, writeMutex, readers, block, flushing, cached, flush>>

(* cWait(&list->resume) returns: block is not tested again.                *)
ResumeReader(t) ==
  /\ readMutex = NoThread
  /\ Goto(t, "rwoken", "reading")
  /\ readers' = readers + 1
  /\ UNCHANGED <<readMutex, writeMutex, block, flushing, cached, flush>>

(* The search of skipSearch or skipNext has found its item.                *)
EndFind(t) ==
  /\ Goto(t, "reading", "runlock")
  /\ UNCHANGED <<readMutex, writeMutex, readers, block, flushing, cached, flush>>

(* readUnlock: the last reader to leave a blocked list is to signal.       *)
ReadUnlock(t) ==
  /\ readMutex = NoThread
  /\ Goto(t, "runlock",
          IF readers = 1 /\ block THEN "signal" ELSE AfterReadUnlock(t))
  /\ readers' = readers - 1
  /\ UNCHANGED <<readMutex, writeMutex, block, flushing, cached, flush>>

(* cSignal(&list->flush), after list->read has been released.              *)
Signal(t) ==
  /\ pc[t] = "signal"
  /\ \/ \E w \in At({"fwait"}) :
          pc' = [pc EXCEPT ![t] = AfterReadUnlock(t), ![w] = "fwoken"]
     \/ /\ At({"fwait"}) = {}
        /\ pc' = [pc EXCEPT ![t] = AfterReadUnlock(t)]
  /\ UNCHANGED <<readMutex, writeMutex, readers, block, flushing, cached, flush>>

-----------------------------------------------------------------------------
(* Updates: skipLock .. skipWriteUnlock                                    *)

(* The traversal of skipLock ends; the thread asks for list->write.        *)
EndTraverse(t) ==
  /\ Goto(t, "reading", "wlock")
  /\ UNCHANGED <<readMutex, writeMutex, readers, block, flushing, cached, flush>>

WriteLock(t) ==
  /\ writeMutex = NoThread
  /\ Goto(t, "wlock", "writing")
  /\ writeMutex' = t
  /\ UNCHANGED <<readMutex, readers, block, flushing, cached, flush>>

(* The update is made; a skipDelete that found its key caches one item.    *)
Update(t) ==
  /\ Goto(t, "writing", "hint")
  /\ cached' \in {cached, cached + 1}
  /\ cached' <= MaxCached
  /\ UNCHANGED <<readMutex, writeMutex, readers, block, flushing, flush>>

(* The update returns, after it adjusted levelHint or without an effect.   *)
EndUpdate(t) ==
  /\ \E from \in {"writing", "hint"} : Goto(t, from, "wunlock")
  /\ UNCHANGED <<readMutex, writeMutex, readers, block, flushing, cached, flush>>

(* Mutant: a second thread may decide to flush during a flush.             *)
WriteUnlockAnyFlusher(t) ==
  /\ Goto(t, "wunlock", "runlock")
  /\ flush' = [flush EXCEPT ![t] = cached > FlushLimit]
  /\ flushing' = (flushing \/ cached > FlushLimit)
  /\ writeMutex' = NoThread
  /\ UNCHANGED <<readMutex, readers, block, cached>>

(* skipWriteUnlock: decide to flush, then writeUnlock.                     *)
WriteUnlock(t) ==
  /\ Goto(t, "wunlock", "runlock")
  /\ LET mustFlush == cached > FlushLimit /\ ~flushing
     IN  /\ flush' = [flush EXCEPT ![t] = mustFlush]
         /\ flushing' = (flushing \/ mustFlush)
  /\ writeMutex' = NoThread
  /\ UNCHANGED <<readMutex, readers, block, cached>>

-----------------------------------------------------------------------------
(* The flusher: readBlock, skipFlushDeleted, readUnblock                   *)

(* Mutant: readBlock does not wait for the readers.                        *)
ReadBlockHasty(t) ==
  /\ readMutex = NoThread
  /\ block' = TRUE
  /\ Goto(t, "fblock", "fflush")
  /\ readMutex' = t
  /\ UNCHANGED <<writeMutex, readers, flushing, cached, flush>>

(* readBlock: block new searches; wait once if there are readers.          *)
ReadBlock(t) ==
  /\ readMutex = NoThread
  /\ block' = TRUE
  /\ \/ /\ readers > 0
        /\ Goto(t, "fblock", "fwait")
        /\ UNCHANGED readMutex
     \/ /\ readers = 0
        /\ Goto(t, "fblock", "fflush")
        /\ readMutex' = t
  /\ UNCHANGED <<writeMutex, readers, flushing, cached, flush>>

(* cWait(&list->flush) returns: readers is not tested again.               *)
ResumeFlusher(t) ==
  /\ readMutex = NoThread
  /\ Goto(t, "fwoken", "fflush")
  /\ readMutex' = t
  /\ UNCHANGED <<writeMutex, readers, block, flushing, cached, flush>>

(* skipFlushDeleted: free the cached items nobody holds a value lock on.   *)
FlushDeleted(t) ==
  /\ Goto(t, "fflush", "fdone")
  /\ cached' \in 0..cached
  /\ UNCHANGED <<readMutex, writeMutex, readers, block, flushing, flush>>

(* list->flushing = FALSE                                                  *)
EndFlush(t) ==
  /\ Goto(t, "fdone", "unblock")
  /\ flushing' = FALSE
  /\ flush' = [flush EXCEPT ![t] = FALSE]
  /\ UNCHANGED <<readMutex, writeMutex, readers, block, cached>>

(* Mutant: readUnblock forgets list->block.                                *)
ReadUnblockForgets(t) ==
  /\ Goto(t, "unblock", "broadcast")
  /\ readMutex' = NoThread
  /\ UNCHANGED <<writeMutex, readers, block, flushing, cached, flush>>

(* readUnblock, up to the release of list->read.                           *)
ReadUnblock(t) ==
  /\ Goto(t, "unblock", "broadcast")
  /\ block' = FALSE
  /\ readMutex' = NoThread
  /\ UNCHANGED <<writeMutex, readers, flushing, cached, flush>>

(* Mutant: cSignal in place of cBroadcast.                                 *)
BroadcastOne(t) ==
  /\ pc[t] = "broadcast"
  /\ \/ \E w \in At({"rwait"}) : pc' = [pc EXCEPT ![t] = "idle", ![w] = "rwoken"]
     \/ At({"rwait"}) = {} /\ pc' = [pc EXCEPT ![t] = "idle"]
  /\ UNCHANGED <<readMutex, writeMutex, readers, block, flushing, cached, flush>>

(* cBroadcast(&list->resume)                                               *)
Broadcast(t) ==
  /\ pc[t] = "broadcast"
  /\ pc' = [u \in Threads |->
              CASE u = t           -> "idle"
                [] pc[u] = "rwait" -> "rwoken"
                [] OTHER           -> pc[u]]
  /\ UNCHANGED <<readMutex, writeMutex, readers, block, flushing, cached, flush>>

(* POSIX lets pthread_cond_wait return although nobody signalled.          *)
SpuriousWakeup(t) ==
  /\ SpuriousWakeups
  /\ \/ Goto(t, "rwait", "rwoken")
     \/ Goto(t, "fwait", "fwoken")
  /\ UNCHANGED <<readMutex, writeMutex, readers, block, flushing, cached, flush>>

-----------------------------------------------------------------------------
LockInit ==
  /\ readMutex = NoThread
  /\ writeMutex = NoThread
  /\ readers = 0
  /\ block = FALSE
  /\ flushing = FALSE
  /\ cached = 0
  /\ flush = [t \in Threads |-> FALSE]
  /\ pc = [t \in Threads |-> "idle"]

(* What a thread inside a call of the library does by itself.              *)
Run(t) ==
  \/ ReadLock(t) \/ ResumeReader(t) \/ EndFind(t) \/ ReadUnlock(t) \/ Signal(t)
  \/ EndTraverse(t) \/ WriteLock(t) \/ Update(t) \/ EndUpdate(t)
  \/ WriteUnlock(t) \/ ReadBlock(t) \/ ResumeFlusher(t) \/ FlushDeleted(t)
  \/ EndFlush(t) \/ ReadUnblock(t) \/ Broadcast(t)

LockNext == \E t \in Threads : Begin(t) \/ Run(t) \/ SpuriousWakeup(t)

LockSpec == LockInit /\ [][LockNext]_lockVars

(* A runnable thread is eventually scheduled.  Nothing is assumed about    *)
(* the order in which a mutex is granted.  Spurious wakeups come to an end:*)
(* one after another they would let searches in past a waiting flusher.    *)
LockFairness ==
  /\ \A t \in Threads : WF_lockVars(Run(t))
  /\ <>[][\A t \in Threads : ~SpuriousWakeup(t)]_lockVars

-----------------------------------------------------------------------------
(* Every variable keeps its type; the counter never runs below zero.       *)
LockTypeOK ==
  /\ readMutex \in Threads \cup {NoThread}
  /\ writeMutex \in Threads \cup {NoThread}
  /\ readers \in Nat
  /\ block \in BOOLEAN
  /\ flushing \in BOOLEAN
  /\ cached \in Nat
  /\ flush \in [Threads -> BOOLEAN]
  /\ pc \in [Threads -> Locations]

(* list->readers (skiplist.c:78, :97) counts exactly the threads that are  *)
(* inside the list: it is what the flusher trusts, and a UINT32 that one   *)
(* missed increment would wrap below zero.                                 *)
ReadersExact == readers = Cardinality(At(ReadSection))

(* At most one thread is on its way to free the cached items: the flag     *)
(* list->flushing is tested under list->write but cleared under            *)
(* list->read (skiplist.c:211-232), so no one mutex protects it.           *)
Flushers == {t \in Threads : flush[t]}
OneFlusher ==
  /\ \A t, u \in Flushers : t = u
  /\ flushing <=> Flushers # {}

(* New searches are held back exactly while one thread is between          *)
(* readBlock and readUnblock (skiplist.c:112-133): the list is never left  *)
(* blocked behind, and two flushers never overlap there.                   *)
BlockOwned ==
  /\ block <=> At(BlockSection) # {}
  /\ \A t, u \in At(BlockSection) : t = u

(* list->write and list->read are held by the threads whose code says so.  *)
MutexesOwned ==
  \A t \in Threads :
    /\ writeMutex = t <=> pc[t] \in WriteSection
    /\ readMutex = t <=> pc[t] \in OwnsRead

(* flush[t] is set between skipWriteUnlock's test and the end of the flush.*)
FlushMarked ==
  \A t \in Threads :
    /\ flush[t] => pc[t] \in {"runlock", "signal"} \cup FlushSection
    /\ pc[t] \in FlushSection => flush[t]

(* What every step of the protocol preserves: the three properties above   *)
(* and what they rest on.                                                  *)
LockInv ==
  /\ LockTypeOK
  /\ MutexesOwned
  /\ FlushMarked
  /\ OneFlusher
  /\ BlockOwned
  /\ ReadersExact

(* "at this point no readers/writers are active" (skiplist.c:227), the     *)
(* comment above the call that frees the deleted items.                    *)
FlushAlone == At({"fflush"}) # {} => readers = 0

(* A woken flusher meets nobody: with two threads and no spurious wakeups, *)
(* the one that signalled is the only other, and it cannot come back in.   *)
WokenAlone ==
  \A f \in At({"fwoken"}) : \A u \in Threads \ {f} :
    pc[u] \notin ReadSection \cup {"rwoken"}

(* No wakeup is lost: a search that waits on `resume' is woken.            *)
SearchResumes == \A t \in Threads : pc[t] = "rwait" ~> pc[t] # "rwait"

(* A flush that was decided on is carried out: the flusher never waits for *)
(* a signal that was already sent, or for threads that wait for it.        *)
FlushCompletes == \A t \in Threads : flush[t] ~> ~flush[t]

=============================================================================
