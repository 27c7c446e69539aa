--------------------------------- MODULE Rcfs --------------------------------
(***************************************************************************)
(* The version store of util/rcfs.c: processes that save, load and         *)
(* annotate one path.  The path has a log that lists its versions, a file  *)
(* for each version, and a lock file.  Savers hold a lock (util/ulocks.c)  *)
(* on the lock file, which the system takes away when a process ends;      *)
(* loaders take none.  A file is the sequence of its lines.                *)
(*                                                                         *)
(* The log lists its versions, ends the list with a line, "end", and has   *)
(* the lines of the Meta node, which list no version: the two are nodes of *)
(* their own.  It is written to a temporary file (hdf_write_file) that    *)
(* replaces it.                                                            *)
(***************************************************************************)
EXTENDS Integers, Sequences, SequencesExt, FiniteSets

CONSTANTS
  Processes,
  Lines,           \* the lines of files
  Numerals,        \* the line of the log that lists each version
  Datas,           \* what is saved: sequences of lines
  Metas,           \* what the Meta node is set to: sequences of lines
  MaxCalls,        \* bound on the calls of all processes
  MaxCrashes,      \* bound on the processes that die
  MaxFaults        \* bound on the operations that fail

VARIABLES
  disk,            \* the log, its temporary file and the version files
  lock,            \* the process that holds the lock, or 0
  proc,            \* what each process does
  past             \* what happened: history for the properties, and counters

vars == <<disk, lock, proc, past>>

NONE == <<"none">>
Versions == 1 .. MaxCalls
Idle == [pc |-> "idle", op |-> "none", data |-> <<>>, k |-> 0, meta |-> <<>>, size |-> 0, since |-> 0,
         answer |-> NONE]

RcfsAssumption ==
  /\ IsFiniteSet(Processes) /\ 0 \notin Processes
  /\ MaxCalls \in Nat
  /\ "end" \in Lines /\ "none" \notin Lines
  /\ Datas \subseteq Seq(Lines) /\ Metas \subseteq Seq(Lines)
  /\ Numerals \in [Versions -> Lines \ {"end"}] /\ IsInjective(Numerals)
  /\ \A meta \in Metas, n \in Versions : Numerals[n] \notin ToSet(meta)

LogText(k, meta) == SubSeq(Numerals, 1, k) \o <<"end">> \o meta
ListedIn(log) == Max({0} \cup {n \in Versions : Numerals[n] \in ToSet(log)})
MetaIn(log) == SubSeq(log, ListedIn(log) + 2, Len(log))

(* The steps of a call, in the order of the code.                           *)
SaveSteps == <<"lock", "log", "open", "write", "tmp", "rename", "unlock">>
Steps(op) == CASE op = "save" -> SaveSteps
               [] op = "meta" -> <<"lock", "log", "tmp", "rename", "unlock">>
               [] op = "load" -> <<"statlog", "readlog", "stat", "read">>
               [] op = "version" -> <<"stat", "read">>
StepOf(p) == CHOOSE i \in DOMAIN Steps(proc[p].op) : Steps(proc[p].op)[i] = proc[p].pc
After(p) == LET s == Steps(proc[p].op)
            IN  IF StepOf(p) = Len(s) THEN "idle" ELSE s[StepOf(p) + 1]
Then(p, r) == proc' = [proc EXCEPT ![p] = [r EXCEPT !.pc = After(p)]]
Return(p, r) == proc' = [proc EXCEPT ![p] = [r EXCEPT !.pc = "idle"]]
Abandon(p) == proc' = [proc EXCEPT ![p].pc = "unlock"]

At(p, pc) == proc[p].pc = pc
Fault == past.faults < MaxFaults /\ past' = [past EXCEPT !.faults = @ + 1]
-----------------------------------------------------------------------------
Call(p, r) == /\ At(p, "idle")
              /\ past.calls < MaxCalls
              /\ past' = [past EXCEPT !.calls = @ + 1]
              /\ proc' = [proc EXCEPT ![p] = [r EXCEPT !.pc = Head(Steps(r.op)), !.since = Len(past.saved)]]
              /\ UNCHANGED <<disk, lock>>
Save(p) == \E d \in Datas : Call(p, [Idle EXCEPT !.op = "save", !.data = d])
MetaSave(p) == \E m \in Metas : Call(p, [Idle EXCEPT !.op = "meta", !.meta = m])
Load(p) == Call(p, [Idle EXCEPT !.op = "load"])
LoadVersion(p) == \E n \in 1 .. Len(past.saved) : Call(p, [Idle EXCEPT !.op = "version", !.k = n])

(* rcfs_lock; a process that already has the lock gets it again.            *)
LockAnyway(p) == /\ At(p, "lock")
                 /\ lock' = p
                 /\ Then(p, proc[p])
                 /\ UNCHANGED <<disk, past>>
Lock(p) == /\ At(p, "lock")
           /\ lock \in {0, p}
           /\ lock' = p
           /\ Then(p, proc[p])
           /\ UNCHANGED <<disk, past>>
Unlock(p) == /\ At(p, "unlock")
             /\ lock' = 0
             /\ Then(p, proc[p])
             /\ UNCHANGED <<disk, past>>

(* rcfs_meta_load under the lock.  rcfs_save starts a log that is not       *)
(* there; when it cannot read one it returns at once, with the lock.        *)
ReadLog(p) ==
  /\ At(p, "log")
  /\ LET r == proc[p]
         read(log) == Then(p, [r EXCEPT !.k = ListedIn(log), !.meta = IF r.op = "meta" THEN @ ELSE MetaIn(log)])
     IN  \/ disk.log # NONE /\ read(disk.log) /\ UNCHANGED past
         \/ disk.log = NONE /\ r.op = "save" /\ Then(p, r) /\ UNCHANGED past
         \/ disk.log = NONE /\ r.op = "meta" /\ Abandon(p) /\ UNCHANGED past
         \/ disk.log # NONE /\ Fault /\ IF r.op = "save" THEN Return(p, r) ELSE Abandon(p)
  /\ UNCHANGED <<disk, lock>>

(* The new version: the file is made, or kept as it is, and written over    *)
(* from its start.                                                          *)
New(p) == proc[p].k + 1
OpenVersion(p) ==
  /\ At(p, "open")
  /\ \/ /\ disk' = [disk EXCEPT !.version[New(p)] = IF @ = NONE THEN <<>> ELSE @]
        /\ Then(p, proc[p])
        /\ UNCHANGED past
     \/ Fault /\ Abandon(p) /\ UNCHANGED disk
  /\ UNCHANGED lock

Over(data, old) == data \o SubSeq(old, Len(data) + 1, Len(old))
WriteVersion(p) ==
  /\ At(p, "write")
  /\ LET old == disk.version[New(p)]
         put(data) == disk' = [disk EXCEPT !.version[New(p)] = Over(data, old)]
     IN  \/ /\ put(proc[p].data)
            /\ past' = [past EXCEPT !.remnants = IF Len(old) > Len(proc[p].data) THEN @ \cup {New(p)} ELSE @]
            /\ Then(p, proc[p])
         \/ put(Front(proc[p].data)) /\ Fault /\ Abandon(p)
  /\ UNCHANGED lock

(* _meta_save: nobody notices when fclose cannot write all of the file.     *)
WriteTmp(p) ==
  /\ At(p, "tmp")
  /\ LET text == LogText(proc[p].k + IF proc[p].op = "save" THEN 1 ELSE 0, proc[p].meta)
     IN  \/ disk' = [disk EXCEPT !.tmp = text] /\ UNCHANGED past
         \/ /\ past.faults < MaxFaults
            /\ disk' = [disk EXCEPT !.tmp = SubSeq(text, 1, Len(text) \div 2)]
            /\ past' = [past EXCEPT !.faults = @ + 1, !.cut = TRUE]
  /\ Then(p, proc[p])
  /\ UNCHANGED lock

Rename(p) ==
  /\ At(p, "rename")
  /\ \/ /\ disk' = [disk EXCEPT !.log = disk.tmp, !.tmp = NONE]
        /\ past' = IF proc[p].op = "save" THEN [past EXCEPT !.saved = Append(@, proc[p].data)] ELSE past
     \/ disk' = [disk EXCEPT !.tmp = NONE] /\ Fault
  /\ Then(p, proc[p])
  /\ UNCHANGED lock
-----------------------------------------------------------------------------
(* ne_load_file takes the size of a file, opens it, and reads so much.      *)
Stat(p, pc, file) == /\ At(p, pc)
                     /\ IF file = NONE THEN Return(p, [proc[p] EXCEPT !.answer = <<"notfound">>])
                        ELSE Then(p, [proc[p] EXCEPT !.size = Len(file)])
                     /\ UNCHANGED <<disk, lock, past>>
LoadedOf(p, file) == SubSeq(file, 1, Min({proc[p].size, Len(file)}))

StatLog(p) == Stat(p, "statlog", disk.log)

(* The latest version that the text lists; a text that was cut in a line    *)
(* is not read.                                                             *)
ReadLatest(p) ==
  /\ At(p, "readlog")
  /\ \/ Then(p, [proc[p] EXCEPT !.k = ListedIn(LoadedOf(p, disk.log))])
     \/ proc[p].size < Len(disk.log) /\ Return(p, [proc[p] EXCEPT !.answer = <<"parse">>])
  /\ UNCHANGED <<disk, lock, past>>
StatVersion(p) == Stat(p, "stat", IF proc[p].k = 0 THEN NONE ELSE disk.version[proc[p].k])
ReadVersion(p) ==
  /\ At(p, "read")
  /\ Then(p, [proc[p] EXCEPT !.answer = <<"ok", LoadedOf(p, disk.version[proc[p].k])>>])
  /\ UNCHANGED <<disk, lock, past>>

(* A process ends, in a call or after it.                                   *)
Crash(p) ==
  /\ past.crashes < MaxCrashes
  /\ ~At(p, "idle") \/ lock = p
  /\ past' = [past EXCEPT !.crashes = @ + 1]
  /\ lock' = IF lock = p THEN 0 ELSE lock
  /\ proc' = [proc EXCEPT ![p] = Idle]
  /\ UNCHANGED disk

Init == /\ disk = [log |-> NONE, tmp |-> NONE, version |-> [n \in Versions |-> NONE]]
        /\ lock = 0
        /\ proc = [p \in Processes |-> Idle]
        /\ past = [saved |-> <<>>, remnants |-> {}, cut |-> FALSE, calls |-> 0, crashes |-> 0, faults |-> 0]
Step(p) == \/ Save(p) \/ MetaSave(p) \/ Load(p) \/ LoadVersion(p) \/ Lock(p) \/ Unlock(p) \/ ReadLog(p)
           \/ OpenVersion(p) \/ WriteVersion(p) \/ WriteTmp(p) \/ Rename(p) \/ StatLog(p) \/ ReadLatest(p)
           \/ StatVersion(p) \/ ReadVersion(p) \/ Crash(p)
Next == \E p \in Processes : Step(p)
Spec == Init /\ [][Next]_vars
-----------------------------------------------------------------------------
(* A version whose save has replaced the log stays listed, and its file     *)
(* stays as it was saved, whatever other processes save, load, annotate or  *)
(* leave unfinished; unless the log was cut by a full disk, or a save that  *)
(* broke off had left a longer file under its number (rcfs_save, rcfs_lock, *)
(* _meta_save).                                                             *)
VersionsKept ==
  ~past.cut =>
    \A n \in DOMAIN past.saved :
      /\ disk.log # NONE /\ n <= ListedIn(disk.log)
      /\ n \notin past.remnants => disk.version[n] = past.saved[n]

(* A load of the latest version, which takes no lock, gives one that was    *)
(* the latest at some time since its start, and every load gives all of     *)
(* what was saved (rcfs_load, ne_load_file_len).                            *)
LoadsSound ==
  \A p \in Processes :
    proc[p].answer[1] = "ok" /\ ~past.cut =>
      /\ proc[p].k \in (IF proc[p].op = "load" THEN proc[p].since ELSE 1) .. Len(past.saved)
      /\ proc[p].k \notin past.remnants => proc[p].answer[2] = past.saved[proc[p].k]

(* What the store promises of its versions: they are kept, and loads see    *)
(* them (rcfs_save, rcfs_load).                                             *)
StoreSound == VersionsKept /\ LoadsSound
=============================================================================
