----------------------------- MODULE RcfsProofs -----------------------------
(* Safety of the version store of util/rcfs.c, for any number of processes *)
(* and calls, whatever is saved, and any number of crashes and faults.     *)
EXTENDS Rcfs, ListLemmas, FiniteSetTheorems, TLAPS

(* The step that comes after each step of a call (rcfs_save, rcfs_load,    *)
(* rcfs_meta_save).                                                        *)
LEMMA AfterSave ==
  ASSUME NEW p, proc[p].op = "save"
  PROVE  /\ proc[p].pc = "lock" => After(p) = "log"
         /\ proc[p].pc = "log" => After(p) = "open"
         /\ proc[p].pc = "open" => After(p) = "write"
         /\ proc[p].pc = "write" => After(p) = "tmp"
         /\ proc[p].pc = "tmp" => After(p) = "rename"
         /\ proc[p].pc = "rename" => After(p) = "unlock"
         /\ proc[p].pc = "unlock" => After(p) = "idle"
<1>1. DOMAIN Steps(proc[p].op) = {1, 2, 3, 4, 5, 6, 7} /\ Len(Steps(proc[p].op)) = 7
  BY DEF Steps, SaveSteps
<1>2. /\ Steps(proc[p].op)[1] = "lock"
      /\ Steps(proc[p].op)[2] = "log"
      /\ Steps(proc[p].op)[3] = "open"
      /\ Steps(proc[p].op)[4] = "write"
      /\ Steps(proc[p].op)[5] = "tmp"
      /\ Steps(proc[p].op)[6] = "rename"
      /\ Steps(proc[p].op)[7] = "unlock"
  BY DEF Steps, SaveSteps
<1>3. ASSUME NEW i \in {1, 2, 3, 4, 5, 6, 7}, proc[p].pc = Steps(proc[p].op)[i]
      PROVE  After(p) = IF i = 7 THEN "idle" ELSE Steps(proc[p].op)[i + 1]
  <2>1. StepOf(p) = i
    BY <1>1, <1>2, <1>3 DEF StepOf
  <2> QED
    BY <1>1, <2>1 DEF After
<1> QED
  BY <1>2, <1>3

(* The steps of rcfs_meta_save follow each other as the code does.         *)
LEMMA AfterMeta ==
  ASSUME NEW p, proc[p].op = "meta"
  PROVE  /\ proc[p].pc = "lock" => After(p) = "log"
         /\ proc[p].pc = "log" => After(p) = "tmp"
         /\ proc[p].pc = "tmp" => After(p) = "rename"
         /\ proc[p].pc = "rename" => After(p) = "unlock"
         /\ proc[p].pc = "unlock" => After(p) = "idle"
<1>1. DOMAIN Steps(proc[p].op) = {1, 2, 3, 4, 5} /\ Len(Steps(proc[p].op)) = 5
  BY DEF Steps
<1>2. /\ Steps(proc[p].op)[1] = "lock"
      /\ Steps(proc[p].op)[2] = "log"
      /\ Steps(proc[p].op)[3] = "tmp"
      /\ Steps(proc[p].op)[4] = "rename"
      /\ Steps(proc[p].op)[5] = "unlock"
  BY DEF Steps
<1>3. ASSUME NEW i \in {1, 2, 3, 4, 5}, proc[p].pc = Steps(proc[p].op)[i]
      PROVE  After(p) = IF i = 5 THEN "idle" ELSE Steps(proc[p].op)[i + 1]
  <2>1. StepOf(p) = i
    BY <1>1, <1>2, <1>3 DEF StepOf
  <2> QED
    BY <1>1, <2>1 DEF After
<1> QED
  BY <1>2, <1>3

(* The steps of rcfs_load for the latest version.                          *)
LEMMA AfterLoad ==
  ASSUME NEW p, proc[p].op = "load"
  PROVE  /\ proc[p].pc = "statlog" => After(p) = "readlog"
         /\ proc[p].pc = "readlog" => After(p) = "stat"
         /\ proc[p].pc = "stat" => After(p) = "read"
         /\ proc[p].pc = "read" => After(p) = "idle"
<1>1. DOMAIN Steps(proc[p].op) = {1, 2, 3, 4} /\ Len(Steps(proc[p].op)) = 4
  BY DEF Steps
<1>2. /\ Steps(proc[p].op)[1] = "statlog"
      /\ Steps(proc[p].op)[2] = "readlog"
      /\ Steps(proc[p].op)[3] = "stat"
      /\ Steps(proc[p].op)[4] = "read"
  BY DEF Steps
<1>3. ASSUME NEW i \in {1, 2, 3, 4}, proc[p].pc = Steps(proc[p].op)[i]
      PROVE  After(p) = IF i = 4 THEN "idle" ELSE Steps(proc[p].op)[i + 1]
  <2>1. StepOf(p) = i
    BY <1>1, <1>2, <1>3 DEF StepOf
  <2> QED
    BY <1>1, <2>1 DEF After
<1> QED
  BY <1>2, <1>3

(* The steps of rcfs_load for a version that is named.                     *)
LEMMA AfterVersion ==
  ASSUME NEW p, proc[p].op = "version"
  PROVE  /\ proc[p].pc = "stat" => After(p) = "read"
         /\ proc[p].pc = "read" => After(p) = "idle"
<1>1. DOMAIN Steps(proc[p].op) = {1, 2} /\ Len(Steps(proc[p].op)) = 2
  BY DEF Steps
<1>2. /\ Steps(proc[p].op)[1] = "stat"
      /\ Steps(proc[p].op)[2] = "read"
  BY DEF Steps
<1>3. ASSUME NEW i \in {1, 2}, proc[p].pc = Steps(proc[p].op)[i]
      PROVE  After(p) = IF i = 2 THEN "idle" ELSE Steps(proc[p].op)[i + 1]
  <2>1. StepOf(p) = i
    BY <1>1, <1>2, <1>3 DEF StepOf
  <2> QED
    BY <1>1, <2>1 DEF After
<1> QED
  BY <1>2, <1>3
-----------------------------------------------------------------------------
AnyMeta == Metas \cup {<<>>}
Text == Seq(Lines)

(* The greatest of the numbers from 0 to k is k.                           *)
LEMMA MaxOfRange ==
  ASSUME NEW k \in Nat
  PROVE  Max(0 .. k) = k
BY DEF Max

(* A text of the log, line by line (_meta_save).                           *)
LEMMA LogLines ==
  ASSUME RcfsAssumption, NEW k \in 0 .. MaxCalls, NEW m \in AnyMeta
  PROVE  /\ LogText(k, m) \in Text
         /\ m \in Text /\ Len(m) \in Nat
         /\ Len(LogText(k, m)) = k + 1 + Len(m)
         /\ \A i \in 1 .. k + 1 + Len(m) :
              LogText(k, m)[i] = IF i <= k THEN Numerals[i] ELSE IF i = k + 1 THEN "end" ELSE m[i - k - 1]
         /\ LogText(k, m) # NONE
<1> DEFINE a == SubSeq(Numerals, 1, k)
           b == <<"end">>
<1>1. k \in Nat /\ k <= MaxCalls /\ MaxCalls \in Nat
  BY DEF RcfsAssumption
<1>2. \A i \in 1 .. k : Numerals[i] \in Lines
  BY <1>1 DEF RcfsAssumption, Versions
<1>3. a \in Text /\ Len(a) = k /\ \A i \in 1 .. k : a[i] = Numerals[i]
  <2>1. /\ a \in Seq(Lines)
        /\ Len(a) = IF 1 <= k THEN k - 1 + 1 ELSE 0
        /\ \A i \in 1 .. k - 1 + 1 : a[i] = Numerals[1 + i - 1]
    BY <1>1, <1>2, SubSeqProperties
  <2> QED
    BY <1>1, <2>1 DEF Text
<1>4. b \in Text /\ Len(b) = 1 /\ b[1] = "end"
  BY DEF RcfsAssumption, Text
<1>5. m \in Text /\ Len(m) \in Nat
  <2>1. m \in Seq(Lines)
    BY EmptySeq DEF RcfsAssumption, AnyMeta
  <2> QED
    BY <2>1, LenProperties DEF Text
<1>6. LogText(k, m) = (a \o b) \o m
  BY DEF LogText
<1> HIDE DEF a, b
<1>61. a \in Seq(Lines) /\ b \in Seq(Lines) /\ m \in Seq(Lines)
  BY <1>3, <1>4, <1>5 DEF Text
<1>7. /\ a \o b \in Text /\ Len(a \o b) = k + 1
      /\ \A i \in 1 .. k + 1 : (a \o b)[i] = IF i <= k THEN a[i] ELSE b[i - k]
  <2>1. /\ a \o b \in Seq(Lines) /\ Len(a \o b) = Len(a) + Len(b)
        /\ \A i \in 1 .. Len(a) + Len(b) : (a \o b)[i] = IF i <= Len(a) THEN a[i] ELSE b[i - Len(a)]
    BY <1>61, ConcatProperties
  <2> QED
    BY <1>3, <1>4, <2>1 DEF Text
<1>8. /\ LogText(k, m) \in Text /\ Len(LogText(k, m)) = k + 1 + Len(m)
      /\ \A i \in 1 .. k + 1 + Len(m) : LogText(k, m)[i] = IF i <= k + 1 THEN (a \o b)[i] ELSE m[i - (k + 1)]
  <2>1. /\ (a \o b) \o m \in Seq(Lines) /\ Len((a \o b) \o m) = Len(a \o b) + Len(m)
        /\ \A i \in 1 .. Len(a \o b) + Len(m) :
             ((a \o b) \o m)[i] = IF i <= Len(a \o b) THEN (a \o b)[i] ELSE m[i - Len(a \o b)]
    <3>1. a \o b \in Seq(Lines)
      BY <1>7 DEF Text
    <3> QED
      BY <1>61, <3>1, ConcatProperties
  <2> QED
    BY <1>6, <1>7, <2>1 DEF Text
<1>9. ASSUME NEW i \in 1 .. k + 1 + Len(m)
      PROVE  LogText(k, m)[i] = IF i <= k THEN Numerals[i] ELSE IF i = k + 1 THEN "end" ELSE m[i - k - 1]
  <2>1. CASE i <= k
    BY <1>1, <1>3, <1>5, <1>7, <1>8, <2>1
  <2>2. CASE i = k + 1
    <3>1. i - k = 1 /\ ~(i <= k) /\ i <= k + 1 /\ i \in 1 .. k + 1
      BY <1>1, <2>2
    <3> QED
      BY <1>4, <1>7, <1>8, <2>2, <3>1
  <2>3. CASE i > k + 1
    <3>1. i - (k + 1) = i - k - 1 /\ ~(i <= k) /\ ~(i <= k + 1) /\ i # k + 1
      BY <1>1, <1>5, <2>3
    <3> QED
      BY <1>8, <3>1
  <2> QED
    BY <1>1, <1>5, <2>1, <2>2, <2>3
<1>10. LogText(k, m) # NONE
  <2> SUFFICES ASSUME LogText(k, m) = <<"none">> PROVE FALSE
    BY DEF NONE
  <2>1. Len(LogText(k, m)) = 1 /\ LogText(k, m)[1] = "none"
    OBVIOUS
  <2>2. LogText(k, m)[1] \in Lines
    BY <1>8, <2>1 DEF Text
  <2> QED
    BY <2>1, <2>2 DEF RcfsAssumption
<1> QED
  BY <1>5, <1>8, <1>9, <1>10

(* What a reader finds in the first n lines of the log is the latest of    *)
(* its versions that are there (rcfs_load).                                *)
LEMMA ListedInPart ==
  ASSUME RcfsAssumption, NEW k \in 0 .. MaxCalls, NEW m \in AnyMeta,
         NEW n \in 0 .. Len(LogText(k, m))
  PROVE  ListedIn(SubSeq(LogText(k, m), 1, n)) = IF n <= k THEN n ELSE k
<1> DEFINE text == LogText(k, m)
           part == SubSeq(text, 1, n)
           z == IF n <= k THEN n ELSE k
<1>1. k \in Nat /\ k <= MaxCalls /\ MaxCalls \in Nat
  BY DEF RcfsAssumption
<1>2. /\ text \in Text /\ Len(text) = k + 1 + Len(m) /\ Len(m) \in Nat /\ m \in Text
      /\ \A i \in 1 .. k + 1 + Len(m) :
           text[i] = IF i <= k THEN Numerals[i] ELSE IF i = k + 1 THEN "end" ELSE m[i - k - 1]
  BY LogLines
<1>3. n \in Nat /\ n <= k + 1 + Len(m)
  BY <1>1, <1>2
<1> HIDE DEF text
<1>4. part \in Text /\ Len(part) = n /\ \A i \in 1 .. n : part[i] = text[i]
  <2>1. \A i \in 1 .. n : text[i] \in Lines
    BY <1>1, <1>2, <1>3 DEF Text
  <2>2. /\ part \in Seq(Lines)
        /\ Len(part) = IF 1 <= n THEN n - 1 + 1 ELSE 0
        /\ \A i \in 1 .. n - 1 + 1 : part[i] = text[1 + i - 1]
    BY <1>3, <2>1, SubSeqProperties
  <2> QED
    BY <1>3, <2>2 DEF Text
<1> HIDE DEF part
<1>5. ToSet(part) = {text[i] : i \in 1 .. n}
  BY <1>4 DEF ToSet, Text
<1>6. ASSUME NEW v \in Versions
      PROVE  Numerals[v] \in ToSet(part) <=> v <= z
  <2>0. v \in Nat /\ v >= 1 /\ v <= MaxCalls
    BY <1>1 DEF Versions
  <2>1. ASSUME v <= z PROVE Numerals[v] \in ToSet(part)
    <3>1. v \in 1 .. n /\ v <= k /\ v \in 1 .. k + 1 + Len(m)
      BY <1>1, <1>2, <1>3, <2>0, <2>1
    <3>2. text[v] = Numerals[v]
      BY <1>2, <3>1
    <3> QED
      BY <1>5, <3>1, <3>2
  <2>2. ASSUME Numerals[v] \in ToSet(part) PROVE v <= z
    <3>1. PICK i \in 1 .. n : Numerals[v] = text[i]
      BY <1>5, <2>2
    <3>2. i \in Nat /\ i >= 1 /\ i <= n /\ i \in 1 .. k + 1 + Len(m)
      BY <1>1, <1>2, <1>3
    <3>3. CASE i <= k
      <4>1. Numerals[v] = Numerals[i] /\ i \in Versions
        BY <1>1, <1>2, <3>1, <3>2, <3>3 DEF Versions
      <4>2. v = i
        BY <4>1 DEF RcfsAssumption, IsInjective
      <4> QED
        BY <1>1, <1>3, <3>2, <3>3, <4>2
    <3>4. CASE i = k + 1
      <4>1. Numerals[v] = "end"
        BY <1>1, <1>2, <3>1, <3>2, <3>4
      <4> QED
        BY <4>1 DEF RcfsAssumption
    <3>5. CASE i > k + 1
      <4>1. Numerals[v] = m[i - k - 1] /\ i - k - 1 \in 1 .. Len(m)
        BY <1>1, <1>2, <3>1, <3>2, <3>5
      <4>2. m # <<>>
        BY <4>1
      <4>3. m \in Metas /\ m \in Seq(Lines)
        BY <1>2, <4>2 DEF AnyMeta, Text
      <4>4. Numerals[v] \in ToSet(m)
        BY <4>1, <4>3 DEF ToSet
      <4> QED
        BY <4>3, <4>4 DEF RcfsAssumption
    <3> QED
      BY <1>1, <3>2, <3>3, <3>4, <3>5
  <2> QED
    BY <2>1, <2>2
<1>7. z \in Nat /\ z <= MaxCalls
  BY <1>1, <1>3
<1> HIDE DEF z
<1>8. {0} \cup {v \in Versions : Numerals[v] \in ToSet(part)} = 0 .. z
  <2>1. {v \in Versions : Numerals[v] \in ToSet(part)} = {v \in Versions : v <= z}
    BY <1>6
  <2>2. {v \in Versions : v <= z} = 1 .. z
    BY <1>1, <1>7 DEF Versions
  <2> QED
    BY <1>7, <2>1, <2>2
<1>9. ListedIn(part) = z
  BY <1>7, <1>8, MaxOfRange DEF ListedIn
<1> QED
  BY <1>9 DEF part, text, z

(* All of the log lists the versions that were saved, and has the lines of *)
(* the Meta node that it was written with (rcfs_meta_load).                *)
LEMMA LogReads ==
  ASSUME RcfsAssumption, NEW k \in 0 .. MaxCalls, NEW m \in AnyMeta
  PROVE  ListedIn(LogText(k, m)) = k /\ MetaIn(LogText(k, m)) = m
<1> DEFINE text == LogText(k, m)
           part == SubSeq(text, k + 2, Len(text))
<1>1. k \in Nat /\ k <= MaxCalls /\ MaxCalls \in Nat
  BY DEF RcfsAssumption
<1>2. /\ text \in Text /\ Len(text) = k + 1 + Len(m) /\ Len(m) \in Nat /\ m \in Text
      /\ \A i \in 1 .. k + 1 + Len(m) :
           text[i] = IF i <= k THEN Numerals[i] ELSE IF i = k + 1 THEN "end" ELSE m[i - k - 1]
  BY LogLines
<1>3. ListedIn(text) = k
  <2>1. SubSeq(text, 1, Len(text)) = text
    BY <1>2, SubSeqFull DEF Text
  <2>2. Len(text) \in 0 .. Len(text) /\ ~(Len(text) <= k)
    BY <1>1, <1>2
  <2> QED
    BY <2>1, <2>2, ListedInPart
<1> HIDE DEF text
<1>4. part = m
  <2>1. \A i \in k + 2 .. Len(text) : text[i] \in Lines
    BY <1>1, <1>2 DEF Text
  <2>2. k + 2 \in Int /\ Len(text) \in Int
    BY <1>1, <1>2
  <2>3. /\ part \in Seq(Lines)
        /\ Len(part) = IF k + 2 <= Len(text) THEN Len(text) - (k + 2) + 1 ELSE 0
        /\ \A i \in 1 .. Len(text) - (k + 2) + 1 : part[i] = text[k + 2 + i - 1]
    BY <2>1, <2>2, SubSeqProperties
  <2>4. Len(part) = Len(m) /\ Len(text) - (k + 2) + 1 = Len(m)
    BY <1>1, <1>2, <2>3
  <2>5. ASSUME NEW i \in 1 .. Len(m) PROVE part[i] = m[i]
    <3>1. k + 2 + i - 1 = k + 1 + i /\ k + 1 + i \in 1 .. k + 1 + Len(m) /\ (k + 1 + i) - k - 1 = i
          /\ ~(k + 1 + i <= k) /\ k + 1 + i # k + 1
      BY <1>1, <1>2
    <3>2. part[i] = text[k + 1 + i]
      BY <2>3, <2>4, <3>1
    <3> QED
      BY <1>2, <3>1, <3>2
  <2> HIDE DEF part
  <2> QED
    BY <1>2, <2>3, <2>4, <2>5, SeqEqual DEF Text
<1> QED
  BY <1>3, <1>4 DEF MetaIn, text, part

(* A file that is written over with at least as much has what was written, *)
(* and a file that has not become longer is read whole (rcfs_save,         *)
(* ne_load_file_len).                                                      *)
LEMMA OverIsExact ==
  ASSUME NEW S, NEW data \in Seq(S), NEW old \in Seq(S)
  PROVE  /\ Over(data, old) \in Seq(S)
         /\ Len(old) <= Len(data) => Over(data, old) = data
         /\ Front(data) \in Seq(S)
<1>1. Len(data) \in Nat /\ Len(old) \in Nat
  OBVIOUS
<1>2. SubSeq(old, Len(data) + 1, Len(old)) \in Seq(S)
  <2>1. \A i \in Len(data) + 1 .. Len(old) : old[i] \in S
    BY <1>1
  <2> QED
    BY <1>1, <2>1, SubSeqProperties
<1>3. Front(data) \in Seq(S)
  <2>1. \A i \in 1 .. Len(data) - 1 : data[i] \in S
    BY <1>1
  <2> QED
    BY <1>1, <2>1, SubSeqProperties DEF Front
<1>4. ASSUME Len(old) <= Len(data) PROVE Over(data, old) = data
  <2>1. SubSeq(old, Len(data) + 1, Len(old)) = <<>>
    BY <1>1, <1>4, SubSeqEmpty
  <2> QED
    BY <2>1, ConcatEmptySeq DEF Over
<1> QED
  BY <1>2, <1>3, <1>4, ConcatProperties DEF Over
-----------------------------------------------------------------------------
Saved == Len(past.saved)
File == Seq(Lines \cup {"none"})
Critical == {"log", "open", "write", "tmp", "rename", "unlock"}
Reading == {"statlog", "readlog", "stat", "read"}
Pcs == Critical \cup Reading \cup {"idle", "lock"}
Local ==
  [pc : Pcs,
   op : {"none", "save", "meta", "load", "version"},
   data : Datas \cup {<<>>}, k : 0 .. MaxCalls, meta : AnyMeta, size : Nat, since : Nat,
   answer : {NONE, <<"notfound">>, <<"parse">>} \cup ({"ok"} \X File)]
TypeOK ==
  /\ disk \in [log : File, tmp : File, version : [Versions -> File]]
  /\ lock \in Processes \cup {0}
  /\ proc \in [Processes -> Local]
  /\ past.saved \in Seq(Datas) /\ past.calls \in Nat

(* The call that a process is in tells which steps it takes.               *)
CallFits(p) ==
  \/ proc[p].pc = "idle"
  \/ /\ proc[p].op = "save" /\ proc[p].pc \in Critical \cup {"lock"}
     /\ proc[p].data \in Datas
  \/ proc[p].op = "meta" /\ proc[p].pc \in {"lock", "log", "tmp", "rename", "unlock"}
  \/ proc[p].op = "load" /\ proc[p].pc \in Reading
  \/ proc[p].op = "version" /\ proc[p].pc \in {"stat", "read"}

(* One process at a time is past the lock; it knows the latest version, and *)
(* what it has written of the next one is there.                            *)
WriterFits(p) ==
  /\ proc[p].pc \in Critical => lock = p
  /\ proc[p].pc \in {"lock", "log"} => proc[p].k = 0
  /\ proc[p].pc \in {"open", "write", "tmp", "rename"} => proc[p].k = Saved
  /\ proc[p].op = "save" /\ proc[p].pc \in {"tmp", "rename"} =>
       Saved + 1 \in past.remnants \/ disk.version[Saved + 1] = proc[p].data
  /\ proc[p].pc = "rename" =>
       disk.tmp = LogText(Saved + (IF proc[p].op = "save" THEN 1 ELSE 0), proc[p].meta)

(* A load has come to a version that was the latest at some time since its *)
(* start, and knows how long the version is.                               *)
Current(p) ==
  /\ proc[p].k <= Saved
  /\ proc[p].op = "load" => proc[p].since <= proc[p].k
Seen(p) == Current(p) /\ proc[p].k # 0
ReaderFits(p) ==
  /\ proc[p].since <= Saved
  /\ proc[p].pc # "idle" => proc[p].answer = NONE
  /\ proc[p].pc = "readlog" => disk.log # NONE /\ proc[p].since <= proc[p].size
  /\ proc[p].pc = "stat" => Current(p)
  /\ proc[p].pc = "read" =>
       Seen(p) /\ (proc[p].k \in past.remnants \/ proc[p].size = Len(past.saved[proc[p].k]))
  /\ proc[p].answer[1] = "ok" =>
       Seen(p) /\ (proc[p].k \in past.remnants \/ proc[p].answer[2] = past.saved[proc[p].k])

LogFits ==
  \/ disk.log = NONE /\ Saved = 0
  \/ \E m \in AnyMeta : disk.log = LogText(Saved, m)
VersionsFit ==
  \A n \in 1 .. Saved : n \in past.remnants \/ disk.version[n] = past.saved[n]

(* Each version that was saved, or is being saved, was called for.         *)
Saving == {p \in Processes : proc[p].op = "save" /\ proc[p].pc \in (Critical \cup {"lock"}) \ {"unlock"}}
CallsCount == Saved + Cardinality(Saving) <= past.calls /\ past.calls <= MaxCalls

StoreInv ==
  /\ TypeOK
  /\ \A p \in Processes : CallFits(p) /\ WriterFits(p) /\ ReaderFits(p)
  /\ LogFits
  /\ VersionsFit
  /\ CallsCount

(* A full disk that nobody noticed ends what is promised.                  *)
PastFields == {"saved", "remnants", "cut", "calls", "crashes", "faults"}
RcfsInv ==
  /\ DOMAIN past = PastFields /\ past.cut \in BOOLEAN
  /\ past.cut \/ StoreInv
-----------------------------------------------------------------------------
(* What every step does to what others know: versions are added behind     *)
(* those that are there, which are not touched.                            *)
Grows ==
  /\ past'.saved \in Seq(Datas) /\ Saved <= Len(past'.saved)
  /\ \A n \in 1 .. Saved : past'.saved[n] = past.saved[n]
  /\ past.remnants \subseteq past'.remnants
  /\ disk.log # NONE => disk'.log # NONE
OneKind == past'.saved = past.saved /\ past'.remnants = past.remnants /\ past'.calls = past.calls

(* How many versions were saved is a number.                               *)
LEMMA SavedIsNat ==
  ASSUME past.saved \in Seq(Datas)
  PROVE  Saved \in Nat /\ DOMAIN past.saved = 1 .. Saved
BY LenProperties DEF Saved

(* What a load has seen stays right while others add versions: it takes no *)
(* lock, and needs none (rcfs_load).                                       *)
LEMMA ReaderStays ==
  ASSUME TypeOK, NEW q \in Processes, ReaderFits(q), proc'[q] = proc[q], Grows
  PROVE  ReaderFits(q)'
<1>1. proc[q].since \in Nat /\ proc[q].k \in Nat /\ proc[q].size \in Nat
  BY DEF TypeOK, Local
<1>2. Saved \in Nat /\ Saved' \in Nat /\ Saved <= Saved'
  BY LenProperties DEF TypeOK, Saved, Grows
<1>3. Current(q) => Current(q)'
  BY <1>1, <1>2 DEF Current
<1>4. Seen(q) => Seen(q)' /\ proc[q].k \in 1 .. Saved
  BY <1>1, <1>2, <1>3 DEF Seen, Current
<1>5. Seen(q) => past'.saved[proc[q].k] = past.saved[proc[q].k]
  BY <1>4 DEF Grows
<1>6. (proc[q].since <= Saved)'
  BY <1>1, <1>2 DEF ReaderFits
<1> QED
  BY <1>3, <1>4, <1>5, <1>6 DEF ReaderFits, Grows

(* What a saver relies on stays right while it has the lock: nobody else   *)
(* writes (rcfs_lock).                                                     *)
LEMMA WriterStays ==
  ASSUME NEW q \in Processes, CallFits(q), WriterFits(q), proc'[q] = proc[q],
         proc[q].pc \in Critical =>
           lock' = lock /\ disk' = disk /\ past'.saved = past.saved /\ past'.remnants = past.remnants
  PROVE  WriterFits(q)'
<1>1. CASE proc[q].pc \in Critical
  BY <1>1 DEF WriterFits, Saved
<1>2. CASE proc[q].pc \notin Critical
  BY <1>2 DEF WriterFits, Saved, Critical
<1> QED
  BY <1>1, <1>2

(* The count of the calls holds when savers leave.                         *)
LEMMA FewerSaving ==
  ASSUME RcfsAssumption, TypeOK, CallsCount, Saving' \subseteq Saving, past'.saved = past.saved, past'.calls = past.calls
  PROVE  CallsCount'
<1>1. Saved \in Nat /\ past.calls \in Nat /\ MaxCalls \in Nat /\ Saved' = Saved
  BY SavedIsNat DEF TypeOK, Saved, RcfsAssumption
<1>2. IsFiniteSet(Saving)
  BY FS_Subset DEF Saving, RcfsAssumption
<1>3. /\ Cardinality(Saving) \in Nat /\ Cardinality(Saving') \in Nat
      /\ Cardinality(Saving') <= Cardinality(Saving)
  BY <1>2, FS_Subset, FS_CardinalityType
<1> QED
  BY <1>1, <1>3 DEF CallsCount

(* A step of p keeps the invariant when it leaves what the process past    *)
(* the lock relies on.                                                     *)
LEMMA Preserved ==
  ASSUME RcfsAssumption, StoreInv, NEW p \in Processes, NEW r \in Local,
         proc' = [proc EXCEPT ![p] = r],
         disk' \in [log : File, tmp : File, version : [Versions -> File]],
         lock' \in Processes \cup {0}, past'.calls \in Nat, Grows,
         \A q \in Processes \ {p} : proc[q].pc \in Critical =>
           lock' = lock /\ disk' = disk /\ past'.saved = past.saved /\ past'.remnants = past.remnants,
         CallFits(p)', WriterFits(p)', ReaderFits(p)', LogFits', VersionsFit', CallsCount'
  PROVE  StoreInv'
<1>1. TypeOK'
  BY DEF StoreInv, TypeOK, Grows
<1>2. ASSUME NEW q \in Processes PROVE (CallFits(q) /\ WriterFits(q) /\ ReaderFits(q))'
  <2>1. CASE q = p
    BY <2>1
  <2>2. CASE q # p
    <3>1. proc'[q] = proc[q]
      BY <2>2 DEF StoreInv, TypeOK
    <3>2. TypeOK /\ CallFits(q) /\ WriterFits(q) /\ ReaderFits(q)
      BY DEF StoreInv
    <3>3. CallFits(q)'
      BY <3>1, <3>2 DEF CallFits
    <3>4. WriterFits(q)'
      BY <2>2, <3>1, <3>2, WriterStays
    <3>5. ReaderFits(q)'
      BY <3>1, <3>2, ReaderStays
    <3> QED
      BY <3>3, <3>4, <3>5
  <2> QED
    BY <2>1, <2>2
<1> QED
  BY <1>1, <1>2 DEF StoreInv

(* A step that changes only where p is.                                    *)
LEMMA QuietStep ==
  ASSUME RcfsAssumption, StoreInv, NEW p \in Processes, NEW r \in Local,
         proc' = [proc EXCEPT ![p] = r], disk' = disk, lock' = lock, OneKind,
         r.op = "save" /\ r.pc \in Critical \ {"unlock"} => p \in Saving,
         r.pc # "lock",
         CallFits(p)', WriterFits(p)', ReaderFits(p)'
  PROVE  StoreInv'
<1>1. Grows
  BY SavedIsNat DEF Grows, OneKind, StoreInv, TypeOK, Saved
<1>2. proc'[p] = r /\ \A q \in Processes \ {p} : proc'[q] = proc[q]
  BY DEF StoreInv, TypeOK
<1>3. Saving' \subseteq Saving
  BY <1>2 DEF Saving
<1>4. CallsCount'
  BY <1>3, FewerSaving DEF StoreInv, OneKind
<1>5. LogFits' /\ VersionsFit'
  BY DEF LogFits, VersionsFit, Saved, StoreInv, OneKind
<1>6. /\ disk' \in [log : File, tmp : File, version : [Versions -> File]]
      /\ lock' \in Processes \cup {0} /\ past'.calls \in Nat
  BY DEF StoreInv, TypeOK, OneKind
<1>7. \A q \in Processes \ {p} : proc[q].pc \in Critical =>
        lock' = lock /\ disk' = disk /\ past'.saved = past.saved /\ past'.remnants = past.remnants
  BY DEF OneKind
<1> QED
  BY <1>1, <1>4, <1>5, <1>6, <1>7, Preserved
-----------------------------------------------------------------------------
(* What a step finds when it is taken.                                     *)
LEMMA SavedFits ==
  ASSUME RcfsAssumption, StoreInv
  PROVE  Saved \in Nat /\ MaxCalls \in Nat /\ Saved <= MaxCalls
<1>1. Saved \in Nat /\ MaxCalls \in Nat /\ past.calls \in Nat
  BY SavedIsNat DEF StoreInv, TypeOK, RcfsAssumption
<1>2. Cardinality(Saving) \in Nat
  BY FS_Subset, FS_CardinalityType DEF Saving, RcfsAssumption
<1> QED
  BY <1>1, <1>2 DEF StoreInv, CallsCount

(* What the invariant says of the process that is about to step.           *)
LEMMA Before ==
  ASSUME RcfsAssumption, StoreInv, NEW p \in Processes
  PROVE  /\ proc[p] \in Local /\ CallFits(p) /\ WriterFits(p) /\ ReaderFits(p)
         /\ Saved \in Nat /\ MaxCalls \in Nat /\ Saved <= MaxCalls
         /\ \A q \in Processes : WriterFits(q) /\ q # 0
BY SavedFits DEF StoreInv, TypeOK, RcfsAssumption

(* A call begins (rcfs_save, rcfs_meta_save, rcfs_load).                   *)
LEMMA CallStep ==
  ASSUME RcfsAssumption, StoreInv, NEW p \in Processes, NEW r \in Local, DOMAIN past = PastFields,
         Call(p, r), r.answer = NONE, r.op # "none",
         r.op = "save" => r.data \in Datas,
         r.op = "version" => r.k \in 1 .. Saved,
         r.op # "version" => r.k = 0
  PROVE  StoreInv'
<1> DEFINE s == [r EXCEPT !.pc = Head(Steps(r.op)), !.since = Len(past.saved)]
<1>1. Saved \in Nat /\ MaxCalls \in Nat /\ past.calls \in Nat /\ IsFiniteSet(Processes)
  BY Before DEF StoreInv, TypeOK, RcfsAssumption
<1>2. /\ r.op \in {"save", "meta"} => Head(Steps(r.op)) = "lock"
      /\ r.op = "load" => Head(Steps(r.op)) = "statlog"
      /\ r.op = "version" => Head(Steps(r.op)) = "stat"
  <2>1. r.op = "save" => Head(Steps(r.op)) = "lock"
    BY DEF Steps, SaveSteps
  <2>2. r.op = "meta" => Head(Steps(r.op)) = "lock"
    BY DEF Steps
  <2>3. r.op = "load" => Head(Steps(r.op)) = "statlog"
    BY DEF Steps
  <2>4. r.op = "version" => Head(Steps(r.op)) = "stat"
    BY DEF Steps
  <2> QED
    BY <2>1, <2>2, <2>3, <2>4
<1>3. /\ s \in Local /\ s.op = r.op /\ s.k = r.k /\ s.data = r.data /\ s.answer = NONE /\ s.since = Saved
      /\ s.pc = Head(Steps(r.op))
      /\ r.op \in {"save", "meta", "load", "version"}
  BY <1>1, <1>2 DEF Local, Pcs, Reading, Saved
<1>4. /\ proc' = [proc EXCEPT ![p] = s] /\ disk' = disk /\ lock' = lock
      /\ past'.saved = past.saved /\ past'.remnants = past.remnants /\ past'.calls = past.calls + 1
      /\ proc[p].pc = "idle" /\ past.calls < MaxCalls
  BY DEF Call, PastFields, At
<1> HIDE DEF s
<1>5. proc'[p] = s /\ \A q \in Processes \ {p} : proc'[q] = proc[q]
  BY <1>4 DEF StoreInv, TypeOK
<1>6. CallFits(p)'
  BY <1>2, <1>3, <1>5 DEF CallFits, Reading
<1>7. WriterFits(p)'
  BY <1>2, <1>3, <1>5 DEF WriterFits, Critical
<1>8. ReaderFits(p)'
  <2>1. Saved' = Saved
    BY <1>4 DEF Saved
  <2>2. Current(p)' \/ s.pc # "stat"
    BY <1>1, <1>2, <1>3, <1>5, <2>1 DEF Current
  <2>3. NONE[1] # "ok"
    BY DEF NONE
  <2> QED
    BY <1>1, <1>2, <1>3, <1>5, <2>1, <2>2, <2>3 DEF ReaderFits
<1>9. CallsCount'
  <2>1. Saving' \subseteq Saving \cup {p}
    BY <1>4, <1>5 DEF Saving
  <2>2. IsFiniteSet(Saving)
    BY <1>1, FS_Subset DEF Saving
  <2>3. /\ IsFiniteSet(Saving \cup {p}) /\ Cardinality(Saving) \in Nat
        /\ Cardinality(Saving \cup {p}) \in Nat
        /\ Cardinality(Saving \cup {p}) <= Cardinality(Saving) + 1
    <3>1. /\ IsFiniteSet(Saving \cup {p})
          /\ Cardinality(Saving \cup {p}) = IF p \in Saving THEN Cardinality(Saving) ELSE Cardinality(Saving) + 1
      BY <2>2, FS_AddElement
    <3>2. Cardinality(Saving) \in Nat
      BY <2>2, FS_CardinalityType
    <3> QED
      BY <3>1, <3>2
  <2>4. Cardinality(Saving') \in Nat /\ Cardinality(Saving') <= Cardinality(Saving \cup {p})
    BY <2>1, <2>3, FS_Subset, FS_CardinalityType
  <2>5. Saved + Cardinality(Saving) <= past.calls /\ Saved' = Saved
    BY <1>4 DEF StoreInv, CallsCount, Saved
  <2> QED
    BY <1>1, <1>4, <2>3, <2>4, <2>5 DEF CallsCount
<1>10. LogFits' /\ VersionsFit'
  BY <1>4 DEF LogFits, VersionsFit, Saved, StoreInv
<1>11. Grows
  BY <1>1, <1>4 DEF Grows, StoreInv, TypeOK, Saved
<1>12. /\ disk' \in [log : File, tmp : File, version : [Versions -> File]]
       /\ lock' \in Processes \cup {0} /\ past'.calls \in Nat
  BY <1>1, <1>4 DEF StoreInv, TypeOK
<1> QED
  BY <1>3, <1>4, <1>6, <1>7, <1>8, <1>9, <1>10, <1>11, <1>12, Preserved

(* Each of the four calls begins as it should (rcfs_save, rcfs_meta_save,  *)
(* rcfs_load).                                                             *)
LEMMA CallSteps ==
  ASSUME RcfsAssumption, StoreInv, NEW p \in Processes, DOMAIN past = PastFields,
         Save(p) \/ MetaSave(p) \/ Load(p) \/ LoadVersion(p)
  PROVE  StoreInv'
<1>1. CASE Save(p)
  <2>1. PICK d \in Datas : Call(p, [Idle EXCEPT !.op = "save", !.data = d])
    BY <1>1 DEF Save
  <2> DEFINE i == [Idle EXCEPT !.op = "save"]
             r == [i EXCEPT !.data = d]
  <2>2. r \in Local /\ r.answer = NONE /\ r.op = "save" /\ r.data = d /\ r.k = 0
    <3>1. i \in Local /\ i.answer = NONE /\ i.op = "save" /\ i.k = 0
      BY Before DEF Idle, Local, Pcs, AnyMeta
    <3> HIDE DEF i
    <3> QED
      BY <3>1 DEF Local, AnyMeta
  <2> HIDE DEF r
  <2>3. Call(p, r)
    BY <2>1 DEF r
  <2> QED
    BY <2>2, <2>3, CallStep
<1>2. CASE MetaSave(p)
  <2>1. PICK m \in Metas : Call(p, [Idle EXCEPT !.op = "meta", !.meta = m])
    BY <1>2 DEF MetaSave
  <2> DEFINE i == [Idle EXCEPT !.op = "meta"]
             r == [i EXCEPT !.meta = m]
  <2>2. r \in Local /\ r.answer = NONE /\ r.op = "meta" /\ r.k = 0
    <3>1. i \in Local /\ i.answer = NONE /\ i.op = "meta" /\ i.k = 0
      BY Before DEF Idle, Local, Pcs, AnyMeta
    <3> HIDE DEF i
    <3> QED
      BY <3>1 DEF Local, AnyMeta
  <2> HIDE DEF r
  <2>3. Call(p, r)
    BY <2>1 DEF r
  <2> QED
    BY <2>2, <2>3, CallStep
<1>3. CASE Load(p)
  <2> DEFINE r == [Idle EXCEPT !.op = "load"]
  <2>2. r \in Local /\ r.answer = NONE /\ r.op = "load" /\ r.k = 0
    BY Before DEF Idle, Local, Pcs, AnyMeta
  <2>3. Call(p, r)
    BY <1>3 DEF Load
  <2> HIDE DEF r
  <2> QED
    BY <2>2, <2>3, CallStep
<1>4. CASE LoadVersion(p)
  <2>1. PICK n \in 1 .. Saved : Call(p, [Idle EXCEPT !.op = "version", !.k = n])
    BY <1>4 DEF LoadVersion, Saved
  <2> DEFINE r == [Idle EXCEPT !.op = "version", !.k = n]
  <2>0. n \in 0 .. MaxCalls
    BY Before
  <2>2. r \in Local /\ r.answer = NONE /\ r.op = "version" /\ r.k = n
    BY <2>0 DEF Idle, Local, Pcs, AnyMeta
  <2> HIDE DEF r
  <2>3. Call(p, r)
    BY <2>1 DEF r
  <2> QED
    BY <2>2, <2>3, CallStep
<1> QED
  BY <1>1, <1>2, <1>3, <1>4

(* The lock is taken and given back (rcfs_lock, rcfs_unlock), and a        *)
(* process that ends loses it.                                             *)
LEMMA LockStep ==
  ASSUME RcfsAssumption, StoreInv, NEW p \in Processes, Lock(p) \/ Unlock(p)
  PROVE  StoreInv'
<1> DEFINE r == [proc[p] EXCEPT !.pc = After(p)]
<1>1. /\ proc[p] \in Local /\ CallFits(p) /\ WriterFits(p) /\ ReaderFits(p)
      /\ \A q \in Processes : WriterFits(q) /\ q # 0
  BY Before
<1>2. /\ proc' = [proc EXCEPT ![p] = r] /\ disk' = disk /\ past' = past
      /\ lock' \in {0, p} /\ lock \in {0, p}
      /\ (proc[p].pc = "lock" /\ lock' = p) \/ proc[p].pc = "unlock"
  BY <1>1 DEF Lock, Unlock, Then, At, WriterFits, Critical
<1>3. /\ proc[p].pc = "lock" => After(p) = "log"
      /\ proc[p].pc = "unlock" => After(p) = "idle"
  BY <1>1, <1>2, AfterSave, AfterMeta DEF CallFits, Reading
<1>4. /\ r \in Local /\ r.pc = After(p) /\ r.op = proc[p].op /\ r.data = proc[p].data /\ r.k = proc[p].k
      /\ r.since = proc[p].since /\ r.answer = proc[p].answer
  BY <1>1, <1>2, <1>3 DEF Local, Pcs, Critical
<1> HIDE DEF r
<1>5. proc'[p] = r /\ \A q \in Processes \ {p} : proc'[q] = proc[q]
  BY <1>2 DEF StoreInv, TypeOK
<1>6. CallFits(p)'
  BY <1>1, <1>2, <1>3, <1>4, <1>5 DEF CallFits, Critical, Reading
<1>7. WriterFits(p)'
  BY <1>1, <1>2, <1>3, <1>4, <1>5 DEF WriterFits, Critical
<1>8. ReaderFits(p)'
  <2>1. NONE[1] # "ok" /\ Saved' = Saved
    BY <1>2 DEF NONE, Saved
  <2> QED
    BY <1>1, <1>2, <1>3, <1>4, <1>5, <2>1 DEF ReaderFits
<1>9. CallsCount'
  <2>1. Saving' \subseteq Saving
    BY <1>2, <1>3, <1>4, <1>5 DEF Saving, Critical
  <2> QED
    BY <1>2, <2>1, FewerSaving DEF StoreInv
<1>10. LogFits' /\ VersionsFit'
  BY <1>2 DEF LogFits, VersionsFit, Saved, StoreInv
<1>11. Grows
  BY <1>2, SavedIsNat DEF Grows, StoreInv, TypeOK, Saved
<1>12. /\ disk' \in [log : File, tmp : File, version : [Versions -> File]]
       /\ lock' \in Processes \cup {0} /\ past'.calls \in Nat
  BY <1>2 DEF StoreInv, TypeOK
<1>13. \A q \in Processes \ {p} : proc[q].pc \notin Critical
  BY <1>1, <1>2 DEF WriterFits
<1> QED
  BY <1>2, <1>4, <1>6, <1>7, <1>8, <1>9, <1>10, <1>11, <1>12, <1>13, Preserved

(* A process that ends gives up the lock and leaves the files as they are. *)
LEMMA CrashStep ==
  ASSUME RcfsAssumption, StoreInv, NEW p \in Processes, DOMAIN past = PastFields, Crash(p)
  PROVE  StoreInv'
<1>1. \A q \in Processes : WriterFits(q)
  BY Before
<1>2. /\ proc' = [proc EXCEPT ![p] = Idle] /\ disk' = disk
      /\ past'.saved = past.saved /\ past'.remnants = past.remnants /\ past'.calls = past.calls
      /\ lock' = IF lock = p THEN 0 ELSE lock
  BY DEF Crash, PastFields
<1>3. Idle \in Local /\ Idle.pc = "idle" /\ Idle.since = 0 /\ Idle.answer = NONE /\ Idle.k = 0
  BY Before DEF Idle, Local, Pcs, AnyMeta
<1>5. proc'[p] = Idle /\ \A q \in Processes \ {p} : proc'[q] = proc[q]
  BY <1>2 DEF StoreInv, TypeOK
<1>6. CallFits(p)'
  BY <1>3, <1>5 DEF CallFits
<1>7. WriterFits(p)'
  BY <1>3, <1>5 DEF WriterFits, Critical
<1>8. ReaderFits(p)'
  <2>1. NONE[1] # "ok" /\ Saved' = Saved /\ 0 <= Saved
    BY <1>2, Before DEF NONE, Saved
  <2> QED
    BY <1>3, <1>5, <2>1 DEF ReaderFits
<1>9. CallsCount'
  <2>1. Saving' \subseteq Saving
    BY <1>2, <1>3, <1>5 DEF Saving, Critical
  <2> QED
    BY <1>2, <2>1, FewerSaving DEF StoreInv
<1>10. LogFits' /\ VersionsFit'
  BY <1>2 DEF LogFits, VersionsFit, Saved, StoreInv
<1>11. Grows
  BY <1>2, SavedIsNat DEF Grows, StoreInv, TypeOK, Saved
<1>12. /\ disk' \in [log : File, tmp : File, version : [Versions -> File]]
       /\ lock' \in Processes \cup {0} /\ past'.calls \in Nat
  BY <1>2 DEF StoreInv, TypeOK
<1>13. \A q \in Processes \ {p} : proc[q].pc \in Critical => lock' = lock
  BY <1>1, <1>2 DEF WriterFits
<1> QED
  BY <1>2, <1>3, <1>6, <1>7, <1>8, <1>9, <1>10, <1>11, <1>12, <1>13, Preserved
-----------------------------------------------------------------------------
(* A process that only goes on keeps its other locals.                     *)
LEMMA PcSet ==
  ASSUME NEW r \in Local, NEW x \in Pcs
  PROVE  /\ [r EXCEPT !.pc = x] \in Local
         /\ [r EXCEPT !.pc = x].pc = x
         /\ [r EXCEPT !.pc = x].op = r.op
         /\ [r EXCEPT !.pc = x].data = r.data
         /\ [r EXCEPT !.pc = x].k = r.k
         /\ [r EXCEPT !.pc = x].meta = r.meta
         /\ [r EXCEPT !.pc = x].size = r.size
         /\ [r EXCEPT !.pc = x].since = r.since
         /\ [r EXCEPT !.pc = x].answer = r.answer
BY DEF Local

(* An answer that is not of a load that succeeded does not look like one.  *)
LEMMA OkIsAnswer == NONE[1] # "ok" /\ <<"notfound">>[1] # "ok" /\ <<"parse">>[1] # "ok"
BY DEF NONE

(* A process past the lock gives up, or returns with the lock.             *)
LEMMA GivesUp ==
  ASSUME RcfsAssumption, StoreInv, NEW p \in Processes, OneKind, disk' = disk, lock' = lock,
         proc[p].pc \in Critical, NEW x \in {"unlock", "idle"},
         x = "unlock" => proc[p].op \in {"save", "meta"},
         proc' = [proc EXCEPT ![p] = [proc[p] EXCEPT !.pc = x]]
  PROVE  StoreInv'
<1> DEFINE s == [proc[p] EXCEPT !.pc = x]
<1>1. proc[p] \in Local /\ CallFits(p) /\ WriterFits(p) /\ ReaderFits(p) /\ x \in Pcs
  BY Before DEF Pcs, Critical
<1>2. /\ s \in Local /\ s.pc = x /\ s.op = proc[p].op /\ s.data = proc[p].data
      /\ s.since = proc[p].since /\ s.answer = proc[p].answer
  BY <1>1, PcSet
<1>3. proc' = [proc EXCEPT ![p] = s]
  OBVIOUS
<1> HIDE DEF s
<1>4. proc'[p] = s
  BY <1>3 DEF StoreInv, TypeOK
<1>5. CallFits(p)'
  BY <1>1, <1>2, <1>4 DEF CallFits, Critical, Reading
<1>6. WriterFits(p)'
  BY <1>1, <1>2, <1>4 DEF WriterFits, Critical
<1>7. ReaderFits(p)'
  <2>1. Saved' = Saved /\ proc[p].answer = NONE
    BY <1>1 DEF OneKind, Saved, ReaderFits, Critical
  <2> QED
    BY <1>1, <1>2, <1>4, <2>1, OkIsAnswer DEF ReaderFits
<1>8. (s.op = "save" /\ s.pc \in Critical \ {"unlock"} => p \in Saving) /\ s.pc # "lock"
  BY <1>2 DEF Critical
<1> QED
  BY <1>2, <1>3, <1>5, <1>6, <1>7, <1>8, QuietStep

(* The saver learns the latest version from the log (rcfs_meta_load).      *)
LEMMA ReadLogStep ==
  ASSUME RcfsAssumption, StoreInv, NEW p \in Processes, DOMAIN past = PastFields, ReadLog(p)
  PROVE  StoreInv'
<1>1. /\ proc[p] \in Local /\ CallFits(p) /\ WriterFits(p) /\ ReaderFits(p)
      /\ Saved \in 0 .. MaxCalls /\ proc[p].pc = "log" /\ proc[p].op \in {"save", "meta"}
      /\ disk' = disk /\ lock' = lock
  BY Before DEF ReadLog, At, CallFits, Reading
<1>2. OneKind
  BY DEF ReadLog, OneKind, Fault, PastFields
<1>3. PICK m \in AnyMeta : (disk.log = NONE /\ Saved = 0) \/ disk.log = LogText(Saved, m)
  BY DEF StoreInv, LogFits, AnyMeta
<1> DEFINE meta == IF proc[p].op = "meta" THEN proc[p].meta ELSE MetaIn(disk.log)
           i == [proc[p] EXCEPT !.k = ListedIn(disk.log)]
           r == [i EXCEPT !.meta = meta]
           s == [r EXCEPT !.pc = After(p)]
<1>4. CASE disk.log # NONE /\ Then(p, r)
  <2>1. disk.log = LogText(Saved, m) /\ ListedIn(disk.log) = Saved /\ meta \in AnyMeta
    BY <1>1, <1>3, <1>4, LogReads DEF Local
  <2> HIDE DEF meta
  <2>2. i \in Local /\ i.k = Saved /\ i.op = proc[p].op /\ i.data = proc[p].data
        /\ i.since = proc[p].since /\ i.answer = proc[p].answer
    BY <1>1, <2>1 DEF Local
  <2> HIDE DEF i
  <2>3. r \in Local /\ r.k = Saved /\ r.op = proc[p].op /\ r.data = proc[p].data
        /\ r.since = proc[p].since /\ r.answer = proc[p].answer
    BY <2>1, <2>2 DEF Local
  <2> HIDE DEF r
  <2>4. After(p) = IF proc[p].op = "save" THEN "open" ELSE "tmp"
    BY <1>1, AfterSave, AfterMeta
  <2>5. After(p) \in Pcs
    BY <2>4 DEF Pcs, Critical
  <2>6. /\ s \in Local /\ s.pc = After(p) /\ s.op = proc[p].op /\ s.data = proc[p].data /\ s.k = Saved
        /\ s.since = proc[p].since /\ s.answer = proc[p].answer
    BY <2>3, <2>5, PcSet
  <2>7. proc' = [proc EXCEPT ![p] = s]
    BY <1>4 DEF Then
  <2> HIDE DEF s
  <2>8. proc'[p] = s /\ Saved' = Saved
    BY <1>2, <2>7 DEF StoreInv, TypeOK, OneKind, Saved
  <2>9. CallFits(p)'
    BY <1>1, <2>4, <2>6, <2>8 DEF CallFits, Critical
  <2>10. WriterFits(p)'
    BY <1>1, <2>4, <2>6, <2>8 DEF WriterFits, Critical
  <2>11. ReaderFits(p)'
    BY <1>1, <2>4, <2>6, <2>8, OkIsAnswer DEF ReaderFits
  <2>12. (s.op = "save" /\ s.pc \in Critical \ {"unlock"} => p \in Saving) /\ s.pc # "lock"
    BY <1>1, <2>4, <2>6 DEF Saving, Critical
  <2> QED
    BY <1>1, <1>2, <2>6, <2>7, <2>9, <2>10, <2>11, <2>12, QuietStep
<1>5. CASE disk.log = NONE /\ proc[p].op = "save" /\ Then(p, proc[p])
  <2> DEFINE t == [proc[p] EXCEPT !.pc = After(p)]
  <2>1. After(p) = "open" /\ After(p) \in Pcs
    BY <1>1, <1>5, AfterSave DEF Pcs, Critical
  <2>2. Saved = 0 /\ proc[p].k = 0
    BY <1>1, <1>3, <1>5, LogLines DEF WriterFits
  <2>3. /\ t \in Local /\ t.pc = "open" /\ t.op = "save" /\ t.data = proc[p].data /\ t.k = 0
        /\ t.since = proc[p].since /\ t.answer = proc[p].answer
    BY <1>1, <1>5, <2>1, <2>2, PcSet
  <2>4. proc' = [proc EXCEPT ![p] = t]
    BY <1>5 DEF Then
  <2> HIDE DEF t
  <2>5. proc'[p] = t /\ Saved' = Saved
    BY <1>2, <2>4 DEF StoreInv, TypeOK, OneKind, Saved
  <2>6. CallFits(p)'
    BY <1>1, <1>5, <2>3, <2>5 DEF CallFits, Critical
  <2>7. WriterFits(p)'
    BY <1>1, <2>2, <2>3, <2>5 DEF WriterFits, Critical
  <2>8. ReaderFits(p)'
    BY <1>1, <2>3, <2>5, OkIsAnswer DEF ReaderFits
  <2>9. p \in Saving
    BY <1>1, <1>5 DEF Saving, Critical
  <2> QED
    BY <1>1, <1>2, <2>3, <2>4, <2>6, <2>7, <2>8, <2>9, QuietStep
<1>6. CASE Abandon(p) \/ Return(p, proc[p])
  <2>1. PICK x \in {"unlock", "idle"} : proc' = [proc EXCEPT ![p] = [proc[p] EXCEPT !.pc = x]]
    BY <1>6 DEF Abandon, Return
  <2> QED
    BY <1>1, <1>2, <2>1, GivesUp DEF Critical
<1>7. \/ disk.log # NONE /\ Then(p, r)
      \/ disk.log = NONE /\ proc[p].op = "save" /\ Then(p, proc[p])
      \/ Abandon(p) \/ Return(p, proc[p])
  BY DEF ReadLog
<1> QED
  BY <1>4, <1>5, <1>6, <1>7
-----------------------------------------------------------------------------
(* The least of two numbers.                                               *)
LEMMA MinOfTwo ==
  ASSUME NEW a \in Nat, NEW b \in Nat
  PROVE  Min({a, b}) = IF a <= b THEN a ELSE b
<1>1. Min({a, b}) \in {a, b} /\ \A y \in {a, b} : Min({a, b}) <= y
  BY Least
<1> QED
  BY <1>1

(* A load looks at a file: what it learns is its length (stat in           *)
(* ne_load_file_len).                                                      *)
LEMMA LooksAt ==
  ASSUME RcfsAssumption, StoreInv, NEW p \in Processes, NEW r \in Local, OneKind, disk' = disk, lock' = lock,
         proc[p].pc \in Reading,
         proc' = [proc EXCEPT ![p] = r],
         r.op = proc[p].op, r.since = proc[p].since,
         \/ r.pc = "idle" /\ r.answer \in {<<"notfound">>, <<"parse">>}
         \/ r.pc = "readlog" /\ r.op = "load" /\ r.answer = NONE /\ disk.log # NONE /\ r.since <= r.size
         \/ r.pc = "stat" /\ r.op = "load" /\ r.answer = NONE /\ r.k <= Saved /\ r.since <= r.k
         \/ /\ r.pc = "read" /\ r.answer = NONE /\ r.k = proc[p].k /\ Seen(p)
            /\ r.k \in past.remnants \/ r.size = Len(past.saved[r.k])
         \/ /\ r.pc = "idle" /\ r.answer[1] = "ok" /\ r.k = proc[p].k /\ Seen(p)
            /\ r.k \in past.remnants \/ r.answer[2] = past.saved[r.k]
  PROVE  StoreInv'
<1>1. proc[p] \in Local /\ CallFits(p) /\ WriterFits(p) /\ ReaderFits(p)
  BY Before
<1>2. proc'[p] = r /\ Saved' = Saved
  BY DEF StoreInv, TypeOK, OneKind, Saved
<1>3. r.op \in {"load", "version"}
  BY <1>1 DEF CallFits, Reading, Critical
<1>4. CallFits(p)'
  BY <1>1, <1>2, <1>3 DEF CallFits, Reading
<1>5. WriterFits(p)'
  BY <1>2, <1>3 DEF WriterFits, Critical
<1>6. Seen(p) /\ r.k = proc[p].k => Seen(p)'
  BY <1>2 DEF Seen, Current
<1>7. r.op = "load" /\ r.k <= Saved /\ r.since <= r.k => Current(p)'
  BY <1>2 DEF Current
<1>8. ReaderFits(p)'
  BY <1>1, <1>2, <1>6, <1>7, OkIsAnswer DEF ReaderFits, OneKind
<1> QED
  BY <1>2, <1>3, <1>4, <1>5, <1>8, QuietStep DEF Critical

(* The length of a file is a number.                                       *)
LEMMA FileLength ==
  ASSUME NEW f \in File
  PROVE  Len(f) \in Nat
BY LenProperties DEF File

(* A load asks for the length of the log: it is at least that of the list  *)
(* when the load began (ne_load_file_len).                                 *)
LEMMA StatLogStep ==
  ASSUME RcfsAssumption, StoreInv, NEW p \in Processes, StatLog(p)
  PROVE  StoreInv'
<1>1. /\ proc[p] \in Local /\ CallFits(p) /\ ReaderFits(p)
      /\ Saved \in 0 .. MaxCalls /\ proc[p].pc = "statlog" /\ proc[p].op = "load"
      /\ proc[p].pc \in Reading /\ disk' = disk /\ lock' = lock /\ OneKind
  BY Before DEF StatLog, Stat, At, CallFits, Reading, Critical, OneKind
<1>2. PICK m \in AnyMeta : (disk.log = NONE /\ Saved = 0) \/ disk.log = LogText(Saved, m)
  BY DEF StoreInv, LogFits, AnyMeta
<1>3. CASE disk.log = NONE
  <2> DEFINE i == [proc[p] EXCEPT !.answer = <<"notfound">>]
             s == [i EXCEPT !.pc = "idle"]
  <2>1. i \in Local /\ i.op = proc[p].op /\ i.since = proc[p].since /\ i.answer = <<"notfound">>
    BY <1>1 DEF Local
  <2>2. proc' = [proc EXCEPT ![p] = s]
    BY <1>3 DEF StatLog, Stat, Return
  <2> HIDE DEF i
  <2>3. s \in Local /\ s.op = proc[p].op /\ s.since = proc[p].since /\ s.answer = <<"notfound">> /\ s.pc = "idle"
    BY <2>1, PcSet DEF Pcs
  <2> HIDE DEF s
  <2> QED
    BY <1>1, <2>2, <2>3, LooksAt
<1>4. CASE disk.log # NONE
  <2> DEFINE i == [proc[p] EXCEPT !.size = Len(disk.log)]
             s == [i EXCEPT !.pc = After(p)]
  <2>0. After(p) = "readlog" /\ After(p) \in Pcs
    BY <1>1, AfterLoad DEF Pcs, Reading
  <2>1. Len(disk.log) \in Nat /\ Saved <= Len(disk.log)
    BY <1>1, <1>2, <1>4, LogLines
  <2>2. i \in Local /\ i.op = proc[p].op /\ i.since = proc[p].since /\ i.answer = proc[p].answer /\ i.size = Len(disk.log)
    BY <1>1, <2>1 DEF Local
  <2>3. proc' = [proc EXCEPT ![p] = s]
    BY <1>4 DEF StatLog, Stat, Then
  <2> HIDE DEF i
  <2>4. s \in Local /\ s.op = proc[p].op /\ s.since = proc[p].since /\ s.answer = proc[p].answer
        /\ s.pc = "readlog" /\ s.size = Len(disk.log)
    BY <2>0, <2>2, PcSet
  <2> HIDE DEF s
  <2>5. s.since <= s.size /\ s.answer = NONE
    <3>1. proc[p].since <= Saved /\ proc[p].since \in Nat /\ proc[p].answer = NONE
      BY <1>1 DEF ReaderFits, Local
    <3> QED
      BY <1>1, <2>1, <2>4, <3>1
  <2> QED
    BY <1>1, <1>4, <2>3, <2>4, <2>5, LooksAt
<1> QED
  BY <1>3, <1>4

(* A load reads so much of the log as it is long by now: it finds a        *)
(* version that was the latest since it began, or nothing it can parse     *)
(* (rcfs_load).                                                            *)
LEMMA ReadLatestStep ==
  ASSUME RcfsAssumption, StoreInv, NEW p \in Processes, ReadLatest(p)
  PROVE  StoreInv'
<1>1. /\ proc[p] \in Local /\ CallFits(p) /\ ReaderFits(p)
      /\ Saved \in 0 .. MaxCalls /\ proc[p].pc = "readlog" /\ proc[p].op = "load"
      /\ proc[p].pc \in Reading /\ disk' = disk /\ lock' = lock /\ OneKind
  BY Before DEF ReadLatest, At, CallFits, Reading, Critical, OneKind
<1>2. /\ disk.log # NONE /\ proc[p].answer = NONE /\ proc[p].since \in Nat /\ proc[p].size \in Nat
      /\ proc[p].since <= proc[p].size /\ proc[p].since <= Saved
  BY <1>1 DEF ReaderFits, Local
<1>3. PICK m \in AnyMeta : disk.log = LogText(Saved, m)
  BY <1>2 DEF StoreInv, LogFits
<1>4. CASE Return(p, [proc[p] EXCEPT !.answer = <<"parse">>])
  <2> DEFINE i == [proc[p] EXCEPT !.answer = <<"parse">>]
             s == [i EXCEPT !.pc = "idle"]
  <2>1. i \in Local /\ i.op = proc[p].op /\ i.since = proc[p].since /\ i.answer = <<"parse">>
    BY <1>1 DEF Local
  <2>2. proc' = [proc EXCEPT ![p] = s]
    BY <1>4 DEF Return
  <2> HIDE DEF i
  <2>3. s \in Local /\ s.op = proc[p].op /\ s.since = proc[p].since /\ s.answer = <<"parse">> /\ s.pc = "idle"
    BY <2>1, PcSet DEF Pcs
  <2> HIDE DEF s
  <2> QED
    BY <1>1, <2>2, <2>3, LooksAt
<1>5. CASE Then(p, [proc[p] EXCEPT !.k = ListedIn(LoadedOf(p, disk.log))])
  <2> DEFINE k == ListedIn(LoadedOf(p, disk.log))
             i == [proc[p] EXCEPT !.k = k]
             s == [i EXCEPT !.pc = After(p)]
             n == Min({proc[p].size, Len(disk.log)})
  <2>0. After(p) = "stat" /\ After(p) \in Pcs
    BY <1>1, AfterLoad DEF Pcs, Reading
  <2>1. Len(disk.log) \in Nat /\ Saved <= Len(disk.log)
    BY <1>1, <1>3, LogLines
  <2>2. n = IF proc[p].size <= Len(disk.log) THEN proc[p].size ELSE Len(disk.log)
    BY <1>2, <2>1, MinOfTwo
  <2>3. n \in 0 .. Len(disk.log) /\ proc[p].since <= n
    BY <1>1, <1>2, <2>1, <2>2
  <2>4. k = IF n <= Saved THEN n ELSE Saved
    BY <1>1, <1>3, <2>3, ListedInPart DEF LoadedOf
  <2> HIDE DEF n, k
  <2>5. k \in 0 .. MaxCalls /\ k <= Saved /\ proc[p].since <= k
    <3>1. MaxCalls \in Nat /\ Saved \in Nat /\ n \in Nat
      BY <2>1, <2>3, Before
    <3> QED
      BY <1>1, <1>2, <2>3, <2>4, <3>1
  <2>6. i \in Local /\ i.op = proc[p].op /\ i.since = proc[p].since /\ i.answer = proc[p].answer /\ i.k = k
    BY <1>1, <2>5 DEF Local
  <2>7. proc' = [proc EXCEPT ![p] = s]
    BY <1>5 DEF Then, k
  <2> HIDE DEF i
  <2>8. s \in Local /\ s.op = proc[p].op /\ s.since = proc[p].since /\ s.answer = proc[p].answer
        /\ s.pc = "stat" /\ s.k = k
    BY <2>0, <2>6, PcSet
  <2> HIDE DEF s
  <2> QED
    BY <1>1, <1>2, <2>5, <2>7, <2>8, LooksAt
<1> QED
  BY <1>4, <1>5 DEF ReadLatest

(* A load asks for the length of the file of a version, which is whole     *)
(* when it is listed (ne_load_file_len).                                   *)
LEMMA StatVersionStep ==
  ASSUME RcfsAssumption, StoreInv, NEW p \in Processes, StatVersion(p)
  PROVE  StoreInv'
<1> DEFINE f == IF proc[p].k = 0 THEN NONE ELSE disk.version[proc[p].k]
<1>1. /\ proc[p] \in Local /\ CallFits(p) /\ ReaderFits(p) /\ MaxCalls \in Nat
      /\ Saved \in 0 .. MaxCalls /\ proc[p].pc = "stat" /\ proc[p].op \in {"load", "version"}
      /\ proc[p].pc \in Reading /\ disk' = disk /\ lock' = lock /\ OneKind
  BY Before DEF StatVersion, Stat, At, CallFits, Reading, Critical, OneKind
<1>2. Current(p) /\ proc[p].answer = NONE
  BY <1>1 DEF ReaderFits
<1>3. CASE f = NONE
  <2> DEFINE i == [proc[p] EXCEPT !.answer = <<"notfound">>]
             s == [i EXCEPT !.pc = "idle"]
  <2>1. i \in Local /\ i.op = proc[p].op /\ i.since = proc[p].since /\ i.answer = <<"notfound">>
    BY <1>1 DEF Local
  <2>2. proc' = [proc EXCEPT ![p] = s]
    BY <1>3 DEF StatVersion, Stat, Return
  <2> HIDE DEF i
  <2>3. s \in Local /\ s.op = proc[p].op /\ s.since = proc[p].since /\ s.answer = <<"notfound">> /\ s.pc = "idle"
    BY <2>1, PcSet DEF Pcs
  <2> HIDE DEF s
  <2> QED
    BY <1>1, <2>2, <2>3, LooksAt
<1>4. CASE f # NONE
  <2> DEFINE i == [proc[p] EXCEPT !.size = Len(f)]
             s == [i EXCEPT !.pc = After(p)]
  <2>0. After(p) = "read" /\ After(p) \in Pcs
    BY <1>1, AfterLoad, AfterVersion DEF Pcs, Reading
  <2>1. proc[p].k # 0 /\ proc[p].k \in 1 .. Saved /\ Seen(p) /\ f = disk.version[proc[p].k]
    BY <1>1, <1>2, <1>4 DEF Current, Seen, Local
  <2>2. f \in File
    BY <1>1, <2>1 DEF StoreInv, TypeOK, Versions
  <2>3. proc[p].k \in past.remnants \/ f = past.saved[proc[p].k]
    BY <2>1 DEF StoreInv, VersionsFit
  <2>4. proc' = [proc EXCEPT ![p] = s]
    BY <1>4 DEF StatVersion, Stat, Then
  <2> HIDE DEF f
  <2>5. i \in Local /\ i.op = proc[p].op /\ i.since = proc[p].since /\ i.answer = proc[p].answer
        /\ i.k = proc[p].k /\ i.size = Len(f)
    BY <1>1, <2>2, FileLength DEF Local
  <2> HIDE DEF i
  <2>6. s \in Local /\ s.op = proc[p].op /\ s.since = proc[p].since /\ s.answer = proc[p].answer
        /\ s.pc = "read" /\ s.k = proc[p].k /\ s.size = Len(f)
    BY <2>0, <2>5, PcSet
  <2> HIDE DEF s
  <2> QED
    BY <1>1, <1>2, <2>1, <2>3, <2>4, <2>6, LooksAt
<1> QED
  BY <1>3, <1>4

(* A load reads the file of a version: all of what was saved               *)
(* (ne_load_file_len).                                                     *)
LEMMA ReadVersionStep ==
  ASSUME RcfsAssumption, StoreInv, NEW p \in Processes, ReadVersion(p)
  PROVE  StoreInv'
<1> DEFINE f == disk.version[proc[p].k]
           n == Min({proc[p].size, Len(f)})
           i == [proc[p] EXCEPT !.answer = <<"ok", LoadedOf(p, f)>>]
           s == [i EXCEPT !.pc = After(p)]
<1>1. /\ proc[p] \in Local /\ CallFits(p) /\ ReaderFits(p) /\ MaxCalls \in Nat
      /\ Saved \in 0 .. MaxCalls /\ proc[p].pc = "read" /\ proc[p].op \in {"load", "version"}
      /\ proc[p].pc \in Reading /\ disk' = disk /\ lock' = lock /\ OneKind
  BY Before DEF ReadVersion, At, CallFits, Reading, Critical, OneKind
<1>2. /\ Seen(p) /\ proc[p].k \in 1 .. Saved
      /\ proc[p].k \in past.remnants \/ proc[p].size = Len(past.saved[proc[p].k])
  BY <1>1 DEF ReaderFits, Seen, Current, Local
<1>3. f \in File /\ proc[p].size \in Nat
  BY <1>1, <1>2 DEF StoreInv, TypeOK, Versions, Local
<1>4. proc[p].k \in past.remnants \/ f = past.saved[proc[p].k]
  BY <1>2 DEF StoreInv, VersionsFit
<1>5. proc' = [proc EXCEPT ![p] = s]
  BY DEF ReadVersion, Then
<1> HIDE DEF f
<1>6. n = (IF proc[p].size <= Len(f) THEN proc[p].size ELSE Len(f)) /\ n \in 0 .. Len(f)
  BY <1>3, FileLength, MinOfTwo
<1>7. LoadedOf(p, f) \in File /\ (proc[p].size = Len(f) => LoadedOf(p, f) = f)
  <2>1. LoadedOf(p, f) = SubSeq(f, 1, n)
    BY DEF LoadedOf
  <2> HIDE DEF n
  <2>2. \A j \in 1 .. n : f[j] \in Lines \cup {"none"}
    BY <1>3, <1>6, FileLength DEF File
  <2>3. SubSeq(f, 1, n) \in File
    BY <1>3, <1>6, <2>2, FileLength, SubSeqProperties DEF File
  <2>4. SubSeq(f, 1, Len(f)) = f
    BY <1>3, SubSeqFull DEF File
  <2>5. proc[p].size = Len(f) => n = Len(f)
    BY <1>3, <1>6, FileLength
  <2> QED
    BY <2>1, <2>3, <2>4, <2>5
<1> HIDE DEF n
<1>8. i \in Local /\ i.op = proc[p].op /\ i.since = proc[p].since /\ i.k = proc[p].k
      /\ i.answer = <<"ok", LoadedOf(p, f)>>
  BY <1>1, <1>7 DEF Local
<1>9. After(p) = "idle" /\ After(p) \in Pcs
  BY <1>1, AfterLoad, AfterVersion DEF Pcs
<1> HIDE DEF i
<1>10. s \in Local /\ s.op = proc[p].op /\ s.since = proc[p].since /\ s.k = proc[p].k /\ s.pc = "idle"
       /\ s.answer = <<"ok", LoadedOf(p, f)>>
  BY <1>8, <1>9, PcSet
<1> HIDE DEF s
<1>11. s.answer[1] = "ok" /\ s.answer[2] = LoadedOf(p, f)
  BY <1>10
<1>12. s.k \in past.remnants \/ s.answer[2] = past.saved[s.k]
  BY <1>2, <1>4, <1>7, <1>10, <1>11
<1> QED
  BY <1>1, <1>2, <1>5, <1>10, <1>11, <1>12, LooksAt
-----------------------------------------------------------------------------
(* The steps of the process past the lock that change files.               *)
LEMMA Owner ==
  ASSUME RcfsAssumption, StoreInv, NEW p \in Processes, proc[p].pc \in Critical
  PROVE  /\ lock = p
         /\ \A q \in Processes \ {p} : proc[q].pc \notin Critical
         /\ proc[p].op \in {"save", "meta"}
         /\ proc[p].op = "save" => proc[p].data \in Datas
         /\ proc[p].pc \in {"open", "write"} => proc[p].op = "save"
         /\ proc[p].answer = NONE /\ proc[p].since <= Saved
         /\ proc[p] \in Local
BY Before DEF WriterFits, CallFits, ReaderFits, Critical, Reading

(* There is a number left for the version that is being saved.             *)
LEMMA Room ==
  ASSUME RcfsAssumption, StoreInv, NEW p \in Saving
  PROVE  Saved + 1 \in Versions
<1>1. Saved \in Nat /\ MaxCalls \in Nat /\ past.calls \in Nat
  BY SavedIsNat DEF StoreInv, TypeOK, RcfsAssumption
<1>2. IsFiniteSet(Saving)
  BY FS_Subset DEF Saving, RcfsAssumption
<1>3. Cardinality(Saving) \in Nat /\ Cardinality(Saving) # 0
  BY <1>2, FS_EmptySet, FS_CardinalityType
<1> QED
  BY <1>1, <1>3 DEF StoreInv, CallsCount, Versions

(* A file of a version is put in place that is not yet listed, or the      *)
(* temporary file is written: nobody else minds.                           *)
LEMMA WriterMoves ==
  ASSUME RcfsAssumption, StoreInv, NEW p \in Processes,
         proc[p].pc \in {"open", "write", "tmp"}, NEW x \in {"write", "tmp", "rename", "unlock"},
         proc' = [proc EXCEPT ![p] = [proc[p] EXCEPT !.pc = x]],
         lock' = lock, disk'.log = disk.log,
         disk' \in [log : File, tmp : File, version : [Versions -> File]],
         \A n \in 1 .. Saved : disk'.version[n] = disk.version[n],
         past'.saved = past.saved, past'.calls = past.calls, past.remnants \subseteq past'.remnants,
         x = "write" => proc[p].op = "save",
         proc[p].op = "save" /\ x \in {"tmp", "rename"} =>
           Saved + 1 \in past'.remnants \/ disk'.version[Saved + 1] = proc[p].data,
         x = "rename" => disk'.tmp = LogText(Saved + (IF proc[p].op = "save" THEN 1 ELSE 0), proc[p].meta)
  PROVE  StoreInv'
<1> DEFINE s == [proc[p] EXCEPT !.pc = x]
<1>1. /\ lock = p /\ (\A q \in Processes \ {p} : proc[q].pc \notin Critical)
      /\ proc[p].op \in {"save", "meta"} /\ (proc[p].op = "save" => proc[p].data \in Datas)
      /\ proc[p].answer = NONE /\ proc[p].since <= Saved /\ proc[p] \in Local
      /\ proc[p].k = Saved
  BY Owner, Before DEF Critical, WriterFits
<1>2. /\ s \in Local /\ s.pc = x /\ s.op = proc[p].op /\ s.data = proc[p].data /\ s.k = proc[p].k
      /\ s.meta = proc[p].meta /\ s.since = proc[p].since /\ s.answer = proc[p].answer
  <2>1. x \in Pcs
    BY DEF Pcs, Critical
  <2> QED
    BY <1>1, <2>1, PcSet
<1>3. proc' = [proc EXCEPT ![p] = s]
  OBVIOUS
<1> HIDE DEF s
<1>4. proc'[p] = s /\ (\A q \in Processes \ {p} : proc'[q] = proc[q]) /\ Saved' = Saved
  BY <1>3 DEF StoreInv, TypeOK, Saved
<1>5. CallFits(p)'
  BY <1>1, <1>2, <1>4 DEF CallFits, Critical
<1>6. WriterFits(p)'
  BY <1>1, <1>2, <1>4 DEF WriterFits
<1>7. ReaderFits(p)'
  BY <1>1, <1>2, <1>4, OkIsAnswer DEF ReaderFits
<1>8. CallsCount'
  <2>1. Saving' \subseteq Saving
    BY <1>1, <1>2, <1>4 DEF Saving, Critical
  <2> QED
    BY <2>1, FewerSaving DEF StoreInv
<1>9. LogFits'
  BY <1>4 DEF StoreInv, LogFits
<1>10. VersionsFit'
  BY <1>4 DEF StoreInv, VersionsFit
<1>11. Grows
  BY SavedIsNat DEF Grows, StoreInv, TypeOK, Saved
<1>12. lock' \in Processes \cup {0} /\ past'.calls \in Nat
  BY DEF StoreInv, TypeOK
<1> QED
  BY <1>1, <1>2, <1>3, <1>5, <1>6, <1>7, <1>8, <1>9, <1>10, <1>11, <1>12, Preserved

(* One file of a version changes.                                          *)
LEMMA VersionPut ==
  ASSUME RcfsAssumption, StoreInv, NEW n \in Versions, n > Saved, NEW f \in File,
         disk' = [disk EXCEPT !.version[n] = f]
  PROVE  /\ disk' \in [log : File, tmp : File, version : [Versions -> File]]
         /\ disk'.log = disk.log /\ disk'.version[n] = f
         /\ \A m \in 1 .. Saved : disk'.version[m] = disk.version[m]
<1>1. disk \in [log : File, tmp : File, version : [Versions -> File]]
  BY DEF StoreInv, TypeOK
<1>2. Saved \in Nat
  BY SavedIsNat DEF StoreInv, TypeOK
<1>3. disk' = [disk EXCEPT !.version = [disk.version EXCEPT ![n] = f]]
  OBVIOUS
<1>4. [disk.version EXCEPT ![n] = f] \in [Versions -> File] /\ [disk.version EXCEPT ![n] = f][n] = f
  BY <1>1
<1>5. \A m \in 1 .. Saved : m # n /\ [disk.version EXCEPT ![n] = f][m] = disk.version[m]
  BY <1>1, <1>2
<1> QED
  BY <1>1, <1>3, <1>4, <1>5

(* The file of the next version is made, or opened as it was left          *)
(* (rcfs_save).                                                            *)
LEMMA OpenStep ==
  ASSUME RcfsAssumption, StoreInv, NEW p \in Processes, DOMAIN past = PastFields, OpenVersion(p)
  PROVE  StoreInv'
<1> DEFINE n == Saved + 1
           f == IF disk.version[n] = NONE THEN <<>> ELSE disk.version[n]
<1>1. /\ proc[p].pc = "open" /\ proc[p].op = "save" /\ proc[p].k = Saved /\ New(p) = n
      /\ p \in Saving /\ lock' = lock
      /\ past'.saved = past.saved /\ past'.calls = past.calls /\ past'.remnants = past.remnants
  BY Owner, Before DEF OpenVersion, At, Critical, WriterFits, New, Saving, Fault, PastFields
<1>2. n \in Versions /\ n > Saved /\ f \in File
  <2>1. n \in Versions /\ n > Saved
    BY <1>1, Room, Before
  <2> QED
    BY <2>1, EmptySeq DEF StoreInv, TypeOK, File
<1>3. CASE Abandon(p) /\ disk' = disk
  <2>1. proc' = [proc EXCEPT ![p] = [proc[p] EXCEPT !.pc = "unlock"]]
    BY <1>3 DEF Abandon
  <2>2. OneKind /\ proc[p].pc \in Critical /\ "unlock" \in {"unlock", "idle"}
    BY <1>1 DEF OneKind, Critical
  <2> QED
    BY <1>1, <1>3, <2>1, <2>2, GivesUp
<1>4. CASE disk' = [disk EXCEPT !.version[n] = f] /\ Then(p, proc[p])
  <2>1. After(p) = "write"
    BY <1>1, AfterSave
  <2>2. proc' = [proc EXCEPT ![p] = [proc[p] EXCEPT !.pc = "write"]]
    BY <1>4, <2>1 DEF Then
  <2> HIDE DEF n, f
  <2>3. /\ disk' \in [log : File, tmp : File, version : [Versions -> File]]
        /\ disk'.log = disk.log
        /\ \A m \in 1 .. Saved : disk'.version[m] = disk.version[m]
    BY <1>2, <1>4, VersionPut
  <2> QED
    BY <1>1, <2>2, <2>3, WriterMoves
<1>5. (Abandon(p) /\ disk' = disk) \/ (disk' = [disk EXCEPT !.version[n] = f] /\ Then(p, proc[p]))
  BY <1>1 DEF OpenVersion
<1> QED
  BY <1>3, <1>4, <1>5

(* The next version is written: over all of what was there, unless that    *)
(* was longer (rcfs_save).                                                 *)
LEMMA WriteStep ==
  ASSUME RcfsAssumption, StoreInv, NEW p \in Processes, DOMAIN past = PastFields, WriteVersion(p)
  PROVE  StoreInv'
<1> DEFINE n == Saved + 1
           old == disk.version[n]
           data == proc[p].data
           whole == Over(data, old)
           part == Over(Front(data), old)
<1>1. /\ proc[p].pc = "write" /\ proc[p].op = "save" /\ proc[p].k = Saved /\ New(p) = n
      /\ p \in Saving /\ lock' = lock /\ data \in Datas
      /\ past'.saved = past.saved /\ past'.calls = past.calls
  BY Owner, Before DEF WriteVersion, At, Critical, WriterFits, New, Saving, Fault, PastFields
<1>2. n \in Versions /\ n > Saved /\ old \in File /\ data \in File
  <2>1. n \in Versions /\ n > Saved
    BY <1>1, Room, Before
  <2>2. data \in Seq(Lines)
    BY <1>1 DEF RcfsAssumption
  <2>3. data \in File
    BY <2>2, SeqMonotonic DEF File
  <2> QED
    BY <2>1, <2>3 DEF StoreInv, TypeOK
<1>3. /\ whole \in File /\ part \in File
      /\ Len(old) <= Len(data) => whole = data
      /\ Len(old) \in Nat /\ Len(data) \in Nat
  <2>1. Front(data) \in File /\ whole \in File /\ (Len(old) <= Len(data) => whole = data)
    BY <1>2, OverIsExact DEF File
  <2>2. part \in File
    BY <1>2, <2>1, OverIsExact DEF File
  <2> QED
    BY <1>2, <2>1, <2>2, FileLength
<1>4. CASE /\ disk' = [disk EXCEPT !.version[n] = whole] /\ Then(p, proc[p])
           /\ past' = [past EXCEPT !.remnants = IF Len(old) > Len(data) THEN @ \cup {n} ELSE @]
  <2>1. After(p) = "tmp"
    BY <1>1, AfterSave
  <2>2. proc' = [proc EXCEPT ![p] = [proc[p] EXCEPT !.pc = "tmp"]]
    BY <1>4, <2>1 DEF Then
  <2>3. past'.remnants = IF Len(old) > Len(data) THEN past.remnants \cup {n} ELSE past.remnants
    BY <1>4 DEF PastFields
  <2> HIDE DEF n, old, data, whole, part
  <2>4. /\ disk' \in [log : File, tmp : File, version : [Versions -> File]]
        /\ disk'.log = disk.log /\ disk'.version[n] = whole
        /\ \A m \in 1 .. Saved : disk'.version[m] = disk.version[m]
    BY <1>2, <1>3, <1>4, VersionPut
  <2>5. n \in past'.remnants \/ disk'.version[n] = data
    BY <1>3, <2>3, <2>4
  <2> USE DEF n, data
  <2> QED
    BY <1>1, <2>2, <2>3, <2>4, <2>5, WriterMoves
<1>5. CASE disk' = [disk EXCEPT !.version[n] = part] /\ Fault /\ Abandon(p)
  <2>1. proc' = [proc EXCEPT ![p] = [proc[p] EXCEPT !.pc = "unlock"]]
    BY <1>5 DEF Abandon
  <2>2. past'.remnants = past.remnants
    BY <1>5 DEF Fault, PastFields
  <2> HIDE DEF n, old, data, whole, part
  <2>3. /\ disk' \in [log : File, tmp : File, version : [Versions -> File]]
        /\ disk'.log = disk.log
        /\ \A m \in 1 .. Saved : disk'.version[m] = disk.version[m]
    BY <1>2, <1>3, <1>5, VersionPut
  <2> QED
    BY <1>1, <2>1, <2>2, <2>3, WriterMoves
<1> QED
  BY <1>1, <1>4, <1>5 DEF WriteVersion

(* _meta_save writes the new log beside the old one.                       *)
LEMMA TmpStep ==
  ASSUME RcfsAssumption, StoreInv, NEW p \in Processes, DOMAIN past = PastFields, past'.cut = FALSE, WriteTmp(p)
  PROVE  StoreInv'
<1> DEFINE text == LogText(proc[p].k + IF proc[p].op = "save" THEN 1 ELSE 0, proc[p].meta)
<1>1. /\ proc[p].pc = "tmp" /\ proc[p].k = Saved /\ proc[p].op \in {"save", "meta"}
      /\ lock' = lock /\ proc[p].meta \in AnyMeta /\ Saved \in 0 .. MaxCalls
  BY Owner, Before DEF WriteTmp, At, Critical, WriterFits, Local
<1>2. disk' = [disk EXCEPT !.tmp = text] /\ past' = past /\ Then(p, proc[p])
  BY DEF WriteTmp, PastFields
<1>3. After(p) = "rename"
  BY <1>1, AfterSave, AfterMeta
<1>4. proc' = [proc EXCEPT ![p] = [proc[p] EXCEPT !.pc = "rename"]]
  BY <1>2, <1>3 DEF Then
<1>5. text = LogText(Saved + (IF proc[p].op = "save" THEN 1 ELSE 0), proc[p].meta)
  BY <1>1
<1>6. Saved + (IF proc[p].op = "save" THEN 1 ELSE 0) \in 0 .. MaxCalls
  <2>1. CASE proc[p].op = "save"
    <3>1. p \in Saving
      BY <1>1, <2>1 DEF Saving, Critical
    <3>2. Saved + 1 \in 1 .. MaxCalls
      BY <3>1, Room DEF Versions
    <3> QED
      BY <2>1, <3>2
  <2>2. CASE proc[p].op # "save"
    BY <1>1, <2>2
  <2> QED
    BY <2>1, <2>2
<1>7. text \in File
  <2>1. text \in Seq(Lines)
    BY <1>1, <1>5, <1>6, LogLines DEF Text
  <2> QED
    BY <2>1, SeqMonotonic DEF File
<1> HIDE DEF text
<1>8. /\ disk' \in [log : File, tmp : File, version : [Versions -> File]]
      /\ disk'.log = disk.log /\ disk'.tmp = text /\ disk'.version = disk.version
  BY <1>2, <1>7 DEF StoreInv, TypeOK
<1>9. proc[p].op = "save" => Saved + 1 \in past.remnants \/ disk.version[Saved + 1] = proc[p].data
  BY <1>1, Before DEF WriterFits
<1> QED
  BY <1>1, <1>2, <1>4, <1>5, <1>8, <1>9, WriterMoves

(* The new log replaces the old one: a save is done, unless the rename     *)
(* fails.                                                                  *)
LEMMA RenameStep ==
  ASSUME RcfsAssumption, StoreInv, NEW p \in Processes, DOMAIN past = PastFields, Rename(p)
  PROVE  StoreInv'
<1> DEFINE s == [proc[p] EXCEPT !.pc = "unlock"]
           saves == proc[p].op = "save"
           more == IF saves THEN 1 ELSE 0
<1>1. /\ proc[p].pc = "rename" /\ proc[p].k = Saved /\ proc[p].op \in {"save", "meta"}
      /\ lock' = lock /\ lock = p /\ proc[p].meta \in AnyMeta /\ Saved \in 0 .. MaxCalls
      /\ disk.tmp = LogText(Saved + more, proc[p].meta)
      /\ proc[p].answer = NONE /\ proc[p].since <= Saved /\ proc[p] \in Local
      /\ saves => proc[p].data \in Datas
      /\ saves => Saved + 1 \in past.remnants \/ disk.version[Saved + 1] = proc[p].data
      /\ \A q \in Processes \ {p} : proc[q].pc \notin Critical
  BY Owner, Before DEF Rename, At, Critical, WriterFits, Local
<1>2. Then(p, proc[p]) /\ After(p) = "unlock"
  BY <1>1, AfterSave, AfterMeta DEF Rename
<1>3. /\ s \in Local /\ s.pc = "unlock" /\ s.op = proc[p].op /\ s.data = proc[p].data
      /\ s.since = proc[p].since /\ s.answer = NONE
  BY <1>1, PcSet DEF Pcs, Critical
<1>4. proc' = [proc EXCEPT ![p] = s]
  BY <1>2 DEF Then
<1> HIDE DEF s
<1>5. proc'[p] = s /\ \A q \in Processes \ {p} : proc'[q] = proc[q]
  BY <1>4 DEF StoreInv, TypeOK
<1>6. CallFits(p)'
  BY <1>1, <1>3, <1>5 DEF CallFits, Critical
<1>7. WriterFits(p)'
  BY <1>1, <1>3, <1>5 DEF WriterFits
<1>8. Saving' \subseteq Saving \ {p}
  BY <1>3, <1>5 DEF Saving
<1>9. CASE disk' = [disk EXCEPT !.tmp = NONE] /\ Fault
  <2>1. OneKind
    BY <1>9 DEF Fault, OneKind, PastFields
  <2>2. /\ disk' \in [log : File, tmp : File, version : [Versions -> File]]
        /\ disk'.log = disk.log /\ disk'.version = disk.version
    <3>1. NONE \in File
      BY DEF NONE, File
    <3> QED
      BY <1>9, <3>1 DEF StoreInv, TypeOK
  <2>3. Saved' = Saved
    BY <2>1 DEF OneKind, Saved
  <2>4. ReaderFits(p)'
    BY <1>1, <1>3, <1>5, <2>3, OkIsAnswer DEF ReaderFits
  <2>5. CallsCount'
    BY <1>8, <2>1, FewerSaving DEF StoreInv, OneKind
  <2>6. LogFits' /\ VersionsFit' /\ Grows
    BY <2>1, <2>2, <2>3, SavedIsNat DEF StoreInv, LogFits, VersionsFit, Grows, OneKind, TypeOK, Saved
  <2>7. lock' \in Processes \cup {0} /\ past'.calls \in Nat
    BY <1>1, <2>1 DEF StoreInv, TypeOK, OneKind
  <2> QED
    BY <1>1, <1>3, <1>4, <1>6, <1>7, <2>2, <2>4, <2>5, <2>6, <2>7, Preserved
<1>10. CASE /\ disk' = [disk EXCEPT !.log = disk.tmp, !.tmp = NONE]
            /\ past' = IF saves THEN [past EXCEPT !.saved = Append(@, proc[p].data)] ELSE past
  <2>1. /\ past'.saved = IF saves THEN Append(past.saved, proc[p].data) ELSE past.saved
        /\ past'.remnants = past.remnants /\ past'.calls = past.calls
    BY <1>10 DEF PastFields
  <2>2. /\ past'.saved \in Seq(Datas) /\ Saved' = Saved + more
        /\ \A n \in 1 .. Saved : past'.saved[n] = past.saved[n]
        /\ saves => past'.saved[Saved + 1] = proc[p].data
    <3>1. CASE saves
      <4>1. past.saved \in Seq(Datas) /\ proc[p].data \in Datas
        BY <1>1, <3>1 DEF StoreInv, TypeOK
      <4> QED
        BY <2>1, <3>1, <4>1, AppendProperties DEF Saved
    <3>2. CASE ~saves
      BY <1>1, <2>1, <3>2 DEF StoreInv, TypeOK, Saved
    <3> QED
      BY <3>1, <3>2
  <2>3. /\ disk' \in [log : File, tmp : File, version : [Versions -> File]]
        /\ disk'.log = disk.tmp /\ disk'.version = disk.version
    <3>1. NONE \in File
      BY DEF NONE, File
    <3> QED
      BY <1>10, <3>1 DEF StoreInv, TypeOK
  <2>4. Saved + more \in 0 .. MaxCalls
    <3>1. CASE saves
      <4>1. p \in Saving
        BY <1>1, <3>1 DEF Saving, Critical
      <4>2. Saved + 1 \in 1 .. MaxCalls
        BY <4>1, Room DEF Versions
      <4> QED
        BY <3>1, <4>2
    <3>2. CASE ~saves
      BY <1>1, <3>2
    <3> QED
      BY <3>1, <3>2
  <2>5. disk'.log = LogText(Saved', proc[p].meta) /\ disk'.log # NONE
    BY <1>1, <2>2, <2>3, <2>4, LogLines
  <2> HIDE DEF more
  <2>6. Saved \in Nat /\ Saved' \in Nat /\ Saved <= Saved' /\ Saved' <= Saved + 1 /\ (Saved' = Saved + 1 => saves)
    BY <1>1, <2>2, Before DEF more
  <2>7. LogFits'
    BY <1>1, <2>5 DEF LogFits, AnyMeta
  <2>8. VersionsFit'
    <3> SUFFICES ASSUME NEW n \in 1 .. Saved'
                 PROVE  n \in past'.remnants \/ disk'.version[n] = past'.saved[n]
      BY DEF VersionsFit
    <3>1. CASE n <= Saved
      <4>1. n \in 1 .. Saved
        BY <2>6, <3>1
      <4> QED
        BY <2>1, <2>2, <2>3, <4>1 DEF StoreInv, VersionsFit
    <3>2. CASE ~(n <= Saved)
      <4>1. n = Saved + 1 /\ saves
        BY <2>6, <3>2
      <4> QED
        BY <1>1, <2>1, <2>2, <2>3, <4>1
    <3> QED
      BY <3>1, <3>2
  <2>9. ReaderFits(p)'
    <3>1. proc[p].since \in Nat
      BY <1>1 DEF Local
    <3>2. (proc[p].since <= Saved)'
      BY <1>1, <1>3, <1>5, <2>6, <3>1
    <3> QED
      BY <1>3, <1>5, <3>2, OkIsAnswer DEF ReaderFits
  <2>10. CallsCount'
    <3>1. /\ IsFiniteSet(Saving) /\ Saved + Cardinality(Saving) <= past.calls /\ past.calls <= MaxCalls
          /\ past.calls \in Nat /\ MaxCalls \in Nat
      BY FS_Subset DEF StoreInv, CallsCount, TypeOK, Saving, RcfsAssumption
    <3>2. /\ Cardinality(Saving) \in Nat /\ Cardinality(Saving') \in Nat
          /\ Cardinality(Saving \ {p}) \in Nat
          /\ Cardinality(Saving') <= Cardinality(Saving \ {p})
          /\ Cardinality(Saving \ {p}) = IF p \in Saving THEN Cardinality(Saving) - 1 ELSE Cardinality(Saving)
      BY <1>8, <3>1, FS_RemoveElement, FS_Subset, FS_CardinalityType
    <3>3. Saved' = Saved + 1 => p \in Saving
      BY <1>1, <2>6 DEF Saving, Critical
    <3>4. Saved' + Cardinality(Saving') <= past.calls
      <4>1. CASE Saved' = Saved
        BY <2>6, <3>1, <3>2, <4>1
      <4>2. CASE Saved' = Saved + 1
        BY <2>6, <3>1, <3>2, <3>3, <4>2
      <4> QED
        BY <2>6, <4>1, <4>2
    <3> QED
      BY <2>1, <3>1, <3>4 DEF CallsCount
  <2>11. Grows
    BY <2>1, <2>2, <2>5, <2>6 DEF Grows, Saved
  <2>12. lock' \in Processes \cup {0} /\ past'.calls \in Nat
    BY <1>1, <2>1 DEF StoreInv, TypeOK
  <2> QED
    BY <1>1, <1>3, <1>4, <1>6, <1>7, <2>3, <2>7, <2>8, <2>9, <2>10, <2>11, <2>12, Preserved
<1> QED
  BY <1>9, <1>10 DEF Rename
-----------------------------------------------------------------------------
(* A path without a log, and processes that have not begun.                *)
LEMMA StoreInvInit ==
  ASSUME RcfsAssumption, Init
  PROVE  RcfsInv
<1>1. Idle \in Local /\ Idle.pc = "idle" /\ Idle.op = "none" /\ Idle.since = 0 /\ Idle.answer = NONE
  BY DEF Idle, Local, Pcs, AnyMeta, RcfsAssumption
<1>2. /\ disk = [log |-> NONE, tmp |-> NONE, version |-> [n \in Versions |-> NONE]]
      /\ lock = 0 /\ proc = [p \in Processes |-> Idle]
      /\ past.saved = <<>> /\ past.remnants = {} /\ past.cut = FALSE /\ past.calls = 0
      /\ DOMAIN past = PastFields
  BY DEF Init, PastFields
<1>3. NONE \in File
  BY DEF NONE, File
<1>4. Saved = 0
  BY <1>2 DEF Saved
<1>5. TypeOK
  BY <1>1, <1>2, <1>3 DEF TypeOK
<1>6. \A p \in Processes : CallFits(p) /\ WriterFits(p) /\ ReaderFits(p)
  BY <1>1, <1>2, <1>4, OkIsAnswer DEF CallFits, WriterFits, ReaderFits, Critical
<1>7. LogFits /\ VersionsFit
  BY <1>2, <1>4 DEF LogFits, VersionsFit
<1>8. CallsCount
  <2>1. Saving = {}
    BY <1>1, <1>2 DEF Saving
  <2> QED
    BY <1>2, <1>4, <2>1, FS_EmptySet DEF CallsCount, RcfsAssumption
<1> QED
  BY <1>2, <1>5, <1>6, <1>7, <1>8 DEF RcfsInv, StoreInv

(* Every step of every process keeps the invariant.                        *)
LEMMA RcfsInvNext ==
  ASSUME RcfsAssumption, RcfsInv, [Next]_vars
  PROVE  RcfsInv'
<1>1. DOMAIN past' = PastFields /\ past'.cut \in BOOLEAN /\ (past.cut => past'.cut)
  <2>1. CASE UNCHANGED vars
    BY <2>1 DEF RcfsInv, vars
  <2>2. ASSUME NEW p \in Processes, Step(p)
        PROVE  DOMAIN past' = PastFields /\ past'.cut \in BOOLEAN /\ (past.cut => past'.cut)
    <3>1. CASE Save(p) \/ MetaSave(p) \/ Load(p) \/ LoadVersion(p)
      BY <3>1 DEF Save, MetaSave, Load, LoadVersion, Call, RcfsInv, PastFields
    <3>2. CASE \/ Lock(p) \/ Unlock(p) \/ ReadLog(p) \/ OpenVersion(p) \/ WriteVersion(p) \/ Crash(p)
      BY <3>2 DEF Lock, Unlock, ReadLog, OpenVersion, WriteVersion, Crash, Fault, RcfsInv, PastFields
    <3>3. CASE WriteTmp(p) \/ Rename(p)
      BY <3>3 DEF WriteTmp, Rename, Fault, RcfsInv, PastFields
    <3>4. CASE StatLog(p) \/ ReadLatest(p) \/ StatVersion(p) \/ ReadVersion(p)
      BY <3>4 DEF StatLog, ReadLatest, StatVersion, ReadVersion, Stat, RcfsInv
    <3> QED
      BY <2>2, <3>1, <3>2, <3>3, <3>4 DEF Step
  <2> QED
    BY <2>1, <2>2 DEF Next
<1>2. ASSUME past'.cut = FALSE PROVE StoreInv'
  <2>0. DOMAIN past = PastFields /\ StoreInv
    BY <1>1, <1>2 DEF RcfsInv
  <2>1. CASE UNCHANGED vars
    <3>1. disk' = disk /\ lock' = lock /\ proc' = proc /\ past' = past
      BY <2>1 DEF vars
    <3>2. Saved' = Saved /\ Saving' = Saving
      BY <3>1 DEF Saved, Saving
    <3>3. TypeOK'
      BY <2>0, <3>1 DEF StoreInv, TypeOK
    <3>4. ASSUME NEW p \in Processes PROVE (CallFits(p) /\ WriterFits(p) /\ ReaderFits(p))'
      <4>1. CallFits(p) /\ WriterFits(p) /\ ReaderFits(p)
        BY <2>0 DEF StoreInv
      <4>2. CallFits(p)'
        BY <3>1, <4>1 DEF CallFits
      <4>3. WriterFits(p)'
        BY <3>1, <3>2, <4>1 DEF WriterFits
      <4>4. ReaderFits(p)'
        BY <3>1, <3>2, <4>1 DEF ReaderFits, Seen, Current
      <4> QED BY <4>2, <4>3, <4>4
    <3>5. LogFits' /\ VersionsFit'
      BY <2>0, <3>1, <3>2 DEF StoreInv, LogFits, VersionsFit
    <3>6. CallsCount'
      BY <2>0, <3>1, <3>2 DEF StoreInv, CallsCount
    <3> QED
      BY <3>3, <3>4, <3>5, <3>6 DEF StoreInv
  <2>2. ASSUME NEW p \in Processes, Step(p)
        PROVE  StoreInv'
    <3>1. CASE Save(p) \/ MetaSave(p) \/ Load(p) \/ LoadVersion(p)
      BY <2>0, <3>1, CallSteps
    <3>2. CASE Lock(p) \/ Unlock(p)
      BY <2>0, <3>2, LockStep
    <3>3. CASE ReadLog(p)
      BY <2>0, <3>3, ReadLogStep
    <3>4. CASE OpenVersion(p)
      BY <2>0, <3>4, OpenStep
    <3>5. CASE WriteVersion(p)
      BY <2>0, <3>5, WriteStep
    <3>6. CASE WriteTmp(p)
      BY <1>2, <2>0, <3>6, TmpStep
    <3>7. CASE Rename(p)
      BY <2>0, <3>7, RenameStep
    <3>8. CASE StatLog(p)
      BY <2>0, <3>8, StatLogStep
    <3>9. CASE ReadLatest(p)
      BY <2>0, <3>9, ReadLatestStep
    <3>10. CASE StatVersion(p)
      BY <2>0, <3>10, StatVersionStep
    <3>11. CASE ReadVersion(p)
      BY <2>0, <3>11, ReadVersionStep
    <3>12. CASE Crash(p)
      BY <2>0, <3>12, CrashStep
    <3> QED
      BY <2>2, <3>1, <3>2, <3>3, <3>4, <3>5, <3>6, <3>7, <3>8, <3>9, <3>10, <3>11, <3>12 DEF Step
  <2> QED
    BY <2>1, <2>2 DEF Next
<1> QED
  BY <1>1, <1>2 DEF RcfsInv

(* The inductive invariant is sound for what the store promises.           *)
LEMMA InvGivesSound ==
  ASSUME RcfsAssumption, RcfsInv
  PROVE  StoreSound
<1>1. VersionsKept
  <2> SUFFICES ASSUME ~past.cut, NEW n \in DOMAIN past.saved
               PROVE  /\ disk.log # NONE /\ n <= ListedIn(disk.log)
                      /\ n \notin past.remnants => disk.version[n] = past.saved[n]
    BY DEF VersionsKept
  <2>1. StoreInv
    BY DEF RcfsInv
  <2>2. n \in 1 .. Saved /\ Saved \in 0 .. MaxCalls
    BY <2>1, SavedIsNat, SavedFits DEF StoreInv, TypeOK
  <2>3. PICK m \in AnyMeta : disk.log = LogText(Saved, m)
    BY <2>1, <2>2 DEF StoreInv, LogFits
  <2>4. disk.log # NONE /\ ListedIn(disk.log) = Saved
    BY <2>2, <2>3, LogLines, LogReads
  <2> QED
    BY <2>1, <2>2, <2>4 DEF StoreInv, VersionsFit
<1>2. LoadsSound
  <2> SUFFICES ASSUME NEW p \in Processes, proc[p].answer[1] = "ok", ~past.cut
               PROVE  /\ proc[p].k \in (IF proc[p].op = "load" THEN proc[p].since ELSE 1) .. Len(past.saved)
                      /\ proc[p].k \notin past.remnants => proc[p].answer[2] = past.saved[proc[p].k]
    BY DEF LoadsSound
  <2>1. StoreInv
    BY DEF RcfsInv
  <2>2. ReaderFits(p) /\ proc[p] \in Local /\ Saved \in Nat
    BY <2>1, SavedIsNat DEF StoreInv, TypeOK
  <2>3. Seen(p) /\ (proc[p].k \in past.remnants \/ proc[p].answer[2] = past.saved[proc[p].k])
    BY <2>2 DEF ReaderFits
  <2>4. proc[p].k \in Nat /\ proc[p].since \in Nat
    BY <2>2 DEF Local
  <2> QED
    BY <2>2, <2>3, <2>4 DEF Seen, Current, Saved
<1> QED
  BY <1>1, <1>2 DEF StoreSound

(* Whatever processes save, annotate and load, and wherever they fail or   *)
(* end, the next step finds what the last one left (rcfs.c).               *)
THEOREM StoreInvariant == RcfsAssumption => (Spec => []RcfsInv)
<1> SUFFICES ASSUME RcfsAssumption PROVE Spec => []RcfsInv
  OBVIOUS
<1>1. Init => RcfsInv
  BY StoreInvInit
<1>2. RcfsInv /\ [Next]_vars => RcfsInv'
  BY RcfsInvNext
<1> QED
  BY <1>1, <1>2, PTL DEF Spec

(* A version whose save has replaced the log stays listed and stays as it  *)
(* was saved, and a load, which takes no lock, gives all of one that was   *)
(* the latest at some time since its start; but for the two losses that    *)
(* past.cut and past.remnants stand for (rcfs_save, rcfs_load).            *)
THEOREM StoreIsSound == RcfsAssumption => (Spec => []StoreSound)
<1> SUFFICES ASSUME RcfsAssumption PROVE Spec => []StoreSound
  OBVIOUS
<1>1. RcfsInv => StoreSound
  BY InvGivesSound
<1>2. Spec => []RcfsInv
  BY StoreInvariant
<1> QED
  BY <1>1, <1>2, PTL
=============================================================================
