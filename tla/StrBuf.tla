-------------------------------- MODULE StrBuf --------------------------------
(***************************************************************************)
(* The growing STRING of util/neo_str.c.  A write that goes past the       *)
(* buffer makes buf longer than max, which malloc gave it.  Every new      *)
(* block of memory holds garbage.  MinSize and Factor are at least 2.      *)
(***************************************************************************)
EXTENDS Integers, Sequences, SequencesExt, FiniteSetsExt

CONSTANTS
  Pieces,     \* the strings that are appended
  Lines,      \* the files that are read from
  MinSize,    \* 256, the least size and the least room for a line
  Factor,     \* 10, times the length of the first piece
  LocalSize,  \* 4096, what a formatted string may take before it is written twice
  MaxCalls,   \* bound on the calls
  MaxFaults   \* bound on the allocations that fail

VARIABLES
  str,        \* [buf, max, len]; buf is empty for NULL
  input,      \* <<>>, or what is left of the file that is being read, in a sequence
  said,       \* the text that was put together, and whether the last call was able to
  calls, failures

strvars == <<str, input, said, calls, failures>>

Empty == [buf |-> <<>>, max |-> 0, len |-> 0]
Garbage(n) == [i \in 1 .. n |-> "?"]
-----------------------------------------------------------------------------
(* string_check_length: the size doubles until the text and its end fit.    *)
Doubled(max, need) == LET from[m \in Nat] == IF m > need THEN m ELSE from[2 * m] IN from[2 * max]
StringCheckLength(s, l) ==
  IF s.buf = <<>> THEN LET size == Max({l * Factor, MinSize}) IN [s EXCEPT !.buf = Garbage(size), !.max = size]
  ELSE IF s.len + l < s.max THEN s
  ELSE LET size == Doubled(s.max, s.len + l)
       IN  [s EXCEPT !.buf = @ \o Garbage(size - s.max), !.max = size]
Grows(s, l) == StringCheckLength(s, l).buf # s.buf /\ failures < MaxFaults
(* Without memory the string stays, but a first buffer leaves its size.     *)
Refused(s, l) == IF s.buf = <<>> THEN [StringCheckLength(s, l) EXCEPT !.buf = <<>>] ELSE s
Put(buf, at, piece) ==
  [i \in 1 .. Max({Len(buf), at + Len(piece)}) |-> IF i \in at + 1 .. at + Len(piece) THEN piece[i - at] ELSE buf[i]]
Written(s, piece) == [s EXCEPT !.buf = Put(@, s.len, Append(piece, "NUL")), !.len = @ + Len(piece)]

(* A call that asks for room for l characters and writes the piece; when    *)
(* there is no memory, the text stays, but for the length that string_set   *)
(* has taken back.                                                          *)
Write(s, l, piece, text) ==
  /\ input = <<>> /\ calls < MaxCalls
  /\ calls' = calls + 1
  /\ \/ /\ str' = Written(StringCheckLength(s, l), piece)
        /\ said' = [text |-> text \o piece, ok |-> TRUE]
        /\ UNCHANGED failures
     \/ /\ Grows(s, l)
        /\ failures' = failures + 1
        /\ str' = Refused(s, l)
        /\ said' = [text |-> text, ok |-> FALSE]
  /\ UNCHANGED input

StringAppend(piece) == Write(str, Len(piece), piece, said.text)
StringSet(piece) == Write([str EXCEPT !.len = 0], Len(piece), piece, <<>>)
StringAppendn(piece) == Write(str, Len(piece) + 1, piece, said.text)
StringAppendvf(piece) == Len(piece) >= LocalSize /\ Write(str, Len(piece) + 1, piece, said.text)
StringAppendChar(c) == Write(str, 1, <<c>>, said.text)
StringClear == /\ input = <<>> /\ calls < MaxCalls
               /\ calls' = calls + 1
               /\ str' = Empty /\ said' = [text |-> <<>>, ok |-> TRUE]
               /\ UNCHANGED <<input, failures>>

(* string_readline: fgets fills what is left of the buffer, again and again *)
(* until the end of the line or of the file, or of the memory.              *)
ReadStart(file) ==
  /\ input = <<>> /\ calls < MaxCalls
  /\ calls' = calls + 1
  /\ \/ /\ str' = StringCheckLength(str, str.len + MinSize)
        /\ input' = <<file>>
        /\ said' = [said EXCEPT !.ok = TRUE]
        /\ UNCHANGED failures
     \/ /\ Grows(str, str.len + MinSize)
        /\ failures' = failures + 1
        /\ str' = Refused(str, str.len + MinSize)
        /\ said' = [said EXCEPT !.ok = FALSE]
        /\ UNCHANGED input
Chunk(rest) == LET line == SelectInSeq(rest, LAMBDA c : c = "\n")
               IN  Min({str.max - str.len - 1, IF line = 0 THEN Len(rest) ELSE line})
Read(rest, n) ==
  LET piece == SubSeq(rest, 1, n)
      read == Written(str, piece)
      ended == Last(piece) = "\n"
  IN  /\ said' = [text |-> said.text \o piece, ok |-> TRUE]
      /\ str' = IF ended THEN read ELSE StringCheckLength(read, read.len + MinSize)
      /\ input' = IF ended THEN <<>> ELSE <<SubSeq(rest, n + 1, Len(rest))>>
      /\ UNCHANGED failures
ReadFails(rest, n) ==
  LET piece == SubSeq(rest, 1, n)
      read == Written(str, piece)
  IN  /\ Last(piece) # "\n" /\ Grows(read, read.len + MinSize)
      /\ said' = [text |-> said.text \o piece, ok |-> FALSE]
      /\ str' = read
      /\ input' = <<>>
      /\ failures' = failures + 1
ReadMore ==
  /\ input \notin {<<>>, <<<<>>>>}
  /\ Read(input[1], Chunk(input[1])) \/ ReadFails(input[1], Chunk(input[1]))
  /\ UNCHANGED calls
(* At the end of the file nothing is written, not even an end of string.    *)
ReadEnd == /\ input = <<<<>>>>
           /\ input' = <<>>
           /\ said' = [said EXCEPT !.ok = str.len > 0]
           /\ UNCHANGED <<str, calls, failures>>

Init == str = Empty /\ input = <<>> /\ said = [text |-> <<>>, ok |-> TRUE] /\ calls = 0 /\ failures = 0
Next == \/ \E piece \in Pieces : StringAppend(piece) \/ StringSet(piece) \/ StringAppendn(piece) \/ StringAppendvf(piece)
        \/ \E piece \in Pieces : piece # <<>> /\ StringAppendChar(piece[1])
        \/ \E file \in Lines : ReadStart(file)
        \/ ReadMore \/ ReadEnd \/ StringClear
Spec == Init /\ [][Next]_strvars
-----------------------------------------------------------------------------
(* Nothing is written past the buffer, and a string holds the text that was *)
(* put together, ended unless the last call failed or found no line.        *)
TextBuilt ==
  /\ str.buf # <<>> => Len(str.buf) = str.max
  /\ SubSeq(str.buf, 1, str.len) = said.text
  /\ str.buf # <<>> /\ said.ok /\ (input = <<>> \/ str.len > 0) => str.buf[str.len + 1] = "NUL"
===============================================================================
