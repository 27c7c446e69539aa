------------------------------- MODULE HdfText -------------------------------
(***************************************************************************)
(* HDF data sets as text (util/neo_hdf.c): dumping, writing to a file,     *)
(* reading a string or a file with the files it includes.                  *)
(*                                                                         *)
(* A data set is a sequence of nodes in the order of their creation, a     *)
(* path is a sequence of names.  A text is a sequence of lines, a line a   *)
(* sequence of characters, among them the words "#include", "hdf" and      *)
(* "loadpaths".  Names do not go through symbolic links here (HdfTree has  *)
(* them), and the lines of a value are shorter than the buffer they are    *)
(* copied to.                                                              *)
(***************************************************************************)
EXTENDS Integers, Sequences, SequencesExt, NeoStr

CONSTANTS
  Texts,           \* what is first in the file
  Included,        \* the files that can be included: from full names to texts
  LoadPaths,       \* the values the program has set below hdf.loadpaths
  Values,          \* what the program sets: [value, link, attrs]
  Paths,           \* where it does
  DumpTypes,       \* of "dotted", "compact", "pretty"
  IncludeMaxDepth, \* INCLUDE_MAX_DEPTH
  Rounds,          \* how often the data set is written and read again
  MaxCrashes       \* bound on the crashes while a file is written

VARIABLES
  doc,             \* the data set that is read into
  source,          \* the one the text was made from, and how it was written
  frames,          \* the calls of _hdf_read_string, the innermost last
  disk,            \* the file and the temporary file
  state            \* what the program does, and the bounds

vars == <<doc, source, frames, disk, state>>

A == INSTANCE HdfAttr WITH NoValue <- NULL
NameChars == {"a", "b", "c", "d", "hdf", "loadpaths", "_", "."}
Alnum == {"a", "b", "c", "d", "1"}
Lstrip(s) == SubSeq(s, FindNot(s, 1, Blank), Len(s))
From(s, p) == SubSeq(s, p, Len(s))
-----------------------------------------------------------------------------
(* The nodes.  Set is _set_value of a name: the nodes on the way are made.  *)
(* The empty name is the node itself; of the root nothing is kept here.     *)
At(d, path) == SelectInSeq(d, LAMBDA n : n.path = path)
Children(d, path) == SelectSeq(d, LAMBDA n : Len(n.path) = Len(path) + 1 /\ IsPrefix(path, n.path))
Node(path) == [path |-> path, value |-> NULL, link |-> FALSE, attrs |-> <<>>]
Made(d, path) == FoldLeft(LAMBDA r, k : IF At(r, SubSeq(path, 1, k)) # 0 THEN r ELSE Append(r, Node(SubSeq(path, 1, k))),
                          d, [k \in 1 .. Len(path) |-> k])
Merge(had, attrs) == IF had = <<>> THEN attrs ELSE A!MergeAttr(had, attrs)
Set(d, path, value, link, attrs) ==
  LET m == Made(d, path)
      i == At(m, path)
  IN  IF i = 0 THEN m ELSE [m EXCEPT ![i].value = value, ![i].link = link, ![i].attrs = Merge(@, attrs)]
GetValue(d, path) == IF At(d, path) = 0 \/ d[At(d, path)].value = NULL THEN <<>> ELSE d[At(d, path)].value
Path(name) == IF name = <<>> THEN <<>> ELSE Split(name, ".", Len(name))
EmptyComponent(path) == SelectInSeq(path, LAMBDA c : c = <<>>)
-----------------------------------------------------------------------------
(* hdf_dump_cb.  repr_string_alloc quotes the value of an attribute.        *)
Quoted == ("\n" :> "n") @@ ("\t" :> "t") @@ ("\r" :> "r") @@ ("\"" :> "\"") @@ ("\\" :> "\\")
Repr(s) == <<"\"">> \o Escape(s, DOMAIN Quoted, LAMBDA c : <<"\\", Quoted[c]>>) \o <<"\"">>
AttrText(a) == IF a[2] = <<"1">> THEN a[1] ELSE a[1] \o <<"=">> \o Repr(a[2])
AttrsText(attrs) ==
  IF attrs = <<>> THEN <<>>
  ELSE <<" ", "[">>
       \o FoldLeft(LAMBDA t, a : IF t = <<>> THEN AttrText(a) ELSE t \o <<",", " ">> \o AttrText(a), <<>>, attrs)
       \o <<"]", " ">>
(* A value of several lines is dumped between two lines with a word, which  *)
(* is changed when a line after the first is just that word (the last line  *)
(* only counts in a long enough value).                                     *)
LinesOf(v) == Split(v, "\n", Len(v))
EOM == <<"E", "O", "M">>
Word(v) == LET lines == LinesOf(v) IN
           IF \E i \in 2 .. Len(lines) : lines[i] = EOM /\ (i < Len(lines) \/ Len(v) > 5) THEN <<"X", "Y">> ELSE EOM
ValueLines(head, n) ==
  IF "\n" \notin ToSet(n.value) THEN <<head \o <<" ", IF n.link THEN ":" ELSE "=", " ">> \o n.value>>
  ELSE LET lines == LinesOf(n.value) IN
       <<head \o <<" ", "<", "<", " ">> \o Word(n.value)>>
       \o (IF Last(lines) = <<>> THEN Front(lines) ELSE lines) \o <<Word(n.value)>>
Indent(type, lvl) == [i \in 1 .. (IF type = "pretty" THEN 2 * lvl ELSE 0) |-> " "]
NameText(type, path) ==
  IF type = "dotted" THEN FoldLeft(LAMBDA t, c : IF t = <<>> THEN c ELSE t \o <<".">> \o c, <<>>, path)
  ELSE Indent(type, Len(path) - 1) \o Last(path)
RECURSIVE Dump(_, _, _)
Dump(d, type, path) ==
  LET kids == Children(d, path)
      DumpNode(n) ==
        LET name == NameText(type, n.path)
            own == IF n.value = NULL THEN <<>> ELSE ValueLines(name \o AttrsText(n.attrs), n)
            below == Dump(d, type, n.path)
        IN  own \o (IF Children(d, n.path) = <<>> THEN <<>>
                    ELSE IF type = "dotted" THEN below
                    ELSE <<name \o <<" ", "{">>>> \o below \o <<Indent(type, Len(n.path) - 1) \o <<"}">>>>)
  IN  FlattenSeq([i \in DOMAIN kids |-> DumpNode(kids[i])])
-----------------------------------------------------------------------------
(* parse_attr: [ok, attrs, rest].  An attribute that has no value is given  *)
(* the empty one: the length of "1" is left at 0.                           *)
QuoteEnd(s) == LET next[p \in 1 .. Len(s) + 1] == IF p > Len(s) \/ s[p] = "\"" THEN p
                                                   ELSE IF s[p] = "\\" /\ p < Len(s) THEN next[p + 2] ELSE next[p + 1]
               IN  next[1]
Unquoted(s) == LET from[p \in 1 .. Len(s) + 1] ==
                     IF p > Len(s) THEN <<>>
                     ELSE IF s[p] # "\\" THEN <<s[p]>> \o from[p + 1]
                     ELSE <<CASE s[p + 1] = "n" -> "\n" [] s[p + 1] = "t" -> "\t" [] s[p + 1] = "r" -> "\r"
                              [] OTHER -> s[p + 1]>> \o from[p + 2]
               IN  from[1]
Malformed == [ok |-> FALSE, attrs |-> <<>>, rest |-> <<>>]
AttrValue(s) ==
  IF s = <<>> \/ s[1] # "=" THEN [ok |-> TRUE, v |-> <<>>, rest |-> s]
  ELSE LET t == Lstrip(Tail(s))
           quoted == t # <<>> /\ t[1] = "\""
           q == QuoteEnd(Tail(t))
           e == Find(t, 1, {" ", ",", "]"})
       IN  IF quoted THEN [ok |-> q < Len(t), v |-> Unquoted(SubSeq(Tail(t), 1, q - 1)), rest |-> From(t, q + 2)]
           ELSE [ok |-> e <= Len(t), v |-> SubSeq(t, 1, e - 1), rest |-> From(t, e)]
AfterComma(s) == LET t == Lstrip(s) IN IF t # <<>> /\ t[1] = "," THEN Lstrip(Tail(t)) ELSE t
RECURSIVE ParseAttr(_, _)
ParseAttr(s, attrs) ==
  LET e == FindNot(s, 1, Alnum)
      v == AttrValue(Lstrip(From(s, e)))
  IN  IF s = <<>> THEN Malformed
      ELSE IF s[1] = "]" THEN [ok |-> TRUE, attrs |-> attrs, rest |-> Lstrip(Tail(s))]
      ELSE IF e = 1 \/ e > Len(s) THEN Malformed
      ELSE IF ~v.ok THEN Malformed
      ELSE ParseAttr(AfterComma(v.rest), Append(attrs, <<SubSeq(s, 1, e - 1), v.v>>))
-----------------------------------------------------------------------------
(* _hdf_read_string: a frame per call, for a file and for a brace.  A frame *)
(* of a brace reads from the text of the file below it.                     *)
FileFrame == Max({i \in DOMAIN frames : frames[i].kind = "file"})
Rest == frames[FileFrame].rest
Reading == state.pc = "read" /\ frames # <<>>
Here == Last(frames).path
Consume(n) == [frames EXCEPT ![FileFrame].rest = From(@, n + 1)]
Brace(path) == [kind |-> "brace", path |-> path, rest |-> <<>>, depth |-> 0]
File(path, text, depth) == [kind |-> "file", path |-> path, rest |-> text, depth |-> depth]

(* A line up to its operator: the name, the attributes and what follows.    *)
Entry(line) ==
  LET t == Lstrip(line)
      e == FindNot(t, 1, NameChars)
      u == Lstrip(From(t, e))
      a == IF u # <<>> /\ u[1] = "[" THEN ParseAttr(Tail(u), <<>>) ELSE [ok |-> TRUE, attrs |-> <<>>, rest |-> u]
  IN  [name |-> SubSeq(t, 1, e - 1), ok |-> a.ok, attrs |-> a.attrs, rest |-> a.rest,
       op |-> IF a.rest = <<>> THEN "none"
              ELSE IF Len(a.rest) > 1 /\ SubSeq(a.rest, 1, 2) = <<":", "=">> THEN ":="
              ELSE IF Len(a.rest) > 1 /\ SubSeq(a.rest, 1, 2) = <<"<", "<">> THEN "<<"
              ELSE IF a.rest[1] \in {"=", ":", "{"} THEN a.rest[1] ELSE "none"]
(* A name that has an empty component is refused, after the nodes before it *)
(* were made.                                                               *)
Before(path) == SubSeq(path, 1, EmptyComponent(path) - 1)
Entering(e) == e.op # "none" /\ e.ok /\ EmptyComponent(Path(e.name)) = 0
Starts(line) == LET t == Lstrip(line) IN IF t = <<>> THEN "blank" ELSE t[1]
IsEntry(line) == Starts(line) \notin {"blank", "#", "#include", "}"}

Fails == state' = [state EXCEPT !.pc = "error"] /\ UNCHANGED <<source, disk>>

(* The end of the text ends every call that reads from it.                  *)
EndOfText == /\ Reading /\ Rest = <<>>
             /\ frames' = SubSeq(frames, 1, FileFrame - 1)
             /\ state' = IF FileFrame = 1 THEN [state EXCEPT !.pc = "done"] ELSE state
             /\ UNCHANGED <<doc, source, disk>>
Comment == /\ Reading /\ Rest # <<>> /\ Starts(Head(Rest)) \in {"blank", "#"}
           /\ frames' = Consume(1)
           /\ UNCHANGED <<doc, source, disk, state>>
(* A brace ends the innermost call, also when that is a file's: what the    *)
(* file has after it is not read.                                           *)
Up == /\ Reading /\ Rest # <<>> /\ Starts(Head(Rest)) = "}"
      /\ IF Strip(Head(Rest)) = <<"}">>
         THEN /\ frames' = Front(Consume(1))
              /\ state' = IF Len(frames) = 1 THEN [state EXCEPT !.pc = "done"] ELSE state
              /\ UNCHANGED <<source, disk>>
         ELSE Fails /\ UNCHANGED frames
      /\ UNCHANGED doc
(* hdf_search_path: the first load path that has the file; the load paths   *)
(* are those below the node that is read into, which a brace changes.       *)
SearchPaths(node) ==
  (IF node = <<>> THEN LoadPaths ELSE <<>>)
  \o Each(Children(doc, node \o <<<<"hdf">>, <<"loadpaths">>>>), LAMBDA n : GetValue(doc, n.path))
Full(name) == LET found == SelectSeq(SearchPaths(Here), LAMBDA p : p \o <<"/">> \o name \in DOMAIN Included)
              IN  IF found = <<>> THEN name ELSE Head(found) \o <<"/">> \o name
Unquote(s) == IF s # <<>> /\ s[1] = "\"" /\ Last(s) = "\"" THEN Tail(Front(s)) ELSE s
Include ==
  /\ Reading /\ Rest # <<>> /\ Starts(Head(Rest)) = "#include"
  /\ LET name == Full(Unquote(Strip(Tail(Lstrip(Head(Rest))))))
     IN  IF frames[FileFrame].depth < IncludeMaxDepth /\ name \in DOMAIN Included
         THEN /\ frames' = Append(Consume(1), File(Here, Included[name], frames[FileFrame].depth + 1))
              /\ UNCHANGED <<source, disk, state>>
         ELSE Fails /\ UNCHANGED frames
  /\ UNCHANGED doc

Assign(e, value, link, n) == /\ doc' = Set(doc, Here \o Path(e.name), value, link, e.attrs)
                             /\ frames' = Consume(n)
                             /\ UNCHANGED <<source, disk, state>>
(* The lines up to the one that starts with the word and a blank.           *)
MultiLine(e) ==
  LET word == Strip(From(e.rest, 3))
      ends == {i \in 2 .. Len(Rest) : IsPrefix(word, Rest[i])
                                        /\ (Len(Rest[i]) = Len(word) \/ Rest[i][Len(word) + 1] \in Blank)}
      last == Min(ends \cup {Len(Rest) + 1})
  IN  IF word = <<>> THEN Fails /\ UNCHANGED <<doc, frames>>
      ELSE Assign(e, Concat([i \in 1 .. last - 2 |-> Rest[i + 1] \o <<"\n">>]), FALSE, Min({last, Len(Rest)}))
DeeperAnew(e) ==
  LET path == Here \o Path(e.name)
  IN  /\ doc' = Set(doc, path, NULL, FALSE, e.attrs)
      /\ frames' = Append(Consume(1), Brace(path))
      /\ UNCHANGED <<source, disk, state>>
Deeper(e) ==
  LET path == Here \o Path(e.name)
      value == IF At(doc, path) = 0 THEN NULL ELSE doc[At(doc, path)].value
  IN  /\ doc' = Set(doc, path, value, FALSE, e.attrs)
      /\ frames' = Append(Consume(1), Brace(path))
      /\ UNCHANGED <<source, disk, state>>
ReadEntry ==
  /\ Reading /\ Rest # <<>> /\ IsEntry(Head(Rest))
  /\ \E e \in {Entry(Head(Rest))} :
       \/ ~Entering(e) /\ Fails /\ UNCHANGED frames
          /\ doc' = IF e.ok /\ e.op # "none" THEN Made(doc, Here \o Before(Path(e.name))) ELSE doc
       \/ Entering(e) /\ e.op = "=" /\ Assign(e, Strip(From(e.rest, 2)), FALSE, 1)
       \/ Entering(e) /\ e.op = ":=" /\ Assign(e, GetValue(doc, Path(Strip(From(e.rest, 3)))), FALSE, 1)
       \/ Entering(e) /\ e.op = ":" /\ Assign(e, Strip(From(e.rest, 2)), TRUE, 1)
       \/ Entering(e) /\ e.op = "<<" /\ MultiLine(e)
       \/ Entering(e) /\ e.op = "{" /\ Deeper(e)
-----------------------------------------------------------------------------
(* hdf_write_file and hdf_write_file_atomic, and a crash in the middle of    *)
(* them: another process then reads what is there.                          *)
Start == /\ doc' = <<>>
         /\ frames' = <<File(<<>>, disk'.file, 0)>>
Writing(how) == state.pc = "write" /\ state.how = how
Write(how) == /\ Writing(how)
              /\ disk' = [disk EXCEPT !.file = source.text]
              /\ state' = [state EXCEPT !.pc = "read"]
              /\ Start
              /\ UNCHANGED source
CrashInWrite(how, target) ==
  /\ Writing(how)
  /\ state.crashes < MaxCrashes
  /\ state' = [state EXCEPT !.pc = "read", !.crashes = @ + 1]
  /\ source' = [source EXCEPT !.whole = FALSE]
  /\ \E k \in 0 .. Len(source.text) : disk' = [disk EXCEPT ![target] = SubSeq(source.text, 1, k)]
  /\ Start
CrashInPlace == CrashInWrite("file", "file")
CrashAtomic == CrashInWrite("tmp", "tmp")
(* hdf_set_value, hdf_set_symlink and hdf_set_attr on what was first read;  *)
(* no node is below a link.                                                 *)
Edit == /\ state.pc = "done" /\ state.rounds = 0
        /\ \E v \in Values, p \in Paths :
             /\ v.link => Children(doc, p) = <<>>
             /\ \A i \in DOMAIN doc : doc[i].link => ~IsStrictPrefix(doc[i].path, p)
             /\ doc' = Set(doc, p, v.value, v.link, v.attrs)
        /\ state' = [state EXCEPT !.pc = "edited"]
        /\ UNCHANGED <<source, frames, disk>>
Again == /\ state.pc \in {"done", "edited"} /\ state.rounds < Rounds
         /\ \E type \in DumpTypes, how \in {"file", "tmp"} :
              /\ source' = [doc |-> doc, type |-> type, whole |-> TRUE, text |-> Dump(doc, type, <<>>),
                             before |-> disk.file]
              /\ state' = [state EXCEPT !.pc = "write", !.how = how, !.rounds = @ + 1]
         /\ UNCHANGED <<doc, frames, disk>>

Init == \E t \in Texts :
          /\ disk = [file |-> t, tmp |-> <<>>]
          /\ doc = <<>> /\ frames = <<File(<<>>, t, 0)>>
          /\ source = [doc |-> <<>>, type |-> "none", whole |-> FALSE, text |-> t, before |-> t]
          /\ state = [pc |-> "read", how |-> "tmp", rounds |-> 0, crashes |-> 0]
Next == EndOfText \/ Comment \/ Up \/ Include \/ ReadEntry \/ Edit \/ Again \/ CrashInPlace \/ CrashAtomic
        \/ \E how \in {"file", "tmp"} : Write(how)
Spec == Init /\ [][Next]_vars
-----------------------------------------------------------------------------
(* What a text keeps of a data set: no attributes of a node without a       *)
(* value, no such node unless it has children (dotted: unless a node below  *)
(* it has a value); a value has no blanks around it or, if it has lines,    *)
(* ends with one and is not a link; an attribute "1" becomes empty.         *)
KeptNode(n) ==
  LET lines == n.value # NULL /\ "\n" \in ToSet(n.value)
      value == IF n.value = NULL THEN NULL
               ELSE IF ~lines THEN Strip(n.value)
               ELSE IF Last(n.value) = "\n" THEN n.value ELSE Append(n.value, "\n")
      attrs == [i \in DOMAIN n.attrs |-> IF n.attrs[i][2] = <<"1">> THEN <<n.attrs[i][1], <<>>>> ELSE n.attrs[i]]
  IN  [n EXCEPT !.value = value, !.link = @ /\ ~lines, !.attrs = IF n.value = NULL THEN <<>> ELSE attrs]
Shows(d, type, n) == \/ n.value # NULL
                     \/ type # "dotted" /\ Children(d, n.path) # <<>>
                     \/ \E i \in DOMAIN d : d[i].value # NULL /\ IsPrefix(n.path, d[i].path)
Kept(d, type) == {KeptNode(d[i]) : i \in {k \in DOMAIN d : Shows(d, type, d[k])}}
OrderOf(d, paths) == {<<p, q>> \in paths \X paths : Front(p) = Front(q) /\ At(d, p) < At(d, q)}

(* A value with a line that ends it when it is read and that the dump does  *)
(* not see: the first, one that goes on after a blank, or the last of a     *)
(* short value.                                                             *)
Ambiguous(n) ==
  n.value # NULL /\ LET lines == LinesOf(n.value) IN
    /\ Len(lines) > 1
    /\ \/ lines[1] = EOM
       \/ \E i \in DOMAIN lines : Len(lines[i]) > 3 /\ IsPrefix(EOM, lines[i]) /\ lines[i][4] \in Blank
       \/ Last(lines) = EOM /\ Len(n.value) <= 5

(* A data set that is written as text, whole, and read again is the data    *)
(* set that was written, with the order of every level: nothing is lost but *)
(* what Kept says, and no text the code writes is refused -- unless a value *)
(* holds the line that ends it.                                             *)
TextExact ==
  source.whole /\ (\A i \in DOMAIN source.doc : ~Ambiguous(source.doc[i])) =>
    /\ state.pc # "error"
    /\ state.pc = "done" => LET paths == {doc[i].path : i \in DOMAIN doc} IN
         /\ ToSet(doc) = Kept(source.doc, source.type)
         /\ OrderOf(doc, paths) = OrderOf(source.doc, paths)

(* A file that is written atomically is always the old one or the new one.  *)
AtomicWhole == state.how = "tmp" => disk.file \in {source.before, source.text}
==============================================================================
