--------------------------------- MODULE Cgi --------------------------------
(***************************************************************************)
(* The life of a request in cgi/cgi.c and cgi/rfc2388.c: cgi_init reads    *)
(* the environment, cgi_parse the body, by a registered callback, as a     *)
(* form, as a multipart upload or as a PUT, and cgi_destroy releases what  *)
(* was opened.  One process serves several requests, one after another.    *)
(*                                                                         *)
(* A multipart body is read line by line through a buffer; a step is one   *)
(* call of _read_line.  In a header of a part one character stands for a   *)
(* word: N and M for a disposition with the name n or m, F for a file      *)
(* name in it, T for a type and E for an encoding that is not supported.   *)
(***************************************************************************)
EXTENDS CgiForm

CONSTANTS
  Requests,        \* what clients send and how the server is configured
  MaxRequests,     \* bound on the requests of the process
  BUFLEN,          \* size of the buffer of _read_line and of a PUT
  Addresses        \* where malloc may place the string of a boundary

VARIABLES
  request,         \* the request and its configuration
  cgi,             \* the CGI struct and the progress of its handling
  cache,           \* the static variables of _is_boundary
  served           \* requests so far

vars == <<request, cgi, cache, served>>

NoPart == [header |-> <<>>, name |-> <<"(null)">>, filename |-> NULL, type |-> NULL,
           text |-> <<>>, last |-> <<>>]
Cgi0 == [phase |-> "idle", err |-> "", hdf |-> <<>>, files |-> <<>>, read |-> 0, pos |-> 0,
         buf |-> <<>>, nl |-> 0, foundNl |-> FALSE, unget |-> FALSE, line |-> <<>>,
         boundary |-> [address |-> 0, text |-> <<>>], part |-> NoPart, callback |-> 1, left |-> 0]

In(c, phase) == [c EXCEPT !.phase = phase]
Fail(c, err) == [c EXCEPT !.phase = "parsed", !.err = err]
-----------------------------------------------------------------------------
(* cgi_init: cgi_pre_parse.  A failure destroys the CGI.                    *)
PreParse(c) ==
  LET query(hdf) == ParseQuery(hdf, request.query, request.ignoreEmpty)
      read(ct) == IF ct.failed THEN Fail(c, "assert")
                  ELSE [c EXCEPT !.hdf = Once(ParseCookie(ct.hdf, request.cookie), query),
                                 !.phase = "callbacks"]
  IN  Once(ParseContentType(c.hdf, request.contentType), read)

CgiInit == /\ cgi.phase = "init"
           /\ cgi' = PreParse(cgi)
           /\ UNCHANGED <<request, cache, served>>

(* cgi_parse tries the callbacks in turn, those after one that has handled  *)
(* the request as well, and then the methods it knows.                      *)
Type == HdfGetValue(cgi.hdf, Append(ContentType, <<"Type">>), NULL)
Matches(cb) == cb.method \in {"*", request.method} /\ cb.type \in {<<"*">>, Type}
BoundaryText == HeaderAttr(request.contentType, <<"boundary">>)
Callback ==
  /\ cgi.phase = "callbacks"
  /\ cgi.callback <= Len(request.callbacks)
  /\ \E cb \in {request.callbacks[cgi.callback]} :
       cgi' = IF ~Matches(cb) \/ cb.answer = "nothandled" THEN [cgi EXCEPT !.callback = @ + 1]
              ELSE IF cb.answer = "ok"
              THEN [cgi EXCEPT !.callback = @ + 1, !.pos = Len(request.body)]
              ELSE Fail(cgi, "callback")
  /\ UNCHANGED <<request, cache, served>>

(* open_upload: a temporary file that has no name while it is open, unless  *)
(* Config.Upload.Unlink is off.  A file that mkstemp has made and fdopen    *)
(* refuses is left on the disk, and one whose name finds no place in        *)
(* cgi->filenames is closed although it stays in cgi->files.  left counts   *)
(* the files that are on the disk and that no list knows.                   *)
OpenUpload(c, fault) ==
  LET file == [content |-> <<>>, closed |-> 0, onDisk |-> ~request.unlink, named |-> ~request.unlink]
      nameless == [file EXCEPT !.closed = 1, !.named = FALSE]
  IN  CASE fault = "mkstemp" -> Fail(c, "mkstemp")
        [] fault = "fdopen" -> Fail([c EXCEPT !.left = @ + 1], "fdopen")
        [] fault = "names" /\ ~request.unlink -> Fail([c EXCEPT !.files = Append(@, nameless)], "names")
        [] OTHER -> [c EXCEPT !.files = Append(@, file)]

Faults == IF request.faults THEN {"", "mkstemp", "fdopen", "names", "write"} ELSE {""}
Length == request.length

Dispatch ==
  /\ cgi.phase = "callbacks"
  /\ cgi.callback > Len(request.callbacks)
  /\ \E fault \in Faults, a \in Addresses, cancels \in (IF request.watched THEN BOOLEAN ELSE {FALSE}) :
       cgi' = IF request.method = "POST" /\ Type = <<"form">>
              THEN In(cgi, IF Length <= 0 THEN "parsed" ELSE "form")
              ELSE IF request.method = "POST" /\ Type = <<"multipart">>
              THEN IF cancels THEN Fail(cgi, "cancelled")
                   ELSE [cgi EXCEPT !.phase = "find", !.boundary = [address |-> a, text |-> BoundaryText]]
              ELSE IF request.method = "PUT"
              THEN OpenUpload(In(cgi, IF Length <= 0 THEN "parsed" ELSE "put"), fault)
              ELSE In(cgi, "parsed")
  /\ UNCHANGED <<request, cache, served>>
-----------------------------------------------------------------------------
(* What cgiwrap_read can return when it is asked for n bytes: less than     *)
(* that, 0 at the end, or -1.  Asked for a negative number, fread takes it  *)
(* for a huge one and gives all there is, and a callback may refuse.        *)
Received(n) ==
  LET left == Len(request.body) - cgi.pos
      available == IF n < 0 THEN left ELSE Min({n, left})
  IN  (IF request.shortReads /\ available > 0 THEN 1 .. available ELSE {available})
      \cup (IF request.faults \/ n < 0 THEN {-1} ELSE {})
Bytes(c, n) == SubSeq(request.body, c.pos + 1, c.pos + n)

(* _parse_post_form reads Content-Length bytes, or fails.                   *)
FormRead(c) ==
  IF c.read < Length THEN c
  ELSE In([c EXCEPT !.hdf = ParseQuery(@, c.buf, request.ignoreEmpty)], "parsed")
PostForm ==
  /\ cgi.phase = "form"
  /\ \E n \in Received(Length - cgi.read) :
       cgi' = IF n <= 0 THEN Fail(cgi, "io")
              ELSE FormRead([cgi EXCEPT !.buf = @ \o Bytes(cgi, n), !.read = @ + n, !.pos = @ + n])
  /\ UNCHANGED <<request, cache, served>>

(* What an upload puts below its name: file name, type, number of the file, *)
(* and where the file is.                                                   *)
Optional(hdf, path, value) == IF value = NULL THEN hdf ELSE HdfSetValue(hdf, path, value)
SetFile(hdf, path, name, type, n) ==
  LET typed == Optional(Optional(hdf, path, name), Append(path, <<"Type">>), type)
      handle == HdfSetValue(typed, Append(path, <<"FileHandle">>), Numbered(n))
  IN  IF request.unlink THEN handle
      ELSE HdfSetValue(handle, Append(path, <<"FileName">>), Numbered(n))

PutPath == <<<<"PUT">>>>

(* PUT: a read that returns nothing is tried again.  After one that failed, *)
(* -1 bytes are written: all of the memory behind the buffer, until the     *)
(* file or the memory ends.                                                 *)
Put ==
  /\ cgi.phase = "put"
  /\ \E n \in Received(Min({BUFLEN, Length - cgi.read})), fault \in Faults :
       \E c \in {[cgi EXCEPT !.files[Len(cgi.files)].content = @ \o Bytes(cgi, n),
                             !.read = @ + n, !.pos = @ + n]} :
         cgi' \in IF n < 0 THEN {Fail(cgi, "io"), In(cgi, "killed")}
                  ELSE IF fault = "write" /\ n > 0 THEN {Fail(cgi, "io")}
                  ELSE IF c.read < Length THEN {c}
                  ELSE {In([c EXCEPT !.hdf = SetFile(@, PutPath, request.path, Type, Len(c.files))], "parsed")}
  /\ UNCHANGED <<request, cache, served>>
-----------------------------------------------------------------------------
(* _read_line.  The buffer holds what was read; nl is where the next line   *)
(* starts.  A line that does not end in the buffer is returned in pieces.   *)
Rest(c) == IF c.foundNl THEN SubSeq(c.buf, c.nl + 1, Len(c.buf)) ELSE <<>>
HasLine(s) == "\n" \in ToSet(s)
MustRead(c) == ~c.unget /\ ~HasLine(Rest(c))
Room(c) == BUFLEN - Len(Rest(c))
ToRead(c) == IF Length = 0 THEN Room(c) ELSE Min({Room(c), Length - c.read})
Reads == IF MustRead(cgi) THEN Received(ToRead(cgi)) ELSE {0}

FirstLine(s) == SubSeq(s, 1, Min({Find(s, 1, {"\n"}), Len(s)}))
Take(c, s, from) ==
  [c EXCEPT !.line = FirstLine(s), !.foundNl = HasLine(s), !.nl = from + Len(FirstLine(s))]
ReadLineAnew(c, n) ==
  IF c.unget THEN [c EXCEPT !.unget = FALSE]
  ELSE IF HasLine(Rest(c)) THEN Take(c, Rest(c), c.nl)
  ELSE Take([c EXCEPT !.buf = Bytes(c, n), !.read = @ + n, !.pos = @ + n], Bytes(c, n), 0)
ReadLine(c, n) ==
  LET buf == Rest(c) \o Bytes(c, n)
  IN  IF c.unget THEN [c EXCEPT !.unget = FALSE]
      ELSE IF HasLine(Rest(c)) THEN Take(c, Rest(c), c.nl)
      ELSE Take([c EXCEPT !.buf = buf, !.read = @ + n, !.pos = @ + n], buf, 0)

(* The end of the input; the upload callback may cancel after a read.  A    *)
(* request without Content-Length asks for -1 bytes less than it has read:  *)
(* what does not fit in the buffer is written behind it.                    *)
AtEnd(n) == MustRead(cgi) /\ n = 0
Overruns(n) == MustRead(cgi) /\ n > Room(cgi)
MayCancel(n) == request.watched /\ MustRead(cgi) /\ n > 0

(* _is_boundary keeps the length of the boundary as long as the pointer to  *)
(* it is the same.                                                          *)
Cached(c) == IF cache.address = c.boundary.address THEN cache
             ELSE [address |-> c.boundary.address, length |-> Len(c.boundary.text)]
Boundary(c) ==
  LET delimiter(s, bl) ==
        IF bl <= Len(c.boundary.text) /\ IsPrefix(<<"-", "-">> \o SubSeq(c.boundary.text, 1, bl), s)
        THEN CASE Len(s) = bl + 2 -> "next"
               [] Len(s) = bl + 4 /\ IsSuffix(<<"-", "-">>, s) -> "last"
               [] OTHER -> "no"
        ELSE "no"
      chopped(s) == IF IsSuffix(<<"\r">>, s) THEN Front(s) ELSE s
  IN  IF IsSuffix(<<"\n">>, c.line) THEN delimiter(chopped(Front(c.line)), Cached(c).length) ELSE "no"

(* One line of the body, what it does, and what the end of the body does.   *)
OnLine(phase, At(_, _), AtEof(_, _), compares) ==
  /\ cgi.phase = phase
  /\ \E n \in Reads, fault \in Faults :
       \/ /\ AtEnd(n)
          /\ cgi' = AtEof(cgi, fault)
          /\ UNCHANGED cache
       \/ /\ n < 0
          /\ cgi' = Fail(cgi, "io")
          /\ UNCHANGED cache
       \/ /\ Overruns(n)
          /\ cgi' = In(cgi, "killed")
          /\ UNCHANGED cache
       \/ /\ MayCancel(n) /\ ~Overruns(n)
          /\ cgi' = Fail([cgi EXCEPT !.read = @ + n, !.pos = @ + n], "cancelled")
          /\ UNCHANGED cache
       \/ /\ ~AtEnd(n) /\ n >= 0 /\ ~Overruns(n)
          /\ \E c \in {ReadLine(cgi, n)} : cgi' = At(c, fault)
          /\ cache' = IF compares THEN Cached(cgi) ELSE cache
  /\ UNCHANGED <<request, served>>

StartPart(c) == [c EXCEPT !.phase = "header", !.part = NoPart]

FindBoundary ==
  OnLine("find", LAMBDA c, fault : CASE Boundary(c) = "no" -> c
                                     [] Boundary(c) = "next" -> StartPart(c)
                                     [] Boundary(c) = "last" -> In(c, "parsed"),
         LAMBDA c, fault : In(c, "parsed"), TRUE)

(* _read_part puts what it has read into the data set.                      *)
FinishPart(c, end) ==
  LET p == c.part
      path == Path("Query", p.name)
      value == Rstrip(p.text)
      hdf == IF p.filename # NULL THEN SetFile(c.hdf, path, p.filename, p.type, Len(c.files))
             ELSE IF request.ignoreEmpty /\ value = <<>> THEN c.hdf
             ELSE AddValue(c.hdf, path, value)
      set == [c EXCEPT !.hdf = hdf]
  IN  IF end THEN In(set, "parsed") ELSE StartPart(set)

(* The headers are over: a part with a file name needs a file.              *)
StartData(c, end, fault) ==
  LET opened == IF c.part.filename = NULL THEN c ELSE OpenUpload(c, fault)
  IN  IF opened.err # "" THEN opened
      ELSE IF end THEN FinishPart(opened, TRUE) ELSE In(opened, "data")

Header(c) ==
  LET h == c.part.header
      words == ToSet(h)
  IN  CASE h[1] \in {"N", "M"} ->
             [c EXCEPT !.part.name = IF h[1] = "N" THEN <<"n">> ELSE <<"m">>,
                       !.part.filename = IF "F" \in words THEN <<"f">> ELSE NULL]
        [] h[1] = "T" -> [c EXCEPT !.part.type = <<"t">>]
        [] h[1] = "E" -> Fail(c, "assert")
        [] OTHER -> c

(* _read_header_line reads a line and those that continue it; the first     *)
(* line that does not is for the next call.                                 *)
ReadHeaderLine ==
  OnLine("header", LAMBDA c, fault : IF c.line[1] \in Blank THEN StartData(c, FALSE, fault)
                                     ELSE [c EXCEPT !.part.header = Rstrip(c.line), !.phase = "fold"],
         LAMBDA c, fault : StartData(c, TRUE, fault), FALSE)

FoldHeaderLine ==
  OnLine("fold", LAMBDA c, fault : IF c.line[1] \in {" ", "\t"}
                                   THEN [c EXCEPT !.part.header = @ \o <<" ">> \o Strip(c.line)]
                                   ELSE Header([c EXCEPT !.unget = TRUE, !.phase = "header"]),
         LAMBDA c, fault : StartData(c, TRUE, fault), FALSE)

(* A line of a file is written without its end, which is written before     *)
(* the next one.                                                            *)
Ending(s) ==
  IF Len(s) > 1 /\ SubSeq(s, Len(s) - 1, Len(s)) = <<"\r", "\n">> THEN <<"\r", "\n">>
  ELSE IF s # <<>> /\ Last(s) = "\n" THEN <<"\n">> ELSE <<>>
Write(c, fault) ==
  LET s == SubSeq(c.line, 1, Len(c.line) - Len(Ending(c.line)))
  IN  IF c.part.filename = NULL THEN [c EXCEPT !.part.text = @ \o c.line]
      ELSE IF fault = "write" /\ s # <<>> THEN Fail(c, "io")
      ELSE [c EXCEPT !.files[Len(c.files)].content = @ \o c.part.last \o s, !.part.last = Ending(c.line)]

ReadData ==
  OnLine("data", LAMBDA c, fault : IF Boundary(c) = "no" THEN Write(c, fault)
                                   ELSE FinishPart(c, Boundary(c) = "last"),
         LAMBDA c, fault : FinishPart(c, TRUE), TRUE)
-----------------------------------------------------------------------------
(* cgi_destroy closes every file and removes those in cgi->filenames.       *)
Released(c) ==
  [c EXCEPT !.files = [i \in DOMAIN @ |-> [@[i] EXCEPT !.closed = @ + 1,
                                                       !.onDisk = @ /\ ~c.files[i].named]]]
CgiDestroy ==
  /\ cgi.phase = "parsed"
  /\ cgi' = In(Released(cgi), "done")
  /\ UNCHANGED <<request, cache, served>>

NextRequest ==
  /\ cgi.phase \in {"idle", "done"}
  /\ served < MaxRequests
  /\ served' = served + 1
  /\ request' \in Requests
  /\ cgi' = In(Cgi0, "init")
  /\ UNCHANGED cache

Init == /\ request \in Requests
        /\ cgi = In(Cgi0, "init")
        /\ cache = [address |-> 0, length |-> 0]
        /\ served \in 1 .. MaxRequests

Handle == \/ CgiInit \/ Callback \/ Dispatch \/ PostForm \/ Put
          \/ FindBoundary \/ ReadHeaderLine \/ FoldHeaderLine \/ ReadData \/ CgiDestroy
Next == Handle \/ NextRequest
Spec == Init /\ [][Next]_vars
=============================================================================
