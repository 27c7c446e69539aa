-------------------------------- MODULE MCCgi --------------------------------
(* Requests of every method with small bodies; small strings; and, by       *)
(* itself, the preforking server that accepts connections.                  *)
EXTENDS Cgi, NeoAuto

VARIABLES
  part,      \* "request", "text" or "server"
  text,      \* a string for the functions on strings, or NULL
  steps,     \* steps since the request arrived, up to one more than it may take
  parent, child, acceptLock, queue, world   \* of Server

CRLF == <<"\r", "\n">>
DelimiterOf(b) == <<"-", "-">> \o b
Delimiter == DelimiterOf(<<"b">>)

Request0 == [method |-> "POST", contentType |-> NULL, query |-> <<>>, cookie |-> NULL, body |-> <<>>,
             length |-> 0, callbacks |-> <<>>, unlink |-> TRUE, ignoreEmpty |-> FALSE, shortReads |-> FALSE,
             watched |-> FALSE, faults |-> FALSE, path |-> NULL, boundary |-> <<"b">>, sent |-> <<>>, asked |-> <<>>, kept |-> <<>>]

(* Multipart bodies.                                                        *)
Long == [i \in 1 .. BUFLEN |-> "x"]
Words == {<<>>, <<"x">>, <<"x", "x", "\r">>, Delimiter \o <<"x">>, Long \o <<"\r">>}
Ends == {CRLF, <<"\n">>}
Contents == Words \cup {w \o e \o v : w \in Words, e \in Ends, v \in Words}
Heads == {<<"N">>, <<"N", "F">>, <<"N">> \o CRLF \o <<" ", "F">> \o CRLF \o <<"T">>, <<"T">> \o CRLF \o <<"M">>}
PartOf(b, e, head, content) == DelimiterOf(b) \o e \o head \o e \o e \o content \o e
FinalOf(b, e) == DelimiterOf(b) \o <<"-", "-">> \o e
Part(head, content) == PartOf(<<"b">>, CRLF, head, content)
Final == FinalOf(<<"b">>, CRLF)
MultipartOf(b) == <<"multipart", ";", "boundary", "=">> \o b
Multipart == MultipartOf(<<"b">>)

(* Uploads with a boundary of another length, and uploads with a            *)
(* Content-Length of 0, or without one, that fit in the buffer or do not.   *)
Renamed ==
  {[Request0 EXCEPT !.contentType = MultipartOf(b), !.boundary = b, !.body = body, !.length = Len(body)] :
     b \in {<<"b", "b">>},
     body \in {PartOf(<<"b", "b">>, CRLF, h, c) \o FinalOf(<<"b", "b">>, CRLF) :
                 h \in Heads, c \in {<<"x">>} \cup {Delimiter \o e : e \in Ends}}}
Unsized ==
  {[Request0 EXCEPT !.contentType = Multipart, !.body = body, !.length = n] :
     n \in {-1, 0},
     body \in {PartOf(<<"b">>, <<"\n">>, <<"N">>, v) \o FinalOf(<<"b">>, <<"\n">>) : v \in {<<>>, <<"x">>, <<"x", "x">>}}
              \cup {Part(h, <<"x", "\r">>) \o Final : h \in Heads}}
Sized ==
  {[Request0 EXCEPT !.contentType = Multipart, !.body = b, !.length = Len(b), !.unlink = u] :
     u \in BOOLEAN,
     b \in {Part(h, c) \o Part(<<"N", "F">>, d) \o Final : h \in Heads, c \in Contents, d \in {<<>>, <<"x">>}}
           \cup {Part(<<"N">>, c) \o Part(h, <<"x", " ">>) \o Final : h \in Heads, c \in Words}}

Uploads == Sized \cup Renamed \cup Unsized

(* Uploads that end early, are cancelled, or meet a full disk; short reads. *)
Whole == <<"x", "\n">> \o Part(<<"N", "F">>, <<"x">> \o CRLF \o <<"x">>) \o Part(<<"E">>, <<>>) \o Final
Cut(k) == [Request0 EXCEPT !.contentType = Multipart, !.body = SubSeq(Whole, 1, k), !.length = Len(Whole)]
Broken ==
  {[Cut(k) EXCEPT !.unlink = u, !.watched = w, !.faults = f] :
     k \in 0 .. Len(Whole), u \in BOOLEAN, w \in BOOLEAN, f \in BOOLEAN}
  \cup {[Cut(k) EXCEPT !.unlink = FALSE, !.shortReads = TRUE] : k \in {Len(Whole) \div 2, Len(Whole)}}
Unread == {[r EXCEPT !.faults = TRUE, !.unlink = FALSE] : r \in Unsized}
Puts ==
  {[Request0 EXCEPT !.method = m, !.contentType = <<"form">>, !.body = <<"x", "x", "x">>,
                    !.length = n, !.unlink = u, !.shortReads = TRUE, !.faults = f, !.path = <<"x">>] :
     m \in {"PUT", "POST"}, n \in {-1, 0, 3, 4}, u \in BOOLEAN, f \in BOOLEAN}

(* Forms: the variables sent in the query string and in the body, and the   *)
(* cookies.                                                                 *)
Names == {<<>>, <<"x">>, <<"&", "=">>}
Values == {<<>>, <<"x">>, <<"%", "2">>, <<" ", "+">>}
Pairs == Names \X Values
Encoded(pairs) ==
  LET one(p) == UrlEscape(p[1]) \o <<"=">> \o UrlEscape(p[2])
  IN  Concat([i \in DOMAIN pairs |-> IF i = 1 THEN one(pairs[i]) ELSE <<"&">> \o one(pairs[i])])
Cookies(pairs) == Concat(Each(pairs, LAMBDA p : <<" ">> \o p[1] \o <<"=">> \o p[2] \o <<";">>))
Xml == [method |-> "*", type |-> <<"xml">>, answer |-> "ok"]
Others == [method |-> "POST", type |-> <<"*">>, answer |-> "nothandled"]
Forms ==
  {[Request0 EXCEPT !.contentType = <<"form">>, !.query = Encoded(q), !.body = Encoded(b),
                    !.length = Len(Encoded(b)), !.asked = q, !.sent = b, !.shortReads = Len(Encoded(b)) < 8,
                    !.callbacks = <<Xml, Others>>, !.ignoreEmpty = i] :
     q \in {<<>>} \cup {<<p>> : p \in Pairs}, b \in {<<p, r>> : p \in Pairs, r \in {<<<<"x">>, v>> : v \in Values}},
     i \in BOOLEAN}
  \cup {[Request0 EXCEPT !.method = "GET", !.cookie = Cookies(k), !.kept = k] :
     k \in UNION {[1 .. n -> {<<"x">>, <<"_">>} \X {<<>>, <<"x">>, <<"=", "x">>}] : n \in 0 .. 3}}
  \cup {[Request0 EXCEPT !.contentType = t, !.callbacks = c] :
     t \in {<<"xml">>, <<"form", ";", ";">>, <<" ", "form">>},
     c \in {<<Xml>>, <<[Others EXCEPT !.answer = "error"]>>}}

MCRequests == Uploads \cup Broken \cup Unread \cup Puts \cup Forms

StringChars == {"x", "%", " ", "2", "/", "\r", "\\"}
HtmlChars == {"x", "&", "<", ">", "\"", "'", "\r", "\f", "VT"}
EscapedTexts == UNION {[1 .. n -> StringChars] : n \in 0 .. 4} \cup UNION {[1 .. n -> HtmlChars] : n \in 0 .. 3}
PageChars == {"<", ">", "pre", "/pre>", "\n", " ", "x"}
AutoChars == {"x", "<", "&", "\"", "'", " ", "\r", "\n", "\\", "SOH", "DEL", "HIGH",
              "/", "?", ":", "=", ";", "0", "e", "true"}
Urls == {w \o v \o u : w \in {<<"script">>, <<"HTTP">>, <<" ", "http">>, <<"SOH", "mailto">>, <<"mailto">>},
                       v \in {<<":">>, <<":", "/">>, <<":", "/", "/">>, <<"&", ":">>}, u \in {<<>>, <<"x">>, <<"?">>, <<"'">>}}
Entity == ("&amp;" :> "&") @@ ("&lt;" :> "<") @@ ("&gt;" :> ">") @@ ("&quot;" :> "\"") @@ ("&#39;" :> "'")
          @@ ("&#61;" :> "=") @@ ("&nbsp;" :> "\r")
HtmlRead(s) == Each(s, LAMBDA c : IF c \in DOMAIN Entity THEN Entity[c] ELSE c)
Numbers == UNION {[1 .. n -> {"0", "x", "e", "+", "A"}] : n \in 0 .. 4}
AutoTexts == UNION {[1 .. n -> AutoChars] : n \in 0 .. 2} \cup Urls \cup Numbers
Blanks == UNION {[1 .. n -> {"\n", " ", "x", "<"}] : n \in 0 .. 3}
Texts == EscapedTexts \cup UNION {[1 .. n -> PageChars] : n \in 0 .. 5}
         \cup AutoTexts
         \cup {<<"x", "<", "pre", ">">> \o b \o <<"<", "/pre>">> \o c : b \in Blanks, c \in {<<>>, <<" ", " ", "x">>}}

(* What a process may have served before.                                   *)
Firsts == {[Cut(Len(Whole)) EXCEPT !.watched = TRUE]}

StepBound == 2 * Len(request.body) + Len(request.callbacks) + 6
S == INSTANCE Server WITH Slots <- 1 .. 3, NumChildren <- 2, NumRequests <- 2, MaxConnections <- 4,
                          MaxCrashes <- 2, MaxForkFailures <- 1

server == <<parent, child, acceptLock, queue, world>>
MCInit == /\ steps = 0
          /\ \/ part = "request" /\ Init /\ text = NULL /\ (served = 1 => request \in Firsts)
             \/ /\ part \in {"text", "server"}
                /\ text \in IF part = "text" THEN Texts ELSE {NULL}
                /\ request = Request0
                /\ cgi = Cgi0
                /\ cache = [address |-> 0, length |-> 0]
                /\ served = MaxRequests
          /\ S!Init
          /\ part # "server" => ~parent.debug
MCNext == /\ \/ /\ part = "request" /\ Next
                /\ steps' = IF cgi'.phase = "init" THEN 0 ELSE Min({steps + 1, StepBound + 1})
                /\ UNCHANGED server
             \/ part = "server" /\ S!Next /\ UNCHANGED <<vars, steps>>
          /\ UNCHANGED <<part, text>>
MCSpec == /\ MCInit /\ [][MCNext]_<<vars, part, text, steps, server>>
          /\ part = "server" => S!Fairness
-----------------------------------------------------------------------------
Done == cgi.phase = "done"
Sound == Done /\ cgi.err = ""

(* A multipart body cut at its delimiter lines: the parts, each as its      *)
(* header text and its content.                                             *)
Ls(s) == SelectSeq(Split(s, "\n", Len(s)), LAMBDA l : TRUE)
Chopped(l) == IF IsSuffix(<<"\r">>, l) THEN Front(l) ELSE l
Delimits(l) == Chopped(l) = DelimiterOf(request.boundary)
IsEnd(l) == Chopped(l) = DelimiterOf(request.boundary) \o <<"-", "-">>
Joined(lines, from, to) ==
  Concat([k \in 1 .. to - from + 1 |-> IF k = 1 THEN lines[from] ELSE <<"\n">> \o lines[from + k - 1]])
PartIn(lines, i, empty, next) ==
  [head |-> Joined(lines, i + 1, empty - 1), content |-> Chopped(Joined(lines, empty + 1, next - 1))]
PartAt(lines, i, next) == PartIn(lines, i, Min({j \in i + 1 .. next : Chopped(lines[j]) = <<>>}), next)
PartsWithin(lines, starts, ends) ==
  Each(SetToSortSeq(starts, <), LAMBDA i : PartAt(lines, i, Min({j \in ends : j > i})))
PartsBetween(lines, starts) ==
  PartsWithin(lines, starts, starts \cup {i \in DOMAIN lines : IsEnd(lines[i])})
PartsOfLines(lines) == PartsBetween(lines, {i \in DOMAIN lines : Delimits(lines[i])})
PartsOf(s) == PartsOfLines(Ls(s))

IsFile(p) == "F" \in ToSet(p.head)
NameIn(p) == IF "N" \in ToSet(p.head) THEN <<"n">> ELSE <<"m">>

(* The list of the values that a name was given.                            *)
Listed(hdf, path) ==
  LET kids == Kids(hdf, path)
  IN  IF kids # <<>> THEN Each(kids, LAMBDA n : n.value)
      ELSE IF Exists(hdf, path) THEN <<HdfGetValue(hdf, path, NULL)>> ELSE <<>>

(* What UploadsExact asks of the files and of the values of each name.      *)
Fits == \A i \in DOMAIN Ls(request.body) : Len(Ls(request.body)[i]) < BUFLEN
FilesExact(files) ==
  /\ Len(cgi.files) = Len(files)
  /\ Fits => \A i \in DOMAIN files : cgi.files[i].content = files[i].content
NamedExact(parts, path, name, of) ==
  IF of # {} THEN HdfGetValue(cgi.hdf, Append(path, <<"FileHandle">>), NULL) = Numbered(Max(of))
  ELSE Fits => Listed(cgi.hdf, path) = Each(SelectSeq(parts, LAMBDA p : NameIn(p) = name), LAMBDA p : Rstrip(p.content))
PartsExact(parts, files) ==
  /\ FilesExact(files)
  /\ \A name \in {<<"n">>, <<"m">>} :
       NamedExact(parts, Path("Query", name), name, {i \in DOMAIN files : NameIn(files[i]) = name})
(* A whole multipart body, read without short reads, is what its parts say: *)
(* the files in their order with their content, and the values of every     *)
(* name that was not a file, unless a line is longer than the buffer, and   *)
(* even then as many files (_read_line, _read_part, _is_boundary).  This    *)
(* holds without a Content-Length as long as the process survives, and      *)
(* unless the length of a boundary of an earlier request, at the same       *)
(* address, is taken for that of this one.                                  *)
Stale == cache.length # Len(cgi.boundary.text)
UploadsExact ==
  Sound /\ request \in Uploads /\ ~Stale =>
    \A parts \in {PartsOf(request.body)} : PartsExact(parts, SelectSeq(parts, IsFile))

(* However a request ends, every file that was opened is closed once and    *)
(* none is left on the disk (open_upload, cgi_destroy), but for one whose   *)
(* fdopen failed, or whose name found no memory: it stays on the disk, and  *)
(* the latter is closed twice.                                              *)
UploadsReleased ==
  Done =>
    /\ cgi.left = IF cgi.err = "fdopen" THEN 1 ELSE 0
    /\ \A i \in DOMAIN cgi.files :
         \/ cgi.files[i].closed = 1 /\ ~cgi.files[i].onDisk
         \/ cgi.err = "names" /\ i = Len(cgi.files)

(* Every variable of the query string and of the body of a form is in the   *)
(* data set, in the order in which they were sent, and every cookie with    *)
(* its last value (_parse_query, _parse_post_form, _parse_cookie).          *)
FormsAreRead ==
  Sound /\ request \in Forms =>
    LET all == request.asked \o request.sent
        kept(pairs, name) == Each(SelectSeq(pairs, LAMBDA p : p[1] = name /\ (request.ignoreEmpty => p[2] # <<>>)),
                                  LAMBDA p : p[2])
        cookie(name) == Each(SelectSeq(request.kept, LAMBDA p : p[1] = name /\ p[2] # <<>>), LAMBDA p : p[2])
    IN  /\ \A name \in Names \ {<<>>} :
             LET path == <<<<"Query">>, name>>
             IN  /\ Listed(cgi.hdf, path) = kept(all, name)
                 /\ kept(all, name) # <<>> => HdfGetValue(cgi.hdf, path, NULL) = Last(kept(all, name))
        /\ \A name \in {<<"x">>, <<"_">>} :
             HdfGetValue(cgi.hdf, <<<<"Cookie">>, name>>, NULL)
               = IF cookie(name) = <<>> THEN NULL ELSE Last(cookie(name))

JsRead(s) ==
  LET from[i \in 1 .. Len(s) + 1] ==
        IF i > Len(s) THEN <<>>
        ELSE IF s[i] # "\\" THEN <<s[i]>> \o from[i + 1]
        ELSE IF s[i + 1] = "x" THEN <<CharOf(s[i + 2], s[i + 3])>> \o from[i + 4]
        ELSE IF s[i + 1] = "u" THEN <<CharOf(s[i + 4], s[i + 5])>> \o from[i + 6]
        ELSE <<CHOOSE c \in DOMAIN JsonShort : JsonShort[c] = s[i + 1]>> \o from[i + 2]
  IN  from[1]
(* What is escaped reads back as it was, and holds none of the characters   *)
(* that the escaping is for (neos_escape, url_escape_helper, neos_js_escape,*)
(* neos_json_escape, neos_html_escape).                                     *)
EscapesInvert ==
  text # NULL /\ text \in EscapedTexts =>
    /\ UrlUnescape(UrlEscape(text)) = text
    /\ UrlUnescape(UrlEscapeRfc2396(text)) = text
    /\ NeosUnescape(NeosEscape(text, "_", {"/", "%"}), "_") = text
    /\ ToSet(UrlEscape(text)) \cap {" ", "/", "\r"} = {}
    /\ \A out \in {JsEscape(text), JsonEscape(text)} :
         ToSet(out) \cap {"/", "\r", "<", ">", "&", "\"", "'"} = {} /\ JsRead(out) = text
    /\ ToSet(CssUrlEscape(text)) \cap {"\r", "\\", "<", ">", "\"", "'"} = {}
    /\ ToSet(HtmlEscape(text)) \cap {"&", "<", ">", "\"", "'", "\r"} = {}
    /\ HtmlRead(HtmlEscape(text)) = SelectSeq(text, LAMBDA c : c # "\r")
    /\ Split(UrlEscape(text), "+", Len(text)) = Each(Split(text, " ", Len(text)), UrlEscape)

(* Stripping white space leaves everything else as it was, and the first    *)
(* tag of the page with its white space if it is a pre block, and does      *)
(* nothing to a page that is already stripped (cgi_html_ws_strip).          *)
IsPre(b) == IsPrefix(<<"<", "pre">>, b) /\ IsSuffix(<<"<", "/pre>">>, b)
StripKeepsText ==
  text # NULL /\ ToSet(text) \subseteq PageChars =>
    \A level \in 1 .. 2 :
      LET out == HtmlWsStrip(text, level)
          seen(s) == SelectSeq(s, LAMBDA c : c \notin Blank)
          blocks(s) == {b \in {SubSeq(s, Find(s, 1, {"<"}), k) : k \in DOMAIN s} : IsPre(b)}
      IN  /\ seen(out) = seen(text)
          /\ HtmlWsStrip(out, level) = out
          /\ \A b \in blocks(text) : (\A c \in blocks(text) : Len(b) <= Len(c)) => b \in blocks(out)

(* What the kit makes of headers: only the header Host becomes HTTP.Host;   *)
(* the value of a header is not touched by the attributes after it; a page  *)
(* is only sent in an encoding the browser has named; a redirect leads to   *)
(* the port the request came to; and a port in the Host header does not     *)
(* change the domain of the cookies (_convert_http_name, _header_value,     *)
(* cgi_output, cgi_vredirect, cgi_cookie_authority).                        *)
HeaderNames == UNION {[1 .. n -> {"h", "H", "x", "-"}] : n \in 1 .. 4}
Domains == {<<".", "x">>, <<"x">>, <<"h", ".", "x">>}
HeadersExact ==
  text = <<>> =>
    /\ \A n \in HeaderNames :
         ConvertHttpName(n) = <<"H", "x">> <=> n \in {<<h, x>> : h \in {"h", "H"}, x \in {"x"}}
    /\ \A v \in {<<"x">>, <<"x", "/", "h">>}, b \in {<<>>, <<" ">>},
          a \in {<<>>, <<" ", "x">>, <<";", "h", "=", "x">>} :
         HeaderValue(b \o v \o a) = v
    /\ \A accept \in SUBSET {"deflate", "gzip"}, agent \in {"msie", "mozilla5", "other"}, all \in BOOLEAN :
         Encoding(accept, agent, all) \in accept \cup {"none"}
    /\ \A https \in BOOLEAN, port \in {80, 443, 8080} :
         LET shown == RedirectPort(https, FALSE, port)
         IN  port = IF shown = 0 THEN (IF https THEN 443 ELSE 80) ELSE shown
    /\ \A host \in {d \o e : d \in {<<>>, <<"h">>, <<"x">>}, e \in Domains}, d \in Domains, e \in Domains :
         CookieAuthority(host \o <<":", "8">>, <<d, e>>) = CookieAuthority(host, <<d, e>>)

(* Wherever the HTML parser stands, a value that is escaped automatically   *)
(* does not end the place it is put in, what is read there is the value, a  *)
(* number is a number and a URL has a known scheme or none; a string has as *)
(* much room as it needs; and the stronger context is safe in the weaker    *)
(* ones (neos_auto_escape, neos_auto_json_escape, neos_auto_js_escape,      *)
(* neos_has_secure_protocol, neos_var_escape).                              *)
HtmlPlaces == [state : {"text"}, tag : {"none"}, inJs : {FALSE}]
              \cup [state : {"value"}, type : {"regular", "uri"}, index : {1}, quoted : BOOLEAN]
UriPlaces == [state : {"value"}, type : {"uri"}, index : {0}, quoted : BOOLEAN]
JsPlaces == [state : {"value"}, type : {"js"}, index : {0}, quoted : BOOLEAN, jsQuoted : BOOLEAN]
            \cup [state : {"text"}, tag : {"script"}, inJs : {TRUE}, jsQuoted : BOOLEAN]
StylePlaces == [state : {"value"}, type : {"style"}, index : {0}, quoted : BOOLEAN]
               \cup [state : {"text"}, tag : {"style"}, inJs : {FALSE}] \cup [state : {"css"}]
NamePlaces == [state : {"tag", "attr"}]
Unquoted(p) == p.state \in {"tag", "attr"} \/ (p.state = "value" /\ ~p.quoted)
Breaks(p) == {"<", "'"} \cup (IF Unquoted(p) THEN Blank \cup {"SOH", "\"", ">", "="} ELSE {})
(* The literals of a script, and the names that stand in it: a letter that  *)
(* does not follow a digit or a letter begins one.                          *)
AreDigits(t) == t # <<>> /\ ToSet(t) \subseteq {"0"}
Exponent(t) == /\ t # <<>> /\ t[1] = "e"
               /\ AreDigits(Tail(t)) \/ (Len(t) > 2 /\ t[2] = "+" /\ AreDigits(SubSeq(t, 3, Len(t))))
Decimal(t) == \E i \in DOMAIN t : AreDigits(SubSeq(t, 1, i)) /\ (i = Len(t) \/ Exponent(SubSeq(t, i + 1, Len(t))))
Literal(t) ==
  \/ t \in {<<"true">>, <<"false">>}
  \/ Decimal(t)
  \/ t # <<>> /\ t[1] = "+" /\ Decimal(Tail(t))
  \/ Len(t) > 2 /\ t[1] = "0" /\ t[2] = "x" /\ ToSet(SubSeq(t, 3, Len(t))) \subseteq {"0", "e", "A"}
Numeric == Digits \cup {"+", "-", "."}
Begins(s, i) == s[i] \notin Numeric /\ (i > 1 => s[i - 1] \notin Alphanumeric)
Identifiers(s) == {s[i] : i \in {j \in DOMAIN s : Begins(s, j)}}
Shown(p) == IF Unquoted(p) THEN SelectSeq(text, LAMBDA c : c \notin {"SOH", "DEL"} \cup Blank) ELSE text
SchemeEnds(s) == {i \in DOMAIN s : s[i] = ":" /\ \A j \in 1 .. i : s[j] \notin {"/", "?"}}
AutoExact ==
  text # NULL /\ text \in AutoTexts =>
    \A json \in BOOLEAN :
      /\ \A p \in HtmlPlaces \cup UriPlaces \cup JsPlaces \cup StylePlaces \cup NamePlaces :
           ToSet(NeosAutoEscape(p, json, text)) \cap Breaks(p) = {}
      /\ \A p \in HtmlPlaces : HtmlRead(NeosAutoEscape(p, json, text)) = Shown(p)
      /\ \A p \in UriPlaces : \E out \in {HtmlRead(NeosAutoEscape(p, json, text))} :
           SchemeEnds(out) # {} =>
             \E w \in {"http", "HTTP", "mailto"} : Head(Strip(out)) = w /\ Strip(out)[2] = ":"
      /\ \A p \in JsPlaces : \E out \in {NeosAutoEscape(p, json, text)} :
           IF p.jsQuoted THEN JsRead(out) = text
           ELSE /\ Literal(text) => out = text
                /\ ToSet(out) \subseteq Alphanumeric \cup {"null", "+", "-", "."}
                /\ Identifiers(out) \subseteq {"null", "true", "false", "e"}
      /\ Len(AutoJsonEscape(text)) = JsonRoom(text)
      /\ Len(AutoJsEscape(text, json)) = JsRoom(text, json)
      /\ \A weaker \in SUBSET {"html", "script"} : \A context \in {{"url"}, {"script"}, {"html"}} :
           LET out == ToSet(VarEscape(context \cup weaker, text))
           IN  out \cap {"<", ">", "\"", "'", "\r"} = {} /\ ("html" \notin context => "&" \notin out)

(* Every request is over after a number of steps that its length bounds,    *)
(* but for a PUT whose body ends early: no read that returned nothing is    *)
(* tried again (_parse_post_form, _read_line, cgi_parse).                   *)
Starved == request.method = "PUT" /\ Len(request.body) < request.length
RequestEnds == text = NULL /\ ~Starved => steps <= StepBound

(* A multipart request that is handled without an error is read as it was   *)
(* meant, unless a kept length of a boundary is wrong; whatever a request   *)
(* sends and whatever fails, it ends, unless it is a PUT that is cut short, *)
(* and leaves no file open or on the disk, unless fdopen or the list of the *)
(* names fails.  A request that overruns the buffer of _read_line is not    *)
(* spoken for (cgi_parse, parse_rfc2388, cgi_destroy).                      *)
RequestsServed == UploadsExact /\ UploadsReleased /\ RequestEnds

(* What the string functions of the kit do to a text can be undone,         *)
(* stripping loses nothing that is seen, and headers mean what was meant    *)
(* (neo_str.c, neo_auto.c, cgi_html_ws_strip, cgi_output).                 *)
OutputExact == EscapesInvert /\ StripKeepsText /\ HeadersExact /\ AutoExact

(* Every connection is accepted and answered while the server is up         *)
(* (nserver_proc_start).                                                    *)
ConnectionsServed == part = "server" => S!ConnectionsServed
==============================================================================
