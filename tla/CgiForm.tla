------------------------------- MODULE CgiForm ------------------------------
(***************************************************************************)
(* What cgi/cgi.c and cgi/rfc2388.c read of a request: query strings and   *)
(* URL encoded forms, cookies, and headers with attributes, into the data  *)
(* set, and what cgi/cgi.c makes of the output.  The data set is the       *)
(* sequence of its nodes in the order in which they came into being,       *)
(* [path, value]; a path is a sequence of names.                           *)
(***************************************************************************)
EXTENDS NeoStr

Lookup(hdf, path) == SelectInSeq(hdf, LAMBDA n : n.path = path)
Exists(hdf, path) == Lookup(hdf, path) # 0
HdfGetValue(hdf, path, default) ==
  LET i == Lookup(hdf, path) IN IF i = 0 \/ hdf[i].value = NULL THEN default ELSE hdf[i].value
Kids(hdf, path) == SelectSeq(hdf, LAMBDA n : Len(n.path) = Len(path) + 1 /\ Front(n.path) = path)

(* hdf_set_value makes the nodes on the way, and stops at an empty name.    *)
Grow(hdf, path) ==
  LET fresh == {i \in DOMAIN path : ~Exists(hdf, SubSeq(path, 1, i))}
  IN  hdf \o Each(SetToSortSeq(fresh, <), LAMBDA i : [path |-> SubSeq(path, 1, i), value |-> NULL])
SetAt(hdf, path, value) == [hdf EXCEPT ![Lookup(hdf, path)].value = value]
HdfSetValue(hdf0, path0, value) ==
  LET set(hdf, path, bad) ==
        IF bad # 0 THEN Grow(hdf, SubSeq(path, 1, bad - 1))
        ELSE Once(Grow(hdf, path), LAMBDA grown : SetAt(grown, path, value))
  IN  Once(<<hdf0, path0>>, LAMBDA x : set(x[1], x[2], SelectInSeq(x[2], LAMBDA name : name = <<>>)))

Numbered(i) == <<Hex[i + 1]>>
Path(root, name) == <<<<root>>>> \o Split(name, ".", Len(name))

(* A name that was there before becomes a list: its first value moves to    *)
(* child 0 and the new one goes below the next number; the node itself has  *)
(* the last value.                                                          *)
ListKeepingFirst(hdf, path, v) == HdfSetValue(hdf, Append(path, Numbered(Len(Kids(hdf, path)))), v)
List(hdf, path, v) ==
  LET add(to, n) == HdfSetValue(to, Append(path, Numbered(n)), v)
      first == HdfSetValue(hdf, Append(path, Numbered(0)), HdfGetValue(hdf, path, NULL))
      n0 == Len(Kids(hdf, path))
  IN  IF n0 = 0 THEN Once(first, LAMBDA to : add(to, 1)) ELSE Once(n0, LAMBDA n : add(hdf, n))
AddValue(hdf0, path0, v) ==
  Once(<<hdf0, path0>>,
       LAMBDA x : HdfSetValue(IF Exists(x[1], x[2]) THEN List(x[1], x[2], v) ELSE x[1], x[2], v))

(* key=value, cut at the first =.                                           *)
Key(t) == SubSeq(t, 1, Find(t, 1, {"="}) - 1)
Value(t) == SubSeq(t, Find(t, 1, {"="}) + 1, Len(t))

(* A form variable without a name gets a number, and a name cannot start    *)
(* with a period.                                                           *)
FormName(k, unnamed) ==
  IF k = <<>> THEN <<"_">> \o Numbered(unnamed)
  ELSE UrlUnescape(IF k[1] = "." THEN <<"_">> \o Tail(k) ELSE k)

ParseQuery(hdf, query, ignoreEmpty) ==
  LET add(st, t) ==
        [hdf |-> IF ignoreEmpty /\ Value(t) = <<>> THEN st.hdf
                 ELSE AddValue(st.hdf, Path("Query", FormName(Key(t), st.unnamed)), UrlUnescape(Value(t))),
         unnamed |-> st.unnamed + IF Key(t) = <<>> THEN 1 ELSE 0]
  IN  Fold(add, [hdf |-> hdf, unnamed |-> 0], Tokens(query, "&")).hdf

ParseCookie(hdf, cookie) ==
  LET set(h, t) == IF Strip(Key(t)) = <<>> \/ Strip(Value(t)) = <<>> THEN h
                   ELSE HdfSetValue(h, Path("Cookie", Strip(Key(t))), Strip(Value(t)))
  IN  IF cookie = NULL THEN hdf
      ELSE Fold(set, HdfSetValue(hdf, <<<<"Cookie">>>>, cookie), Split(cookie, ";", Len(cookie)))
-----------------------------------------------------------------------------
(* Headers: a value and then attributes.  Attribute reads the attribute     *)
(* that starts at p: where its name ends and what follows, its value, and   *)
(* where the next one starts.  Only _parse_content_type skips blanks        *)
(* between = and the value.                                                 *)
Attribute(s, p, skip) ==
  LET valued(k, e, v) ==
        LET quote == IF v <= Len(s) /\ s[v] = "\"" THEN 1 ELSE 0
            end == Find(s, v + quote, IF quote = 1 THEN {"\""} ELSE Blank \cup {";"})
        IN  [start |-> k, nameEnd |-> e, name |-> SubSeq(s, k, e - 1), sep |-> "=",
             value |-> SubSeq(s, v + quote, end - 1), next |-> end + 1 + quote]
      after(k, e, q) ==
        IF q > Len(s) \/ s[q] # "=" THEN
          [start |-> k, nameEnd |-> e, name |-> SubSeq(s, k, e - 1),
           sep |-> IF q > Len(s) THEN "NUL" ELSE s[q], value |-> <<>>, next |-> q + 1]
        ELSE Once(IF skip THEN FindNot(s, q + 1, Blank) ELSE q + 1, LAMBDA v : valued(k, e, v))
      ends(k, e) == Once(FindNot(s, e, Blank), LAMBDA q : after(k, e, q))
  IN  Once(FindNot(s, p, Blank), LAMBDA k : Once(Find(s, k, Blank \cup {";", "="}), LAMBDA e : ends(k, e)))

HeaderValue(s) ==
  LET p == FindNot(s, 1, Blank)
      q == Find(s, p, Blank \cup {";"})
  IN  IF p = q THEN NULL ELSE SubSeq(s, p, q - 1)

HeaderAttr(s, attr) ==
  LET from[p \in 1 .. Len(s) + 3] ==
        LET read(a) == IF p > Len(s) \/ a.nameEnd > Len(s) \/ a.sep \notin {";", "="} THEN NULL
                       ELSE IF a.name = attr THEN a.value
                       ELSE from[a.next]
        IN  Once(Attribute(s, p, FALSE), read)
  IN  from[Find(s, 1, {";"}) + 1]

(* _parse_content_type: the type, and every attribute below it; an          *)
(* attribute without a name fails the request.                              *)
ContentType == <<<<"CGI">>, <<"ContentType">>>>
ParseContentType(hdf, s) ==
  LET ct == SubSeq(s, FindNot(s, 1, Blank), Len(s))
      end == Find(ct, 1, {";"})
      attrs[p \in 1 .. Len(ct) + 3] ==
        LET read(a) == IF a.start > Len(ct) \/ a.sep \notin {"NUL", ";", "="} THEN <<>>
                       ELSE <<[path |-> Split(a.name, ".", Len(a.name)), value |-> a.value]>> \o attrs[a.next]
        IN  Once(Attribute(ct, p, TRUE), read)
      set(st, a) == IF st.failed THEN st
                    ELSE [hdf |-> HdfSetValue(st.hdf, ContentType \o a.path, a.value),
                          failed |-> <<>> \in ToSet(a.path)]
  IN  IF s = NULL THEN [hdf |-> hdf, failed |-> FALSE]
      ELSE Fold(set, [hdf |-> HdfSetValue(hdf, Append(ContentType, <<"Type">>), SubSeq(ct, 1, end - 1)),
                          failed |-> FALSE], attrs[end + 1])
-----------------------------------------------------------------------------
(* _convert_http_name: HTTP_USER_AGENT becomes UserAgent, and nothing but   *)
(* the Host header becomes Host.                                            *)
Upper == ("x" :> "X") @@ ("X" :> "X") @@ ("h" :> "H") @@ ("H" :> "H")
Lower == ("x" :> "x") @@ ("X" :> "x") @@ ("h" :> "h") @@ ("H" :> "h")
ConvertHttpName(name) ==
  LET add(st, c) == IF c \notin DOMAIN Upper THEN [st EXCEPT !.capitalize = TRUE]
                    ELSE [out |-> Append(st.out, IF st.capitalize THEN Upper[c] ELSE Lower[c]),
                          capitalize |-> FALSE]
      out == Fold(add, [out |-> <<>>, capitalize |-> TRUE], name).out
      same(s, t) == Each(s, LAMBDA c : IF c \in DOMAIN Lower THEN Lower[c] ELSE c) = t
  IN  IF same(out, <<"h", "x">>) /\ ~same(name, <<"h", "x">>) THEN <<>> ELSE out
-------------------------------------------------------------------------------
(* The output side: cgi_html_ws_strip, which encoding the page gets, its    *)
(* headers, and where a redirect goes.  In a page, "textarea", "pre",       *)
(* "/textarea>" and "/pre>" are one character each.                         *)

(* The position of what closes the tag that opens at i, or 0.               *)
TagEnd(s, i) ==
  LET word == IF i = Len(s) THEN "" ELSE s[i + 1]
      close(end) == {k \in i + 1 .. Len(s) - 1 : s[k] = "<" /\ s[k + 1] = end}
      ends == CASE word = "textarea" -> {k + 1 : k \in close("/textarea>")}
                [] word = "pre" -> {k + 1 : k \in close("/pre>")}
                [] OTHER -> {k \in i + 1 .. Len(s) : s[k] \in {">", "/textarea>", "/pre>"}}
  IN  IF ends = {} THEN 0 ELSE Min(ends)

(* The progress of cgi_html_ws_strip: the position, what is written, and    *)
(* whether the last character was blank and whether the line has begun.     *)
WsStep(s, level, x) ==
  CASE s[x.i] = "<" /\ TagEnd(s, x.i) = 0 ->
         [x EXCEPT !.i = Len(s) + 1, !.out = @ \o SubSeq(s, x.i, Len(s))]
    [] s[x.i] = "<" /\ TagEnd(s, x.i) # 0 ->
         [i |-> TagEnd(s, x.i) + 1, out |-> x.out \o SubSeq(s, x.i, TagEnd(s, x.i)), ws |-> FALSE, seen |-> TRUE]
    [] s[x.i] = "\n" ->
         [i |-> x.i + 1, out |-> Append(Rstrip(x.out), "\n"), ws |-> level > 1, seen |-> level > 1]
    [] s[x.i] \in Blank /\ x.seen ->
         [i |-> x.i + 1, out |-> IF x.ws THEN x.out ELSE Append(x.out, s[x.i]), ws |-> TRUE, seen |-> TRUE]
    [] OTHER -> [i |-> x.i + 1, out |-> Append(x.out, s[x.i]), ws |-> FALSE, seen |-> TRUE]
HtmlWsStrip(s, level) ==
  LET step(x, k) == IF x.i > Len(s) THEN x ELSE WsStep(s, level, x)
      start == [i |-> 1, out |-> <<>>, ws |-> s # <<>> /\ s[1] \in Blank, seen |-> level > 1]
  IN  Fold(step, start, s).out
-----------------------------------------------------------------------------
(* cgi_output: the encodings that Accept-Encoding names, and the browsers   *)
(* that are trusted with them: "msie" is one of MSIE 4 to 6, which is not   *)
(* trusted when it accepts every type, and "mozilla5" any other browser     *)
(* that calls itself Mozilla/5.                                             *)
Encoding(accept, agent, acceptAll) ==
  IF agent = "other" \/ (agent = "msie" /\ acceptAll) THEN "none"
  ELSE IF "deflate" \in accept THEN "deflate"
  ELSE IF "gzip" \in accept THEN "gzip" ELSE "none"

(* cgi_vredirect: the port that follows the host of a redirect to a path,   *)
(* or 0.                                                                    *)
RedirectPort(https, hostHasPort, port) ==
  IF hostHasPort \/ port = (IF https THEN 443 ELSE 80) THEN 0 ELSE port

(* cgi_cookie_authority: the first domain that ends the host.               *)
CookieAuthority(host, domains) ==
  LET name == SubSeq(host, 1, Find(host, 1, {":"}) - 1)
      i == SelectInSeq(domains, LAMBDA d : IsSuffix(d, name))
  IN  IF i = 0 THEN NULL ELSE domains[i]
=============================================================================
