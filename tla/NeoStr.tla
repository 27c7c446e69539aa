------------------------------- MODULE NeoStr -------------------------------
(***************************************************************************)
(* The strings of util/neo_str.c: escaping and its inverses, stripping and *)
(* splitting.  A string is a sequence of characters; Ascii is the code of  *)
(* the characters that matter, and "?" is every character it does not list.*)
(***************************************************************************)
EXTENDS Integers, Sequences, FiniteSets, SequencesExt, TLC

NULL == <<"NULL">>

(* F(v), with v computed once.                                              *)
Once(v, F(_)) == CHOOSE r \in {F(x) : x \in {v}} : TRUE
Fold(Op(_, _), base, s) ==
  LET over(t) == LET f[i \in 0 .. Len(t)] ==
                       IF i = 0 THEN base ELSE Once(<<f[i - 1], t[i]>>, LAMBDA x : Op(x[1], x[2]))
                 IN  f[Len(t)]
  IN  Once(s, over)
Concat(ss) == Once(ss, LAMBDA tt : FoldLeft(LAMBDA a, b : a \o b, <<>>, tt))
Each(s, F(_)) == Once(s, LAMBDA t : <<>> \o [i \in DOMAIN t |-> F(t[i])])

Hex == <<"0", "1", "2", "3", "4", "5", "6", "7", "8", "9", "A", "B", "C", "D", "E", "F">>
Nibble(d) == (CHOOSE i \in DOMAIN Hex : Hex[i] = d) - 1
Ascii == [d \in ToSet(Hex) |-> IF Nibble(d) < 10 THEN 48 + Nibble(d) ELSE 55 + Nibble(d)]
         @@ ("NUL" :> 0) @@ ("SOH" :> 1) @@ ("BS" :> 8) @@ ("\t" :> 9) @@ ("\n" :> 10) @@ ("VT" :> 11)
         @@ ("\f" :> 12) @@ ("\r" :> 13) @@ (" " :> 32) @@ ("\"" :> 34)
         @@ ("%" :> 37) @@ ("&" :> 38) @@ ("'" :> 39) @@ ("+" :> 43) @@ ("-" :> 45) @@ ("." :> 46) @@ ("/" :> 47)
         @@ (":" :> 58) @@ (";" :> 59) @@ ("<" :> 60) @@ ("=" :> 61) @@ (">" :> 62) @@ ("\\" :> 92)
         @@ ("_" :> 95) @@ ("x" :> 120) @@ ("DEL" :> 127)
HexOf(c) == <<Hex[(Ascii[c] \div 16) + 1], Hex[(Ascii[c] % 16) + 1]>>
CharOf(d, e) ==
  LET codes == {c \in DOMAIN Ascii : Ascii[c] = 16 * Nibble(d) + Nibble(e)}
  IN  IF codes = {} THEN "?" ELSE CHOOSE c \in codes : TRUE

(* isspace.                                                                 *)
Blank == {" ", "\t", "\r", "\n", "VT", "\f"}

(* The first position from p on that holds a character of the set, or the   *)
(* end of the string.                                                       *)
Find(s, p, set) == Min({i \in p .. Len(s) : s[i] \in set} \cup {Len(s) + 1})
FindNot(s, p, set) == Min({i \in p .. Len(s) : s[i] \notin set} \cup {Len(s) + 1})
-----------------------------------------------------------------------------
(* Escaping replaces the characters of a set by their code.                 *)
Escape(s, special, Code(_)) == Concat(Each(s, LAMBDA c : IF c \in special THEN Code(c) ELSE <<c>>))

NeosEscape(s, esc, escape) == Escape(s, escape \cup {esc}, LAMBDA c : <<esc>> \o HexOf(c))

QueryReservedChars == {"&", "+", "/", ":", ";", "=", " ", "\"", "<", ">", "%", "\\", "'"}
CssReservedChars == {"\n", "\r", "\"", "'", "<", ">", "\\"}
LowControls == {c \in DOMAIN Ascii : Ascii[c] \in 1 .. 31}
Unprintable == LowControls \cup {"DEL"}
UrlCode(c) == IF c = " " THEN <<"+">> ELSE <<"%">> \o HexOf(c)
UrlEscapeAllBut(s) == Escape(s, QueryReservedChars \ {"+"}, UrlCode)
UrlEscape(s) == Escape(s, QueryReservedChars \cup Unprintable, UrlCode)
UrlEscapeRfc2396(s) == Escape(s, QueryReservedChars \cup Unprintable, LAMBDA c : <<"%">> \o HexOf(c))
CssUrlEscape(s) == Escape(s, CssReservedChars, UrlCode)

ScriptChars == {"/", "\"", "'", "\\", ">", "<", "&", ";"} \cup LowControls
JsEscape(s) == Escape(s, ScriptChars, LAMBDA c : <<"\\", "x">> \o HexOf(c))
JsonEscape(s) == Escape(s, ScriptChars, LAMBDA c : <<"\\", "u", "0", "0">> \o HexOf(c))

(* An entity stands for itself; a carriage return is dropped.               *)
Entities == ("&" :> <<"&amp;">>) @@ ("<" :> <<"&lt;">>) @@ (">" :> <<"&gt;">>)
            @@ ("\"" :> <<"&quot;">>) @@ ("'" :> <<"&#39;">>) @@ ("\r" :> <<>>)
HtmlEscape(s) == Escape(s, DOMAIN Entities, LAMBDA c : Entities[c])

(* A URL without a colon before its path or query has no scheme; others     *)
(* must start with one of these, "http" being one character here.           *)
Protocols == {<<"http", ":", "/", "/">>, <<"https", ":", "/", "/">>, <<"ftp", ":", "/", "/">>, <<"mailto", ":">>}
HasSecureProtocol(s) ==
  LET scheme == Each(SubSeq(s, FindNot(s, 1, Blank), Len(s)), LAMBDA c : IF c = "HTTP" THEN "http" ELSE c)
  IN  \/ Find(s, 1, {":"}) >= Find(s, 1, {"/", "?"})
      \/ \E p \in Protocols : IsPrefix(p, scheme)
UrlValidate(s, escape(_)) == IF HasSecureProtocol(s) THEN escape(s) ELSE <<"#">>
NeosUrlValidate(s) == UrlValidate(s, HtmlEscape)
NeosCssUrlValidate(s) == UrlValidate(s, CssUrlEscape)

(* The escaping of a value for a set of contexts, or NULL when it fails.    *)
VarEscape(context, s) ==
  IF context \in {{"none"}, {"function"}} THEN s
  ELSE IF "url" \in context THEN UrlEscape(s)
  ELSE IF "script" \in context THEN JsEscape(s)
  ELSE IF "html" \in context THEN HtmlEscape(s) ELSE NULL

(* Unescaping.  Only cgi_url_unescape reads + and ends at a NUL.            *)
IsCode(s, i, esc) == /\ s[i] = esc
                     /\ i + 2 <= Len(s)
                     /\ {s[i + 1], s[i + 2]} \subseteq ToSet(Hex)
Unescape(s, esc, plus) ==
  LET from[i \in 1 .. Len(s) + 1] ==
        IF i > Len(s) THEN <<>>
        ELSE IF plus /\ s[i] = "+" THEN <<" ">> \o from[i + 1]
        ELSE IF IsCode(s, i, esc) THEN <<CharOf(s[i + 1], s[i + 2])>> \o from[i + 3]
        ELSE <<s[i]>> \o from[i + 1]
  IN  from[1]
NeosUnescape(s, esc) == Unescape(s, esc, FALSE)
CString(s) == LET k == SelectInSeq(s, LAMBDA c : c = "NUL") IN IF k = 0 THEN s ELSE SubSeq(s, 1, k - 1)
UrlUnescape(s) == CString(Unescape(s, "%", TRUE))
-----------------------------------------------------------------------------
Rstrip(s) == SubSeq(s, 1, Max({i \in DOMAIN s : s[i] \notin Blank} \cup {0}))
Strip(s) == Rstrip(SubSeq(s, FindNot(s, 1, Blank), Len(s)))

(* string_array_split: at most max cuts at the separator.                   *)
Split(s0, sep, max) ==
  LET all(s) ==
        LET from[p \in 1 .. Len(s) + 1, x \in 0 .. max] ==
              LET cut(q) == IF x = max \/ q > Len(s) THEN <<SubSeq(s, p, Len(s))>>
                            ELSE <<SubSeq(s, p, q - 1)>> \o from[q + 1, x + 1]
              IN  Once(Find(s, p, {sep}), cut)
        IN  from[1, 0]
  IN  Once(s0, all)

(* strtok_r: the non-empty pieces.                                          *)
Tokens(s, sep) == SelectSeq(Split(s, sep, Len(s)), LAMBDA t : t # <<>>)
=============================================================================
