------------------------------- MODULE NeoAuto -------------------------------
(***************************************************************************)
(* util/neo_auto.c: the escaping of a value by the place in the page where *)
(* the HTML parser stands.  The parser is external: a record of what it    *)
(* answers, in which type is the type of the attribute, index the position *)
(* in its value, and quoted and jsQuoted whether the value and the script  *)
(* string around it are in quotes.                                         *)
(***************************************************************************)
EXTENDS NeoStr

Letters == {"x", "X", "e", "E", "http", "HTTP", "https", "ftp", "mailto", "script", "true", "false"}
Digits == {"0", "2"}
HexDigits == ToSet(Hex) \cup {"e"}
Alphanumeric == Letters \cup Digits \cup HexDigits
Controls == {"SOH", "BS", "DEL"}
Markup == {"&", "<", ">", "\"", "'"}

(* A carriage return becomes a filler; in a value without quotes, it is     *)
(* dropped with all that could end the value.                               *)
HtmlCharMap == ("&" :> <<"&amp;">>) @@ ("<" :> <<"&lt;">>) @@ (">" :> <<"&gt;">>) @@ ("\"" :> <<"&quot;">>)
               @@ ("'" :> <<"&#39;">>) @@ ("=" :> <<"&#61;">>) @@ ("\r" :> <<"&nbsp;">>)
AutoHtmlEscape(s, quoted) ==
  IF quoted THEN Escape(s, Markup \cup {"\r"}, LAMBDA c : HtmlCharMap[c])
  ELSE Escape(SelectSeq(s, LAMBDA c : c \notin Controls \cup Blank), Markup \cup {"="}, LAMBDA c : HtmlCharMap[c])

AutoUrlValidate(s, quoted) == UrlValidate(s, LAMBDA t : AutoHtmlEscape(t, quoted))

IsNumber(s) ==
  IF Len(s) > 2 /\ s[1] = "0" /\ s[2] \in {"x", "X"} THEN ToSet(SubSeq(s, 3, Len(s))) \subseteq HexDigits
  ELSE ToSet(s) \subseteq Digits \cup {"+", "-", ".", "e", "E"}
AutoCheckNumber(s) == IF s \in {<<"true">>, <<"false">>} \/ IsNumber(s) THEN s ELSE <<"null">>

CssSafe == {"_", ".", ",", "!", "#", "%", "-"}
AutoCssValidate(s, quoted) ==
  SelectSeq(s, LAMBDA c : c \in Alphanumeric \cup CssSafe \cup {"HIGH"} \/ (c = " " /\ quoted))
AutoTagValidate(s) == SelectSeq(s, LAMBDA c : c \in Alphanumeric \cup {":", "_", "-"})

(* JSON has short codes.  The room for the string is counted first.         *)
JsonShort == ("\"" :> "\"") @@ ("\\" :> "\\") @@ ("/" :> "/") @@ ("BS" :> "b") @@ ("\f" :> "f") @@ ("\n" :> "n")
             @@ ("\r" :> "r") @@ ("\t" :> "t")
JsonChars == DOMAIN JsonShort \cup Markup \cup {"SOH", "VT"}
JsonRoom(s) ==
  LET room(c) == IF c \notin JsonChars THEN 1 ELSE IF c \in DOMAIN JsonShort THEN 2 ELSE 6
  IN  FoldLeft(LAMBDA n, c : n + room(c), 0, s)
AutoJsonEscape(s) ==
  Escape(s, JsonChars, LAMBDA c : IF c \in DOMAIN JsonShort THEN <<"\\", JsonShort[c]>>
                                  ELSE <<"\\", "u", "0", "0">> \o HexOf(c))

JsChars(attrQuoted) ==
  Markup \cup {"/", "\\", ";"} \cup Controls \cup (Blank \ {" "}) \cup (IF attrQuoted THEN {} ELSE {"=", " "})
JsRoom(s, attrQuoted) == Len(s) + 3 * Len(SelectSeq(s, LAMBDA c : c \in JsChars(attrQuoted)))
AutoJsEscape(s, attrQuoted) == Escape(s, JsChars(attrQuoted), LAMBDA c : <<"\\", "x">> \o HexOf(c))

AttributeEscape(p, s) ==
  CASE p.type = "uri" /\ p.index = 0 -> AutoUrlValidate(s, p.quoted)
    [] p.type = "regular" \/ (p.type = "uri" /\ p.index > 0) -> AutoHtmlEscape(s, p.quoted)
    [] p.type = "js" -> IF p.jsQuoted THEN AutoJsEscape(s, p.quoted) ELSE AutoCheckNumber(s)
    [] p.type = "style" -> AutoCssValidate(s, p.quoted)
InStyle(p) == p.state = "css" \/ (p.state = "text" /\ p.tag = "style")
NeosAutoEscape(p, isJson, s) ==
  IF p.state \in {"attr", "tag"} THEN AutoTagValidate(s)
  ELSE IF p.state = "value" THEN AttributeEscape(p, s)
  ELSE IF InStyle(p) THEN AutoCssValidate(s, TRUE)
  ELSE IF ~p.inJs THEN AutoHtmlEscape(s, TRUE)
  ELSE IF ~p.jsQuoted THEN AutoCheckNumber(s)
  ELSE IF isJson THEN AutoJsonEscape(s) ELSE AutoJsEscape(s, TRUE)
==============================================================================
