----------------------------- MODULE MCCsParse -----------------------------
(* Every template of a few commands over small alphabets: the tree that     *)
(* CsParse builds is compared with the text it was built from.              *)
EXTENDS CsParse, SequencesExt

RECURSIVE Chain(_)
RECURSIVE NodeText(_)

Opened(id) ==
  \E i \in DOMAIN parse.stack :
    LET e == parse.stack[i] IN id = IF e.next_tree # Null THEN e.next_tree ELSE e.tree

Item(op, arg, escape) == [op |-> op, arg |-> arg, escape |-> escape]

EndOf(op) ==
  CASE op = "if" -> "endif" [] op = "each" -> "endeach" [] op = "with" -> "endwith"
    [] op = "def" -> "enddef" [] op = "loop" -> "endloop" [] op = "alt" -> "endalt"
    [] op = "escape" -> "endescape"

(* The text a tree stands for, as far as its blocks are closed.             *)
Chain(id) ==
  IF id = Null THEN <<>> ELSE NodeText(id) \o Chain(parse.nodes[id].next)

ElsePart(id) ==
  LET n == parse.nodes[id]
  IN  IF n.case_1 = Null THEN IF parse.next = <<id, "case_1">> THEN <<Item("else", None, Undef)>> ELSE <<>>
      ELSE IF parse.nodes[n.case_1].op = "elif" THEN NodeText(n.case_1)
      ELSE <<Item("else", None, Undef)>> \o Chain(n.case_1)

NodeText(id) ==
  LET n == parse.nodes[id]
      own == <<Item(n.op, n.arg, n.escape)>>
  IN  CASE n.op = "literal" -> <<>>
        [] n.op = "elif" -> own \o Chain(n.case_0) \o ElsePart(id)
        [] n.op \in DOMAIN Blocks ->
             own \o Chain(n.case_0) \o ElsePart(id)
             \o IF Opened(id) THEN <<>> ELSE <<Item(EndOf(n.op), None, Undef)>>
        [] OTHER -> own

(* The commands that leave something in the tree.  In audit mode a call may *)
(* or may not.                                                              *)
Counts(c) == c.op \notin {"include", "include!", "comment"} /\ ~(parse.audit /\ c.op = "call")

Tree == SelectSeq(Chain(Root), Counts)
Kept == SelectSeq(text, Counts)

Name(c) == CASE c.op = "evar!" -> "evar"
             [] OTHER -> c.op

(* The escape mode that holds after the commands: that of the innermost     *)
(* block that sets one.                                                     *)
ModeAfter(commands) ==
  LET step(modes, c) ==
        IF c.op \in DOMAIN Closes THEN SubSeq(modes, 1, Len(modes) - 1)
        ELSE IF c.op = "escape" THEN Append(modes, c.arg)
        ELSE IF c.op = "def" THEN Append(modes, Undef)
        ELSE IF c.op \in DOMAIN Blocks THEN Append(modes, Last(modes))
        ELSE modes
  IN  Last(FoldLeft(step, <<parse.stack[1].escape>>, commands))

(* The tree is the text: each command stands in it once, in order, inside   *)
(* the blocks that enclose it, also when included texts close blocks of the *)
(* text around them (cs_parse_string_internal, the *_parse handlers).       *)
TreeIsTheText ==
  parse.err = NoError /\ ~parse.recovered =>
    LET tree == Tree
        kept == Kept
    IN  [i \in DOMAIN tree |-> <<tree[i].op, tree[i].arg>>]
          = [i \in DOMAIN kept |-> <<Name(kept[i]), kept[i].arg>>]

(* A variable is escaped as the innermost enclosing escape block says, in a *)
(* macro as undef, and outside of both as Config.VarEscapeMode.             *)
EscapeFollowsNesting ==
  parse.err = NoError /\ ~parse.recovered =>
    LET tree == Tree
        kept == Kept
    IN  \A i \in DOMAIN tree :
          tree[i].op \in {"name", "var", "lvar", "linclude", "alt", "call"} =>
            tree[i].escape = ModeAfter(SubSeq(kept, 1, i - 1))

-----------------------------------------------------------------------------
Plain(ops) == {Command(op, None, FALSE) : op \in ops}
Includes == {Command("include", "file", FALSE)}

MCPrograms ==
  << [commands |-> Plain({"var", "if", "else", "elif", "endif"}) \cup Includes,
      modes |-> {Undef}, audits |-> {FALSE}, limit |-> 5],
     [commands |-> Plain({"name", "endalt", "endescape", "alt"})
                   \cup {Command("escape", "html", FALSE), Command("include", "file", FALSE)},
      modes |-> {"url"}, audits |-> {FALSE}, limit |-> 5],
     [commands |-> Plain({"lvar", "enddef", "endescape", "if", "else", "endif"})
                   \cup {Command("escape", "html", FALSE), Command("def", "m", FALSE),
                         Command("call", "m", FALSE)},
      modes |-> {"url"}, audits |-> {FALSE}, limit |-> 5],
     [commands |-> Plain({"uvar", "each", "endeach", "with", "endwith", "loop", "endloop"})
                   \cup {Command("evar", "text", FALSE)},
      modes |-> {Undef}, audits |-> {FALSE}, limit |-> 4],
     [commands |-> Plain({"set", "if", "endif"})
                   \cup {Command(op, a, FALSE) : op \in {"include", "include!"}, a \in {"file", "missing"}},
      modes |-> {Undef}, audits |-> {FALSE}, limit |-> 4],
     [commands |-> {Command(op, "m", b) : op \in {"escape", "def", "loop", "if", "each", "call", "elif",
                                                  "include", "evar", "var", "linclude", "content"}, b \in {TRUE, FALSE}}
                   \cup {Command("include", "unset", FALSE), Command("include!", "unset", FALSE),
                         Command("evar", "missing", FALSE), Command("evar!", "missing", FALSE)}
                   \cup Plain({"enddef", "comment"}),
      modes |-> {"html"}, audits |-> {TRUE}, limit |-> 3] >>
=============================================================================
