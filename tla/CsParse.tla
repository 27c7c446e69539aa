------------------------------ MODULE CsParse ------------------------------
(***************************************************************************)
(* The template parser of cs/csparse.c: cs_parse_string_internal reads one *)
(* command at a time, a handler links a node into the tree through the     *)
(* pointer parse->next, and a stack of open blocks decides which commands  *)
(* are allowed.  include and evar parse another text in the middle of a    *)
(* command, on the same stack and the same tree.  The texts are not fixed: *)
(* every step reads any command of the program's alphabet, or the end.     *)
(***************************************************************************)
EXTENDS Naturals, Sequences, FiniteSetsExt

CONSTANTS
  Programs,       \* sequence of alphabets and configurations, one of which is used,
                  \* each with a limit on the commands that are read
  MaxTexts,       \* bound on the calls of cs_parse_string and cs_parse_file
  MAX_STACK_DEPTH

VARIABLES
  parse,          \* the CSPARSE: tree, open blocks and texts being read
  text,           \* history: the commands read, those of included texts in place
  program         \* the alphabet in use

vars == <<parse, text, program>>

Null == 0
Root == 1
Undef == "undef"
None == ""
NoError == ""

(* A command: its name, its argument (a macro, an escape mode or a file),   *)
(* and whether the text after the name is malformed.                        *)
Command(op, arg, bad) == [op |-> op, arg |-> arg, bad |-> bad]

Blocks == [if |-> "IF", each |-> "EACH", with |-> "WITH", def |-> "DEF",
           loop |-> "LOOP", alt |-> "ALT", escape |-> "ESCAPE"]

Closes == [endif |-> {"IF", "ELSE"}, endeach |-> {"EACH"}, endwith |-> {"WITH"},
           enddef |-> {"DEF"}, endloop |-> {"LOOP"}, endalt |-> {"ALT"},
           endescape |-> {"ESCAPE"}]

Anywhere == {"GLOBAL", "ELSE"} \cup {Blocks[op] : op \in DOMAIN Blocks}

(* The column allowed_state of the table Commands.                          *)
AllowedState(op) ==
  IF op \in DOMAIN Closes THEN Closes[op]
  ELSE IF op \in {"else", "elif"} THEN {"IF"} ELSE Anywhere

Handled == DOMAIN Blocks \cup DOMAIN Closes
             \cup {"else", "elif", "include", "include!", "evar", "evar!", "call", "comment",
                   "name", "var", "uvar", "lvar", "linclude", "content", "set"}

(* The commands of a program are those of the table.                        *)
ASSUME CsParseAssumption ==
  /\ MAX_STACK_DEPTH \in Nat
  /\ \A i \in DOMAIN Programs : \A c \in Programs[i].commands : c.op \in Handled

Top == parse.stack[Len(parse.stack)]

-----------------------------------------------------------------------------
(* A new node takes the place parse->next points at, and parse->next moves  *)
(* to a pointer of the node: next, or case_0 of a block.                    *)
Node(op, arg, esc) ==
  [op |-> op, arg |-> arg, escape |-> esc, next |-> Null, case_0 |-> Null, case_1 |-> Null]

Link(p, node, field) ==
  LET id == Len(p.nodes) + 1
  IN  [p EXCEPT !.nodes = Append([@ EXCEPT ![p.next[1]][p.next[2]] = id], node),
                !.next = <<id, field>>,
                !.current = id]

Literal(p) == Link(p, Node("literal", None, Undef), "next")

Fail(p, error) == [p EXCEPT !.err = error]

(* Commands without a body.  name, var, lvar and linclude keep the escape   *)
(* mode of the block they stand in; uvar is never escaped.                  *)
LeafParse(p, c, mode) ==
  IF c.bad THEN Fail(p, "PARSE") ELSE Link(p, Node(c.op, c.arg, mode), "next")

NameParse(p, c) == LeafParse(p, c, Top.escape)
VarParse(p, c) == LeafParse(p, c, IF c.op = "uvar" THEN "none" ELSE Top.escape)
LvarParse(p, c) == LeafParse(p, c, Top.escape)
LincludeParse(p, c) == LeafParse(p, c, Top.escape)
ContentTypeParse(p, c) == LeafParse(p, c, Undef)
SetParse(p, c) == LeafParse(p, c, Undef)

(* Commands with a body: alt escapes its own value.                         *)
Block(p, c, mode) ==
  IF c.bad THEN Fail(p, "PARSE") ELSE Link(p, Node(c.op, c.arg, mode), "case_0")

IfParse(p, c) == Block(p, c, Undef)
EachWithParse(p, c) == Block(p, c, Undef)
AltParse(p, c) == Block(p, c, Top.escape)

(* loop_parse links its node before it looks at the error.                  *)
LoopParse(p, c) ==
  LET q == Link(p, Node(c.op, c.arg, Undef), "case_0")
  IN  IF c.bad THEN Fail(q, "PARSE") ELSE q

EscapeParse(p, c) ==
  IF c.bad THEN Fail(p, "PARSE")
  ELSE [Link(p, Node(c.op, c.arg, Undef), "case_0")
          EXCEPT !.next_stack = c.arg, !.is_modified = TRUE]

DefParse(p, c) ==
  LET q == [p EXCEPT !.next_stack = Undef, !.is_modified = TRUE]
  IN  IF c.bad \/ c.arg \in DOMAIN p.macros THEN Fail(q, "PARSE")
      ELSE LET r == Link(q, Node(c.op, c.arg, Undef), "case_0")
           IN  [r EXCEPT !.macros = [m \in DOMAIN @ \cup {c.arg} |->
                                       IF m = c.arg THEN r.current ELSE @[m]]]

(* A bad call has no left paren, which is tested before the macro is looked *)
(* up.  In audit mode a call of an unknown macro is only recorded.          *)
CallParse(p, c) ==
  IF c.bad THEN Fail(p, "PARSE")
  ELSE IF c.arg \notin DOMAIN p.macros
  THEN IF p.audit THEN p ELSE Fail(p, "PARSE")
  ELSE Link(p, Node(c.op, c.arg, Top.escape), "next")

-----------------------------------------------------------------------------
(* What the end of a block and the parts of an if do to the open block and  *)
(* to the pointer parse->next.                                              *)
ElseParse(p) ==
  [p EXCEPT !.next = <<Top.tree, "case_1">>, !.current = Top.tree]

ElifParse(p, c) ==
  LET n == Len(p.stack)
      outer == IF Top.next_tree = Null THEN Top.tree ELSE Top.next_tree
      q == IfParse([p EXCEPT !.stack[n].next_tree = outer,
                             !.next = <<Top.tree, "case_1">>], c)
  IN  [q EXCEPT !.stack[n].tree = q.current]

(* Mutant: the commands behind an if with elif go into its last part.       *)
EndifInner(p) ==
  [p EXCEPT !.next = <<Top.tree, "next">>, !.current = Top.tree]

EndifParse(p) ==
  [p EXCEPT !.next = <<IF Top.next_tree # Null THEN Top.next_tree ELSE Top.tree, "next">>,
            !.current = Top.tree]

(* Mutant: the next command goes where the body of the block began.         *)
EndParseInner(p) ==
  [p EXCEPT !.next = <<Top.tree, "case_0">>, !.current = Top.tree]

EndParse(p) ==
  [p EXCEPT !.next = <<Top.tree, "next">>, !.current = Top.tree]

-----------------------------------------------------------------------------
(* A text that is read in the middle of another.                            *)
Enter(p, kind) ==
  [p EXCEPT !.inputs = Append(@, [kind |-> kind, stack |-> Len(p.stack)])]

(* An error leaves every text until an include without "!" takes it for its *)
(* own file that is missing.                                                *)
Unwind(p, error) ==
  LET optional == {i \in DOMAIN p.inputs : p.inputs[i].kind = "include"}
      kept == IF error = "NOT_FOUND" /\ optional # {} THEN Max(optional) ELSE 0
  IN  [p EXCEPT !.inputs = SubSeq(@, 1, Max({kept - 1, 0})),
                !.err = IF kept > 0 THEN NoError ELSE error,
                !.recovered = @ \/ kept > 0]

(* increase_stack_depth, the file that is loaded or missing, and the errors *)
(* after which decrease_stack_depth is not reached.                         *)
IncludeParse(p, c) ==
  IF c.bad THEN Fail(p, "PARSE")
  ELSE IF c.arg = "unset" /\ c.op = "include" THEN p
  ELSE IF p.depth >= MAX_STACK_DEPTH THEN Fail(p, "MAX_RECURSION")
  ELSE LET q == [p EXCEPT !.depth = @ + 1]
       IN  CASE c.arg = "unset" -> Fail(q, "ASSERT")
             [] c.arg = "missing" -> IF c.op = "include" THEN q ELSE Fail(q, "NOT_FOUND")
             [] OTHER -> Enter(q, c.op)

EvarParse(p, c) ==
  IF c.bad THEN Fail(p, "PARSE")
  ELSE IF c.arg = "missing" /\ c.op = "evar!" THEN Fail(p, "NOT_FOUND")
  ELSE LET q == Link(p, Node("evar", c.arg, Undef), "next")
       IN  IF c.arg = "missing" THEN q ELSE Enter(q, "evar")

-----------------------------------------------------------------------------
Handler(p, c) ==
  CASE c.op \in {"include", "include!"} -> IncludeParse(p, c)
    [] c.op \in {"evar", "evar!"} -> EvarParse(p, c)
    [] c.op = "if" -> IfParse(p, c)
    [] c.op = "else" -> ElseParse(p)
    [] c.op = "elif" -> ElifParse(p, c)
    [] c.op = "endif" -> EndifParse(p)
    [] c.op \in DOMAIN Closes \ {"endif"} -> EndParse(p)
    [] c.op = "loop" -> LoopParse(p, c)
    [] c.op \in {"each", "with"} -> EachWithParse(p, c)
    [] c.op = "alt" -> AltParse(p, c)
    [] c.op = "escape" -> EscapeParse(p, c)
    [] c.op = "def" -> DefParse(p, c)
    [] c.op = "call" -> CallParse(p, c)
    [] c.op = "comment" -> p
    [] c.op = "name" -> NameParse(p, c)
    [] c.op \in {"var", "uvar"} -> VarParse(p, c)
    [] c.op = "lvar" -> LvarParse(p, c)
    [] c.op = "linclude" -> LincludeParse(p, c)
    [] c.op = "content" -> ContentTypeParse(p, c)
    [] c.op = "set" -> SetParse(p, c)

(* After the handler: ST_POP closes the block on top of the stack ...       *)
Pop(p, c) ==
  IF c.op \notin DOMAIN Closes \cup {"else"} THEN p
  ELSE LET entry == p.stack[Len(p.stack)]
       IN  [p EXCEPT !.stack = SubSeq(@, 1, Len(@) - 1),
                     !.current = IF entry.next_tree # Null THEN entry.next_tree ELSE entry.tree]

(* ... and a command that opens one pushes an entry, with the escape mode   *)
(* a handler left behind or that of the enclosing block.                    *)
(* Mutant: the mode that a handler left behind is used again.               *)
PushStale(p, c) ==
  IF c.op \notin DOMAIN Blocks \cup {"else"} THEN p
  ELSE [p EXCEPT
         !.stack = Append(@, [state |-> IF c.op = "else" THEN "ELSE" ELSE Blocks[c.op],
                              tree |-> p.current, next_tree |-> Null,
                              escape |-> p.next_stack])]

Push(p, c) ==
  IF c.op \notin DOMAIN Blocks \cup {"else"} THEN p
  ELSE [p EXCEPT
         !.stack = Append(@, [state |-> IF c.op = "else" THEN "ELSE" ELSE Blocks[c.op],
                              tree |-> p.current, next_tree |-> Null,
                              escape |-> IF p.is_modified THEN p.next_stack
                                         ELSE @[Len(@)].escape]),
         !.is_modified = FALSE]

Settle(p) == IF p.err = NoError THEN p ELSE Unwind(p, p.err)

Reading == parse.err = NoError /\ parse.inputs # <<>>

(* One turn of the loop of cs_parse_string_internal that finds a command:   *)
(* the literal before it, the check of the state, the handler, the stack.   *)
ReadCommand(c) ==
  /\ Reading /\ Len(text) < Programs[program].limit
  /\ LET p == Literal(parse)
         q == IF Top.state \in AllowedState(c.op) THEN Handler(p, c) ELSE Fail(p, "PARSE")
     IN  parse' = Settle(IF q.err # NoError THEN q ELSE Push(Pop(q, c), c))
  /\ text' = Append(text, c)
  /\ UNCHANGED program

(* A tag that does not end, or whose command is not known.                  *)
BadTag ==
  /\ Reading
  /\ parse' = Settle(Fail(Literal(parse), "PARSE"))
  /\ UNCHANGED <<text, program>>

(* The end of a text: the blocks it opened must be closed again.            *)
EndOfText ==
  /\ Reading
  /\ LET p == Literal(parse)
         input == p.inputs[Len(p.inputs)]
         done == [p EXCEPT !.inputs = SubSeq(@, 1, Len(@) - 1),
                           !.depth = IF input.kind \in {"include", "include!"} THEN @ - 1 ELSE @]
     IN  parse' = IF Len(p.stack) > input.stack THEN Settle(Fail(p, "PARSE")) ELSE done
  /\ UNCHANGED <<text, program>>

(* cs_parse_file or cs_parse_string, again after a first one: the tree      *)
(* grows where it ended.                                                    *)
ParseText ==
  /\ parse.inputs = <<>> /\ parse.err = NoError /\ Len(text) < Programs[program].limit
  /\ parse.texts < MaxTexts
  /\ parse' = [Enter(parse, "text") EXCEPT !.texts = @ + 1]
  /\ UNCHANGED <<text, program>>

(* cs_init_internal, with Config.VarEscapeMode and Config.EnableAuditMode.  *)
CsInit(mode, audit) ==
  [nodes |-> <<Node("literal", None, Undef)>>, next |-> <<Root, "next">>, current |-> Root,
   stack |-> <<[state |-> "GLOBAL", tree |-> Root, next_tree |-> Null, escape |-> mode]>>,
   next_stack |-> mode, is_modified |-> TRUE, macros |-> [m \in {} |-> Null],
   inputs |-> <<>>, texts |-> 0, depth |-> 0, audit |-> audit,
   err |-> NoError, recovered |-> FALSE]

Init ==
  /\ program \in DOMAIN Programs
  /\ \E mode \in Programs[program].modes, audit \in Programs[program].audits : parse = CsInit(mode, audit)
  /\ text = <<>>

Next ==
  \/ \E c \in Programs[program].commands : ReadCommand(c)
  \/ BadTag
  \/ EndOfText
  \/ ParseText

Spec == Init /\ [][Next]_vars
-----------------------------------------------------------------------------
(* The pointers of a node.                                                  *)
Fields == {"next", "case_0", "case_1"}

(* Linking never overwrites a pointer: every node but the first is pointed  *)
(* at exactly once, and parse->next points at an empty pointer.             *)
NoNodeLost ==
  /\ parse.err = NoError => parse.nodes[parse.next[1]][parse.next[2]] = Null
  /\ \A id \in 2 .. Len(parse.nodes) :
       Cardinality({x \in (DOMAIN parse.nodes) \X Fields :
                      parse.nodes[x[1]][x[2]] = id}) = 1

(* Includes nest no deeper than stack_depth says, and it has its limit.     *)
NestingBounded ==
  /\ Cardinality({i \in DOMAIN parse.inputs : parse.inputs[i].kind \in {"include", "include!"}})
       <= parse.depth
  /\ parse.depth <= MAX_STACK_DEPTH

(* However texts and blocks nest, linking a node overwrites no pointer to   *)
(* another, and the limit on includes holds after every error that one of   *)
(* them takes for a missing file (cs_parse_string_internal, cs_parse_file). *)
ParserSound == NoNodeLost /\ NestingBounded
=============================================================================
