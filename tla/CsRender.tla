------------------------------ MODULE CsRender ------------------------------
(***************************************************************************)
(* The renderer of cs/csparse.c.  cs_render walks the tree of a template:  *)
(* one step evaluates one node, or leaves a block.  The C stack of         *)
(* render_node is the sequence cs.frames.  Local variables are a chain of  *)
(* maps, cs.locals, the innermost last; call binds the parameters of a     *)
(* macro, and a parameter that stands for a variable is looked up in the   *)
(* scope of its caller.  lvar and linclude render another text with a      *)
(* CSPARSE of their own that shares the locals.                            *)
(*                                                                         *)
(* The data set is a sequence of nodes in the order of their creation, so  *)
(* that the children of a node are in order.  A pointer to a node is its   *)
(* tree and its path.  The pointer that a map caches once a variable has   *)
(* come into being is not kept: only the local tree grows while a template *)
(* is rendered, so that looking it up again finds the same node.           *)
(***************************************************************************)
EXTENDS CsEval, TLC

CONSTANTS
  Programs,        \* templates with their macros, texts, data and options, each
                   \* with a bound on the calls of cs_render
  MAX_STACK_DEPTH,
  C_STACK          \* texts of lvar inside one another that the C stack has room for

VARIABLES
  cs,              \* the CSPARSE, its data sets and its C stack
  program,         \* the template
  renders          \* calls of cs_render so far

vars == <<cs, program, renders>>

(* F(v), with v computed once.                                              *)
Once(v, F(_)) == CHOOSE r \in {F(x) : x \in {v}} : TRUE

Null == [tree |-> "none", path |-> <<>>]
Undef == "undef"
Freed == <<"FREED">>
Ref(tree, path) == [tree |-> tree, path |-> path]
-----------------------------------------------------------------------------
(* The data sets.                                                           *)
Paths(c, tree) == {c.data[tree][i].path : i \in DOMAIN c.data[tree]}
HdfGetObj(c, tree, path) == IF path \in Paths(c, tree) THEN Ref(tree, path) ELSE Null
NodeAt(c, r) == CHOOSE x \in ToSet(c.data[r.tree]) : x.path = r.path
Children(c, r) ==
  LET isChild(x) == Len(x.path) = Len(r.path) + 1 /\ Front(x.path) = r.path
      kids == SelectSeq(c.data[r.tree], isChild)
  IN  [i \in DOMAIN kids |-> Ref(r.tree, kids[i].path)]

(* hdf_get_node creates what is missing on the way.                         *)
Grown(c, r) ==
  LET fresh == SelectSeq([n \in DOMAIN r.path |-> [path |-> SubSeq(r.path, 1, n), value |-> NULL,
                                                  status |-> "untrusted"]],
                         LAMBDA x : x.path \notin Paths(c, r.tree))
  IN  c.data[r.tree] \o fresh

HdfSetValue(c, r, value) ==
  LET set(x) == IF x.path = r.path THEN [x EXCEPT !.value = value] ELSE x
  IN  [c EXCEPT !.data[r.tree] = [i \in DOMAIN @ |-> set(@[i])]]

(* hdf_get_node, and the attribute that tells the escape status.            *)
GetNode(c, r, status) ==
  LET mark(x) == IF x.path = r.path /\ program.propagate THEN [x EXCEPT !.status = status] ELSE x
      grown == Grown(c, r)
  IN  [c EXCEPT !.data[r.tree] = [i \in DOMAIN grown |-> mark(grown[i])]]
-----------------------------------------------------------------------------
(* Names.  LookupMap: the innermost of the first n locals with that name.   *)
LookupMap(c, name, n) ==
  LET hits == {i \in 1 .. n : c.locals[i].name = name[1]}
  IN  IF hits = {} THEN 0 ELSE Max(hits)

Join(r, rest) == Ref(r.tree, r.path \o rest)
Member(c, r, rest) ==
  IF r = Null THEN Null ELSE IF rest = <<>> THEN r ELSE HdfGetObj(c, r.tree, r.path \o rest)

Globally(c, name) ==
  IF HdfGetObj(c, "local", name) # Null THEN Ref("local", name) ELSE HdfGetObj(c, "global", name)

(* The node of a local variable: its own, or that of the name it stands for *)
(* in the scope of the call.                                                *)
RECURSIVE ScopedLookup(_, _, _)
NodeOf(c, map) == IF map.h # Null THEN map.h ELSE ScopedLookup(c, map.s, map.scope)
ScopedLookup(c, name, n) ==
  LET within(map) == Once(NodeOf(c, map), LAMBDA h : Member(c, h, Tail(name)))
      lookup(i) == IF i # 0 /\ c.locals[i].type = "var" THEN within(c.locals[i]) ELSE Globally(c, name)
  IN  IF name = <<>> THEN Null ELSE Once(LookupMap(c, name, n), lookup)

(* The node that scoped_var_lookup_or_create_obj creates for a name that is *)
(* not set.                                                                 *)
RECURSIVE CreatedFor(_, _, _)
CreatedFor(c, name, n) ==
  LET outer(map) == IF map.h # Null THEN map.h ELSE CreatedFor(c, map.s, map.scope)
      create(i) == IF i # 0 /\ c.locals[i].type = "var"
                   THEN Once(outer(c.locals[i]), LAMBDA h : Join(h, Tail(name)))
                   ELSE Ref("local", name)
  IN  Once(LookupMap(c, name, n), create)

VarLookupObj(c, name) == ScopedLookup(c, name, Len(c.locals))

(* var_lookup: the text of a name and its escape status.                    *)
ValueOf(c, r) ==
  IF r = Null THEN [s |-> NULL, status |-> "untrusted"]
  ELSE [s |-> NodeAt(c, r).value,
        status |-> IF program.propagate THEN NodeAt(c, r).status ELSE "untrusted"]

VarLookup(c, name) ==
  LET mine == ValueOf(c, HdfGetObj(c, "local", name))
      other == ValueOf(c, HdfGetObj(c, "global", name))
      local(map) ==
        CASE map.type = "var" -> Once(VarLookupObj(c, name), LAMBDA r : ValueOf(c, r))
          [] map.type = "string" -> [s |-> map.s, status |-> map.status]
          [] map.type = "num" -> [s |-> Numeral(map.n), status |-> "trusted"]
      lookup(i) == IF i # 0 THEN local(c.locals[i])
                   ELSE IF mine.s = NULL THEN [s |-> other.s, status |-> mine.status] ELSE mine
  IN  Once(IF name = <<>> THEN 0 ELSE LookupMap(c, name, Len(c.locals)), lookup)

Env(c) == [name \in Seq(STRING) |-> VarLookup(c, name)]

Failed(c, e) == [c EXCEPT !.err = e]

(* var_set_value.  The string of a map may be shared with the parameters    *)
(* that were given it; setting the map that owns it frees it.               *)
SetLocal(c, i, value, status) ==
  LET shares(j) == j # i /\ c.locals[j].owner = i
      maps == [j \in DOMAIN c.locals |->
                 IF shares(j)
                 THEN [c.locals[j] EXCEPT !.s = IF c.locals[i].alloc THEN Freed ELSE @, !.owner = 0]
                 ELSE c.locals[j]]
      s == IF value = NULL THEN <<>> ELSE value
  IN  [c EXCEPT !.locals =
         [maps EXCEPT ![i] = [@ EXCEPT !.type = "string", !.s = s, !.owner = i,
                                       !.alloc = value # NULL, !.status = status]]]

(* A node of the global tree is marked, and only then refused.              *)
SetMarked(c, r, value) ==
  IF r.tree = "global" THEN Failed(c, "assert") ELSE HdfSetValue(c, r, value)
SetNodeTrusting(c, r, value, status) == SetMarked(GetNode(c, r, "trusted"), r, value)
SetNode(c, r, value, status) == SetMarked(GetNode(c, r, status), r, value)

VarSetValue(c, name, value, status) ==
  LET target(r) == IF r = Null THEN CreatedFor(c, name, Len(c.locals)) ELSE r
      set(i) ==
        IF i = 0 THEN SetNode(c, Ref("local", name), value, status)
        ELSE IF c.locals[i].type = "var"
        THEN Once(Once(VarLookupObj(c, name), target), LAMBDA r : SetNode(c, r, value, status))
        ELSE IF Tail(name) = <<>> THEN SetLocal(c, i, value, status) ELSE c
  IN  IF name = <<>> THEN c ELSE Once(LookupMap(c, name, Len(c.locals)), set)
-----------------------------------------------------------------------------
(* Expressions: eval_expr and the built-in functions.  An evaluation gives  *)
(* a CSARG and whether it called a function that escapes.                   *)
Result(arg, escaped) == [arg |-> arg, escaped |-> escaped]

(* The name that [] or . makes of a name and a value.                      *)
Extended(name, text) ==
  IF text \in {NULL, <<>>} THEN Var(<<>>)
  ELSE Var((IF name = <<>> THEN <<"">> ELSE name) \o <<FoldLeft(LAMBDA a, b : a \o b, "", text)>>)
EvalIndex(c, op, arg1, arg2) ==
  IF op = "." /\ arg2.type \in {"var", "varnum"} THEN Var(arg1.name \o arg2.name)
  ELSE Extended(arg1.name, ArgEvalStrAlloc(Env(c), arg2))

HtmlEscape(s) == [i \in DOMAIN s |-> IF s[i] = "<" THEN "&" ELSE s[i]]
ToLower(s) == [i \in DOMAIN s |-> IF s[i] = "A" THEN "a" ELSE s[i]]
Escapers == {"html_escape"}

LocalOf(c, arg) ==
  IF arg.type = "var" /\ Len(arg.name) = 1 THEN LookupMap(c, arg.name, Len(c.locals)) ELSE 0

NextSibling(c, r) ==
  LET kids == Children(c, Ref(r.tree, Front(r.path)))
      at == CHOOSE i \in DOMAIN kids : kids[i] = r
  IN  IF at = Len(kids) THEN Null ELSE kids[at + 1]

Builtin(c, fn, args) ==
  LET a == args[1]
      obj == IF a.type = "var" THEN VarLookupObj(c, a.name) ELSE Null
      num(k) == ArgEvalNum(Env(c), args[k])
      text(k) == ArgEvalStrAlloc(Env(c), args[k])
      map == c.locals[LocalOf(c, a)]
  IN  CASE fn \in {"subcount", "len"} -> Num(IF obj = Null THEN 0 ELSE Len(Children(c, obj)))
        [] fn = "name" -> IF a.type = "string" THEN Str(a.s, "untrusted")
                          ELSE Str(IF obj = Null THEN <<>> ELSE <<Last(obj.path)>>, "untrusted")
        [] fn = "first" -> Truth(LocalOf(c, a) # 0 /\ map.first)
        [] fn = "last" -> Truth(/\ LocalOf(c, a) # 0
                                /\ \/ map.last
                                   \/ map.type = "var" /\ (map.h = Null \/ NextSibling(c, map.h) = Null))
        [] fn = "string.length" -> IF a.type \in {"var", "string"} THEN Length(Env(c), a) ELSE Num(0)
        [] fn = "abs" -> Num(ToInt(Magnitude(ToInt(num(1)))))
        [] fn = "max" -> Num(IF num(1) > num(2) THEN num(1) ELSE num(2))
        [] fn = "min" -> Num(IF num(1) < num(2) THEN num(1) ELSE num(2))
        [] fn = "string.find" -> StrFind(text(1), text(2))
        [] fn = "string.slice" -> Str(StrSlice(text(1), num(2), num(3)), "untrusted")
        [] fn = "string.tolower" -> Str(IF text(1) = NULL THEN <<>> ELSE ToLower(text(1)), "untrusted")
        [] fn = "html_escape" ->
             IF a.type \in {"num", "varnum"} THEN a
             ELSE LET s == ArgEval(Env(c), a).s
                  IN  Str(IF s = NULL THEN NULL ELSE HtmlEscape(s), "trusted")

Unary(c, op, x) == Result(IF x.arg = Raise THEN Raise ELSE EvalUnary(Env(c), op, x.arg), x.escaped)
Binary(c, op, x, y) ==
  Result(IF Raise \in {x.arg, y.arg} THEN Raise
         ELSE CASE op = "," -> y.arg
                [] op \in {".", "["} -> EvalIndex(c, op, x.arg, y.arg)
                [] OTHER -> EvalBinary(Env(c), op, x.arg, y.arg),
         x.escaped \/ y.escaped)
Function(c, fn, args) ==
  Result(IF \E i \in DOMAIN args : args[i].arg = Raise THEN Raise
         ELSE Builtin(c, fn, [i \in DOMAIN args |-> args[i].arg]),
         fn \in Escapers \/ \E i \in DOMAIN args : args[i].escaped)

RECURSIVE Eval(_, _)
EvalAll(c, exprs) == <<>> \o [i \in DOMAIN exprs |-> Eval(c, exprs[i])]
Eval(c, e) ==
  CASE e.op \in {"num", "string", "var", "varnum"} -> Result(e.arg, FALSE)
    [] e.op = "(" -> Eval(c, e.expr1)
    [] e.op = "call" -> Once(EvalAll(c, e.args), LAMBDA args : Function(c, e.fn, args))
    [] e.op \in {"!", "?"} -> Once(Eval(c, e.expr1), LAMBDA x : Unary(c, e.op, x))
    [] OTHER -> Once(EvalAll(c, <<e.expr1, e.expr2>>), LAMBDA x : Binary(c, e.op, x[1], x[2]))
-----------------------------------------------------------------------------
(* Output.  ok is the answer of the output callback or, where the template  *)
(* is escaped automatically, of the parser that follows the output.         *)
Put(c, event, ok) == IF ok THEN [c EXCEPT !.out = Append(@, event)] ELSE Failed(c, "output")
Event(text, escaped) == [text |-> text, escaped |-> escaped]

EscapeMode(c, node) == IF node.escape = Undef THEN c.whenUndef ELSE node.escape

EscapeAndOutput(c, node, value, status, escaped, ok) ==
  LET known == IF program.propagate THEN status ELSE "untrusted"
      mode == EscapeMode(c, node)
      auto == known # "trusted" /\ mode = Undef /\ program.auto
  IN  IF value = NULL THEN c
      ELSE IF ~escaped /\ (auto \/ mode = "html") THEN Put(c, Event(HtmlEscape(value), FALSE), ok)
      ELSE Put(c, Event(value, escaped \/ mode = "none"), ok)

(* var_eval_helper does not return the error of a text it could not output. *)
VarEvalHelper(c, node, x, ok) ==
  IF x.arg.type \in {"num", "varnum"}
  THEN Put(c, Event(Numeral(ArgEvalNum(Env(c), x.arg)), FALSE), ok)
  ELSE LET v == ArgEval(Env(c), x.arg)
       IN  [EscapeAndOutput(c, node, v.s, v.status, x.escaped, ok) EXCEPT !.err = c.err]

Frame(kind, rest) == [kind |-> kind, rest |-> rest]
Push(c, frame) == [c EXCEPT !.frames = Append(@, frame)]
Block(c, nodes) == Push(c, Frame("block", nodes))

LocalMap(name, type) ==
  [name |-> name, type |-> type, n |-> 0, s |-> NULL, h |-> Null, scope |-> 0, alloc |-> FALSE,
   owner |-> 0, status |-> "untrusted", first |-> FALSE, last |-> FALSE, stands |-> Null]
NodeMap(name, r) == [LocalMap(name, "var") EXCEPT !.h = r, !.stands = r]
-----------------------------------------------------------------------------
(* The nodes.  c is the state after the node was taken from its block, x    *)
(* the values of its expressions.                                           *)
LiteralEval(c, node, ok) == Put(c, Event(node.text, FALSE), ok)

NameEval(c, node, ok) ==
  LET output(obj) == IF obj = Null THEN c
                     ELSE EscapeAndOutput(c, node, <<Last(obj.path)>>, "untrusted", FALSE, ok)
  IN  Once(VarLookupObj(c, node.name), output)

VarEval(c, node, x, ok) == VarEvalHelper(c, node, x[1], ok)

IsTrue(c, x) == ArgEvalBool(Env(c), x.arg) # 0

AltEval(c, node, x, ok) ==
  IF IsTrue(c, x[1]) THEN VarEvalHelper(c, node, x[1], ok) ELSE Block(c, node.case0)

IfEval(c, node, x) == Block(c, IF IsTrue(c, x[1]) THEN node.case0 ELSE node.case1)

EscapeEval(c, node) == Block(c, node.case0)
SkipEvalStays(c, node) == [c EXCEPT !.frames[Len(c.frames)].rest = <<node>> \o @]
SkipEval(c, node) == c

SetEval(c, node, x) ==
  LET name == x[1].arg.name
      value == x[2].arg
  IN  IF value.type \in {"num", "varnum"}
      THEN VarSetValue(c, name, Numeral(ArgEvalNum(Env(c), value)), "trusted")
      ELSE Once(ArgEval(Env(c), value), LAMBDA v : VarSetValue(c, name, v.s, v.status))

TooMany(c, iters) == c.total + iters > program.maxIterations

Object(c, x) == IF x.arg.type = "var" THEN VarLookupObj(c, x.arg.name) ELSE Null

EachEval(c, node, x) ==
  LET map == [NodeMap(node.name, Null) EXCEPT !.first = TRUE]
      over(obj) == IF obj = Null \/ Children(c, obj) = <<>> THEN c
                   ELSE Push([c EXCEPT !.locals = Append(@, map)],
                             Frame("each", <<>>) @@ [body |-> node.case0, list |-> obj, child |-> Null])
  IN  Once(Object(c, x[1]), over)

WithEval(c, node, x) ==
  LET with(obj) == IF obj = Null THEN c
                   ELSE Push([c EXCEPT !.locals = Append(@, NodeMap(node.name, obj))],
                             Frame("with", node.case0))
  IN  Once(Object(c, x[1]), with)

(* One argument is the end, two are start and end, the third is the step;   *)
(* each is cut to an int.                                                   *)
LoopEval(c, node, x) ==
  LET num(i) == ToInt(ArgEvalNum(Env(c), x[i].arg))
      start == IF Len(x) = 1 THEN 0 ELSE num(1)
      step == IF Len(x) < 3 THEN 1 ELSE num(3)
      map == [LocalMap(node.name, "num") EXCEPT !.first = TRUE]
      run(iter) ==
        IF TooMany(c, iter) THEN Failed(c, "range")
        ELSE IF iter = 0 THEN c
        ELSE Push([c EXCEPT !.total = @ + iter, !.locals = Append(@, map)],
                  Frame("loop", <<>>) @@ [body |-> node.case0, left |-> iter, n |-> start,
                                          step |-> step, begun |-> FALSE])
  IN  Once(LoopCount(start, IF Len(x) = 1 THEN num(1) ELSE num(2), step), run)

(* A parameter: a constant, a copy of a local number, the string of another *)
(* local, or a variable in the scope of the call.                           *)
Parameter(c, name, arg, literal) ==
  LET n == Len(c.locals)
      i == LookupMap(c, arg.name, n)
      map == c.locals[i]
      blank == [LocalMap(name, arg.type) EXCEPT !.scope = n]
      obj == VarLookupObj(c, arg.name)
  IN  CASE arg.type = "string" -> [blank EXCEPT !.s = arg.s, !.status = arg.status,
                                               !.alloc = ~literal /\ arg.s \notin {NULL, <<>>}]
        [] arg.type = "num" -> [blank EXCEPT !.n = arg.n, !.status = "trusted"]
        [] arg.type \in {"var", "varnum"} /\ arg.name # <<>> /\ i # 0 /\ map.type = "num" ->
             [blank EXCEPT !.type = "num", !.n = map.n, !.status = "trusted"]
        [] arg.type \in {"var", "varnum"} /\ arg.name # <<>> /\ i # 0 /\ map.type = "string" ->
             [blank EXCEPT !.type = "string", !.s = map.s, !.status = map.status,
                           !.owner = IF map.owner = 0 THEN i ELSE map.owner]
        [] OTHER ->
             [blank EXCEPT !.type = "var", !.h = obj, !.s = arg.name,
                           !.stands = IF obj # Null \/ arg.name = <<>> THEN obj
                                      ELSE CreatedFor(c, arg.name, n)]

CallEval(c, node, x) ==
  LET macro == program.macros[node.macro]
      maps == [i \in DOMAIN x |-> Parameter(c, macro.params[i], x[i].arg, node.exprs[i].op = "string")]
  IN  IF c.depth >= MAX_STACK_DEPTH THEN Failed(c, "recursion")
      ELSE Push([c EXCEPT !.locals = @ \o Reverse(maps),
                          !.depth = @ + 1,
                          !.whenUndef = IF node.escape = Undef THEN @ ELSE node.escape],
                Frame("call", macro.body) @@ [params |-> Len(maps), saved |-> c.whenUndef, escape |-> node.escape])

(* The nodes of a text, parsed with the escape mode of the command.         *)
Parsed(node, nodes) ==
  [i \in DOMAIN nodes |->
     IF nodes[i].escape = Undef THEN [nodes[i] EXCEPT !.escape = node.escape] ELSE nodes[i]]

TextFrame(c, node, s, nodes, kind) ==
  Push([c EXCEPT !.whenUndef = Undef],
       Frame(kind, Parsed(node, nodes)) @@ [text |-> s, saved |-> c.whenUndef, depth |-> c.depth, total |-> c.total])

(* Only the C stack limits how deep the texts of lvar stand in one another. *)
LvarsOpen(c) == Len(SelectSeq(c.frames, LAMBDA f : f.kind = "lvar"))
StackFull(c, kind) == kind = "lvar" /\ LvarsOpen(c) >= C_STACK

PlainText(s) == [cmd |-> "literal", escape |-> Undef, exprs |-> <<>>, text |-> s]

(* The text of an lvar and the file of an linclude: program.texts gives the *)
(* nodes it is parsed into, or that it is malformed; a file may be missing, *)
(* and a text that is not listed has no commands.                           *)
TextEval(c, node, x, ok, kind) ==
  LET arg == x[1].arg
      s == ArgEval(Env(c), arg).s
      deep == IF kind = "linclude" THEN [c EXCEPT !.depth = @ + 1] ELSE c
      known == s \in DOMAIN program.texts
  IN  IF arg.type \in {"num", "varnum"}
      THEN Put(c, Event(Numeral(ArgEvalNum(Env(c), arg)), FALSE), ok)
      ELSE IF s = NULL THEN c
      ELSE IF kind = "linclude" /\ c.depth >= MAX_STACK_DEPTH THEN Failed(c, "recursion")
      ELSE IF StackFull(c, kind) THEN [c EXCEPT !.killed = TRUE]
      ELSE IF ~known /\ kind = "linclude"
      THEN IF node.required THEN Failed(deep, "notfound") ELSE TextFrame(deep, node, s, <<>>, kind)
      ELSE IF ~known THEN TextFrame(c, node, s, <<PlainText(s)>>, kind)
      ELSE IF program.texts[s].bad THEN Failed(deep, "parse")
      ELSE TextFrame(deep, node, s, program.texts[s].nodes, kind)
-----------------------------------------------------------------------------
(* Leaving a frame.  f is the frame, c the state with the frame still open. *)
Pop(c) == [c EXCEPT !.frames = Front(@)]
DropLocals(c, k) == [c EXCEPT !.locals = SubSeq(@, 1, Len(@) - k)]
Again(c, f) == [c EXCEPT !.frames = Append(Front(@), f)]

(* each: the limit is tested before every child, and an error there leaves  *)
(* the map of the each in place.                                            *)
EachNext(c, f) ==
  LET next == IF f.child = Null THEN Children(c, f.list)[1] ELSE NextSibling(c, f.child)
      top == Len(c.locals)
  IN  IF c.err # "" \/ next = Null THEN DropLocals(Pop(c), 1)
      ELSE IF TooMany(c, 1) THEN Failed(Pop(c), "range")
      ELSE Again([c EXCEPT !.total = @ + 1, !.bodies = @ + 1,
                           !.locals[top].h = next, !.locals[top].stands = next,
                           !.locals[top].first = f.child = Null],
                 [f EXCEPT !.child = next, !.rest = f.body])

(* loop: a string the body has given to the variable is freed, but the      *)
(* variable stays a string.                                                 *)
LoopNext(c, f) ==
  LET top == Len(c.locals)
      map == c.locals[top]
  IN  IF c.err # "" \/ f.left = 0 THEN DropLocals(Pop(c), 1)
      ELSE Again([c EXCEPT !.bodies = @ + 1,
                           !.locals[top] = [@ EXCEPT !.n = f.n, !.status = "trusted",
                                                     !.last = f.left = 1,
                                                     !.first = ~f.begun,
                                                     !.s = IF map.alloc THEN NULL ELSE @,
                                                     !.alloc = FALSE]],
                 [f EXCEPT !.left = @ - 1, !.n = @ + f.step, !.rest = f.body, !.begun = TRUE])

LeaveWith(c, f) == DropLocals(Pop(c), 1)
LeaveCallEscaping(c, f) ==
  [DropLocals(Pop(c), f.params) EXCEPT !.depth = IF c.err = "" THEN @ - 1 ELSE @]
LeaveCall(c, f) ==
  [DropLocals(Pop(c), f.params) EXCEPT !.depth = IF c.err = "" THEN @ - 1 ELSE @,
                                       !.whenUndef = f.saved]
LeaveText(c, f) ==
  [Pop(c) EXCEPT !.whenUndef = f.saved,
                 !.total = IF c.err = "" THEN @ ELSE f.total,
                 !.depth = IF c.err = "" /\ f.kind = "linclude" THEN f.depth - 1 ELSE f.depth]

Leave(c, f) ==
  CASE f.kind = "each" -> EachNext(c, f)
    [] f.kind = "loop" -> LoopNext(c, f)
    [] f.kind = "with" -> LeaveWith(c, f)
    [] f.kind = "call" -> LeaveCall(c, f)
    [] f.kind \in {"lvar", "linclude"} -> LeaveText(c, f)
    [] OTHER -> Pop(c)
-----------------------------------------------------------------------------
(* A process that has used up its C stack is no more.                       *)
Running == cs.frames # <<>>
Top == Last(cs.frames)
Ready == Running /\ ~cs.killed /\ cs.err = "" /\ Top.rest # <<>>
Node == Head(Top.rest)
Taken == Again(cs, [Top EXCEPT !.rest = Tail(@)])

(* render_node: one node, by the eval handler of its command, which first   *)
(* evaluates the expressions of the node.                                   *)
Evaluated(c, node, x, ok) ==
  CASE node.cmd = "literal" -> LiteralEval(c, node, ok)
    [] node.cmd = "name" -> NameEval(c, node, ok)
    [] node.cmd = "var" -> VarEval(c, node, x, ok)
    [] node.cmd = "alt" -> AltEval(c, node, x, ok)
    [] node.cmd = "if" -> IfEval(c, node, x)
    [] node.cmd = "escape" -> EscapeEval(c, node)
    [] node.cmd = "def" -> SkipEval(c, node)
    [] node.cmd = "set" -> SetEval(c, node, x)
    [] node.cmd = "each" -> EachEval(c, node, x)
    [] node.cmd = "with" -> WithEval(c, node, x)
    [] node.cmd = "loop" -> LoopEval(c, node, x)
    [] node.cmd = "call" -> CallEval(c, node, x)
    [] node.cmd \in {"lvar", "linclude"} -> TextEval(c, node, x, ok, node.cmd)

RenderNode == /\ Ready
              /\ \E c \in {Taken}, ok \in (IF program.outputFails THEN BOOLEAN ELSE {TRUE}) :
                   \E x \in {EvalAll(c, Node.exprs)} :
                     cs' = IF \E i \in DOMAIN x : x[i].arg = Raise THEN Failed(c, "range")
                           ELSE Evaluated(c, Node, x, ok)
              /\ UNCHANGED <<program, renders>>

LeaveBlock == /\ Running /\ ~cs.killed
              /\ cs.err # "" \/ Top.rest = <<>>
              /\ cs' = Leave(cs, Top)
              /\ UNCHANGED <<program, renders>>

(* cs_render starts the count of the iterations and nothing else.           *)
CsRender == /\ ~Running
            /\ renders < program.maxRenders
            /\ renders' = renders + 1
            /\ cs' = [cs EXCEPT !.frames = <<Frame("root", program.tree)>>,
                                !.total = 0, !.bodies = 0, !.out = <<>>, !.err = "",
                                !.aborted = @ \/ cs.err # ""]
            /\ UNCHANGED program

Init == /\ program \in Programs
        /\ renders = 0
        /\ cs = [locals |-> <<>>, frames |-> <<>>, depth |-> 0, total |-> 0, bodies |-> 0,
                 whenUndef |-> Undef, out |-> <<>>, err |-> "", aborted |-> FALSE, killed |-> FALSE,
                 data |-> program.data]

Next == RenderNode \/ LeaveBlock \/ CsRender
Fairness == WF_vars(RenderNode \/ LeaveBlock)
Spec == Init /\ [][Next]_vars /\ Fairness
=============================================================================
