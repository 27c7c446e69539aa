---------------------------- MODULE MCCsRender ----------------------------
(* Templates of two nested blocks around two commands, in every             *)
(* combination, and some that recurse, grow what they iterate over, or fail.*)
EXTENDS CsRender

N(name) == [op |-> "var", arg |-> Var(name)]
NumN(name) == [op |-> "varnum", arg |-> VarNum(name)]
Const(n) == [op |-> "num", arg |-> Num(n)]
Lit(s) == [op |-> "string", arg |-> Str(s, "trusted")]
Op(op, a, b) == [op |-> op, expr1 |-> a, expr2 |-> b]
Fn(fn, args) == [op |-> "call", fn |-> fn, args |-> args]

Cmd(cmd) == [cmd |-> cmd, escape |-> Undef, exprs |-> <<>>]
WithExprs(cmd, exprs) == [Cmd(cmd) EXCEPT !.exprs = exprs]
PrintVar(e) == WithExprs("var", <<e>>)
Set(lhs, e) == WithExprs("set", <<lhs, e>>)
If(e, a, b) == WithExprs("if", <<e>>) @@ [case0 |-> a, case1 |-> b]
Alt(e, a) == WithExprs("alt", <<e>>) @@ [case0 |-> a]
CallMacro(k, args) == WithExprs("call", args) @@ [macro |-> k]
Scope(cmd, x, e, body) == WithExprs(cmd, <<e>>) @@ [name |-> x, case0 |-> body]
Loop(x, args, body) == WithExprs("loop", args) @@ [name |-> x, case0 |-> body]
Lvar(e) == WithExprs("lvar", <<e>>)
Linclude(e, required) == WithExprs("linclude", <<e>>) @@ [required |-> required]

X == N(<<"x">>)
D == N(<<"D">>)
Missing == N(<<"M">>)
Q == N(<<"Q">>)

Data == [local |-> << [path |-> <<"D">>, value |-> <<"<">>, status |-> "untrusted"],
                      [path |-> <<"Q">>, value |-> NULL, status |-> "untrusted"],
                      [path |-> <<"Q", "a">>, value |-> <<"<">>, status |-> "untrusted"],
                      [path |-> <<"Q", "b">>, value |-> <<"1">>, status |-> "untrusted"],
                      [path |-> <<"T">>, value |-> <<"T">>, status |-> "untrusted"] >>,
         global |-> << [path |-> <<"G">>, value |-> <<"A", "<">>, status |-> "untrusted"] >>]

(* The text T uses a loop and the variable x of the template around it.     *)
Texts == (<<"T">> :> [bad |-> FALSE, nodes |-> <<PrintVar(X), Loop("i", <<Const(0), Const(1)>>, <<PrintVar(X)>>)>>])
           @@ (<<"bad">> :> [bad |-> TRUE, nodes |-> <<>>])
           @@ (<<"R">> :> [bad |-> FALSE, nodes |-> <<Linclude(Lit(<<"R">>), TRUE)>>])

(* Texts with an lvar: V and W render each other, E renders itself until x  *)
(* is empty, L renders itself in the body of a loop.                        *)
LvarNames == <<"V", "W", "E", "L">>
LvarTexts ==
  (<<"V">> :> [bad |-> FALSE, nodes |-> <<PrintVar(X), Lvar(N(<<"W">>))>>])
  @@ (<<"W">> :> [bad |-> FALSE, nodes |-> <<Lvar(N(<<"V">>))>>])
  @@ (<<"E">> :> [bad |-> FALSE, nodes |-> <<If(X, <<Set(X, Lit(<<>>)), Lvar(N(<<"E">>))>>, <<PrintVar(D)>>)>>])
  @@ (<<"L">> :> [bad |-> FALSE, nodes |-> <<Loop("i", <<Const(1), Const(1)>>, <<Lvar(N(<<"L">>))>>)>>])
LvarData ==
  [Data EXCEPT !.local = @ \o [i \in DOMAIN LvarNames |->
     [path |-> <<LvarNames[i]>>, value |-> <<LvarNames[i]>>, status |-> "untrusted"]]]

Commands ==
  { PrintVar(X), PrintVar(Op("+", X, Lit(<<"a">>))), PrintVar(N(<<"x", "k">>)),
    Set(X, D), Set(X, Op("+", N(<<"x">>), Lit(<<"1">>))), Set(N(<<"x", "k">>), N(<<"y">>)),
    Set(N(<<"y">>), X), Set(Missing, X), Alt(X, <<PrintVar(N(<<"y">>))>>),
    Cmd("name") @@ [name |-> <<"x">>],
    If(Op("<", Fn("subcount", <<X>>), Const(1)), <<PrintVar(Missing)>>, <<PrintVar(Fn("last", <<X>>))>>),
    PrintVar(Fn("string.slice", <<X, Const(0), Const(1)>>)), PrintVar(Fn("html_escape", <<X>>)), Lvar(N(<<"T">>)) }

Probes == { PrintVar(X), PrintVar(N(<<"x", "k">>)), Set(Missing, X), Alt(X, <<PrintVar(N(<<"y">>))>>) }

Blocks == {"each", "withMember", "loop", "callVar", "callMissing", "callLit", "callNum", "callSum",
           "callGlobal", "callLocal", "escape", "lvar"}

(* The block b around nodes; a call runs them as macro k.                   *)
Around(b, k, x, nodes) ==
  CASE b = "each" -> <<Scope("each", x, Q, nodes)>>
    [] b = "withMember" -> <<Scope("with", x, Op("[", Q, Lit(<<"a">>)), nodes)>>
    [] b = "loop" -> <<Loop(x, <<Const(2), Const(1), Const(-1)>>, nodes)>>
    [] b = "callVar" -> <<CallMacro(k, <<D>>)>>
    [] b = "callMissing" -> <<CallMacro(k, <<Missing>>)>>
    [] b = "callLit" -> <<CallMacro(k, <<Lit(<<"a">>)>>)>>
    [] b = "callNum" -> <<CallMacro(k, <<Const(1)>>)>>
    [] b = "callSum" -> <<CallMacro(k, <<Op("+", D, Lit(<<"a">>))>>)>>
    [] b = "callGlobal" -> <<CallMacro(k, <<N(<<"G">>)>>)>>
    [] b = "callLocal" -> <<CallMacro(k, <<X>>)>>
    [] b = "escape" -> << [CallMacro(k, <<X>>) EXCEPT !.escape = "html"] >>
    [] b = "lvar" -> <<Lvar(N(<<"T">>))>> \o nodes

Program(tree, macros, auto, fails, n) ==
  [tree |-> tree, macros |-> macros, texts |-> Texts, data |-> Data, auto |-> auto,
   propagate |-> auto, maxIterations |-> 5, outputFails |-> fails,
   maxRenders |-> n]

Nested(b1, b2, y, c1, c2) ==
  LET inner == <<c1, c2>>
      outer == Around(b2, 2, y, inner)
  IN  Program(Around(b1, 1, "x", outer), << [params |-> <<"x">>, body |-> outer],
                                            [params |-> <<y>>, body |-> inner] >>, TRUE, FALSE, 1)

Grow == Set(Op("[", Q, Fn("subcount", <<Q>>)), Lit(<<"1">>))
Recursive == << [params |-> <<"x">>, body |-> <<PrintVar(X), CallMacro(1, <<X>>)>>],
                [params |-> <<"x">>, body |-> <<PrintVar(X), Set(X, Lit(<<"a">>))>>] >>
Special ==
  { <<Scope("each", "x", Q, <<Grow, PrintVar(X)>>)>>,
    <<CallMacro(1, <<D>>)>>,
    <<Scope("with", "x", D, <<CallMacro(1, <<X>>)>>)>>,
    <<Linclude(Lit(<<"R">>), TRUE)>>,
    <<Linclude(Lit(<<"none">>), FALSE), Linclude(Lit(<<"none">>), TRUE)>>,
    <<Linclude(Lit(<<"T">>), TRUE), Lvar(N(<<"T">>)), Lvar(N(<<"T">>)), Lvar(N(<<"T">>))>>,
    <<Lvar(Lit(<<"bad">>))>>,
    <<CallMacro(2, <<N(<<"G">>)>>)>>,
    <<Cmd("escape") @@ [case0 |-> <<PrintVar(D), Cmd("def")>>], PrintVar(Const(2)), Lvar(Const(1))>>,
    <<Set(Missing, Op("+", Const(LONG_MAX), Const(1)))>>,
    <<PrintVar(Op("+", Fn("html_escape", <<D>>), Lit(<<"a">>))),
      Cmd("literal") @@ [text |-> <<"a">>], Alt(Missing, <<PrintVar(NumN(<<"D">>))>>)>> }

Lvars == { <<Lvar(N(<<"V">>))>>, <<Set(X, D), Lvar(N(<<"E">>)), PrintVar(X)>>,
           <<Scope("with", "x", D, <<Lvar(N(<<"L">>))>>)>> }

Empty == [Program(<<>>, <<>>, FALSE, FALSE, 1) EXCEPT !.texts = <<>>, !.data = [local |-> <<>>, global |-> <<>>]]

(* A definition without parameters is evaluated in every instance.         *)
MCPrograms(blocks) ==
  {Empty}
  \cup {Nested(b1, b2, y, c1, c2) :
           b1 \in blocks, <<b2, y>> \in (blocks \X {"x", "y"}) \ {<<"lvar", "y">>},
           c1 \in Commands, c2 \in Probes}
  \cup {Program(t, Recursive, auto, fails, 2) : t \in Special, auto \in BOOLEAN, fails \in BOOLEAN}
  \cup {[Program(t, Recursive, auto, FALSE, 2) EXCEPT !.texts = LvarTexts, !.data = LvarData] :
          t \in Lvars, auto \in BOOLEAN}
-----------------------------------------------------------------------------
Count(kinds) == Cardinality({i \in DOMAIN cs.frames : cs.frames[i].kind \in kinds})

RECURSIVE Bound(_)
Bound(k) ==
  IF k = 0 THEN 0
  ELSE LET f == cs.frames[k]
       IN  Bound(k - 1) + IF f.kind = "call" THEN f.params
                          ELSE IF f.kind \in {"each", "with", "loop"} THEN 1 ELSE 0

(* The escape mode at the command that stands in the first k frames.       *)
RECURSIVE ModeWithin(_)
ModeWithin(k) ==
  IF k = 0 \/ cs.frames[k].kind \in {"lvar", "linclude"} THEN Undef
  ELSE IF cs.frames[k].kind = "call" /\ cs.frames[k].escape # Undef THEN cs.frames[k].escape
  ELSE ModeWithin(k - 1)

(* While no render has failed, the locals are those of the blocks that are  *)
(* open, stack_depth is their nesting of macros and included files, and the *)
(* escape mode for variables is that of the innermost call that has one, up *)
(* to the text it stands in: whatever a block does, leaving it restores     *)
(* what was before (call_eval, each_eval, lvar_eval, linclude_eval).        *)
ScopesMatchBlocks ==
  cs.err = "" /\ ~cs.aborted =>
    /\ Len(cs.locals) = Bound(Len(cs.frames))
    /\ cs.depth = Count({"call", "linclude"})
    /\ cs.depth <= MAX_STACK_DEPTH
    /\ cs.whenUndef = ModeWithin(Len(cs.frames))

(* The bodies of each and loop that a render runs, those of lvar and        *)
(* linclude texts included, stay within Config.MaxLoopIterations, even when *)
(* an each adds to what it iterates over (check_increment_loop_iterations). *)
IterationsBounded == cs.bodies <= program.maxIterations

(* A parameter that stands for a variable stands during the whole call for  *)
(* the node that the variable had, or would have, at the call, whatever     *)
(* names the macro binds and whenever the node comes into being             *)
(* (scoped_var_lookup_or_create_obj, call_eval).                            *)
AliasesStand ==
  \A i \in DOMAIN cs.locals :
    LET map == cs.locals[i]
        meant == IF map.stands = Null THEN Null ELSE HdfGetObj(cs, map.stands.tree, map.stands.path)
    IN  map.type = "var" /\ (map.h # Null \/ map.s # NULL) => NodeOf(cs, map) = meant

(* With automatic escaping and its propagation, no text of the data set is  *)
(* output as it is, however it was concatenated, stored, passed or cut,     *)
(* unless the command escapes explicitly -- until a render has failed: a    *)
(* set that is refused has by then marked the value it did not change       *)
(* (escape_and_output_variable, var_set_value).                             *)
NoRawData ==
  program.auto /\ ~cs.aborted =>
    \A i \in DOMAIN cs.out : "<" \in ToSet(cs.out[i].text) => cs.out[i].escaped

(* A text of lvar that came to be rendered inside itself with no call, no   *)
(* included file and no iteration on the way, so that no limit counts it.   *)
LvarRecurses ==
  \E i, j \in DOMAIN cs.frames :
    LET outer == cs.frames[i]
        inner == cs.frames[j]
    IN  /\ i < j /\ {outer.kind, inner.kind} = {"lvar"}
        /\ inner.text = outer.text /\ inner.depth = outer.depth /\ inner.total = outer.total

(* Every render ends: the depth bounds the macros and the included files,   *)
(* and the limit the iterations.  The one exception is an lvar whose text   *)
(* comes to render that text again with neither in between: lvar_eval has   *)
(* no limit of its own, and the process dies of its C stack.                *)
RenderEnds == <>[](~Running \/ (cs.killed /\ LvarRecurses))
=============================================================================
