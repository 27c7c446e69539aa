----------------------------- MODULE MCTemplates -----------------------------
(* The language of the templates, each part by itself: the texts that the   *)
(* parser reads, the expressions in their commands, and the trees that the  *)
(* renderer walks.                                                          *)
EXTENDS MCCsParse, MCCsExpr

VARIABLES part, cs, template, renders

texts == <<parse, text, program>>
pages == <<cs, template, renders>>
all == <<part, texts, expressions, pages>>

AnyPage == INSTANCE MCCsRender WITH Programs <- {}, MAX_STACK_DEPTH <- 0, C_STACK <- 0,
                                    INT_MAX <- 0, LONG_MAX <- 0, UINT_MAX <- 0, program <- template
Templates == AnyPage!MCPrograms(AnyPage!Blocks)
R == INSTANCE MCCsRender WITH Programs <- Templates, MAX_STACK_DEPTH <- 3, C_STACK <- 7,
                              INT_MAX <- 7, LONG_MAX <- 15, UINT_MAX <- 15, program <- template

MCInit == /\ part \in {"parse", "expression", "render"}
          /\ Init
          /\ part # "parse" => program = 1
          /\ ExprInit
          /\ part # "expression" => kind = "eval"
          /\ template \in IF part = "render" THEN Templates ELSE {AnyPage!Empty}
          /\ R!Init
MCNext == /\ UNCHANGED part
          /\ \/ part = "parse" /\ Next /\ UNCHANGED <<expressions, pages>>
             \/ part = "expression" /\ ExprNext /\ UNCHANGED <<texts, pages>>
             \/ part = "render" /\ R!Next /\ UNCHANGED <<texts, expressions>>
MCSpec == MCInit /\ [][MCNext]_all /\ (part = "render" => R!Fairness)
-------------------------------------------------------------------------------
(* Operators on numbers, loop counts and slices are those of the integers,  *)
(* or refuse, and comparisons order whatever the types of their operands    *)
(* (eval_expr_num, eval_expr_string, loop_eval, _builtin_str_slice).        *)
NumbersExact == ArithmeticExact /\ LoopExact /\ SliceExact /\ ComparisonsAgree

(* Whatever a render does, leaving a block restores what was before it, a   *)
(* parameter stands for the variable it was given, and the loops keep to    *)
(* their limit (render_node).                                               *)
BlocksSound == part = "render" => R!ScopesMatchBlocks /\ R!AliasesStand /\ R!IterationsBounded

(* Under automatic escaping no text of the data set is output as it is, as  *)
(* long as no render has failed (escape_and_output_variable).               *)
NoRawData == part = "render" => R!NoRawData

(* Every render ends, by the limits on depth and iterations; only an lvar   *)
(* whose text renders itself is not held by them (lvar_eval).               *)
RenderEnds == part = "render" => R!RenderEnds
==============================================================================
