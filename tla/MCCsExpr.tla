------------------------------ MODULE MCCsExpr ------------------------------
(* The expressions of templates: a sequence of tokens grows, and every      *)
(* sequence is parsed; two operands are picked, and every operator is       *)
(* applied to them.                                                         *)
EXTENDS CsExpr, CsEval
CONSTANTS Alphabet, MaxTokens
Numbers == -LONG_MAX - 1 .. LONG_MAX

VARIABLES kind, operands
expressions == <<tokens, lvalue, kind, operands>>

Texts == {<<>>, <<"0">>, <<"1">>, <<"-", "2">>, <<"a">>, <<"1", "a">>, <<"0", "1", "2">>}
Statuses == {"trusted", "mixed", "untrusted"}
Env == [name \in {<<"unset">>} |-> [s |-> NULL, status |-> "untrusted"]]
         @@ [name \in Texts |-> [s |-> name, status |-> "untrusted"]]
Operands == {Num(n) : n \in Numbers} \cup {Str(s, st) : s \in Texts, st \in Statuses}
              \cup {Var(x) : x \in DOMAIN Env} \cup {VarNum(x) : x \in DOMAIN Env}

Pair == /\ kind = "eval"
        /\ operands = <<>>
        /\ \E a, b \in Operands : operands' = <<a, b>>
        /\ UNCHANGED <<kind, tokens, lvalue>>
AddToken == /\ kind = "parse"
            /\ Len(tokens) < (IF lvalue THEN MaxTokens - 1 ELSE MaxTokens)
            /\ \E t \in Alphabet : tokens' = Append(tokens, t)
            /\ UNCHANGED <<lvalue, kind, operands>>
ExprInit == /\ kind \in {"parse", "eval"}
            /\ operands = <<>>
            /\ tokens = <<>>
            /\ IF kind = "parse" THEN lvalue \in BOOLEAN ELSE lvalue = FALSE
ExprNext == Pair \/ AddToken

(* The parser accepts exactly the expressions of the grammar, and reads     *)
(* each in the one way it can be read (parse_expr2).                        *)
ParseExact ==
  kind = "parse" =>
  LET t == ParseExpr(tokens, lvalue)
  IN  Readings(tokens, lvalue) = IF t = Error THEN {} ELSE {t}

Numbered == operands # <<>> /\ {operands[1].type, operands[2].type} = {"num"}
Exactly(n) == IF InLong(n) THEN Num(n) ELSE Raise

(* Arithmetic on longs gives the number or raises NERR_OUTOFRANGE: no       *)
(* result wraps around and none that fits is refused (eval_expr_num,        *)
(* safe_long_mult).                                                         *)
ArithmeticExact ==
  Numbered =>
    LET a == operands[1].n
        b == operands[2].n
        quotient == EvalExprNum("/", a, b)
        rest == EvalExprNum("%", a, b)
    IN  /\ EvalExprNum("+", a, b) = Exactly(a + b)
        /\ EvalExprNum("-", a, b) = Exactly(a - b)
        /\ EvalExprNum("*", a, b) = Exactly(a * b)
        /\ b # 0 /\ quotient = Raise => a = -LONG_MAX - 1 /\ b = -1
        /\ b # 0 /\ quotient # Raise =>
             /\ a = quotient.n * b + rest.n
             /\ Magnitude(rest.n) < Magnitude(b)
             /\ rest.n # 0 => (rest.n < 0) = (a < 0)

(* A loop runs once for every value from start to end in steps of step, or  *)
(* not at all when their number is not an int (loop_eval).                  *)
LoopExact ==
  Numbered =>
    \A step \in {-4, -3, -1, 0, 1, 2} :
      LET start == operands[1].n
          end == operands[2].n
          values == {v \in -LONG_MAX - 1 .. LONG_MAX :
                       /\ step > 0 => start <= v /\ v <= end /\ (v - start) % step = 0
                       /\ step < 0 => end <= v /\ v <= start /\ (start - v) % (-step) = 0}
      IN  InInt(start) /\ InInt(end) =>
            LoopCount(start, end, step) =
              IF step = 0 \/ ~InInt(end - start) \/ ~InInt(Cardinality(values)) THEN 0
              ELSE Cardinality(values)

Octal(arg) == arg.type = "string" /\ Len(arg.s) > 1 /\ arg.s[1] = "0"

(* Whatever the types of the operands, no two of <, == and > hold together, *)
(* one holds when an operand is a number, and the other comparisons and the *)
(* logical operators are what these and ! make of them (eval_expr).  A text *)
(* with a leading 0 is the exception: strtol reads it as octal in a string  *)
(* and atoi as decimal in a variable, so that equal texts can differ.       *)
ComparisonsAgree ==
  operands # <<>> =>
    LET a == operands[1]
        b == operands[2]
        true(op) == EvalBinary(Env, op, a, b) = Num(1)
        holds == {op \in {"<", "==", ">"} : true(op)}
    IN  /\ Octal(a) \/ Octal(b) \/ Cardinality(holds) <= 1
        /\ {a.type, b.type} \cap {"num", "varnum"} # {} => holds # {}
        /\ true("!=") = ~true("==")
        /\ true(">=") = ~true("<") /\ true("<=") = ~true(">")
        /\ true("&&") = (EvalBinary(Env, "||", EvalUnary(Env, "!", a), EvalUnary(Env, "!", b)) = Num(0))

(* A text that was put together is trusted only when all that it was put    *)
(* together from was, and in either order (eval_expr_string).               *)
TaintSound ==
  operands # <<>> =>
    LET a == operands[1]
        b == operands[2]
        sum == EvalBinary(Env, "+", a, b)
        used == {v \in {ArgEval(Env, a), ArgEval(Env, b)} : v.s # NULL}
    IN  sum.type = "string" /\ used # {} =>
          /\ sum.status = "trusted" <=> \A v \in used : v.status = "trusted"
          /\ sum.status = EvalBinary(Env, "+", b, a).status

(* slice gives the characters whose place lies between its bounds, where a  *)
(* negative bound counts from the end and an end of 0 after a negative      *)
(* begin is the end (_builtin_str_slice).                                   *)
SliceExact ==
  Numbered =>
    \A len \in 0 .. 3 :
      LET place(x) == IF x < 0 THEN x + len ELSE x
          b == operands[1].n
          e == operands[2].n
          text == SubSeq(<<"a", "b", "c">>, 1, len)
          within(c) == \E i \in 0 .. len - 1 :
            c = text[i + 1] /\ place(b) <= i /\ (i < place(e) \/ (b < 0 /\ e = 0))
      IN  StrSlice(text, b, e) = SelectSeq(text, within)
=============================================================================
