------------------------------- MODULE CsEval -------------------------------
(***************************************************************************)
(* One operator of a template expression applied to evaluated operands     *)
(* (cs/csparse.c, arg_eval to eval_expr, with the loop count and the       *)
(* built-in functions on values).  An operand is a CSARG: a number, a      *)
(* string with its escape status, or a variable by name, whose value is    *)
(* looked up when it is used.  A text is a sequence of characters; NULL is *)
(* the text of a name that is not set.                                     *)
(***************************************************************************)
EXTENDS Integers, Sequences, FiniteSets, SequencesExt

CONSTANTS
  INT_MAX,     \* the largest int
  LONG_MAX,    \* the largest long
  UINT_MAX     \* the largest unsigned int

ASSUME EvalAssumption ==
  INT_MAX \in Nat /\ LONG_MAX \in Nat /\ UINT_MAX \in Nat /\ INT_MAX <= LONG_MAX

NULL == <<"NULL">>
Raise == [type |-> "error"]
Num(n) == [type |-> "num", n |-> n]
Str(s, status) == [type |-> "string", s |-> s, status |-> status]
Var(name) == [type |-> "var", name |-> name]
VarNum(name) == [type |-> "varnum", name |-> name]

InInt(n) == -INT_MAX - 1 <= n /\ n <= INT_MAX
(* What is left of a long in an int.                                        *)
ToInt(n) == ((n + INT_MAX + 1) % (2 * (INT_MAX + 1))) - INT_MAX - 1
InLong(n) == -LONG_MAX - 1 <= n /\ n <= LONG_MAX

Magnitude(n) == IF n < 0 THEN -n ELSE n
Quotient(a, b) ==
  LET q == Magnitude(a) \div Magnitude(b) IN IF (a < 0) = (b < 0) THEN q ELSE -q
-----------------------------------------------------------------------------
(* Guards against overflow, as they are tested: max stands for INT_MAX or   *)
(* LONG_MAX.                                                                *)
AddOverflows(a, b, max) == \/ b > 0 /\ a > max - b
                           \/ b < 0 /\ a < (-max - 1) - b
SubOverflows(a, b, max) == \/ b > 0 /\ a < (-max - 1) + b
                           \/ b < 0 /\ a > max + b
DivOverflows(a, b, max) == a = -max - 1 /\ b = -1
MultOverflowsUnsigned(a, b) ==
  IF b > 0 THEN a > Quotient(LONG_MAX, b) ELSE a > 0 /\ b < Quotient(-LONG_MAX - 1, a)
MultOverflows(a, b) ==
  IF a > 0 THEN IF b > 0 THEN a > Quotient(LONG_MAX, b) ELSE b < Quotient(-LONG_MAX - 1, a)
  ELSE IF b > 0 THEN a < Quotient(-LONG_MAX - 1, b)
       ELSE a # 0 /\ b < Quotient(LONG_MAX, a)

Checked(overflows, n) == IF overflows THEN Raise ELSE Num(n)
Truth(b) == Num(IF b THEN 1 ELSE 0)

EvalExprNum(op, n1, n2) ==
  CASE op = "==" -> Truth(n1 = n2)
    [] op = "!=" -> Truth(n1 # n2)
    [] op = "<" -> Truth(n1 < n2)
    [] op = "<=" -> Truth(n1 <= n2)
    [] op = ">" -> Truth(n1 > n2)
    [] op = ">=" -> Truth(n1 >= n2)
    [] op = "+" -> Checked(AddOverflows(n1, n2, LONG_MAX), n1 + n2)
    [] op = "-" -> Checked(SubOverflows(n1, n2, LONG_MAX), n1 - n2)
    [] op = "*" -> Checked(MultOverflows(n1, n2), n1 * n2)
    [] op = "/" -> IF n2 = 0 THEN Num(UINT_MAX)
                   ELSE Checked(DivOverflows(n1, n2, LONG_MAX), Quotient(n1, n2))
    [] op = "%" -> IF n2 = 0 THEN Num(0)
                   ELSE Checked(DivOverflows(n1, n2, LONG_MAX), n1 - n2 * Quotient(n1, n2))

(* The iterations of a loop command, 0 when the distance is not an int.     *)
LoopCount(start, end, step) ==
  IF step = 0 \/ (step < 0 /\ start < end) \/ (step > 0 /\ end < start) THEN 0
  ELSE IF \/ SubOverflows(end, start, INT_MAX)
          \/ DivOverflows(end - start, step, INT_MAX)
          \/ AddOverflows(Quotient(end - start, step), 1, INT_MAX) THEN 0
  ELSE Magnitude(Quotient(end - start, step) + 1)
-----------------------------------------------------------------------------
(* Texts: strtol takes the longest prefix of digits after a sign, in the    *)
(* base that a leading 0 selects, and atoi in base 10; a text is numeric    *)
(* for arg_eval_bool when strtol leaves nothing of it.                      *)
Digit == [c \in {"0", "1", "2"} |-> CASE c = "0" -> 0 [] c = "1" -> 1 [] c = "2" -> 2]
Digits(s) == LET k == {j \in 0 .. Len(s) : \A i \in 1 .. j : s[i] \in DOMAIN Digit}
             IN  SubSeq(s, 1, Max(k))
Negative(s) == s # <<>> /\ s[1] = "-"
Unsigned(s) == IF Negative(s) THEN Tail(s) ELSE s
InBase(base, s) ==
  LET n == FoldLeft(LAMBDA m, c : base * m + Digit[c], 0, Digits(Unsigned(s)))
  IN  IF Negative(s) THEN -n ELSE n
Strtol(s) == LET t == Unsigned(s) IN InBase(IF t # <<>> /\ t[1] = "0" THEN 8 ELSE 10, s)
Atoi(s) == InBase(10, s)
EntireNumber(s) == Unsigned(s) # <<>> /\ Digits(Unsigned(s)) = Unsigned(s)

(* env gives the text and the escape status of every name (var_lookup).     *)
VarInt(env, name) == IF env[name].s = NULL THEN 0 ELSE Atoi(env[name].s)

ArgEval(env, arg) ==
  CASE arg.type = "string" -> [s |-> arg.s, status |-> arg.status]
    [] arg.type = "var" -> env[arg.name]
    [] OTHER -> [s |-> NULL, status |-> "untrusted"]

ArgEvalNum(env, arg) ==
  CASE arg.type = "num" -> arg.n
    [] arg.type = "string" -> IF arg.s \in {NULL, <<>>} THEN 0 ELSE Strtol(arg.s)
    [] OTHER -> VarInt(env, arg.name)

ArgEvalBool(env, arg) ==
  IF arg.type \in {"num", "varnum"} THEN ArgEvalNum(env, arg)
  ELSE LET s == ArgEval(env, arg).s
       IN  IF s \in {NULL, <<>>} THEN 0 ELSE IF EntireNumber(s) THEN Strtol(s) ELSE 1

(* The text a value is printed as; numbers below ten are enough here.       *)
Numeral(n) == IF n < 0 THEN <<"-", ToString(-n)>> ELSE <<ToString(n)>>
ArgEvalStrAlloc(env, arg) ==
  IF arg.type \in {"num", "varnum"} THEN Numeral(ArgEvalNum(env, arg)) ELSE ArgEval(env, arg).s

JoinStatusFirst(a, b) == a
JoinStatus(a, b) ==
  CASE a = "trusted" /\ b = "trusted" -> "trusted"
    [] a = "mixed" /\ b = "mixed" -> "mixed"
    [] {a, b} \in {{"trusted", "mixed"}, {"trusted", "untrusted"}} -> "mixed"
    [] OTHER -> "untrusted"

(* eval_expr sends the comparisons of order to EvalExprNum, so that only    *)
(* these operators reach it.                                                *)
EvalExprString(env, op, arg1, arg2) ==
  LET v1 == ArgEval(env, arg1)
      v2 == ArgEval(env, arg2)
  IN  CASE op = "==" -> Truth(v1.s = v2.s)
        [] op = "!=" -> Truth(v1.s # v2.s)
        [] op = "+" -> IF v1.s = NULL THEN Str(v2.s, v2.status)
                       ELSE IF v2.s = NULL THEN Str(v1.s, v1.status)
                       ELSE Str(v1.s \o v2.s, JoinStatus(v1.status, v2.status))

EvalExprBool(env, op, arg1, arg2) ==
  LET b1 == ArgEvalBool(env, arg1) # 0
      b2 == ArgEvalBool(env, arg2) # 0
  IN  IF op = "&&" THEN Truth(b1 /\ b2) ELSE Truth(b1 \/ b2)

Numeric == {"num", "varnum"}
EvalBinary(env, op, arg1, arg2) ==
  IF op \in {"&&", "||"} THEN EvalExprBool(env, op, arg1, arg2)
  ELSE IF \/ {arg1.type, arg2.type} \cap Numeric # {}
          \/ op \in {"-", "*", "/", "%", ">", ">=", "<", "<="}
  THEN EvalExprNum(op, ArgEvalNum(env, arg1), ArgEvalNum(env, arg2))
  ELSE EvalExprString(env, op, arg1, arg2)

EvalUnary(env, op, arg) ==
  CASE op = "!" -> Truth(ArgEvalBool(env, arg) = 0)
    [] op = "#" -> Num(ArgEvalNum(env, arg))
    [] op = "?" -> Truth(arg.type \in {"var", "varnum"} => env[arg.name].s # NULL)
-----------------------------------------------------------------------------
(* The built-in functions on values.                                        *)
Length(env, arg) ==
  LET s == ArgEval(env, arg).s IN Num(IF s = NULL THEN 0 ELSE Len(s))

StrFind(s, sub) ==
  LET at == {i \in 0 .. Len(s) - Len(sub) : SubSeq(s, i + 1, i + Len(sub)) = sub}
  IN  Num(IF NULL \in {s, sub} \/ at = {} THEN -1 ELSE Min(at))

(* slice(s, b, e) in the order of the assignments to b and e.               *)
SliceBounds(len, b, e) ==
  LET e1 == IF b < 0 /\ e = 0 THEN len ELSE e
      b1 == IF b < 0 THEN b + len ELSE b
      b2 == IF b1 < 0 THEN 0 ELSE IF b1 > len THEN len ELSE b1
      e2 == IF e1 < 0 THEN e1 + len ELSE e1
      e3 == IF e2 < 0 THEN 0 ELSE IF e2 > len THEN len ELSE e2
  IN  IF e3 < b2 THEN <<e3, e3>> ELSE <<b2, e3>>

StrSlice(s, b, e) ==
  IF s = NULL THEN <<>>
  ELSE SubSeq(s, SliceBounds(Len(s), b, e)[1] + 1, SliceBounds(Len(s), b, e)[2])
=============================================================================
