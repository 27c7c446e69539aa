------------------------------- MODULE CsExpr -------------------------------
(***************************************************************************)
(* The expressions of cs/csparse.c: parse_expr2 splits a sequence of       *)
(* tokens at the operator that binds least, scanning from the right and    *)
(* stepping over groups, and parses the two sides.  A token is the         *)
(* operator itself or the class of a terminal: "v" a variable, "f" the     *)
(* name of a function of two arguments, "n" a number, "s" a string.        *)
(***************************************************************************)
EXTENDS Integers, Sequences, FiniteSets, FiniteSetsExt

VARIABLES
  tokens,     \* the tokens of an expression, as parse_tokens left them
  lvalue      \* the flag of parse_expr: the left side of a set command

Types == {"v", "f", "n", "s"}
Unary == {"?", "!", "("}
LvalueOps == {".", "["} \cup Types
FunctionArgs == 2

OperatorOrder ==
  << {","}, {"||"}, {"&&"}, {"==", "!="}, {"<", "<=", ">", ">="}, {"+", "-"},
     {"*", "/", "%"}, {"!", "?"}, {"[", ".", "("} >>

Error == [kind |-> "error"]
Leaf(t) == [kind |-> "leaf", op |-> t]
Un(op, x) == IF x = Error THEN Error ELSE [kind |-> "un", op |-> op, arg |-> x]
Bin(op, l, r) ==
  IF Error \in {l, r} THEN Error ELSE [kind |-> "bin", op |-> op, left |-> l, right |-> r]
Call(args) == [kind |-> "call", op |-> "f", args |-> args]

(* Where the group that ends at x begins: the count m is back at zero.      *)
Opening(s, x, open, close) ==
  LET count(y, t) == Cardinality({i \in y .. x : s[i] = t})
      begins == {y \in 1 .. x - 1 : s[y] = open /\ count(y, open) = count(y, close)}
  IN  IF begins = {} THEN 0 ELSE Max(begins)

(* A scan from the left, under which equal operators associate to the right. *)
RECURSIVE ScanLeft(_, _, _, _)
ScanLeft(s, ops, x, lval) ==
  LET hits == {y \in 1 .. x : s[y] \in ops /\ (s[y] \in Unary => y = 1)}
  IN  IF hits = {} THEN 0 ELSE Min(hits)

(* The scan for one line of OperatorOrder: where it splits, 0 for nowhere   *)
(* and -1 for an error.                                                     *)
RECURSIVE Scan(_, _, _, _)
Scan(s, ops, x, lval) ==
  IF x = 0 THEN 0
  ELSE LET group == s[x] \in {")", "]"}
           z == IF s[x] = ")" THEN Opening(s, x, "(", ")")
                ELSE IF s[x] = "]" THEN Opening(s, x, "[", "]") ELSE x
       IN  IF group /\ z = 0 THEN -1
           ELSE IF s[x] = "]" /\ z = 1 THEN 0
           ELSE IF lval /\ s[z] \notin LvalueOps THEN -1
           ELSE IF s[z] \in ops /\ (s[z] \in Unary => z = 1) THEN z
           ELSE Scan(s, ops, z - 1, lval)

(* rearrange_for_call: the arguments in order, from the chain of commas.    *)
RECURSIVE Arguments(_)
Arguments(t) ==
  IF t.kind = "bin" /\ t.op = "," THEN Append(Arguments(t.left), t.right) ELSE <<t>>

RECURSIVE ParseExpr(_, _)

FunctionCall(s, lval) ==
  LET n == Len(s)
      inner == ParseExpr(SubSeq(s, 3, n - 1), lval)
      args == IF n = 3 THEN <<>> ELSE Arguments(inner)
  IN  IF n > 3 /\ inner = Error THEN Error
      ELSE IF s[1] # "f" \/ Len(args) # FunctionArgs THEN Error ELSE Call(args)

(* No line of OperatorOrder splits: an operator before a group or before    *)
(* the whole rest, a call, or a bad expression.                             *)
Unsplit(s, lval) ==
  LET n == Len(s)
      grouped == s[2] = "(" /\ s[n] = ")"
  IN  IF s[1] \in Unary
      THEN Un(s[1], ParseExpr(IF grouped THEN SubSeq(s, 3, n - 1) ELSE Tail(s), lval))
      ELSE IF s[1] \in {"v", "f"} /\ grouped THEN FunctionCall(s, lval) ELSE Error

Split(s, z, lval) ==
  LET n == Len(s)
      left == SubSeq(s, 1, z - 1)
      right == SubSeq(s, z + 1, n)
  IN  CASE s[z] = "(" -> IF s[n] # ")" THEN Error
                         ELSE Un("(", ParseExpr(SubSeq(s, 2, n - 1), lval))
        [] s[z] \in {"!", "?"} -> Un(s[z], ParseExpr(right, lval))
        [] s[z] = "[" -> IF s[n] # "]" THEN Error
                         ELSE Bin("[", ParseExpr(left, lval),
                                  ParseExpr(SubSeq(s, z + 1, n - 1), FALSE))
        [] OTHER -> Bin(s[z], ParseExpr(left, lval), ParseExpr(right, lval))

ParseExpr(s, lval) ==
  IF s = <<>> THEN Error
  ELSE IF Len(s) = 1 THEN IF s[1] \in Types THEN Leaf(s[1]) ELSE Error
  ELSE LET at(k) == Scan(s, OperatorOrder[k], Len(s), lval)
           splits == {k \in DOMAIN OperatorOrder : at(k) # 0}
       IN  IF splits = {} THEN Unsplit(s, lval)
           ELSE IF at(Min(splits)) = -1 THEN Error ELSE Split(s, at(Min(splits)), lval)
-----------------------------------------------------------------------------
(* The grammar the manual's table of operators describes, for reference.    *)
Level(t) ==
  CASE t.kind \in {"leaf", "call"} \/ (t.kind = "un" /\ t.op = "(") -> 10
    [] OTHER -> CHOOSE k \in DOMAIN OperatorOrder : t.op \in OperatorOrder[k]

LevelOf(op) == CHOOSE k \in DOMAIN OperatorOrder : op \in OperatorOrder[k]

RECURSIVE RightOf(_, _)
RightOf(op, t) ==
  \/ Level(t) > LevelOf(op)
  \/ t.kind = "un" /\ RightOf(op, t.arg)

Parts(s, i, j, lval) == ParseExpr(SubSeq(s, i, j), lval)

(* The trees a sequence stands for, when its parts are parsed: a terminal,  *)
(* a group, a call, an operator with operands that bind more.               *)
Readings(s, lval) ==
  LET n == Len(s)
      infix(i) == Bin(s[i], Parts(s, 1, i - 1, lval), Parts(s, i + 1, n, lval))
      index(i) == Bin("[", Parts(s, 1, i - 1, lval), Parts(s, i + 1, n - 1, FALSE))
      ops == IF lval THEN {"."} ELSE UNION {OperatorOrder[k] : k \in 1 .. 7} \cup {"."}
  IN  {Leaf(s[i]) : i \in {i \in 1 .. n : n = 1 /\ s[i] \in Types}}
      \cup {infix(i) : i \in {i \in 2 .. n - 1 :
              /\ s[i] \in ops
              /\ infix(i) # Error
              /\ Level(infix(i).left) >= LevelOf(s[i])
              /\ RightOf(s[i], infix(i).right)}}
      \cup {index(i) : i \in {i \in 2 .. n - 1 :
              /\ s[i] = "[" /\ s[n] = "]"
              /\ index(i) # Error
              /\ Level(index(i).left) >= 9}}
      \cup IF lval \/ n < 2 THEN {}
           ELSE {Un(s[1], Parts(s, 2, n, lval)) : i \in {i \in {1} :
                  s[1] \in {"!", "?"} /\ Parts(s, 2, n, lval) # Error
                  /\ Level(Parts(s, 2, n, lval)) >= 8}}
                \cup {Un("(", Parts(s, 2, n - 1, lval)) : i \in {i \in {1} :
                  s[1] = "(" /\ s[n] = ")" /\ Parts(s, 2, n - 1, lval) # Error}}
                \cup {Call(Arguments(Parts(s, 3, n - 1, lval))) : i \in {i \in {1} :
                  /\ n > 3 /\ s[1] = "f" /\ s[2] = "(" /\ s[n] = ")"
                  /\ Parts(s, 3, n - 1, lval) # Error
                  /\ Len(Arguments(Parts(s, 3, n - 1, lval))) = FunctionArgs}}
=============================================================================
