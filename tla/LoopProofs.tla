----------------------------- MODULE LoopProofs -----------------------------
(* What After computes, for any body: it satisfies its recursion, and is   *)
(* the one function that does.                                             *)
EXTENDS Loop, ListLemmas

(* g is what After computes from x in the first n iterations.              *)
IsRun(x, n, g) == g = [i \in 0 .. n |-> IF i = 0 THEN x ELSE Once(g[i - 1])]

LEMMA OnceIs ==
  ASSUME NEW x
  PROVE  Once(x) = Body(x)
BY DEF Once

LEMMA RunExists ==
  ASSUME NEW x
  PROVE  \A n \in Nat : \E g : IsRun(x, n, g)
<1> DEFINE S == {n \in Nat : \E g : IsRun(x, n, g)}
<1>1. 0 \in S
  <2>1. IsRun(x, 0, [i \in 0 .. 0 |-> x])
    BY DEF IsRun
  <2> QED
    BY <2>1
<1>2. ASSUME NEW n \in S PROVE n + 1 \in S
  <2>1. PICK g : IsRun(x, n, g)
    OBVIOUS
  <2> DEFINE f == [i \in 0 .. n + 1 |-> IF i = n + 1 THEN Once(g[n]) ELSE g[i]]
  <2>2. \A i \in 0 .. n : g[i] = IF i = 0 THEN x ELSE Once(g[i - 1])
    BY <2>1 DEF IsRun
  <2>3. \A i \in 0 .. n + 1 : f[i] = IF i = 0 THEN x ELSE Once(f[i - 1])
    BY <2>2
  <2>4. IsRun(x, n + 1, f)
    BY <2>3 DEF IsRun
  <2> QED
    BY <2>4
<1> QED
  BY <1>1, <1>2, Counting

LEMMA RunsAgree ==
  ASSUME NEW x, NEW n \in Nat, NEW m \in Nat, NEW g, NEW f, IsRun(x, n, g), IsRun(x, m, f)
  PROVE  \A i \in Nat : i <= n /\ i <= m => g[i] = f[i]
<1> DEFINE S == {i \in Nat : i <= n /\ i <= m => g[i] = f[i]}
<1>1. /\ \A i \in 0 .. n : g[i] = IF i = 0 THEN x ELSE Once(g[i - 1])
      /\ \A i \in 0 .. m : f[i] = IF i = 0 THEN x ELSE Once(f[i - 1])
  BY DEF IsRun
<1>2. 0 \in S
  BY <1>1
<1>3. ASSUME NEW i \in S PROVE i + 1 \in S
  BY <1>1
<1> QED
  BY <1>2, <1>3, Counting

(* The recursion.                                                          *)
LEMMA AfterStep ==
  ASSUME NEW x
  PROVE  After(0, x) = x /\ \A n \in Nat : After(n + 1, x) = Body(After(n, x))
<1> DEFINE at[i \in Nat] == IF i = 0 THEN x ELSE Once(at[i - 1])
           run(n) == CHOOSE g : IsRun(x, n, g)
           whole == [n \in Nat |-> run(n)[n]]
<1>1. \A n \in Nat : IsRun(x, n, run(n))
  BY RunExists
<1>2. whole = [i \in Nat |-> IF i = 0 THEN x ELSE Once(whole[i - 1])]
  <2>1. ASSUME NEW i \in Nat PROVE whole[i] = IF i = 0 THEN x ELSE Once(whole[i - 1])
    <3>1. run(i)[i] = IF i = 0 THEN x ELSE Once(run(i)[i - 1])
      <4> HIDE DEF run
      <4> QED
        BY <1>1 DEF IsRun
    <3>2. i # 0 => run(i)[i - 1] = run(i - 1)[i - 1]
      <4>1. i # 0 => i - 1 \in Nat /\ i - 1 <= i
        OBVIOUS
      <4> HIDE DEF run
      <4> QED
        BY <1>1, <4>1, RunsAgree
    <3> HIDE DEF run
    <3> QED
      BY <3>1, <3>2
  <2> HIDE DEF run
  <2> QED
    BY <2>1
<1>3. at = [i \in Nat |-> IF i = 0 THEN x ELSE Once(at[i - 1])]
  <2> HIDE DEF whole
  <2> QED
    BY <1>2
<1>4. \A n \in Nat : After(n, x) = at[n]
  BY DEF After
<1> HIDE DEF at
<1> QED
  BY <1>3, <1>4, OnceIs

(* A function that satisfies the recursion.                                *)
LEMMA AfterIs ==
  ASSUME NEW x, NEW g, g[0] = x, \A n \in Nat : g[n + 1] = Body(g[n])
  PROVE  \A n \in Nat : After(n, x) = g[n]
<1> DEFINE S == {n \in Nat : After(n, x) = g[n]}
<1>1. 0 \in S
  BY AfterStep
<1>2. ASSUME NEW n \in S PROVE n + 1 \in S
  BY AfterStep
<1> QED
  BY <1>1, <1>2, Counting
=============================================================================
