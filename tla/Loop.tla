-------------------------------- MODULE Loop --------------------------------
(* A loop, or a recursion whose call is the last thing it does, as its     *)
(* body applied over and over to the variables it works on.                *)
EXTENDS Naturals

CONSTANT Body(_)  \* what an iteration makes of the variables; the very same
                  \* once the loop is over

(* The value of Body(x); the singletons have TLC evaluate x only once.     *)
Once(x) == CHOOSE y \in {Body(z) : z \in {x}} : TRUE

(* What the variables x have become after n iterations.                    *)
After(n, x) == LET at[i \in Nat] == IF i = 0 THEN x ELSE Once(at[i - 1]) IN at[n]
=============================================================================
