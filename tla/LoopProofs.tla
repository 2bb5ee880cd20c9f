----------------------------- MODULE LoopProofs -----------------------------
(* What holds before a loop and is kept by each of its rounds holds behind *)
(* it.  The loop's body and the invariant are the parameters: a loop is    *)
(* reasoned about with an INSTANCE of this module.  p is whatever the      *)
(* invariant compares the loop's variables with, k the number of rounds.   *)
(* That sets of natural numbers allow induction (SetInduction, proved once *)
(* in FatFsProofs from the library's well-founded induction) is a          *)
(* hypothesis here, so that an instance does not bring the library along.  *)
EXTENDS Loop, TLAPS

CONSTANTS Body(_), Inv(_, _, _)

(* The recursive function of While exists, whatever the body is.           *)
LEMMA RoundsExist ==
  ASSUME NEW x, NEW n \in Nat,
         \A T : 0 \in T /\ (\A i \in Nat : i \in T => i + 1 \in T) => Nat \subseteq T
  PROVE \E f : f = [k \in 0..n |-> IF k = 0 THEN x ELSE Round(Body, f[k - 1])]
<1> DEFINE Is(f, i) == f = [k \in 0..i |-> IF k = 0 THEN x ELSE Round(Body, f[k - 1])]
           T == {i \in Nat : \E f : Is(f, i)}
<1>1. 0 \in T
  <2>1. Is([k \in 0..0 |-> x], 0) OBVIOUS
  <2> QED BY <2>1
<1>2. ASSUME NEW i \in Nat, i \in T PROVE i + 1 \in T
  <2>1. PICK f : Is(f, i) BY <1>2
  <2> DEFINE g == [k \in 0..i + 1 |-> IF k = i + 1 THEN Round(Body, f[i]) ELSE f[k]]
  <2>2. Is(g, i + 1) BY <2>1 DEF Round
  <2>3. \E h : Is(h, i + 1) BY <2>2
  <2> QED BY <2>3
<1>3. Nat \subseteq T BY <1>1, <1>2
<1> QED BY <1>3

(* Induction over the rounds of a loop (While).                            *)
THEOREM WhileKeeps ==
  ASSUME \A T : 0 \in T /\ (\A i \in Nat : i \in T => i + 1 \in T) => Nat \subseteq T,
         NEW p, NEW x, NEW n \in Nat, Inv(p, 0, x),
         \A k \in Nat : \A y : Inv(p, k, y) /\ k < n =>
           Inv(p, k + 1, Round(Body, y))
  PROVE Inv(p, n, While(Body, x, n))
<1> DEFINE f == CHOOSE f : f = [k \in 0..n |-> IF k = 0 THEN x ELSE Round(Body, f[k - 1])]
<1>0. \E g : g = [k \in 0..n |-> IF k = 0 THEN x ELSE Round(Body, g[k - 1])]
  BY RoundsExist
<1>1. f = [k \in 0..n |-> IF k = 0 THEN x ELSE Round(Body, f[k - 1])]
  BY <1>0 DEF Round
<1> HIDE DEF f
<1> DEFINE T == {k \in Nat : k \in 0..n => Inv(p, k, f[k])}
<1>2. 0 \in T BY <1>1 DEF Round
<1>3. ASSUME NEW k \in Nat, k \in T PROVE k + 1 \in T
  <2>1. CASE k + 1 \in 0..n
    <3>1. f[k + 1] = Round(Body, f[k]) /\ k < n BY <1>1, <2>1 DEF Round
    <3> QED BY <3>1, <1>3, <2>1 DEF Round
  <2> QED BY <2>1
<1>4. Nat \subseteq T BY <1>2, <1>3
<1>5. Inv(p, n, f[n]) BY <1>4
<1> QED BY <1>5 DEF While, f, Round
=============================================================================
