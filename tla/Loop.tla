-------------------------------- MODULE Loop --------------------------------
(* A loop of the program as one value: x is the record of its variables,   *)
(* x.on whether it goes on, Body a round.  n bounds the rounds.            *)
EXTENDS Naturals

Round(Body(_), y) == IF y.on THEN Body(y) ELSE y
While(Body(_), x, n) ==
  LET after[k \in 0..n] == IF k = 0 THEN x ELSE Round(Body, after[k - 1])
  IN after[n]
=============================================================================
