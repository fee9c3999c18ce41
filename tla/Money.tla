-------------------------------- MODULE Money --------------------------------
(* What amounts of money come to. *)
EXTENDS Integers, Sequences

Total(amounts) ==
  LET upTo[n \in 0..Len(amounts)] == IF n = 0 THEN 0 ELSE upTo[n - 1] + amounts[n]
  IN  upTo[Len(amounts)]
=============================================================================
