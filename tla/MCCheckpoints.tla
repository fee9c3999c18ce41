---------------------------- MODULE MCCheckpoints ----------------------------
(* The configurations of the batch in the runs: a start may plan three     *)
(* trials of one task, or one trial of two tasks.                          *)
EXTENDS Checkpoints

MCConfigurations == {[tasks |-> 1, trials |-> {1, 2, 3}], [tasks |-> 2, trials |-> {1}]}
=============================================================================
