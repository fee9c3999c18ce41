--------------------------- MODULE CheckpointStore ---------------------------
(***************************************************************************)
(* What create_checkpoint_fns and try_resume promise a batch, whatever the *)
(* storage format: a table of simulations with at most one row per run, in *)
(* which a row is added, exchanged, or, for failed runs, dropped to be run *)
(* again, each at one stroke.  It is an abstract specification: the rows a *)
(* step adds are read off its outcome.                                     *)
(***************************************************************************)
VARIABLE recorded

Failed == {s \in recorded : s.kind = "infrastructure"}
Others(s) == {t \in recorded : t.run # s.run}

Init == recorded = {}

\* The first simulation of a run.
Add == \E s \in recorded' : /\ Others(s) = recorded
                            /\ recorded' = recorded \cup {s}

\* A conversation takes the place of the simulation its run has.
Exchange == \E s \in recorded' : /\ s.kind # "infrastructure"
                                 /\ Others(s) # recorded
                                 /\ recorded' = Others(s) \cup {s}

\* The infrastructure errors, all of them, when a batch is resumed.
DropFailed == recorded' = recorded \ Failed

Next == Add \/ Exchange \/ DropFailed

Spec == Init /\ [][Next]_recorded
=============================================================================
