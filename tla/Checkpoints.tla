----------------------------- MODULE Checkpoints -----------------------------
(***************************************************************************)
(* The two formats a batch keeps its checkpoint in.  run_tasks chooses one *)
(* when it creates the checkpoint and goes by what is on disk from then on *)
(* (results_format, Results._detect_format): one results.json, with the    *)
(* whole of run_tasks around it, or a directory, at the grain of its files.*)
(* The one that is not chosen stays as it starts.                          *)
(***************************************************************************)
EXTENDS BatchRunner, DirCheckpoint

CONSTANT Formats

ASSUME FormatsAssumption == Formats \subseteq {"json", "dir"}

VARIABLE format   \* the format of the checkpoint

checkpointVars == <<format, batchVars, dirVars>>

Init == format \in Formats /\ BatchInit /\ DirInit

JsonMoves == BatchNext /\ UNCHANGED <<format, dirVars>>
DirMoves == DirNext /\ UNCHANGED <<format, batchVars>>

Next == \/ format = "json" /\ JsonMoves
        \/ format = "dir" /\ DirMoves

\* Every thread of the batch that can move does, and a shutdown is followed by
\* os._exit.
Spec ==
  /\ Init /\ [][Next]_checkpointVars
  /\ WF_batchVars(format = "json" /\ Main)
  /\ \A r \in Runs : WF_batchVars(format = "json" /\ Worker(r))
  /\ WF_batchVars(format = "json" /\ main = "exiting" /\ Die)

\* Every batch ends, each process death being followed by a resume.
JsonBatchEnds == format = "json" => BatchEnds
=============================================================================
