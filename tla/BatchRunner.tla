----------------------------- MODULE BatchRunner -----------------------------
(***************************************************************************)
(* run_tasks (src/tau2/runner/batch.py) with run_with_retry and            *)
(* StatusMonitor (runner/progress.py) over the monolithic JSON checkpoint  *)
(* (runner/checkpoint.py): a pool of worker threads, one job per run, the  *)
(* main thread that collects the futures, the results file they share, and *)
(* processes that die and are started again with --auto-resume.            *)
(*                                                                         *)
(* A run is a (trial, task, seed) triple.  The configuration may change    *)
(* from one start to the next (--auto-resume only warns): how many of the  *)
(* tasks and, through num_trials and seed, which (trial, seed) pairs are   *)
(* planned.  Tasks are numbered in the order in which they join the task   *)
(* set, and runs in the order in which run_tasks submits them.             *)
(***************************************************************************)
EXTENDS Integers, FiniteSets

CONSTANTS
  NumTasks,             \* how many tasks the task set may grow to
  NumTrials,            \* how many (trial, seed) pairs the configurations have
  Configurations,       \* the task sets and pairs a start may be given
  MaxRetries,           \* config.max_retries
  HallucinationRetries, \* config.hallucination_retries (full-duplex runs)
  MaxConcurrency,       \* config.max_concurrency
  MaxCrashes            \* bound: how often a batch is started again

ASSUME BatchAssumption == /\ {NumTasks, NumTrials, MaxConcurrency} \subseteq Nat \ {0}
                          /\ Configurations \subseteq
                               [tasks : 1..NumTasks, trials : SUBSET (1..NumTrials)]
                          /\ {MaxRetries, HallucinationRetries, MaxCrashes} \subseteq Nat

Runs == 1..NumTasks * NumTrials
TaskOf(r) == ((r - 1) % NumTasks) + 1
TrialOf(r) == ((r - 1) \div NumTasks) + 1

\* The runs of a configuration: every task with every (trial, seed) pair.
Plan(config) == {r \in Runs : TaskOf(r) <= config.tasks /\ TrialOf(r) \in config.trials}

(***************************************************************************)
(* A SimulationRun: its run, what became of it ("clean" conversations,     *)
(* conversations in which the simulated user hallucinated, and the         *)
(* INFRASTRUCTURE_ERROR placeholder), hallucination_retries_used, and      *)
(* whether hallucination_check is set.                                     *)
(***************************************************************************)
Kinds == {"clean", "hallucinated", "infrastructure"}
Simulation == [run : Runs, kind : Kinds, retries : 0..HallucinationRetries, checked : BOOLEAN]
Sim(r, kind) == [run |-> r, kind |-> kind, retries |-> 0, checked |-> FALSE]
\* What identifies a simulation, leaving out what is only noted on it later.
Identity(s) == <<s.run, s.kind, s.retries>>
Conversations == {"clean", "hallucinated"}

VARIABLES
  file,       \* results.json: "absent", "torn" (being written) or "whole"
  tasks,      \* how many tasks the file records
  saved,      \* its simulations
  main,       \* where the main thread is
  planned,    \* the runs of this process's tasks and trials
  collected,  \* simulation_results.simulations
  job,        \* per run: where its worker is
  attempt,    \* per run: attempt of run_with_retry
  retry,      \* per run: hallucination_retry_count
  result,     \* per run: the simulation its worker holds
  shutdown,   \* shutdown_event
  completed,  \* StatusMonitor.completed_count
  crashes     \* how often a process has been followed by another

disk == <<file, tasks, saved>>
workers == <<job, attempt, retry, result, completed>>
batchVars == <<disk, main, planned, collected, workers, shutdown, crashes>>

\* Mutant: a worker that raises keeps its slot in the pool.
RunningOrRaised == {"executing", "saving", "placing", "checking", "rerunning", "replacing",
                    "raised"}
Running == {"executing", "saving", "placing", "checking", "rerunning", "replacing"}
Finished == {"returned", "raised", "collected"}
Active == {r \in Runs : job[r] \in Running}
\* Mutant: the record of a retry is looked for under the seed of the retry.
RetriedRecordsOf(r) == {s \in saved : s.run = r /\ s.retries > 0}
RecordsOf(r) == {s \in saved : s.run = r}
\* try_resume's done_runs: infrastructure errors are to be run again.
Lasting(sims) == {s \in sims : s.kind # "infrastructure"}
\* Mutant: conversations with hallucinations do not count as done.
CleanRuns == {s.run : s \in {t \in saved : t.kind = "clean"}}
DoneRuns == {s.run : s \in Lasting(saved)}

NoResults == [r \in Runs |-> Sim(r, "infrastructure")]
Everywhere(v) == [r \in Runs |-> v]

BatchInit ==
  /\ file = "absent" /\ tasks = 0 /\ saved = {}
  /\ main = "starting" /\ planned = {} /\ collected = {}
  /\ shutdown = FALSE /\ crashes = 0
  /\ job = Everywhere("none") /\ attempt = Everywhere(0) /\ retry = Everywhere(0)
  /\ result = NoResults /\ completed = 0
-----------------------------------------------------------------------------
(* The main thread: try_resume, submitting, collecting, leaving.           *)

\* No results file: Results.save opens it for writing, which truncates it.
CreateFile ==
  /\ main = "starting" /\ file = "absent"
  /\ \E config \in Configurations : tasks' = config.tasks /\ planned' = Plan(config)
  /\ file' = "torn" /\ main' = "writing"
  /\ UNCHANGED <<saved, collected, workers, shutdown, crashes>>

\* Results.load of a whole file, by a process of any configuration.  The new task
\* set may add tasks; if it does, or if infrastructure errors are dropped, the
\* file is opened for writing again.
LoadFile ==
  /\ main = "starting" /\ file = "whole"
  /\ \E config \in Configurations :
       /\ tasks <= config.tasks
       /\ tasks' = config.tasks /\ planned' = Plan(config)
       /\ saved' = Lasting(saved)
       /\ collected' = saved'
       /\ IF tasks' = tasks /\ saved' = saved
          THEN main' = "submitting" /\ UNCHANGED file
          ELSE main' = "writing" /\ file' = "torn"
  /\ UNCHANGED <<workers, shutdown, crashes>>

\* The task set lost a task (ValueError), or the file does not parse.
RefuseResume ==
  /\ main = "starting"
  /\ file \in {"torn", "whole"}
  /\ main' = "failed"
  /\ UNCHANGED <<disk, planned, collected, workers, shutdown, crashes>>

FinishWrite ==
  /\ main = "writing"
  /\ file' = "whole" /\ main' = "submitting"
  /\ UNCHANGED <<tasks, saved, planned, collected, workers, shutdown, crashes>>

\* One future per planned run that is not done.  The monitor starts at the number
\* of runs done, planned or not.
Submit ==
  /\ main = "submitting"
  /\ job' = [r \in Runs |-> IF r \in planned \ DoneRuns THEN "queued" ELSE "none"]
  /\ completed' = Cardinality(DoneRuns)
  /\ main' = "collecting"
  /\ UNCHANGED <<disk, planned, collected, attempt, retry, result, shutdown, crashes>>

\* as_completed yields a future that returned.
Collect(r) ==
  /\ main = "collecting" /\ job[r] = "returned"
  /\ collected' = collected \cup {result[r]}
  /\ job' = [job EXCEPT ![r] = "collected"]
  /\ UNCHANGED <<disk, main, planned, attempt, retry, result, completed, shutdown, crashes>>

\* future.result() raises: the finally clause waits for all the other jobs.
CollectRaises(r) ==
  /\ main = "collecting" /\ job[r] = "raised"
  /\ main' = "aborting"
  /\ UNCHANGED <<disk, planned, collected, workers, shutdown, crashes>>

AllReturned ==
  /\ main = "collecting"
  /\ \A r \in Runs : job[r] \in {"none", "collected"}
  /\ main' = "done"
  /\ UNCHANGED <<disk, planned, collected, workers, shutdown, crashes>>

AbortWaited ==
  /\ main = "aborting"
  /\ \A r \in Runs : job[r] \in {"none"} \cup Finished
  /\ main' = "failed"
  /\ UNCHANGED <<disk, planned, collected, workers, shutdown, crashes>>

\* Ctrl+C: queued futures are cancelled and workers see shutdown_event ...
Interrupt ==
  /\ main = "collecting" /\ crashes < MaxCrashes
  /\ shutdown' = TRUE /\ main' = "exiting"
  /\ UNCHANGED <<disk, planned, collected, workers, crashes>>

\* ... until os._exit(130); a crash ends the process anywhere else, if it has not
\* come to its end.  Either way nothing but the file is left, whose content is
\* gone if it was open for writing, and the batch is started again.
Die ==
  /\ crashes < MaxCrashes
  /\ main # "starting"
  /\ crashes' = crashes + 1
  /\ main' = "starting" /\ planned' = {} /\ collected' = {} /\ shutdown' = FALSE
  /\ job' = Everywhere("none") /\ attempt' = Everywhere(0) /\ retry' = Everywhere(0)
  /\ result' = NoResults /\ completed' = 0
  /\ IF file = "torn" THEN tasks' = 0 /\ saved' = {} ELSE UNCHANGED <<tasks, saved>>
  /\ UNCHANGED file

Ended == main \in {"done", "failed"} /\ UNCHANGED batchVars
-----------------------------------------------------------------------------
(* A worker: _run_tracked around run_with_retry.                           *)

\* The process is alive: its threads may move.
Alive == main \in {"collecting", "aborting", "exiting"}

\* The pool hands its next free thread the oldest job; a job that starts after
\* the shutdown raises before it does anything.
Start(r) ==
  /\ Alive /\ ~shutdown
  /\ job[r] = "queued"
  /\ \A q \in Runs : job[q] = "queued" => r <= q
  /\ Cardinality(Active) < MaxConcurrency
  /\ job' = [job EXCEPT ![r] = "executing"]
  /\ UNCHANGED <<disk, main, planned, collected, attempt, retry, result, completed, shutdown, crashes>>

\* An attempt of run_with_retry failed: try again or give up.
NextAttempt(r) ==
  /\ attempt' = [attempt EXCEPT ![r] = @ + 1]
  /\ job' = [job EXCEPT ![r] = IF attempt[r] < MaxRetries THEN "executing" ELSE "placing"]

\* run_fn() returns a simulation or raises; the shutdown ends the attempts.
Execute(r) ==
  /\ Alive /\ job[r] = "executing"
  /\ \/ /\ shutdown
        /\ job' = [job EXCEPT ![r] = "placing"]
        /\ UNCHANGED <<attempt, result>>
     \/ /\ ~shutdown
        /\ \E kind \in Conversations : result' = [result EXCEPT ![r] = Sim(r, kind)]
        /\ job' = [job EXCEPT ![r] = "saving"]
        /\ UNCHANGED attempt
     \/ /\ ~shutdown
        /\ NextAttempt(r)
        /\ UNCHANGED result
  /\ UNCHANGED <<disk, main, planned, collected, retry, completed, shutdown, crashes>>

\* Mutant: the file is read, changed and written back without the lock, and what
\* another worker has written in between is lost.
RecordUnlocked(s) ==
  \E lost \in SUBSET saved : Cardinality(lost) <= 1 /\ saved' = (saved \ lost) \cup {s}

\* _save_json: under the lock, skip a run the file already has, else rewrite
\* the file through a temporary and os.replace.
Record(s) == saved' = IF RecordsOf(s.run) # {} THEN saved ELSE saved \cup {s}

Save(r) ==
  /\ Alive /\ job[r] = "saving"
  /\ \/ /\ Record(result[r])
        /\ job' = [job EXCEPT ![r] = "checking"]
        /\ UNCHANGED attempt
     \/ /\ NextAttempt(r) \* writing failed: the whole run is repeated
        /\ UNCHANGED saved
  /\ UNCHANGED <<file, tasks, main, planned, collected, retry, result, completed, shutdown, crashes>>

\* The finally clause of _run_tracked: monitor.task_finished.
Leave(r, how) ==
  /\ job' = [job EXCEPT ![r] = how]
  /\ completed' = completed + 1

\* Retries exhausted, or shutdown: the INFRASTRUCTURE_ERROR placeholder.
Place(r) ==
  /\ Alive /\ job[r] = "placing"
  /\ \/ /\ result' = [result EXCEPT ![r] = Sim(r, "infrastructure")]
        /\ Record(result'[r])
        /\ Leave(r, "returned")
     \/ /\ Leave(r, "raised")
        /\ UNCHANGED <<saved, result>>
  /\ UNCHANGED <<file, tasks, main, planned, collected, attempt, retry, shutdown, crashes>>

\* The loop is over: a retry takes the place of the first result.
LeaveLoop(r) ==
  IF retry[r] > 0 THEN job' = [job EXCEPT ![r] = "replacing"] /\ UNCHANGED completed
                  ELSE Leave(r, "returned")

\* Mutant: one retry too many.
RetriesLeftOrUsed(r) == retry[r] <= HallucinationRetries
RetriesLeft(r) == retry[r] < HallucinationRetries

\* The loop on check_hallucination: it marks the result in memory, leaves with a
\* clean one or when the retries are used up, and orders another run otherwise.
\* The result of the last retry is not checked.
CheckHallucination(r) ==
  /\ Alive /\ job[r] = "checking"
  /\ \/ /\ ~RetriesLeft(r)
        /\ LeaveLoop(r)
        /\ UNCHANGED <<retry, result>>
     \/ /\ RetriesLeft(r)
        /\ result[r].kind = "clean"
        /\ result' = [result EXCEPT ![r].checked = TRUE]
        /\ LeaveLoop(r)
        /\ UNCHANGED retry
     \/ /\ RetriesLeft(r)
        /\ result[r].kind = "hallucinated"
        /\ result' = [result EXCEPT ![r].checked = TRUE]
        /\ retry' = [retry EXCEPT ![r] = @ + 1]
        /\ job' = [job EXCEPT ![r] = "rerunning"]
        /\ UNCHANGED completed
     \/ /\ RetriesLeft(r)
        /\ Leave(r, "raised") \* the reviewing LLM call fails
        /\ UNCHANGED <<retry, result>>
  /\ UNCHANGED <<disk, main, planned, collected, attempt, shutdown, crashes>>

\* _execute with feedback and another seed, outside run_with_retry.
Rerun(r) ==
  /\ Alive /\ job[r] = "rerunning"
  /\ \/ /\ \E kind \in Conversations : result' = [result EXCEPT ![r] = Sim(r, kind)]
        /\ job' = [job EXCEPT ![r] = "checking"]
        /\ UNCHANGED completed
     \/ /\ Leave(r, "raised")
        /\ UNCHANGED result
  /\ UNCHANGED <<disk, main, planned, collected, attempt, retry, shutdown, crashes>>

\* replace_fn with the original seed: the run's record is exchanged for the retry.
Replace(r) ==
  /\ Alive /\ job[r] = "replacing"
  /\ \/ /\ result' = [result EXCEPT ![r].retries = retry[r]]
        /\ saved' = (saved \ RecordsOf(r)) \cup {result'[r]}
        /\ Leave(r, "returned")
     \/ /\ Leave(r, "raised")
        /\ UNCHANGED <<saved, result>>
  /\ UNCHANGED <<file, tasks, main, planned, collected, attempt, retry, shutdown, crashes>>

Worker(r) == \/ Start(r) \/ Execute(r) \/ Save(r) \/ Place(r)
             \/ CheckHallucination(r) \/ Rerun(r) \/ Replace(r)

Main == \/ CreateFile \/ LoadFile \/ RefuseResume \/ FinishWrite \/ Submit
        \/ (\E r \in Runs : Collect(r) \/ CollectRaises(r))
        \/ AllReturned \/ AbortWaited

BatchNext == Main \/ (\E r \in Runs : Worker(r)) \/ Interrupt \/ Die \/ Ended

BatchSpec == BatchInit /\ [][BatchNext]_batchVars
-----------------------------------------------------------------------------
(* Properties.                                                             *)

TypeOK ==
  /\ file \in {"absent", "torn", "whole"}
  /\ tasks \in 0..NumTasks /\ planned \subseteq Runs
  /\ saved \subseteq Simulation
  /\ main \in {"starting", "writing", "submitting", "collecting", "aborting",
               "exiting", "done", "failed"}
  /\ collected \subseteq Simulation
  /\ job \in [Runs -> {"none", "queued"} \cup Running \cup Finished]
  /\ attempt \in [Runs -> Nat] /\ retry \in [Runs -> 0..HallucinationRetries]
  /\ result \in [Runs -> Simulation]
  /\ shutdown \in BOOLEAN
  /\ completed \in Nat /\ crashes \in 0..MaxCrashes

\* The checkpoint holds at most one simulation per run, whatever retries,
\* hallucination reruns, placeholders, crashes and resumes wrote it.
OneRecordPerRun == \A s, t \in saved : s.run = t.run => s = t

\* A run is executed only while the checkpoint has no record of it: work that
\* is on disk is never done again, and a save is never skipped as a duplicate.
NoRecordedRunExecuted ==
  \A r \in Runs : job[r] \in {"queued", "executing", "saving", "placing"} => RecordsOf(r) = {}

\* A batch that completes returns what its checkpoint holds: one simulation for
\* every planned run and, when an earlier start had other trials or another seed,
\* one for each conversation that start has left.  StatusMonitor's
\* completed_count, which every worker raises on its way out, counts these too,
\* and may end above the total of len(tasks) * num_trials; but for them it is
\* exact whenever the main thread collects.
Accountable == planned \cup {s.run : s \in saved}
DoneIsComplete ==
  /\ main \in {"collecting", "aborting", "exiting", "done"} =>
       completed = Cardinality(Accountable)
                     - Cardinality({r \in Runs : job[r] \in {"queued"} \cup Running})
  /\ main = "done" =>
       /\ {Identity(s) : s \in collected} = {Identity(s) : s \in saved}
       /\ {s.run : s \in saved} = Accountable
       /\ Cardinality(collected) = Cardinality(Accountable)
       /\ \A s \in collected : s.run \notin planned => s.kind \in Conversations

\* What the main thread has collected, and what workers returned that it has yet
\* to collect, is in the checkpoint: so it is when the batch fails or is
\* interrupted and none of it is collected any more.
CollectedOnDisk ==
  {Identity(s) : s \in collected} \subseteq {Identity(s) : s \in saved}
ReturnedOnDisk ==
  \A r \in Runs : job[r] = "returned" =>
    Identity(result[r]) \in {Identity(s) : s \in saved}
ResultsOnDisk == CollectedOnDisk /\ ReturnedOnDisk

\* Read, changed and rewritten by many threads and by one process after another,
\* the simulations of results.json are the abstract checkpoint: a step adds one
\* row, exchanges the row of one run for a conversation, or drops the failed
\* rows.  The one exception is a death while the file is open for writing.
Store == INSTANCE CheckpointStore WITH recorded <- saved

ImplementsStore ==
  Store!Init /\ [][~(file = "torn" /\ main' = "starting") => Store!Next]_saved

\* A recorded conversation survives everything that follows, a death included:
\* it is only ever replaced by a rerun of the same run.  The one exception is a
\* death while the file itself is open for writing (ResumeAtomic).
RecordsDurable ==
  [][file' # "torn" =>
       \A r \in DoneRuns : \E s \in Lasting(saved)' : s.run = r]_batchVars

\* Every batch ends, each process death being followed by a resume.
BatchEnds == <>[](main \in {"done", "failed"})

\* runner/README: "Atomic save/resume": the death of a process costs no
\* conversation that was recorded.
ResumeAtomic ==
  [][main # "starting" /\ main' = "starting" => Lasting(saved) \subseteq saved']_batchVars

=============================================================================
