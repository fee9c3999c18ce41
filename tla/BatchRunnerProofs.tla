-------------------------- MODULE BatchRunnerProofs --------------------------
(***************************************************************************)
(* Theorems about BatchRunner, for every number of runs, retries, threads  *)
(* and deaths of the process.                                              *)
(***************************************************************************)
EXTENDS BatchRunner, FiniteSetTheorems, TLAPS

-----------------------------------------------------------------------------
(* The inductive invariant.  What the properties say of the file holds     *)
(* because of where the workers are, and the other way round.              *)

\* A worker holds a simulation of its own run.
HoldsOwnRun == \A r \in Runs : result[r].run = r

\* From the save on, what it holds is a conversation.
HoldsConversation ==
  \A r \in Runs : job[r] \in {"saving", "checking", "rerunning", "replacing"} =>
    result[r].kind \in Conversations

\* Nothing runs before the jobs are submitted; the file has no infrastructure
\* errors then, and the main thread has collected all that is in it.  Only a
\* batch that has just started finds no file.
Prepared ==
  /\ main \in {"starting", "writing", "submitting"} => \A r \in Runs : job[r] = "none"
  /\ main \in {"writing", "submitting"} => saved = Lasting(saved) /\ collected = saved
  /\ main = "starting" => collected = {}
  /\ file = "absent" => saved = {} /\ main = "starting"

\* Until it is retried, what a worker checks is what it has saved.
CheckedIsSaved ==
  \A r \in Runs : job[r] = "checking" /\ retry[r] = 0 =>
    Identity(result[r]) \in {Identity(s) : s \in saved}

\* The main thread has nothing of a run that is still to return.
CollectedOnce ==
  main \notin {"starting", "writing", "submitting"} =>
    \A s \in collected : job[s.run] \in {"none", "collected"}

\* A worker reruns only what it has counted as a retry, and has counted none
\* before it gets to look for hallucinations.
RetriesCounted ==
  \A r \in Runs :
    /\ job[r] \in {"none", "queued", "executing", "saving", "placing"} => retry[r] = 0
    /\ job[r] = "rerunning" => retry[r] > 0

FileInv == /\ OneRecordPerRun /\ NoRecordedRunExecuted
           /\ HoldsOwnRun /\ HoldsConversation /\ Prepared
ResultInv == ReturnedOnDisk /\ CollectedOnDisk /\ CheckedIsSaved /\ CollectedOnce /\ RetriesCounted
-----------------------------------------------------------------------------
(* Types.                                                                  *)

\* How many runs are done is a number: there are finitely many.
LEMMA RunsFinite == IsFiniteSet(Runs) /\ \A S \in SUBSET Runs : Cardinality(S) \in Nat
<1> DEFINE n == NumTasks * NumTrials
<1>1. 1 \in Int /\ n \in Int
  BY BatchAssumption
<1> HIDE DEF n
<1>2. IsFiniteSet(1..n)
  BY <1>1, FS_Interval
<1>2a. IsFiniteSet(Runs)
  BY <1>2 DEF Runs, n
<1>3. ASSUME NEW S \in SUBSET Runs
      PROVE  Cardinality(S) \in Nat
  BY <1>2a, FS_Subset, FS_CardinalityType
<1> QED
  BY <1>2a, <1>3

\* The placeholder and the conversations a worker starts with are simulations.
LEMMA SimType == \A r \in Runs, kind \in Kinds : Sim(r, kind) \in Simulation
BY BatchAssumption DEF Sim, Simulation

\* What a process starts with.
LEMMA FreshTypes ==
  /\ Everywhere("none") \in [Runs -> {"none", "queued"} \cup Running \cup Finished]
  /\ Everywhere(0) \in [Runs -> Nat] /\ Everywhere(0) \in [Runs -> 0..HallucinationRetries]
  /\ NoResults \in [Runs -> Simulation]
  /\ 0 \in 0..MaxCrashes /\ 0 \in 0..NumTasks
<1>1. 0 \in 0..HallucinationRetries /\ 0 \in Nat /\ 0 \in 0..MaxCrashes /\ 0 \in 0..NumTasks
  BY BatchAssumption
<1> QED
  BY <1>1, SimType DEF Everywhere, NoResults, Kinds, Running, Finished

\* Noting something on a simulation leaves it one.
LEMMA NotedType ==
  ASSUME NEW s \in Simulation, NEW n \in 0..HallucinationRetries
  PROVE  /\ [s EXCEPT !.checked = TRUE] \in Simulation
         /\ [s EXCEPT !.retries = n] \in Simulation
BY DEF Simulation

\* Every variable keeps to its type.
LEMMA TypeStep == TypeOK /\ [BatchNext]_batchVars => TypeOK'
<1> SUFFICES ASSUME TypeOK, [BatchNext]_batchVars PROVE TypeOK'
  OBVIOUS
<1> USE BatchAssumption DEF TypeOK, disk, workers, Running, Finished, Conversations
<1>1. CASE CreateFile
  BY <1>1 DEF CreateFile, Plan
<1>2. CASE LoadFile
  BY <1>2 DEF LoadFile, Lasting, Plan
<1>3. CASE RefuseResume
  BY <1>3 DEF RefuseResume
<1>4. CASE FinishWrite
  BY <1>4 DEF FinishWrite
<1>5. CASE Submit
  <2>1. DoneRuns \in SUBSET Runs
    BY DEF DoneRuns, Lasting, Simulation
  <2>2. completed' \in Nat
    BY <1>5, <2>1, RunsFinite DEF Submit
  <2> QED
    BY <1>5, <2>2 DEF Submit
<1>6. ASSUME NEW r \in Runs, Collect(r) PROVE TypeOK'
  BY <1>6 DEF Collect
<1>7. ASSUME NEW r \in Runs, CollectRaises(r) PROVE TypeOK'
  BY <1>7 DEF CollectRaises
<1>8. CASE AllReturned
  BY <1>8 DEF AllReturned
<1>9. CASE AbortWaited
  BY <1>9 DEF AbortWaited
<1>10. CASE Interrupt
  BY <1>10 DEF Interrupt
<1>11. CASE Die
  <2>1. crashes' \in 0..MaxCrashes
    BY <1>11 DEF Die
  <2> QED
    BY <1>11, <2>1, FreshTypes DEF Die
<1>12. ASSUME NEW r \in Runs, Start(r) PROVE TypeOK'
  BY <1>12 DEF Start
<1>13. ASSUME NEW r \in Runs, Execute(r) PROVE TypeOK'
  BY <1>13, SimType DEF Execute, NextAttempt, Kinds
<1>14. ASSUME NEW r \in Runs, Save(r) PROVE TypeOK'
  BY <1>14 DEF Save, NextAttempt, Record
<1>15. ASSUME NEW r \in Runs, Place(r) PROVE TypeOK'
  BY <1>15, SimType DEF Place, Leave, Record, Kinds
<1>16. ASSUME NEW r \in Runs, CheckHallucination(r) PROVE TypeOK'
  <2>1. retry' \in [Runs -> 0..HallucinationRetries]
    BY <1>16 DEF CheckHallucination, RetriesLeft
  <2>2. result' \in [Runs -> Simulation]
    <3>1. \/ result' = result
          \/ result' = [result EXCEPT ![r] = [result[r] EXCEPT !.checked = TRUE]]
      BY <1>16 DEF CheckHallucination, RetriesLeft
    <3>2. [result[r] EXCEPT !.checked = TRUE] \in Simulation
      BY NotedType
    <3> QED
      BY <3>1, <3>2
  <2>3. job' \in [Runs -> {"none", "queued"} \cup Running \cup Finished] /\ completed' \in Nat
    BY <1>16 DEF CheckHallucination, RetriesLeft, LeaveLoop, Leave
  <2> QED
    BY <1>16, <2>1, <2>2, <2>3 DEF CheckHallucination, RetriesLeft
<1>17. ASSUME NEW r \in Runs, Rerun(r) PROVE TypeOK'
  BY <1>17, SimType DEF Rerun, Leave, Kinds
<1>18. ASSUME NEW r \in Runs, Replace(r) PROVE TypeOK'
  <2>1. result' \in [Runs -> Simulation]
    <3>1. \/ result' = result
          \/ result' = [result EXCEPT ![r] = [result[r] EXCEPT !.retries = retry[r]]]
      BY <1>18 DEF Replace
    <3>2. [result[r] EXCEPT !.retries = retry[r]] \in Simulation
      BY NotedType
    <3> QED
      BY <3>1, <3>2
  <2>2. saved' \subseteq Simulation
    BY <1>18, <2>1 DEF Replace, RecordsOf
  <2> QED
    BY <1>18, <2>1, <2>2 DEF Replace, Leave
<1>19. CASE UNCHANGED batchVars
  BY <1>19 DEF batchVars
<1> QED
  BY <1>1, <1>2, <1>3, <1>4, <1>5, <1>6, <1>7, <1>8, <1>9, <1>10, <1>11, <1>12, <1>13,
     <1>14, <1>15, <1>16, <1>17, <1>18, <1>19
     DEF BatchNext, Main, Worker, Ended

\* The variables of a batch keep to their types, however many runs, retries
\* and deaths there are.
THEOREM TypeCorrect == BatchSpec => []TypeOK
<1>1. BatchInit => TypeOK
  <2> SUFFICES ASSUME BatchInit PROVE TypeOK
    OBVIOUS
  <2>1. /\ job \in [Runs -> {"none", "queued"} \cup Running \cup Finished]
        /\ attempt \in [Runs -> Nat] /\ retry \in [Runs -> 0..HallucinationRetries]
        /\ result \in [Runs -> Simulation] /\ crashes \in 0..MaxCrashes /\ tasks \in 0..NumTasks
    BY FreshTypes DEF BatchInit
  <2> QED
    BY <2>1 DEF BatchInit, TypeOK
<1> QED
  BY <1>1, TypeStep, PTL DEF BatchSpec
-----------------------------------------------------------------------------
(* The file.                                                               *)

\* Every step keeps one record per run in the file, and every worker that is
\* on its way to a record from finding one there.
LEMMA FileStep == TypeOK /\ FileInv /\ [BatchNext]_batchVars => FileInv'
<1> SUFFICES ASSUME TypeOK, FileInv, [BatchNext]_batchVars PROVE FileInv'
  OBVIOUS
<1> USE DEF FileInv, OneRecordPerRun, NoRecordedRunExecuted, RecordsOf, disk, workers
<1>1. CASE CreateFile
  BY <1>1 DEF CreateFile, HoldsOwnRun, HoldsConversation, Prepared, Lasting
<1>2. CASE LoadFile
  BY <1>2 DEF LoadFile, HoldsOwnRun, HoldsConversation, Prepared, Lasting
<1>3. CASE RefuseResume
  BY <1>3 DEF RefuseResume, HoldsOwnRun, HoldsConversation, Prepared, Lasting
<1>4. CASE FinishWrite
  BY <1>4 DEF FinishWrite, HoldsOwnRun, HoldsConversation, Prepared, Lasting
<1>5. CASE Submit
  BY <1>5 DEF Submit, HoldsOwnRun, HoldsConversation, Prepared, DoneRuns
<1>6. ASSUME NEW r \in Runs, Collect(r) PROVE FileInv'
  BY <1>6 DEF Collect, HoldsOwnRun, HoldsConversation, Prepared, TypeOK
<1>7. ASSUME NEW r \in Runs, CollectRaises(r) PROVE FileInv'
  BY <1>7 DEF CollectRaises, HoldsOwnRun, HoldsConversation, Prepared
<1>8. CASE AllReturned \/ AbortWaited \/ Interrupt
  BY <1>8 DEF AllReturned, AbortWaited, Interrupt, HoldsOwnRun, HoldsConversation, Prepared
<1>9. CASE Die
  <2>1. \A r \in Runs : job'[r] = "none" /\ result'[r].run = r
    BY <1>9 DEF Die, Everywhere, NoResults, Sim
  <2> QED
    BY <1>9, <2>1 DEF Die, HoldsOwnRun, HoldsConversation, Prepared
<1>10. ASSUME NEW r \in Runs, Start(r) PROVE FileInv'
  BY <1>10 DEF Start, Alive, HoldsOwnRun, HoldsConversation, Prepared, TypeOK
<1>11. ASSUME NEW r \in Runs, Execute(r) PROVE FileInv'
  BY <1>11 DEF Execute, NextAttempt, Alive, Sim, HoldsOwnRun, HoldsConversation, Prepared, TypeOK
<1>12. ASSUME NEW r \in Runs, Save(r) PROVE FileInv'
  BY <1>12 DEF Save, NextAttempt, Record, Alive, HoldsOwnRun, HoldsConversation, Prepared, TypeOK
<1>13. ASSUME NEW r \in Runs, Place(r) PROVE FileInv'
  BY <1>13 DEF Place, Leave, Record, Sim, Alive, HoldsOwnRun, HoldsConversation, Prepared, TypeOK
<1>14. ASSUME NEW r \in Runs, CheckHallucination(r) PROVE FileInv'
  <2>1. UNCHANGED <<disk, main, collected>> /\ job[r] = "checking"
    BY <1>14 DEF CheckHallucination
  <2>2. \A q \in Runs : result'[q].run = result[q].run /\ result'[q].kind = result[q].kind
    BY <1>14 DEF CheckHallucination, TypeOK, Simulation
  <2>3. /\ \A q \in Runs \ {r} : job'[q] = job[q]
        /\ job'[r] \in {"replacing", "rerunning", "returned", "raised"}
    BY <1>14 DEF CheckHallucination, LeaveLoop, Leave, TypeOK
  <2> QED
    BY <2>1, <2>2, <2>3 DEF HoldsOwnRun, HoldsConversation, Prepared
<1>15. ASSUME NEW r \in Runs, Rerun(r) PROVE FileInv'
  BY <1>15 DEF Rerun, Leave, Sim, Alive, HoldsOwnRun, HoldsConversation, Prepared, TypeOK
<1>16. ASSUME NEW r \in Runs, Replace(r) PROVE FileInv'
  BY <1>16 DEF Replace, Leave, Alive, HoldsOwnRun, HoldsConversation, Prepared, TypeOK, Simulation
<1>17. CASE UNCHANGED batchVars
  BY <1>17 DEF batchVars, HoldsOwnRun, HoldsConversation, Prepared
<1> QED
  BY <1>1, <1>2, <1>3, <1>4, <1>5, <1>6, <1>7, <1>8, <1>9, <1>10, <1>11, <1>12, <1>13,
     <1>14, <1>15, <1>16, <1>17 DEF BatchNext, Main, Worker, Ended

\* Initially there is no file and no worker.
LEMMA FileInit == BatchInit => FileInv
<1> SUFFICES ASSUME BatchInit PROVE FileInv
  OBVIOUS
<1>1. \A r \in Runs : job[r] = "none" /\ result[r].run = r
  BY DEF BatchInit, Everywhere, NoResults, Sim
<1> QED
  BY <1>1 DEF BatchInit, FileInv, OneRecordPerRun, NoRecordedRunExecuted, RecordsOf,
              HoldsOwnRun, HoldsConversation, Prepared

\* The inductive invariant of the file holds throughout.
LEMMA FileCorrect == BatchSpec => [](TypeOK /\ FileInv)
<1>1. TypeOK /\ FileInv /\ [BatchNext]_batchVars => (TypeOK /\ FileInv)'
  BY TypeStep, FileStep
<1>2. BatchSpec => []TypeOK
  BY TypeCorrect
<1>3. BatchInit => FileInv
  BY FileInit
<1> QED
  BY FileStep, <1>2, <1>3, PTL DEF BatchSpec

\* The checkpoint never holds two simulations of one run, however often runs are
\* retried, rerun and resumed.
THEOREM OneRecord == BatchSpec => []OneRecordPerRun
<1>1. FileInv => OneRecordPerRun
  BY DEF FileInv
<1> QED
  BY FileCorrect, <1>1, PTL

\* No worker executes a run whose simulation is in the checkpoint.
THEOREM NoRework == BatchSpec => []NoRecordedRunExecuted
<1>1. FileInv => NoRecordedRunExecuted
  BY DEF FileInv
<1> QED
  BY FileCorrect, <1>1, PTL

\* The runs the checkpoint has conversations of after a step.
LEMMA DurableStep ==
  TypeOK /\ FileInv /\ [BatchNext]_batchVars =>
    [file' # "torn" =>
       \A r \in DoneRuns : \E s \in Lasting(saved)' : s.run = r]_batchVars
<1> SUFFICES ASSUME TypeOK, FileInv, BatchNext, file' # "torn", NEW r \in DoneRuns
             PROVE  \E s \in Lasting(saved)' : s.run = r
  BY DEF DoneRuns, Lasting, batchVars, disk
<1>1. PICK s \in saved : s.kind # "infrastructure" /\ s.run = r
  BY DEF DoneRuns, Lasting
<1>2. CASE s \in saved'
  BY <1>1, <1>2 DEF Lasting
<1>3. CASE \E q \in Runs : Replace(q)
  <2>1. PICK q \in Runs : Replace(q)
    BY <1>3
  <2>2. CASE s.run = q
    <3>1. CASE saved' = saved
      BY <1>1, <3>1 DEF Lasting
    <3>2. CASE saved' # saved
      <4>1. result'[q] \in saved' /\ result'[q].run = q /\ result'[q].kind \in Conversations
        BY <2>1, <3>2 DEF Replace, FileInv, HoldsOwnRun, HoldsConversation, TypeOK, Simulation
      <4> QED
        BY <4>1, <1>1, <2>2 DEF Lasting, Conversations
    <3> QED
      BY <3>1, <3>2
  <2>3. CASE s.run # q
    BY <1>1, <2>1, <2>3 DEF Replace, RecordsOf, Lasting
  <2> QED
    BY <2>2, <2>3
<1>4. ASSUME ~(\E q \in Runs : Replace(q)) PROVE s \in saved'
  <2>1. CASE CreateFile \/ LoadFile \/ RefuseResume \/ FinishWrite \/ Submit
    BY <1>1, <2>1 DEF CreateFile, LoadFile, RefuseResume, FinishWrite, Submit, Lasting, disk
  <2>2. CASE AllReturned \/ AbortWaited \/ Interrupt \/ Die \/ Ended
    BY <1>1, <2>2 DEF AllReturned, AbortWaited, Interrupt, Die, Ended, batchVars, disk
  <2>3. ASSUME NEW q \in Runs, Collect(q) \/ CollectRaises(q) \/ Start(q) \/ Execute(q)
        PROVE  s \in saved'
    BY <2>3 DEF Collect, CollectRaises, Start, Execute, disk
  <2>4. ASSUME NEW q \in Runs, CheckHallucination(q) \/ Rerun(q)
        PROVE  s \in saved'
    BY <2>4 DEF CheckHallucination, RetriesLeft, Rerun, disk
  <2>5. ASSUME NEW q \in Runs, Save(q) \/ Place(q)
        PROVE  s \in saved'
    BY <2>5 DEF Save, Place, Record
  <2> QED
    BY <1>4, <2>1, <2>2, <2>3, <2>4, <2>5 DEF BatchNext, Main, Worker
<1> QED
  BY <1>2, <1>3, <1>4

\* No step but the loss of a file that is open for writing takes a run's
\* conversation from the checkpoint: a rerun only puts another in its place.
THEOREM Durable == BatchSpec => RecordsDurable
<1> QED
  BY FileCorrect, DurableStep, PTL DEF BatchSpec, RecordsDurable
-----------------------------------------------------------------------------
(* The abstract checkpoint.                                                *)

\* A record of a run that had none is a row added.
LEMMA RecordAdds ==
  ASSUME NEW s, Record(s), saved' # saved
  PROVE  Store!Add
<1>1. saved' = saved \cup {s} /\ RecordsOf(s.run) = {}
  BY DEF Record
<1>2. Store!Others(s) = saved
  BY <1>1 DEF RecordsOf, Store!Others
<1> QED
  BY <1>1, <1>2 DEF Store!Add

\* The retry of a worker that leaves takes the place of the row of its run, and
\* is a row added if there is none.
LEMMA ReplaceExchanges ==
  ASSUME TypeOK, HoldsOwnRun, HoldsConversation, NEW r \in Runs, Replace(r), saved' # saved
  PROVE  Store!Add \/ Store!Exchange
<1>1. /\ result' = [result EXCEPT ![r].retries = retry[r]]
      /\ saved' = (saved \ RecordsOf(r)) \cup {result'[r]}
      /\ job[r] = "replacing"
  BY DEF Replace
<1> DEFINE s == result'[r]
<1>2. s.run = r /\ s.kind # "infrastructure"
  BY <1>1 DEF TypeOK, Simulation, HoldsOwnRun, HoldsConversation, Conversations
<1> HIDE DEF s
<1>3. Store!Others(s) = saved \ RecordsOf(r) /\ saved' = Store!Others(s) \cup {s} /\ s \in saved'
  BY <1>1, <1>2 DEF Store!Others, RecordsOf, s
<1> QED
  BY <1>2, <1>3 DEF Store!Add, Store!Exchange

\* Whatever threads and processes do, the simulations of the results file change
\* as the abstract checkpoint does, one row added or exchanged at a stroke or the
\* failed runs dropped; only a death while the file is open for writing does
\* anything else to them.
THEOREM Implementation == BatchSpec => ImplementsStore
<1>1. BatchInit => Store!Init
  BY DEF BatchInit, Store!Init
<1>2. TypeOK /\ FileInv /\ [BatchNext]_batchVars
      => [~(file = "torn" /\ main' = "starting") => Store!Next]_saved
  <2> SUFFICES ASSUME TypeOK, FileInv, [BatchNext]_batchVars, saved' # saved,
                      ~(file = "torn" /\ main' = "starting")
               PROVE  Store!Next
    OBVIOUS
  <2>1. CASE LoadFile
    <3>1. saved' = saved \ Store!Failed
      BY <2>1 DEF LoadFile, Lasting, Store!Failed
    <3> QED
      BY <3>1 DEF Store!Next, Store!DropFailed
  <2>2. ASSUME NEW r \in Runs, Save(r) PROVE Store!Next
    <3>1. Record(result[r])
      BY <2>2 DEF Save
    <3> QED
      BY <3>1, RecordAdds DEF Store!Next
  <2>3. ASSUME NEW r \in Runs, Place(r) PROVE Store!Next
    <3>1. PICK s : s = result'[r]
      OBVIOUS
    <3>2. Record(s)
      BY <2>3, <3>1 DEF Place, Record
    <3> QED
      BY <3>2, RecordAdds DEF Store!Next
  <2>4. ASSUME NEW r \in Runs, Replace(r) PROVE Store!Next
    BY <2>4, ReplaceExchanges DEF FileInv, Store!Next
  <2>5. ~Die
    BY DEF Die, disk
  <2>6. LoadFile \/ \E r \in Runs : Save(r) \/ Place(r) \/ Replace(r)
    BY <2>5 DEF BatchNext, Main, Worker, Ended, CreateFile, RefuseResume, FinishWrite, Submit, Collect,
                CollectRaises, AllReturned, AbortWaited, Interrupt, Start, Execute,
                CheckHallucination, Rerun, batchVars, disk
  <2> QED
    BY <2>1, <2>2, <2>3, <2>4, <2>6
<1> QED
  BY <1>1, <1>2, FileCorrect, PTL DEF BatchSpec, ImplementsStore
-----------------------------------------------------------------------------
(* The results.                                                            *)

\* What is noted on a simulation when it is checked is no part of its identity,
\* and its run is.
LEMMA IdentityFacts ==
  /\ \A s \in Simulation : Identity([s EXCEPT !.checked = TRUE]) = Identity(s)
  /\ \A s, t \in Simulation : Identity(s) = Identity(t) => s.run = t.run
BY DEF Identity, Simulation

\* What a step does to a run whose worker does not move: the records of other
\* runs stay, so what was on disk of them is still there.
LEMMA OthersStay ==
  ASSUME TypeOK, NEW r \in Runs,
         \A s \in saved : s.run # r => s \in saved',
         NEW t \in Simulation, t.run # r,
         Identity(t) \in {Identity(s) : s \in saved}
  PROVE  Identity(t) \in {Identity(s) : s \in saved'}
<1>1. PICK s \in saved : Identity(t) = Identity(s)
  OBVIOUS
<1>2. s.run # r
  BY <1>1, IdentityFacts DEF TypeOK
<1> QED
  BY <1>1, <1>2

\* A step of one worker that leaves what the main thread has alone, keeps the
\* records of the others, and has its own result on disk when it returns or is
\* about to look for hallucinations for the first time.
LEMMA WorkerStep ==
  ASSUME TypeOK, TypeOK', FileInv, ResultInv, NEW r \in Runs,
         collected' = collected, main' = main, job[r] \in Running \cup {"queued"},
         main \notin {"starting", "writing", "submitting"},
         \A q \in Runs \ {r} : /\ job'[q] = job[q] /\ retry'[q] = retry[q]
                               /\ result'[q] = result[q],
         \A s \in saved : s.run # r => s \in saved',
         job'[r] \notin {"none", "collected"},
         job'[r] = "returned" \/ (job'[r] = "checking" /\ retry'[r] = 0)
           => Identity(result'[r]) \in {Identity(s) : s \in saved'},
         job'[r] \in {"queued", "executing", "saving", "placing"} => retry'[r] = 0,
         job'[r] = "rerunning" => retry'[r] > 0
  PROVE  ResultInv'
<1>1. \A q \in Runs \ {r} : result[q] \in Simulation /\ result[q].run # r
  BY DEF TypeOK, FileInv, HoldsOwnRun
<1>2. ReturnedOnDisk'
  <2>1. ASSUME NEW q \in Runs, job'[q] = "returned", q # r
        PROVE  Identity(result'[q]) \in {Identity(s) : s \in saved'}
    <3>1. Identity(result[q]) \in {Identity(s) : s \in saved}
      BY <2>1 DEF ResultInv, ReturnedOnDisk
    <3> QED
      BY <1>1, <2>1, <3>1, OthersStay
  <2> QED
    BY <2>1 DEF ReturnedOnDisk
<1>3. CheckedIsSaved'
  <2>1. ASSUME NEW q \in Runs, job'[q] = "checking", retry'[q] = 0, q # r
        PROVE  Identity(result'[q]) \in {Identity(s) : s \in saved'}
    <3>1. Identity(result[q]) \in {Identity(s) : s \in saved}
      BY <2>1 DEF ResultInv, CheckedIsSaved
    <3> QED
      BY <1>1, <2>1, <3>1, OthersStay
  <2> QED
    BY <2>1 DEF CheckedIsSaved
<1>4. \A s \in collected : s \in Simulation /\ s.run # r
  BY DEF TypeOK, ResultInv, CollectedOnce, Running
<1>5. CollectedOnDisk'
  <2>1. ASSUME NEW t \in collected
        PROVE  Identity(t) \in {Identity(s) : s \in saved'}
    <3>1. Identity(t) \in {Identity(s) : s \in saved}
      BY DEF ResultInv, CollectedOnDisk
    <3> QED
      BY <1>4, <3>1, OthersStay
  <2> QED
    BY <2>1 DEF CollectedOnDisk
<1>6. CollectedOnce'
  <2>1. \A s \in collected : s.run \in Runs \ {r}
    BY <1>4 DEF Simulation
  <2> QED
    BY <2>1 DEF ResultInv, CollectedOnce
<1>7. RetriesCounted'
  BY DEF ResultInv, RetriesCounted
<1> QED
  BY <1>2, <1>3, <1>5, <1>6, <1>7 DEF ResultInv

\* Every step keeps what workers returned, and what the main thread took from
\* them, in the file.
LEMMA ResultStep == TypeOK /\ FileInv /\ ResultInv /\ [BatchNext]_batchVars => ResultInv'
<1> SUFFICES ASSUME TypeOK, FileInv, ResultInv, [BatchNext]_batchVars PROVE ResultInv'
  OBVIOUS
<1>0. TypeOK'
  BY TypeStep
<1> USE DEF disk, workers
<1>1. CASE CreateFile
  BY <1>1 DEF CreateFile, FileInv, Prepared, ResultInv, ReturnedOnDisk, CollectedOnDisk,
              CheckedIsSaved, CollectedOnce, RetriesCounted
<1>2. CASE LoadFile
  <2>1. main' \in {"writing", "submitting"} /\ collected' = saved' /\ UNCHANGED workers
    BY <1>2 DEF LoadFile
  <2>2. \A r \in Runs : job'[r] = "none" /\ retry'[r] = 0
    BY <1>2, <2>1 DEF LoadFile, FileInv, Prepared, ResultInv, RetriesCounted
  <2> QED
    BY <2>1, <2>2 DEF ResultInv, ReturnedOnDisk, CollectedOnDisk, CheckedIsSaved,
                      CollectedOnce, RetriesCounted
<1>3. CASE RefuseResume
  BY <1>3 DEF RefuseResume, FileInv, Prepared, ResultInv, ReturnedOnDisk, CollectedOnDisk,
              CheckedIsSaved, CollectedOnce, RetriesCounted
<1>4. CASE FinishWrite
  BY <1>4 DEF FinishWrite, FileInv, Prepared, ResultInv, ReturnedOnDisk, CollectedOnDisk,
              CheckedIsSaved, CollectedOnce, RetriesCounted
<1>5. CASE Submit
  <2>1. \A s \in collected : s.run \in DoneRuns
    BY <1>5 DEF Submit, FileInv, Prepared, DoneRuns
  <2>2. \A s \in collected : job'[s.run] = "none"
    BY <1>5, <2>1 DEF Submit, TypeOK, Simulation
  <2>3. \A r \in Runs : job'[r] \in {"queued", "none"} /\ job[r] = "none"
    BY <1>5 DEF Submit, FileInv, Prepared
  <2> QED
    BY <1>5, <2>2, <2>3 DEF Submit, ResultInv, ReturnedOnDisk, CollectedOnDisk,
                            CheckedIsSaved, CollectedOnce, RetriesCounted
<1>6. ASSUME NEW r \in Runs, Collect(r) PROVE ResultInv'
  <2>1. CollectedOnDisk'
    BY <1>6 DEF Collect, ResultInv, CollectedOnDisk, ReturnedOnDisk
  <2>2. CollectedOnce'
    <3>1. \A s \in collected' : s.run = r \/ s \in collected
      BY <1>6 DEF Collect, FileInv, HoldsOwnRun
    <3> QED
      BY <1>6, <3>1 DEF Collect, ResultInv, CollectedOnce, TypeOK, Simulation
  <2>3. ReturnedOnDisk' /\ CheckedIsSaved' /\ RetriesCounted'
    BY <1>6 DEF Collect, ResultInv, ReturnedOnDisk, CheckedIsSaved, RetriesCounted, TypeOK
  <2> QED
    BY <2>1, <2>2, <2>3 DEF ResultInv
<1>7. ASSUME NEW r \in Runs, CollectRaises(r) PROVE ResultInv'
  BY <1>7 DEF CollectRaises, ResultInv, ReturnedOnDisk, CollectedOnDisk, CheckedIsSaved,
              CollectedOnce, RetriesCounted
<1>8. CASE AllReturned \/ AbortWaited \/ Interrupt
  BY <1>8 DEF AllReturned, AbortWaited, Interrupt, ResultInv, ReturnedOnDisk, CollectedOnDisk,
              CheckedIsSaved, CollectedOnce, RetriesCounted
<1>9. CASE Die
  <2>1. \A r \in Runs : job'[r] = "none" /\ retry'[r] = 0
    BY <1>9 DEF Die, Everywhere
  <2> QED
    BY <1>9, <2>1 DEF Die, ResultInv, ReturnedOnDisk, CollectedOnDisk, CheckedIsSaved,
                      CollectedOnce, RetriesCounted
<1>10. ASSUME NEW r \in Runs, Start(r) PROVE ResultInv'
  BY <1>0, <1>10, WorkerStep DEF Start, Alive, TypeOK, ResultInv, RetriesCounted
<1>11. ASSUME NEW r \in Runs, Execute(r) PROVE ResultInv'
  BY <1>0, <1>11, WorkerStep DEF Execute, NextAttempt, Alive, TypeOK, Running, ResultInv,
                                 RetriesCounted
<1>12. ASSUME NEW r \in Runs, Save(r) PROVE ResultInv'
  <2>1. job'[r] = "checking" => result'[r] \in saved'
    BY <1>12 DEF Save, NextAttempt, Record, TypeOK, FileInv, NoRecordedRunExecuted, HoldsOwnRun
  <2> QED
    BY <1>0, <1>12, <2>1, WorkerStep DEF Save, NextAttempt, Record, Alive, TypeOK, Running,
                                         ResultInv, RetriesCounted
<1>13. ASSUME NEW r \in Runs, Place(r) PROVE ResultInv'
  <2>1. job'[r] = "returned" => result'[r] \in saved'
    BY <1>13 DEF Place, Leave, Record, Sim, TypeOK, FileInv, NoRecordedRunExecuted
  <2> QED
    BY <1>0, <1>13, <2>1, WorkerStep DEF Place, Leave, Record, Alive, TypeOK, Running
<1>14. ASSUME NEW r \in Runs, CheckHallucination(r) PROVE ResultInv'
  <2>1. Identity(result'[r]) = Identity(result[r])
    BY <1>14, IdentityFacts DEF CheckHallucination, RetriesLeft, TypeOK
  <2>2. job'[r] = "returned" => retry[r] = 0
    BY <1>14 DEF CheckHallucination, RetriesLeft, LeaveLoop, Leave, TypeOK
  <2>3. job'[r] = "returned" => Identity(result'[r]) \in {Identity(s) : s \in saved'}
    BY <1>14, <2>1, <2>2 DEF CheckHallucination, RetriesLeft, ResultInv, CheckedIsSaved
  <2>4. job'[r] \in {"returned", "replacing", "rerunning", "raised"}
    BY <1>14 DEF CheckHallucination, RetriesLeft, LeaveLoop, Leave, TypeOK
  <2>5. job'[r] = "rerunning" => retry'[r] > 0
    BY <1>14 DEF CheckHallucination, RetriesLeft, LeaveLoop, Leave, TypeOK
  <2>6. \A q \in Runs \ {r} : /\ job'[q] = job[q] /\ retry'[q] = retry[q]
                              /\ result'[q] = result[q]
    BY <1>14 DEF CheckHallucination, RetriesLeft, LeaveLoop, Leave, TypeOK
  <2> QED
    BY <1>0, <1>14, <2>3, <2>4, <2>5, <2>6, WorkerStep DEF CheckHallucination, RetriesLeft, Alive, Running
<1>15. ASSUME NEW r \in Runs, Rerun(r) PROVE ResultInv'
  BY <1>0, <1>15, WorkerStep DEF Rerun, Leave, Alive, TypeOK, Running, ResultInv, RetriesCounted
<1>16. ASSUME NEW r \in Runs, Replace(r) PROVE ResultInv'
  <2>1. job'[r] = "returned" => result'[r] \in saved'
    BY <1>16 DEF Replace, Leave, TypeOK
  <2>2. \A s \in saved : s.run # r => s \in saved'
    BY <1>16 DEF Replace, RecordsOf
  <2> QED
    BY <1>0, <1>16, <2>1, <2>2, WorkerStep DEF Replace, Leave, Alive, TypeOK, Running
<1>17. CASE UNCHANGED batchVars
  BY <1>17 DEF batchVars, ResultInv, ReturnedOnDisk, CollectedOnDisk, CheckedIsSaved,
               CollectedOnce, RetriesCounted
<1> QED
  BY <1>1, <1>2, <1>3, <1>4, <1>5, <1>6, <1>7, <1>8, <1>9, <1>10, <1>11, <1>12, <1>13,
     <1>14, <1>15, <1>16, <1>17 DEF BatchNext, Main, Worker, Ended

\* Initially there is nothing to be on disk.
LEMMA ResultInit == BatchInit => ResultInv
<1> SUFFICES ASSUME BatchInit PROVE ResultInv
  OBVIOUS
<1>1. \A r \in Runs : job[r] = "none" /\ retry[r] = 0
  BY DEF BatchInit, Everywhere
<1> QED
  BY <1>1 DEF BatchInit, ResultInv, ReturnedOnDisk, CollectedOnDisk, CheckedIsSaved,
              CollectedOnce, RetriesCounted

\* The inductive invariant of the results holds throughout.
LEMMA ResultsCorrect == BatchSpec => []ResultInv
<1> QED
  BY FileCorrect, ResultInit, ResultStep, PTL DEF BatchSpec

\* A simulation that a worker returned is in the checkpoint, under its run and
\* with its retries, and stays there once the main thread has collected it.
THEOREM ResultsRecorded == BatchSpec => []ResultsOnDisk
<1>1. ResultInv => ResultsOnDisk
  BY DEF ResultInv, ResultsOnDisk
<1> QED
  BY ResultsCorrect, <1>1, PTL
-----------------------------------------------------------------------------
(* What a batch that completes has.                                        *)

Pending == {r \in Runs : job[r] \in {"queued"} \cup Running}
Submitted == {"collecting", "aborting", "exiting", "done"}

\* Only what is planned is submitted, and what the file has of other runs are
\* conversations the main thread found there.
Planned ==
  /\ \A r \in Runs : job[r] # "none" => r \in planned
  /\ main \in Submitted =>
       \A s \in saved : s.run \notin planned => s \in collected /\ s.kind \in Conversations

\* Once the jobs are submitted, a planned run that has no job or whose future has
\* been collected is among the results, with one simulation.
Accounted ==
  /\ main \in Submitted =>
       /\ \A r \in planned : job[r] \in {"none", "collected"} => \E s \in collected : s.run = r
       /\ completed = Cardinality(Accountable) - Cardinality(Pending)
  /\ \A s, t \in collected : s.run = t.run => s = t
  /\ main = "done" => \A r \in Runs : job[r] \in {"none", "collected"}

TallyInv == Planned /\ Accounted

\* A step of a worker moves its own job, to the end of which it is counted, and
\* writes its own record.
LEMMA WorkerMoves ==
  ASSUME TypeOK, FileInv, NEW r \in Runs, Worker(r)
  PROVE  /\ main \in {"collecting", "aborting", "exiting"}
         /\ UNCHANGED <<main, collected, planned>>
         /\ r \in Pending /\ \A q \in Runs \ {r} : job'[q] = job[q]
         /\ \/ job'[r] \in {"queued"} \cup Running /\ completed' = completed
            \/ job'[r] \in {"returned", "raised"} /\ completed' = completed + 1
         /\ \A s \in saved' : s \in saved \/ s.run = r
         /\ \A s \in saved : s \in saved' \/ s.run = r
<1> USE DEF Pending, Alive, disk, workers, Running, TypeOK
<1>1. CASE Start(r)
  BY <1>1 DEF Start
<1>2. CASE Execute(r)
  BY <1>2 DEF Execute, NextAttempt
<1>3. CASE Save(r)
  BY <1>3 DEF Save, NextAttempt, Record, FileInv, HoldsOwnRun
<1>4. CASE Place(r)
  BY <1>4 DEF Place, Leave, Record, Sim
<1>5. CASE CheckHallucination(r)
  BY <1>5 DEF CheckHallucination, RetriesLeft, LeaveLoop, Leave
<1>6. CASE Rerun(r)
  BY <1>6 DEF Rerun, Leave
<1>7. CASE Replace(r)
  <2>1. \A s \in saved' : s \in saved \/ s = result'[r]
    BY <1>7 DEF Replace
  <2>2. result'[r].run = r
    BY <1>7 DEF Replace, FileInv, HoldsOwnRun, Simulation
  <2>3. \A s \in saved : s \in saved' \/ s.run = r
    BY <1>7 DEF Replace, RecordsOf
  <2> QED
    BY <1>7, <2>1, <2>2, <2>3 DEF Replace, Leave
<1> QED
  BY <1>1, <1>2, <1>3, <1>4, <1>5, <1>6, <1>7 DEF Worker

LEMMA TallyStep == TypeOK /\ FileInv /\ ResultInv /\ TallyInv /\ [BatchNext]_batchVars => TallyInv'
<1> SUFFICES ASSUME TypeOK, FileInv, ResultInv, TallyInv, [BatchNext]_batchVars PROVE TallyInv'
  OBVIOUS
<1>1. CASE CreateFile
  <2>1. UNCHANGED <<job, collected>> /\ main' = "writing"
    BY <1>1 DEF CreateFile, workers
  <2>2. \A r \in Runs : job[r] = "none"
    BY <1>1 DEF CreateFile, FileInv, Prepared
  <2> QED
    BY <2>1, <2>2 DEF TallyInv, Planned, Accounted, Submitted
<1>2. CASE LoadFile
  <2>1. /\ saved' \subseteq saved /\ collected' = saved'
        /\ main' \in {"submitting", "writing"} /\ UNCHANGED job
    BY <1>2 DEF LoadFile, Lasting, workers
  <2>2. \A s, t \in saved : s.run = t.run => s = t
    BY DEF FileInv, OneRecordPerRun
  <2>3. \A r \in Runs : job[r] = "none"
    BY <1>2 DEF LoadFile, FileInv, Prepared
  <2> QED
    BY <2>1, <2>2, <2>3 DEF TallyInv, Planned, Accounted, Submitted
<1>3. CASE RefuseResume \/ FinishWrite \/ AbortWaited
  BY <1>3 DEF RefuseResume, FinishWrite, AbortWaited, TallyInv, Planned, Accounted, Submitted,
              disk, workers
<1>4. CASE Submit
  <2>1. /\ saved = Lasting(saved) /\ collected = saved
        /\ UNCHANGED <<planned, saved, collected>> /\ main' = "collecting"
        /\ \A r \in Runs : job'[r] = IF r \in planned \ DoneRuns THEN "queued" ELSE "none"
        /\ completed' = Cardinality(DoneRuns)
    BY <1>4 DEF Submit, FileInv, Prepared, disk
  <2>2. DoneRuns = {s.run : s \in saved} /\ DoneRuns \subseteq Runs /\ planned \subseteq Runs
    BY <2>1 DEF DoneRuns, TypeOK, Simulation
  <2>3. Pending' = planned \ DoneRuns
    BY <2>1, <2>2 DEF Pending, Running
  <2>4. completed' = Cardinality(Accountable') - Cardinality(Pending')
    <3>1. /\ IsFiniteSet(planned \ DoneRuns) /\ IsFiniteSet(DoneRuns)
          /\ (planned \ DoneRuns) \cap DoneRuns = {}
      BY <2>2, RunsFinite, FS_Subset
    <3>2. Cardinality((planned \ DoneRuns) \cup DoneRuns) =
            Cardinality(planned \ DoneRuns) + Cardinality(DoneRuns)
      <4>1. Cardinality({}) = 0
        BY FS_EmptySet
      <4>2. Cardinality(planned \ DoneRuns) \in Nat /\ Cardinality(DoneRuns) \in Nat
        BY <3>1, FS_CardinalityType
      <4>3. Cardinality((planned \ DoneRuns) \cup DoneRuns) =
              Cardinality(planned \ DoneRuns) + Cardinality(DoneRuns)
                - Cardinality((planned \ DoneRuns) \cap DoneRuns)
        BY <3>1, FS_Union
      <4> QED
        BY <3>1, <4>1, <4>2, <4>3
    <3>3. Accountable' = (planned \ DoneRuns) \cup DoneRuns
      BY <2>1, <2>2 DEF Accountable
    <3>4. Cardinality(planned \ DoneRuns) \in Nat /\ Cardinality(DoneRuns) \in Nat
      BY <3>1, FS_CardinalityType
    <3> QED
      BY <2>1, <2>3, <3>2, <3>3, <3>4
  <2>5. \A r \in planned : job'[r] \in {"none", "collected"} => \E s \in collected : s.run = r
    BY <2>1, <2>2
  <2>6. Planned'
    BY <2>1 DEF TallyInv, Planned, Lasting, TypeOK, Simulation, Kinds, Conversations
  <2>7. \A s, t \in collected : s.run = t.run => s = t
    BY DEF TallyInv, Accounted
  <2> QED
    BY <2>1, <2>4, <2>5, <2>6, <2>7 DEF TallyInv, Accounted, Submitted
<1>5. ASSUME NEW r \in Runs, Collect(r) PROVE TallyInv'
  <2>1. /\ job[r] = "returned" /\ job'[r] = "collected" /\ UNCHANGED <<planned, saved, completed>>
        /\ main = "collecting" /\ main' = main /\ collected' = collected \cup {result[r]}
        /\ \A q \in Runs \ {r} : job'[q] = job[q]
    BY <1>5 DEF Collect, TypeOK, disk
  <2>2. Pending' = Pending /\ Accountable' = Accountable
    BY <2>1 DEF Pending, Running, Accountable
  <2>3. result[r].run = r /\ \A s \in collected : s.run # r
    <3>1. \A s \in collected : job[s.run] \in {"none", "collected"}
      BY <2>1 DEF ResultInv, CollectedOnce
    <3> QED
      BY <2>1, <3>1 DEF FileInv, HoldsOwnRun
  <2>4. Planned'
    BY <2>1 DEF TallyInv, Planned
  <2> QED
    BY <2>1, <2>2, <2>3, <2>4 DEF TallyInv, Accounted, Submitted, TypeOK
<1>6. ASSUME NEW r \in Runs, CollectRaises(r) PROVE TallyInv'
  BY <1>6 DEF CollectRaises, TallyInv, Planned, Accounted, Accountable, Submitted, Pending, disk,
              workers
<1>7. CASE AllReturned \/ Interrupt
  BY <1>7 DEF AllReturned, Interrupt, TallyInv, Planned, Accounted, Accountable, Submitted, Pending,
              disk, workers
<1>8. CASE Die
  <2>1. main' = "starting" /\ collected' = {} /\ \A r \in Runs : job'[r] = "none"
    BY <1>8 DEF Die, Everywhere
  <2> QED
    BY <2>1 DEF TallyInv, Planned, Accounted, Submitted
<1>9. ASSUME NEW r \in Runs, Worker(r) PROVE TallyInv'
  <2>1. /\ main \in {"collecting", "aborting", "exiting"}
        /\ UNCHANGED <<main, collected, planned>>
        /\ r \in Pending /\ \A q \in Runs \ {r} : job'[q] = job[q]
        /\ \/ job'[r] \in {"queued"} \cup Running /\ completed' = completed
           \/ job'[r] \in {"returned", "raised"} /\ completed' = completed + 1
        /\ \A s \in saved' : s \in saved \/ s.run = r
        /\ \A s \in saved : s \in saved' \/ s.run = r
    BY <1>9, WorkerMoves
  <2>2. job[r] \notin {"none", "collected"} /\ job'[r] \notin {"none", "collected"} /\ r \in planned
    BY <2>1 DEF Pending, Running, TallyInv, Planned
  <2>3. Planned' /\ Accountable' = Accountable
    <3>1. \A s \in saved' : s.run \notin planned => s \in saved
      BY <2>1, <2>2
    <3>2. main \in Submitted /\ Planned
      BY <2>1 DEF Submitted, TallyInv
    <3>3. Planned'
      BY <2>1, <2>2, <3>1, <3>2 DEF Planned
    <3>4. Accountable' = Accountable
      BY <2>1, <2>2 DEF Accountable
    <3> QED
      BY <3>3, <3>4
  <2>4. completed' = Cardinality(Accountable) - Cardinality(Pending')
    <3>1. completed = Cardinality(Accountable) - Cardinality(Pending)
      BY <2>1 DEF TallyInv, Accounted, Submitted
    <3>2. IsFiniteSet(Pending) /\ Cardinality(Pending) \in Nat /\ Cardinality(Accountable) \in Nat
      <4>1. Accountable \subseteq Runs
        BY DEF Accountable, TypeOK, Simulation
      <4> QED
        BY <4>1, RunsFinite, FS_Subset DEF Pending
    <3>3. CASE job'[r] \in {"queued"} \cup Running
      <4>1. Pending' = Pending
        BY <2>1, <3>3 DEF Pending
      <4>2. completed' = completed
        BY <2>1, <3>3 DEF Running
      <4> QED
        BY <3>1, <4>1, <4>2
    <3>4. CASE job'[r] \in {"returned", "raised"}
      <4>1. Pending' = Pending \ {r}
        BY <2>1, <3>4 DEF Pending, Running
      <4>2. Cardinality(Pending \ {r}) = Cardinality(Pending) - 1
        BY <2>1, <3>2, FS_RemoveElement
      <4>3. completed' = completed + 1
        BY <2>1, <3>4 DEF Running
      <4> QED
        BY <3>1, <3>2, <4>1, <4>2, <4>3
    <3> QED
      BY <2>1, <3>3, <3>4
  <2>5. Accounted'
    BY <2>1, <2>2, <2>3, <2>4 DEF TallyInv, Accounted, Submitted, TypeOK
  <2> QED
    BY <2>3, <2>5 DEF TallyInv
<1>10. CASE UNCHANGED batchVars
  BY <1>10 DEF batchVars, TallyInv, Planned, Accounted, Accountable, Submitted, Pending, disk, workers
<1> QED
  BY <1>1, <1>2, <1>3, <1>4, <1>5, <1>6, <1>7, <1>8, <1>9, <1>10 DEF BatchNext, Main, Ended

\* As many simulations as runs, when each run has one.
LEMMA OneEach ==
  ASSUME NEW sims \in SUBSET Simulation, NEW runs \in SUBSET Runs,
         \A s \in sims : s.run \in runs,
         \A r \in runs : \E s \in sims : s.run = r,
         \A s, t \in sims : s.run = t.run => s = t
  PROVE  Cardinality(sims) = Cardinality(runs)
<1> DEFINE simOf == [r \in runs |-> CHOOSE s \in sims : s.run = r]
<1>1. \A r \in runs : simOf[r] \in sims /\ simOf[r].run = r
  OBVIOUS
<1>2. simOf \in [runs -> sims]
  BY <1>1
<1>3. \A s \in sims : simOf[s.run] = s
  BY <1>1
<1> HIDE DEF simOf
<1>4. simOf \in Bijection(runs, sims)
  BY <1>1, <1>2, <1>3 DEF Bijection, Injection, Surjection, IsInjective
<1>5. ExistsBijection(runs, sims)
  BY <1>4 DEF ExistsBijection
<1> QED
  BY <1>5, RunsFinite, FS_Subset, FS_Bijection

LEMMA TallyCorrect == BatchSpec => []TallyInv
<1>1. BatchInit => TallyInv
  <2> SUFFICES ASSUME BatchInit PROVE TallyInv
    OBVIOUS
  <2>1. saved = {} /\ collected = {} /\ main = "starting" /\ \A r \in Runs : job[r] = "none"
    BY DEF BatchInit, Everywhere
  <2> QED
    BY <2>1 DEF TallyInv, Planned, Accounted, Submitted
<1> QED
  BY <1>1, FileCorrect, ResultsCorrect, TallyStep, PTL DEF BatchSpec

\* A batch that completes returns what its checkpoint has: one simulation for each
\* planned run, and the conversations of runs that earlier configurations planned;
\* the monitor's count of both is exact at every step.
THEOREM Complete == BatchSpec => []DoneIsComplete
<1>1. TypeOK /\ FileInv /\ ResultInv /\ TallyInv => DoneIsComplete
  <2> SUFFICES ASSUME TypeOK, FileInv, ResultInv, TallyInv PROVE DoneIsComplete
    OBVIOUS
  <2>1. ASSUME main \in {"collecting", "aborting", "exiting", "done"}
        PROVE  completed = Cardinality(Accountable) - Cardinality(Pending)
    BY <2>1 DEF TallyInv, Accounted, Submitted
  <2>2. ASSUME main = "done"
        PROVE  /\ {Identity(s) : s \in collected} = {Identity(s) : s \in saved}
               /\ {s.run : s \in saved} = Accountable
               /\ Cardinality(collected) = Cardinality(Accountable)
               /\ \A s \in collected : s.run \notin planned => s.kind \in Conversations
    <3>1. \A r \in planned : \E s \in collected : s.run = r
      BY <2>2 DEF TallyInv, Accounted, Submitted, TypeOK
    <3>2. \A s \in collected : \E u \in saved : Identity(u) = Identity(s) /\ u.run = s.run
      BY IdentityFacts DEF ResultInv, CollectedOnDisk, TypeOK
    <3>3. \A u \in saved : u.run \notin planned => u \in collected /\ u.kind \in Conversations
      BY <2>2 DEF TallyInv, Planned, Submitted
    <3>4. ASSUME NEW u \in saved PROVE \E s \in collected : Identity(s) = Identity(u)
      <4>1. PICK s \in collected : s.run = u.run
        BY <3>1, <3>3
      <4>2. PICK v \in saved : Identity(v) = Identity(s) /\ v.run = s.run
        BY <3>2
      <4>3. v = u
        BY <4>1, <4>2 DEF FileInv, OneRecordPerRun
      <4> QED
        BY <4>2, <4>3
    <3>5. {Identity(s) : s \in collected} = {Identity(s) : s \in saved}
      BY <3>2, <3>4
    <3>6. {s.run : s \in saved} = Accountable
      BY <3>1, <3>2 DEF Accountable
    <3>7. Cardinality(collected) = Cardinality(Accountable)
      <4>1. \A s \in collected : s.run \in Accountable
        BY <3>2 DEF Accountable
      <4>2. \A r \in Accountable : \E s \in collected : s.run = r
        BY <3>1, <3>3 DEF Accountable
      <4>3. \A s, t \in collected : s.run = t.run => s = t
        BY DEF TallyInv, Accounted
      <4>4. collected \in SUBSET Simulation /\ Accountable \in SUBSET Runs
        BY DEF TypeOK, Accountable, Simulation
      <4> QED
        BY <4>1, <4>2, <4>3, <4>4, OneEach
    <3>8. ASSUME NEW s \in collected, s.run \notin planned PROVE s.kind \in Conversations
      <4>1. PICK u \in saved : u.run = s.run
        BY <3>2
      <4>2. u \in collected /\ u.kind \in Conversations
        BY <3>3, <3>8, <4>1
      <4>3. u = s
        BY <4>1, <4>2 DEF TallyInv, Accounted
      <4> QED
        BY <4>2, <4>3
    <3> QED
      BY <3>5, <3>6, <3>7, <3>8
  <2> QED
    BY <2>1, <2>2 DEF DoneIsComplete, Pending
<1> QED
  BY <1>1, FileCorrect, ResultsCorrect, TallyCorrect, PTL
=============================================================================
