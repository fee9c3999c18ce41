---------------------------- MODULE DirCheckpoint ----------------------------
(***************************************************************************)
(* The directory format of a checkpoint (voice runs): one JSON file per    *)
(* simulation in simulations/ and an index of them in results.json.        *)
(* _save_dir, _replace_dir and _flush_index (runner/checkpoint.py), the    *)
(* dir branches of try_resume, and Results.load / save / save_metadata     *)
(* (data_model/simulation.py), one action per change of the disk, so that  *)
(* the process may die between any two of them.                            *)
(***************************************************************************)
EXTENDS Integers, FiniteSets

CONSTANTS
  Keys,        \* the (trial, task, seed) keys of the batch
  MaxDeaths,   \* bound: how often the process dies
  MaxFailures, \* bound: how often writing a file fails
  NoOne        \* the lock is free

ASSUME DirAssumption == /\ {MaxDeaths, MaxFailures} \subseteq Nat
                        /\ NoOne \notin Keys

\* Simulation no. `no` of a run: an id of its own, and whether it is the
\* placeholder of an infrastructure error.
DirKinds == {"conversation", "infrastructure"}
DirSimulation == [run : Keys, no : Nat, kind : DirKinds]
Infrastructure(sims) == {s \in sims : s.kind = "infrastructure"}

VARIABLES
  dir,       \* does simulations/ exist
  meta,      \* results.json: "absent", "torn" or "whole"
  index,     \* its simulation_index
  files,     \* the simulation files
  temp,      \* is there a temporary file in simulations/
  dirMain,   \* where the main thread is
  phase,     \* per run: where its worker is
  current,   \* per run: the simulation its worker holds
  lock, at,  \* holder of the checkpoint lock, and its place under it
  savedKeys, \* _saved_keys, and the domain of _key_to_sim_id
  indexById, \* _index_by_id
  deaths, failures

dirDisk == <<dir, meta, index, files, temp>>
memory == <<savedKeys, indexById>>
worker == <<phase, current>>
bounds == <<deaths, failures>>
dirVars == <<dirDisk, dirMain, worker, lock, at, memory, bounds>>

KeysOf(sims) == {s.run : s \in sims}
Only(sims, r) == {s \in sims : s.run = r}
First(r) == [run |-> r, no |-> 0, kind |-> "infrastructure"]

DirInit ==
  /\ dir = FALSE /\ meta = "absent" /\ index = {} /\ files = {} /\ temp = FALSE
  /\ dirMain = "starting"
  /\ phase = [r \in Keys |-> "none"] /\ current = [r \in Keys |-> First(r)]
  /\ lock = NoOne /\ at = "free" /\ savedKeys = {} /\ indexById = {}
  /\ deaths = 0 /\ failures = 0
-----------------------------------------------------------------------------
(* The main thread: Results.save of an empty batch, or try_resume.         *)

\* Results.load: the metadata parses and lists exactly the files that match
\* *.json, to which a temporary left behind belongs.  A torn one has no index.
Loadable == meta = "whole" /\ ~temp /\ index = files

CreateDir ==
  /\ dirMain = "starting" /\ ~dir /\ meta = "absent"
  /\ dir' = TRUE /\ dirMain' = "creating"
  /\ UNCHANGED <<meta, index, files, temp, worker, lock, at, memory, bounds>>

\* The directory is written to when infrastructure errors are dropped from it or
\* tasks added to it.
Load ==
  /\ dirMain = "starting" /\ dir /\ Loadable
  /\ \E added \in BOOLEAN :
       dirMain' = IF added \/ Infrastructure(files) # {} THEN "dropping" ELSE "opening"
  /\ UNCHANGED <<dirDisk, worker, lock, at, memory, bounds>>

RefuseLoad ==
  /\ dirMain = "starting" /\ dir /\ ~Loadable
  /\ dirMain' = "refused"
  /\ UNCHANGED <<dirDisk, worker, lock, at, memory, bounds>>

\* Infrastructure errors lose their files first, one by one ...
DropFile ==
  /\ dirMain = "dropping"
  /\ \E s \in Infrastructure(files) : files' = files \ {s}
  /\ UNCHANGED <<dir, meta, index, temp, dirMain, worker, lock, at, memory, bounds>>

\* ... then results.json, and with it the index, is opened for writing, which
\* truncates it, and written anew; so it is when the batch is created.
OpenMeta ==
  /\ \/ dirMain = "creating"
     \/ dirMain = "dropping" /\ Infrastructure(files) = {}
  /\ meta' = "torn" /\ index' = {} /\ dirMain' = "writing"
  /\ UNCHANGED <<dir, files, temp, worker, lock, at, memory, bounds>>

WriteMeta ==
  /\ dirMain = "writing"
  /\ meta' = "whole" /\ index' = files /\ dirMain' = "opening"
  /\ UNCHANGED <<dir, files, temp, worker, lock, at, memory, bounds>>

\* create_checkpoint_fns seeds _index_by_id from the disk, and a job is
\* submitted for every run without a record that the configuration, which may be
\* another than before, plans.
Open ==
  /\ dirMain = "opening"
  /\ indexById' = index
  /\ \E wanted \in SUBSET Keys :
       phase' = [r \in Keys |-> IF r \in wanted \ KeysOf(files) THEN "executing" ELSE "none"]
  /\ dirMain' = "running"
  /\ UNCHANGED <<dirDisk, current, lock, at, savedKeys, bounds>>
-----------------------------------------------------------------------------
(* The workers.                                                            *)

Goto(r, there) == phase' = [phase EXCEPT ![r] = there]

\* The run produces a simulation, or a placeholder when its retries are used up.
DirExecute(r) ==
  /\ phase[r] = "executing"
  /\ \E kind \in DirKinds :
       current' = [current EXCEPT ![r] = [run |-> r, no |-> @.no + 1, kind |-> kind]]
  /\ Goto(r, "saving")
  /\ UNCHANGED <<dirDisk, dirMain, lock, at, memory, bounds>>

\* A hallucination was found in a saved conversation: the rerun replaces it.
DirRerun(r) ==
  /\ phase[r] = "saved" /\ current[r].kind = "conversation"
  /\ current' = [current EXCEPT ![r].no = @ + 1]
  /\ Goto(r, "replacing")
  /\ UNCHANGED <<dirDisk, dirMain, lock, at, memory, bounds>>

Return(r) ==
  /\ phase[r] = "saved"
  /\ Goto(r, "returned")
  /\ UNCHANGED <<dirDisk, dirMain, current, lock, at, memory, bounds>>

\* Mutant: without taking turns.
BeginSaveAnyway(r) ==
  /\ phase[r] = "saving" /\ r \notin savedKeys
  /\ lock' = r /\ at' = "write"
  /\ UNCHANGED <<dirDisk, dirMain, worker, memory, bounds>>

\* _save_dir takes the lock; a key it has saved before is skipped.
BeginSave(r) ==
  /\ phase[r] = "saving" /\ lock = NoOne
  /\ IF r \in savedKeys
     THEN Goto(r, "saved") /\ UNCHANGED <<lock, at>>
     ELSE lock' = r /\ at' = "write" /\ UNCHANGED phase
  /\ UNCHANGED <<dirDisk, dirMain, current, memory, bounds>>

\* _replace_dir takes the lock.
BeginReplace(r) ==
  /\ phase[r] = "replacing" /\ lock = NoOne
  /\ lock' = r /\ at' = "unlink"
  /\ UNCHANGED <<dirDisk, dirMain, worker, memory, bounds>>

\* Mutant: the index entry is forgotten.
UnlinkFile(r) ==
  /\ lock = r /\ at = "unlink" /\ at' = "write"
  /\ files' = IF r \in savedKeys THEN files \ Only(files, r) ELSE files
  /\ UNCHANGED <<dir, meta, index, temp, dirMain, worker, lock, memory, bounds>>

\* It removes the file it knows for the key, and its index entry in memory.
Unlink(r) ==
  /\ lock = r /\ at = "unlink"
  /\ IF r \in savedKeys
     THEN files' = files \ Only(files, r) /\ indexById' = indexById \ Only(indexById, r)
     ELSE UNCHANGED <<files, indexById>>
  /\ at' = "write"
  /\ UNCHANGED <<dir, meta, index, temp, dirMain, worker, lock, savedKeys, bounds>>

WriteTemp(r) ==
  /\ lock = r /\ at = "write"
  /\ temp' = TRUE /\ at' = "rename"
  /\ UNCHANGED <<dir, meta, index, files, dirMain, worker, lock, memory, bounds>>

\* os.replace, and the closures' tables.
Rename(r) ==
  /\ lock = r /\ at = "rename"
  /\ files' = files \cup {current[r]} /\ temp' = FALSE
  /\ savedKeys' = savedKeys \cup {r}
  /\ indexById' = indexById \cup {current[r]}
  /\ at' = "flush"
  /\ UNCHANGED <<dir, meta, index, dirMain, worker, lock, bounds>>

Release == lock' = NoOne /\ at' = "free"

\* _flush_index: results.json is replaced by one with the index in memory.
Flush(r) ==
  /\ lock = r /\ at = "flush"
  /\ index' = indexById
  /\ Release
  /\ Goto(r, IF phase[r] = "saving" THEN "saved" ELSE "returned")
  /\ UNCHANGED <<dir, meta, files, temp, dirMain, current, memory, bounds>>

\* Writing the temporary or flushing raises: the temporary is removed, and the
\* exception makes run_with_retry repeat the run, unless it comes from saving the
\* placeholder or from a hallucination rerun, which it ends.
Fail(r) ==
  /\ failures < MaxFailures
  /\ lock = r /\ at \in {"rename", "flush"}
  /\ failures' = failures + 1
  /\ temp' = FALSE
  /\ Release
  /\ Goto(r, IF phase[r] = "saving" /\ current[r].kind = "conversation"
             THEN "executing" ELSE "raised")
  /\ UNCHANGED <<dir, meta, index, files, dirMain, current, memory, deaths>>

\* The process dies; what the disk holds is all that is left.
DirDie ==
  /\ deaths < MaxDeaths
  /\ dirMain \notin {"starting", "refused"}
  /\ deaths' = deaths + 1 /\ dirMain' = "starting"
  /\ phase' = [r \in Keys |-> "none"]
  /\ Release
  /\ savedKeys' = {} /\ indexById' = {}
  /\ UNCHANGED <<dirDisk, current, failures>>

DirMain == CreateDir \/ Load \/ RefuseLoad \/ DropFile \/ OpenMeta \/ WriteMeta \/ Open
DirWorker(r) ==
  \/ DirExecute(r) \/ DirRerun(r) \/ Return(r) \/ BeginSave(r) \/ BeginReplace(r)
  \/ Unlink(r) \/ WriteTemp(r) \/ Rename(r) \/ Flush(r) \/ Fail(r)
DirFinished == dirMain = "running" /\ \A r \in Keys : phase[r] \in {"none", "returned", "raised"}
DirEnded == (dirMain = "refused" \/ DirFinished) /\ UNCHANGED dirVars

DirNext == DirMain \/ (\E r \in Keys : DirWorker(r)) \/ DirDie \/ DirEnded
DirSpec == DirInit /\ [][DirNext]_dirVars
-----------------------------------------------------------------------------
(* Properties.                                                             *)

\* The types of the variables.
DirTypeOK ==
  /\ dir \in BOOLEAN /\ temp \in BOOLEAN
  /\ meta \in {"absent", "torn", "whole"}
  /\ index \subseteq DirSimulation /\ files \subseteq DirSimulation /\ indexById \subseteq DirSimulation
  /\ dirMain \in {"starting", "creating", "dropping", "writing", "opening", "running", "refused"}
  /\ phase \in [Keys -> {"none", "executing", "saving", "saved", "replacing",
                         "returned", "raised"}]
  /\ current \in [Keys -> DirSimulation]
  /\ lock \in Keys \cup {NoOne}
  /\ at \in IF lock = NoOne THEN {"free"} ELSE {"unlink", "write", "rename", "flush"}
  /\ savedKeys \subseteq Keys
  /\ deaths \in 0..MaxDeaths /\ failures \in 0..MaxFailures

\* No run ever has two simulation files or two index entries, not even while
\* one simulation is being exchanged for another.
OnePerRun ==
  \A sims \in {files, index, indexById} : \A s, t \in sims : s.run = t.run => s = t

\* As long as no write fails, at most one run's record differs between the files
\* and the index, and it is the one whose worker holds the lock: whenever nobody
\* does the directory can be loaded, and has the simulations of the workers that
\* have returned.
OnlyHolderInDoubt ==
  dirMain = "running" /\ failures = 0 =>
    /\ \A r \in Keys : Only(files, r) # Only(index, r) => lock = r
    /\ lock = NoOne => Loadable
    /\ \A r \in Keys : phase[r] = "returned" => Only(index, r) = {current[r]}

\* The index in memory follows the files step by step, through failed writes
\* as well: it never lists a file that is gone nor misses one that is there, so
\* the next flush that succeeds repairs what failed ones left behind.
MemoryMatchesFiles == dirMain = "running" => indexById = files

\* The files and both indexes, at every step of every save.
FilesIndexed == OnePerRun /\ MemoryMatchesFiles

\* The index is a checkpoint store: rows appear, are exchanged and are dropped
\* at one stroke, however many steps the disk takes.  While results.json is
\* written anew the rows are those about to be written.  There are two
\* exceptions: a death in that window, which costs the whole index, and a write
\* that fails, after which the next flush makes several changes at once.
Rows == IF dirMain = "writing" THEN files ELSE index
DirStore == INSTANCE CheckpointStore WITH recorded <- Rows

DirImplementsStore ==
  DirStore!Init /\ [][failures = 0 /\ ~(meta = "torn" /\ dirMain' = "starting")
                        => DirStore!Next]_Rows
=============================================================================
