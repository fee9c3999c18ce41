-------------------------- MODULE DirCheckpointProofs --------------------------
(***************************************************************************)
(* Theorems about DirCheckpoint, for every set of runs and every number of *)
(* deaths and failed writes: types, what the files and the indexes have to *)
(* do with each other, and that the index implements CheckpointStore.      *)
(***************************************************************************)
EXTENDS DirCheckpoint, TLAPS

-----------------------------------------------------------------------------
(* The inductive invariant.                                                *)

\* Each worker holds a simulation of its own run, and replaces by conversations only.
HoldsOwn == \A r \in Keys :
  /\ current[r].run = r
  /\ phase[r] = "replacing" => current[r].kind = "conversation"

\* Where the main thread is, the disk has been prepared as it says: nothing
\* before the directory is there, the index of a loaded batch, and on the way
\* to a new one files that lack nothing but infrastructure errors.
Prepared ==
  /\ ~dir => files = {} /\ index = {} /\ ~temp
  /\ dirMain \notin {"starting", "refused"} => dir /\ (temp <=> at = "rename")
  /\ dirMain = "creating" => files = {} /\ index = {}
  /\ dirMain = "dropping" => files \subseteq index /\ index \ Infrastructure(index) \subseteq files
  /\ dirMain = "writing" => index = {} /\ meta = "torn" /\ Infrastructure(files) = {}
  /\ dirMain = "opening" => files = index
  /\ dirMain \in {"opening", "running"} => meta = "whole"

\* Workers are about only while the batch runs, and the lock is held by one
\* that saves or replaces, which has removed what it is going to write.
Exclusive ==
  /\ dirMain # "running" => lock = NoOne /\ savedKeys = {} /\ \A r \in Keys : phase[r] = "none"
  /\ lock # NoOne =>
       /\ phase[lock] \in {"saving", "replacing"}
       /\ at = "unlink" => phase[lock] = "replacing"
       /\ at \in {"write", "rename"} => Only(files, lock) = {}
       /\ at = "flush" => lock \in savedKeys

\* _saved_keys knows every file written by this process.
KeysKnown == \A r \in Keys :
  /\ phase[r] # "none" /\ r \notin savedKeys => Only(files, r) = {}
  /\ phase[r] \in {"saved", "replacing", "returned"} => r \in savedKeys

DiskInv == HoldsOwn /\ Prepared /\ Exclusive /\ KeysKnown /\ FilesIndexed

\* While no write has failed, the index follows the files but for the holder of
\* the lock, and both hold what the workers have: nothing until the first save
\* is through, one simulation from then on.
Followed ==
  dirMain = "running" /\ failures = 0 => \A r \in Keys :
    /\ Only(files, r) # Only(index, r) => lock = r
    /\ phase[r] \in {"executing", "saving"} => Only(index, r) = {}
    /\ phase[r] = "executing" => r \notin savedKeys
    /\ phase[r] = "saving" /\ r \in savedKeys => lock = r /\ at = "flush"
    /\ phase[r] \in {"saved", "returned"} => Only(files, r) = {current[r]}
    /\ phase[r] = "replacing" => Only(index, r) # {}
    /\ lock = r /\ at = "flush" => Only(files, r) = {current[r]}
-----------------------------------------------------------------------------
(* Types.                                                                  *)

LEMMA TypeStep == DirTypeOK /\ HoldsOwn /\ [DirNext]_dirVars => DirTypeOK'
<1> SUFFICES ASSUME DirTypeOK, HoldsOwn, [DirNext]_dirVars PROVE DirTypeOK'
  OBVIOUS
<1> USE DirAssumption
<1>1. CASE CreateDir \/ Load \/ RefuseLoad \/ DropFile \/ OpenMeta \/ WriteMeta
  BY <1>1 DEF DirTypeOK, CreateDir, Load, RefuseLoad, DropFile, OpenMeta, WriteMeta,
              dirDisk, memory, worker, bounds
<1>2. CASE Open
  BY <1>2 DEF DirTypeOK, Open, dirDisk, bounds
<1>3. ASSUME NEW r \in Keys, DirExecute(r) PROVE DirTypeOK'
  <2>1. current' \in [Keys -> DirSimulation]
    BY <1>3 DEF DirExecute, DirTypeOK, DirSimulation
  <2> QED
    BY <1>3, <2>1 DEF DirTypeOK, DirExecute, Goto, dirDisk, memory, bounds
<1>4. ASSUME NEW r \in Keys, DirRerun(r) PROVE DirTypeOK'
  <2>1. current' \in [Keys -> DirSimulation]
    BY <1>4 DEF DirRerun, DirTypeOK, DirSimulation
  <2> QED
    BY <1>4, <2>1 DEF DirTypeOK, DirRerun, Goto, dirDisk, memory, bounds
<1>5. ASSUME NEW r \in Keys, Return(r) \/ BeginSave(r) \/ BeginReplace(r) PROVE DirTypeOK'
  BY <1>5 DEF DirTypeOK, Return, BeginSave, BeginReplace, Goto, dirDisk, memory, worker, bounds
<1>6. ASSUME NEW r \in Keys, Unlink(r) \/ WriteTemp(r) \/ Rename(r) PROVE DirTypeOK'
  BY <1>6 DEF DirTypeOK, Unlink, WriteTemp, Rename, Only, dirDisk, memory, worker, bounds
<1>7. ASSUME NEW r \in Keys, Flush(r) \/ Fail(r) PROVE DirTypeOK'
  <2>1. PICK there \in {"saved", "returned", "executing", "raised"} : Goto(r, there)
    BY <1>7 DEF Flush, Fail
  <2>2. /\ phase' \in [Keys -> {"none", "executing", "saving", "saved", "replacing",
                                "returned", "raised"}]
        /\ lock' = NoOne /\ at' = "free"
    BY <1>7, <2>1 DEF Goto, DirTypeOK, Flush, Fail, Release
  <2>3. CASE Flush(r)
    BY <2>2, <2>3 DEF DirTypeOK, Flush, memory, bounds
  <2>4. CASE Fail(r)
    <3>1. failures' \in 0..MaxFailures /\ temp' = FALSE
      BY <2>4 DEF DirTypeOK, Fail
    <3>2. UNCHANGED <<dir, meta, index, files, dirMain, current, savedKeys, indexById, deaths>>
      BY <2>4 DEF Fail, memory
    <3> QED
      BY <2>2, <3>1, <3>2 DEF DirTypeOK
  <2> QED
    BY <1>7, <2>3, <2>4
<1>8. CASE DirDie
  BY <1>8 DEF DirTypeOK, DirDie, Release, dirDisk
<1>9. CASE UNCHANGED dirVars
  BY <1>9 DEF DirTypeOK, dirVars, dirDisk, memory, worker, bounds
<1> QED
  BY <1>1, <1>2, <1>3, <1>4, <1>5, <1>6, <1>7, <1>8, <1>9 DEF DirNext, DirMain, DirWorker, DirEnded

LEMMA HoldsStep == DirTypeOK /\ HoldsOwn /\ [DirNext]_dirVars => HoldsOwn'
<1> SUFFICES ASSUME DirTypeOK, HoldsOwn, [DirNext]_dirVars PROVE HoldsOwn'
  OBVIOUS
<1>1. ASSUME NEW r \in Keys, DirExecute(r) PROVE HoldsOwn'
  <2>1. PICK kind \in DirKinds :
          current' = [current EXCEPT ![r] = [run |-> r, no |-> @.no + 1, kind |-> kind]]
    BY <1>1 DEF DirExecute
  <2>2. phase'[r] = "saving" /\ current'[r].run = r
    BY <1>1, <2>1 DEF DirExecute, Goto, DirTypeOK
  <2>3. \A q \in Keys \ {r} : phase'[q] = phase[q] /\ current'[q] = current[q]
    BY <1>1, <2>1 DEF DirExecute, Goto, DirTypeOK
  <2> QED
    BY <2>2, <2>3 DEF HoldsOwn
<1>2. ASSUME NEW r \in Keys, DirRerun(r) PROVE HoldsOwn'
  <2>1. current[r] \in DirSimulation
    BY DEF DirTypeOK
  <2>2. current'[r].run = r /\ current'[r].kind = "conversation"
    BY <1>2, <2>1 DEF DirRerun, DirTypeOK, HoldsOwn, DirSimulation
  <2>3. \A q \in Keys \ {r} : phase'[q] = phase[q] /\ current'[q] = current[q]
    BY <1>2 DEF DirRerun, Goto, DirTypeOK
  <2> QED
    BY <2>2, <2>3 DEF HoldsOwn
<1>3. ASSUME NEW r \in Keys,
             Return(r) \/ BeginSave(r) \/ BeginReplace(r) \/ Unlink(r) \/ WriteTemp(r)
               \/ Rename(r) \/ Flush(r) \/ Fail(r)
      PROVE  HoldsOwn'
  <2>1. /\ current' = current
        /\ \/ phase' = phase
           \/ \E there \in {"returned", "saved", "executing", "raised"} : Goto(r, there)
    BY <1>3 DEF Return, BeginSave, BeginReplace, Unlink, WriteTemp, Rename, Flush, Fail, worker
  <2> QED
    BY <2>1 DEF HoldsOwn, Goto, DirTypeOK
<1>4. CASE DirMain \/ DirDie \/ UNCHANGED dirVars
  <2>1. /\ current' = current
        /\ phase' = phase \/ \A r \in Keys : phase'[r] \in {"none", "executing"}
    BY <1>4 DEF DirMain, CreateDir, Load, RefuseLoad, DropFile, OpenMeta, WriteMeta, Open,
                DirDie, dirVars, worker
  <2> QED
    BY <2>1 DEF HoldsOwn
<1> QED
  BY <1>1, <1>2, <1>3, <1>4 DEF DirNext, DirWorker, DirEnded
-----------------------------------------------------------------------------
(* The main thread's disk and the lock.                                    *)

\* A worker that is not idle, or holds the lock, belongs to a batch that runs.
LEMMA WorkerRuns ==
  ASSUME DirTypeOK, Exclusive, NEW r \in Keys, DirWorker(r)
  PROVE  dirMain = "running" /\ dirMain' = dirMain /\ dir' = dir /\ meta' = meta
<1>1. lock # NoOne \/ phase[r] # "none"
  BY DirAssumption DEF DirWorker, DirExecute, DirRerun, Return, BeginSave, BeginReplace, Unlink,
                       WriteTemp, Rename, Flush, Fail
<1>2. dirMain' = dirMain /\ dir' = dir /\ meta' = meta
  BY DEF DirWorker, DirExecute, DirRerun, Return, BeginSave, BeginReplace, Unlink, WriteTemp,
         Rename, Flush, Fail, dirDisk, memory, worker, bounds
<1> QED
  BY <1>1, <1>2 DEF Exclusive

LEMMA PreparedStep == DirTypeOK /\ Prepared /\ Exclusive /\ [DirNext]_dirVars => Prepared'
<1> SUFFICES ASSUME DirTypeOK, Prepared, Exclusive, [DirNext]_dirVars PROVE Prepared'
  OBVIOUS
<1>1. CASE CreateDir \/ RefuseLoad
  BY <1>1 DEF Prepared, Exclusive, DirTypeOK, CreateDir, RefuseLoad, dirDisk, worker, memory, bounds
<1>2. CASE Load
  <2>1. /\ dirMain = "starting" /\ dir /\ Loadable /\ dirMain' \in {"dropping", "opening"}
        /\ UNCHANGED <<dir, meta, index, files, temp, at>>
    BY <1>2 DEF Load, dirDisk
  <2> QED
    BY <2>1 DEF Prepared, Exclusive, DirTypeOK, Loadable
<1>3. CASE DropFile
  <2>1. PICK s \in Infrastructure(files) : files' = files \ {s}
    BY <1>3 DEF DropFile
  <2>2. index \ Infrastructure(index) \subseteq files'
    BY <1>3, <2>1 DEF DropFile, Prepared, Infrastructure
  <2> QED
    BY <1>3, <2>1, <2>2 DEF DropFile, Prepared, Infrastructure, worker, memory, bounds
<1>4. CASE OpenMeta
  <2>1. Infrastructure(files) = {}
    BY <1>4 DEF OpenMeta, Prepared, Infrastructure
  <2> QED
    BY <1>4, <2>1 DEF OpenMeta, Prepared, worker, memory, bounds
<1>5. CASE WriteMeta \/ Open
  BY <1>5 DEF WriteMeta, Open, Prepared, dirDisk, worker, memory, bounds
<1>6. ASSUME NEW r \in Keys, DirExecute(r) \/ DirRerun(r) \/ Return(r) PROVE Prepared'
  BY <1>6 DEF DirExecute, DirRerun, Return, Prepared, Infrastructure, dirDisk, memory, bounds
<1>7. ASSUME NEW r \in Keys,
             BeginSave(r) \/ BeginReplace(r) \/ Unlink(r) \/ WriteTemp(r) \/ Rename(r)
               \/ Flush(r) \/ Fail(r)
      PROVE  Prepared'
  <2>1. dirMain = "running" /\ dirMain' = dirMain /\ dir' = dir /\ meta' = meta
    BY <1>7, WorkerRuns DEF DirWorker
  <2>2. dir /\ meta = "whole" /\ (temp <=> at = "rename") /\ (lock = NoOne => at = "free")
    BY <2>1 DEF Prepared, DirTypeOK
  <2>3. CASE BeginSave(r)
    BY <2>1, <2>2, <2>3 DEF BeginSave, Prepared, dirDisk
  <2>4. CASE BeginReplace(r) \/ Unlink(r)
    BY <2>1, <2>2, <2>4 DEF BeginReplace, Unlink, Prepared, dirDisk
  <2>5. CASE WriteTemp(r) \/ Rename(r) \/ Flush(r) \/ Fail(r)
    BY <2>1, <2>2, <2>5 DEF WriteTemp, Rename, Flush, Fail, Release, Prepared
  <2> QED
    BY <1>7, <2>3, <2>4, <2>5
<1>8. CASE DirDie
  BY <1>8 DEF DirDie, Prepared, dirDisk
<1>9. CASE UNCHANGED dirVars
  BY <1>9 DEF Prepared, dirVars, Infrastructure, dirDisk, memory, worker, bounds
<1> QED
  BY <1>1, <1>2, <1>3, <1>4, <1>5, <1>6, <1>7, <1>8, <1>9 DEF DirNext, DirMain, DirWorker, DirEnded


LEMMA ExclusiveStep == DirTypeOK /\ Exclusive /\ KeysKnown /\ [DirNext]_dirVars => Exclusive'
<1> SUFFICES ASSUME DirTypeOK, Exclusive, KeysKnown, [DirNext]_dirVars PROVE Exclusive'
  OBVIOUS
<1>1. CASE CreateDir \/ Load \/ RefuseLoad \/ DropFile \/ OpenMeta \/ WriteMeta
  <2>1. /\ dirMain # "running" /\ dirMain' # "running"
        /\ UNCHANGED <<lock, savedKeys, phase>>
    BY <1>1 DEF CreateDir, Load, RefuseLoad, DropFile, OpenMeta, WriteMeta, worker, memory
  <2> QED
    BY <2>1 DEF Exclusive
<1>2. CASE Open
  BY <1>2 DEF Open, Exclusive
<1>3. ASSUME NEW r \in Keys, DirExecute(r) \/ DirRerun(r) \/ Return(r) PROVE Exclusive'
  <2>1. /\ UNCHANGED <<lock, at, savedKeys, files>>
        /\ phase[r] \in {"executing", "saved"}
        /\ \A q \in Keys \ {r} : phase'[q] = phase[q]
    BY <1>3 DEF DirExecute, DirRerun, Return, Goto, DirTypeOK, dirDisk, memory
  <2> QED
    BY <1>3, <2>1, WorkerRuns DEF Exclusive, DirTypeOK, DirWorker, Only
<1>4. ASSUME NEW r \in Keys, BeginSave(r) \/ BeginReplace(r) PROVE Exclusive'
  <2>1. /\ lock = NoOne /\ UNCHANGED <<savedKeys, files>> /\ dirMain' = "running"
        /\ \/ lock' = NoOne
           \/ /\ lock' = r /\ phase' = phase
              /\ \/ at' = "write" /\ phase[r] = "saving" /\ r \notin savedKeys
                 \/ at' = "unlink" /\ phase[r] = "replacing"
    BY <1>4, WorkerRuns DEF BeginSave, BeginReplace, Exclusive, DirWorker, dirDisk, memory, worker
  <2> QED
    BY <2>1, DirAssumption DEF Exclusive, KeysKnown, Only
<1>5. ASSUME NEW r \in Keys, Unlink(r) \/ WriteTemp(r) \/ Rename(r) PROVE Exclusive'
  <2>1. /\ lock = r /\ lock' = r /\ phase' = phase /\ dirMain' = "running"
        /\ phase[r] \in {"saving", "replacing"}
    BY <1>5, WorkerRuns, DirAssumption DEF Unlink, WriteTemp, Rename, worker, Exclusive, DirWorker
  <2>2. CASE Unlink(r)
    <3>1. r \in savedKeys
      BY <2>1, <2>2, DirAssumption DEF Unlink, Exclusive, KeysKnown
    <3>2. at' = "write" /\ Only(files', r) = {}
      BY <2>2, <3>1 DEF Unlink, Only
    <3> QED
      BY <2>1, <3>2 DEF Exclusive
  <2>3. CASE WriteTemp(r)
    BY <2>1, <2>3, DirAssumption DEF WriteTemp, Exclusive
  <2>4. CASE Rename(r)
    BY <2>1, <2>4 DEF Rename, Exclusive
  <2> QED
    BY <1>5, <2>2, <2>3, <2>4
<1>6. ASSUME NEW r \in Keys, Flush(r) \/ Fail(r) PROVE Exclusive'
  BY <1>6, WorkerRuns DEF Flush, Fail, Release, Exclusive, DirWorker
<1>7. CASE DirDie
  BY <1>7 DEF DirDie, Release, Exclusive
<1>8. CASE UNCHANGED dirVars
  BY <1>8 DEF dirVars, dirDisk, memory, worker, Exclusive, Only
<1> QED
  BY <1>1, <1>2, <1>3, <1>4, <1>5, <1>6, <1>7, <1>8 DEF DirNext, DirMain, DirWorker, DirEnded

LEMMA KeysStep == DirTypeOK /\ HoldsOwn /\ Exclusive /\ KeysKnown /\ [DirNext]_dirVars => KeysKnown'
<1> SUFFICES ASSUME DirTypeOK, HoldsOwn, Exclusive, KeysKnown, [DirNext]_dirVars PROVE KeysKnown'
  OBVIOUS
<1>1. CASE CreateDir \/ Load \/ RefuseLoad \/ DropFile \/ OpenMeta \/ WriteMeta
  <2>1. dirMain # "running" /\ phase' = phase
    BY <1>1 DEF CreateDir, Load, RefuseLoad, DropFile, OpenMeta, WriteMeta, worker
  <2> QED
    BY <2>1 DEF Exclusive, KeysKnown
<1>2. CASE Open
  BY <1>2 DEF Open, KeysKnown, Only, KeysOf, dirDisk
<1>3. ASSUME NEW r \in Keys, DirExecute(r) \/ DirRerun(r) \/ Return(r) PROVE KeysKnown'
  <2>1. /\ UNCHANGED <<savedKeys, files>>
        /\ phase[r] # "none"
        /\ phase'[r] \in {"saved", "replacing", "returned"} => phase[r] = "saved"
        /\ \A q \in Keys \ {r} : phase'[q] = phase[q]
    BY <1>3 DEF DirExecute, DirRerun, Return, Goto, DirTypeOK, dirDisk, memory
  <2> QED
    BY <2>1 DEF KeysKnown, Only
<1>4. ASSUME NEW r \in Keys, BeginSave(r) \/ BeginReplace(r) PROVE KeysKnown'
  <2>1. /\ UNCHANGED <<savedKeys, files>> /\ phase[r] # "none"
        /\ phase'[r] = phase[r] \/ r \in savedKeys
        /\ \A q \in Keys \ {r} : phase'[q] = phase[q]
    BY <1>4 DEF BeginSave, BeginReplace, Goto, DirTypeOK, dirDisk, memory, worker
  <2> QED
    BY <2>1 DEF KeysKnown, Only
<1>5. ASSUME NEW r \in Keys, Unlink(r) \/ WriteTemp(r) PROVE KeysKnown'
  BY <1>5 DEF Unlink, WriteTemp, KeysKnown, Only, memory, worker
<1>6. ASSUME NEW r \in Keys, Rename(r) PROVE KeysKnown'
  BY <1>6 DEF Rename, KeysKnown, HoldsOwn, Only, worker
<1>7. ASSUME NEW r \in Keys, Flush(r) \/ Fail(r) PROVE KeysKnown'
  <2>1. /\ UNCHANGED <<savedKeys, files>> /\ lock = r
        /\ \A q \in Keys \ {r} : phase'[q] = phase[q]
    BY <1>7 DEF Flush, Fail, Goto, DirTypeOK, memory
  <2>2. phase[r] # "none"
    BY <2>1, DirAssumption DEF Exclusive
  <2>3. phase'[r] \in {"saved", "replacing", "returned"} => r \in savedKeys
    BY <1>7, DirAssumption DEF Flush, Fail, Goto, DirTypeOK, Exclusive
  <2> QED
    BY <2>1, <2>2, <2>3 DEF KeysKnown, Only
<1>8. CASE DirDie
  BY <1>8 DEF DirDie, KeysKnown
<1>9. CASE UNCHANGED dirVars
  BY <1>9 DEF dirVars, dirDisk, memory, worker, KeysKnown, Only
<1> QED
  BY <1>1, <1>2, <1>3, <1>4, <1>5, <1>6, <1>7, <1>8, <1>9 DEF DirNext, DirMain, DirWorker, DirEnded
-----------------------------------------------------------------------------
(* Files and indexes.                                                      *)

LEMMA IndexedStep == DirTypeOK /\ DiskInv /\ [DirNext]_dirVars => FilesIndexed'
<1> SUFFICES ASSUME DirTypeOK, DiskInv, [DirNext]_dirVars PROVE FilesIndexed'
  OBVIOUS
<1>1. CASE CreateDir \/ Load \/ RefuseLoad \/ DropFile \/ OpenMeta \/ WriteMeta
  <2>1. /\ dirMain' # "running" /\ indexById' = indexById /\ files' \subseteq files
        /\ index' = index \/ index' = files \/ index' = {}
    BY <1>1 DEF CreateDir, Load, RefuseLoad, DropFile, OpenMeta, WriteMeta, dirDisk, memory
  <2> QED
    BY <2>1 DEF DiskInv, FilesIndexed, OnePerRun, MemoryMatchesFiles
<1>2. CASE Open
  BY <1>2 DEF Open, DiskInv, Prepared, FilesIndexed, OnePerRun, MemoryMatchesFiles, dirDisk
<1>3. ASSUME NEW r \in Keys, Unlink(r) PROVE FilesIndexed'
  <2>1. dirMain = "running" /\ dirMain' = "running" /\ indexById = files
    BY <1>3, WorkerRuns DEF DirWorker, DiskInv, FilesIndexed, MemoryMatchesFiles
  <2>2. files' \subseteq files /\ indexById' = files' /\ index' = index
    BY <1>3, <2>1 DEF Unlink
  <2> QED
    BY <2>1, <2>2 DEF DiskInv, FilesIndexed, OnePerRun, MemoryMatchesFiles
<1>4. ASSUME NEW r \in Keys, Rename(r) PROVE FilesIndexed'
  <2>1. dirMain = "running" /\ dirMain' = "running" /\ indexById = files
    BY <1>4, WorkerRuns DEF DirWorker, DiskInv, FilesIndexed, MemoryMatchesFiles
  <2>2. Only(files, r) = {} /\ current[r].run = r
    BY <1>4, DirAssumption DEF Rename, DiskInv, Exclusive, HoldsOwn
  <2>3. files' = files \cup {current[r]} /\ indexById' = files' /\ index' = index
    BY <1>4, <2>1 DEF Rename
  <2>4. \A s, t \in files' : s.run = t.run => s = t
    BY <2>2, <2>3 DEF Only, DiskInv, FilesIndexed, OnePerRun
  <2> QED
    BY <2>3, <2>4 DEF DiskInv, FilesIndexed, OnePerRun, MemoryMatchesFiles
<1>5. ASSUME NEW r \in Keys, Flush(r) PROVE FilesIndexed'
  BY <1>5 DEF Flush, DiskInv, FilesIndexed, OnePerRun, MemoryMatchesFiles, memory
<1>6. ASSUME NEW r \in Keys,
             DirExecute(r) \/ DirRerun(r) \/ Return(r) \/ BeginSave(r) \/ BeginReplace(r)
               \/ WriteTemp(r) \/ Fail(r)
      PROVE  FilesIndexed'
  <2>1. UNCHANGED <<files, index, indexById, dirMain>>
    BY <1>6 DEF DirExecute, DirRerun, Return, BeginSave, BeginReplace, WriteTemp, Fail, dirDisk, memory
  <2> QED
    BY <2>1 DEF DiskInv, FilesIndexed, OnePerRun, MemoryMatchesFiles
<1>7. CASE DirDie
  BY <1>7 DEF DirDie, DiskInv, FilesIndexed, OnePerRun, MemoryMatchesFiles, dirDisk
<1>8. CASE UNCHANGED dirVars
  BY <1>8 DEF dirVars, dirDisk, memory, DiskInv, FilesIndexed, OnePerRun, MemoryMatchesFiles
<1> QED
  BY <1>1, <1>2, <1>3, <1>4, <1>5, <1>6, <1>7, <1>8 DEF DirNext, DirMain, DirWorker, DirEnded

LEMMA DiskCorrect == DirSpec => [](DirTypeOK /\ DiskInv)
<1>1. DirInit => DirTypeOK /\ DiskInv
  <2> SUFFICES ASSUME DirInit PROVE DirTypeOK /\ DiskInv
    OBVIOUS
  <2>1. current \in [Keys -> DirSimulation] /\ \A r \in Keys : current[r].run = r
    BY DEF DirInit, First, DirSimulation, DirKinds
  <2>2. DirTypeOK
    <3>1. 0 \in 0..MaxDeaths /\ 0 \in 0..MaxFailures
      BY DirAssumption
    <3>2. phase \in [Keys -> {"none"}]
      BY DEF DirInit
    <3> QED
      BY <2>1, <3>1, <3>2 DEF DirInit, DirTypeOK
  <2>3. HoldsOwn /\ Exclusive /\ KeysKnown
    BY <2>1 DEF DirInit, HoldsOwn, Exclusive, KeysKnown
  <2>4. Prepared /\ FilesIndexed
    BY DEF DirInit, Prepared, FilesIndexed, OnePerRun, MemoryMatchesFiles
  <2> QED
    BY <2>2, <2>3, <2>4 DEF DiskInv
<1>2. DirTypeOK /\ DiskInv /\ [DirNext]_dirVars => (DirTypeOK /\ DiskInv)'
  BY TypeStep, HoldsStep, PreparedStep, ExclusiveStep, KeysStep, IndexedStep DEF DiskInv
<1> QED
  BY <1>1, <1>2, PTL DEF DirSpec

\* Every variable of the directory checkpoint keeps its type.
THEOREM TypeCorrect == DirSpec => []DirTypeOK
BY DiskCorrect, PTL

\* At no step of a save or a replacement, whatever writes fail and whenever the
\* process dies, has a run two files or index entries, and the index in memory is
\* that of the files.
THEOREM Indexed == DirSpec => []FilesIndexed
<1>1. DirTypeOK /\ DiskInv => FilesIndexed
  BY DEF DiskInv
<1> QED
  BY <1>1, DiskCorrect, PTL
-----------------------------------------------------------------------------
(* While no write fails.                                                   *)

LEMMA FollowedStep == DirTypeOK /\ DiskInv /\ Followed /\ [DirNext]_dirVars => Followed'
<1> SUFFICES ASSUME DirTypeOK, DiskInv, Followed, [DirNext]_dirVars,
                    dirMain' = "running", failures' = 0
             PROVE  Followed'
  BY DEF Followed
<1> DEFINE Mine(q) ==
      /\ Only(files, q) # Only(index, q) => lock = q
      /\ phase[q] \in {"executing", "saving"} => Only(index, q) = {}
      /\ phase[q] = "executing" => q \notin savedKeys
      /\ phase[q] = "saving" /\ q \in savedKeys => lock = q /\ at = "flush"
      /\ phase[q] \in {"saved", "returned"} => Only(files, q) = {current[q]}
      /\ phase[q] = "replacing" => Only(index, q) # {}
      /\ lock = q /\ at = "flush" => Only(files, q) = {current[q]}
<1>1. SUFFICES ASSUME NEW q \in Keys PROVE Mine(q)'
  BY DEF Followed
<1>2. CASE CreateDir \/ Load \/ RefuseLoad \/ DropFile \/ OpenMeta \/ WriteMeta
  BY <1>2 DEF CreateDir, Load, RefuseLoad, DropFile, OpenMeta, WriteMeta
<1>3. CASE Open
  <2>1. files = index /\ lock = NoOne /\ savedKeys = {}
    BY <1>3 DEF Open, DiskInv, Prepared, Exclusive
  <2>2. /\ UNCHANGED <<files, index, lock, at, savedKeys>>
        /\ phase'[q] \in {"none", "executing"}
        /\ q \in KeysOf(files) => phase'[q] = "none"
    BY <1>3 DEF Open, dirDisk
  <2>3. q \notin KeysOf(files) => Only(files, q) = {}
    BY DEF KeysOf, Only
  <2> QED
    BY <2>1, <2>2, <2>3, DirAssumption DEF Only
<1>4. ASSUME NEW r \in Keys, DirWorker(r) PROVE Mine(q)'
  <2>1. dirMain = "running" /\ failures = 0
    <3>1. failures' = failures \/ failures' = failures + 1
      BY <1>4 DEF DirWorker, DirExecute, DirRerun, Return, BeginSave, BeginReplace, Unlink,
                  WriteTemp, Rename, Flush, Fail, bounds
    <3> QED
      BY <1>4, <3>1, WorkerRuns DEF DiskInv, DirTypeOK
  <2>2. Mine(q) /\ Mine(r)
    BY <2>1 DEF Followed
  <2>3. CASE DirExecute(r)
    <3>1. /\ UNCHANGED <<files, index, lock, at, savedKeys>>
          /\ phase[r] = "executing" /\ phase'[r] = "saving"
          /\ q # r => phase'[q] = phase[q] /\ current'[q] = current[q]
      BY <2>3 DEF DirExecute, Goto, DirTypeOK, dirDisk, memory
    <3>2. lock # r
      BY <3>1, DirAssumption DEF DiskInv, Exclusive
    <3> QED
      BY <2>2, <3>1, <3>2 DEF Only
  <2>4. CASE DirRerun(r)
    <3>1. /\ UNCHANGED <<files, index, lock, at, savedKeys>>
          /\ phase[r] = "saved" /\ phase'[r] = "replacing"
          /\ q # r => phase'[q] = phase[q] /\ current'[q] = current[q]
      BY <2>4 DEF DirRerun, Goto, DirTypeOK, dirDisk, memory
    <3>2. lock # r
      BY <3>1, DirAssumption DEF DiskInv, Exclusive
    <3>3. Only(index, r) # {}
      BY <2>2, <3>1, <3>2
    <3> QED
      BY <2>2, <3>1, <3>2, <3>3 DEF Only
  <2>5. CASE Return(r)
    BY <2>2, <2>5 DEF Return, Goto, DirTypeOK, Only, dirDisk, memory
  <2>6. CASE BeginSave(r)
    <3>1. r \notin savedKeys
      BY <2>2, <2>6, DirAssumption DEF BeginSave
    <3> QED
      BY <2>2, <2>6, <3>1, DirAssumption DEF BeginSave, Only, dirDisk, memory
  <2>7. CASE BeginReplace(r)
    BY <2>2, <2>7, DirAssumption DEF BeginReplace, Only, dirDisk, memory, worker
  <2>8. CASE Unlink(r)
    <3>1. /\ UNCHANGED <<index, savedKeys, phase, current>>
          /\ lock = r /\ lock' = r /\ at' = "write" /\ phase[r] = "replacing"
      BY <2>8, DirAssumption DEF Unlink, worker, DiskInv, Exclusive
    <3>2. q # r => Only(files', q) = Only(files, q)
      BY <2>8 DEF Unlink, Only
    <3> QED
      BY <2>2, <3>1, <3>2 DEF Only
  <2>9. CASE WriteTemp(r)
    BY <2>2, <2>9, DirAssumption DEF WriteTemp, Only, dirDisk, memory, worker, DiskInv, Exclusive
  <2>10. CASE Rename(r)
    <3>1. /\ UNCHANGED <<index, phase, current>>
          /\ lock = r /\ lock' = r /\ at = "rename" /\ at' = "flush"
          /\ phase[r] \in {"saving", "replacing"}
          /\ files' = files \cup {current[r]} /\ savedKeys' = savedKeys \cup {r}
      BY <2>10, DirAssumption DEF Rename, worker, DiskInv, Exclusive
    <3>2. Only(files, r) = {} /\ current[r].run = r
      BY <3>1, DirAssumption DEF DiskInv, Exclusive, HoldsOwn
    <3>3. Only(files', r) = {current[r]}
      BY <3>1, <3>2 DEF Only
    <3>4. q # r => Only(files', q) = Only(files, q)
      BY <3>1, <3>2 DEF Only
    <3> QED
      BY <2>2, <3>1, <3>3, <3>4 DEF Only
  <2>11. CASE Flush(r)
    <3>1. /\ UNCHANGED <<files, current, savedKeys>>
          /\ lock = r /\ at = "flush" /\ lock' = NoOne /\ index' = indexById
          /\ phase[r] \in {"saving", "replacing"} /\ phase'[r] \in {"saved", "returned"}
          /\ q # r => phase'[q] = phase[q]
      BY <2>11, DirAssumption DEF Flush, Release, Goto, DirTypeOK, memory, DiskInv, Exclusive
    <3>2. index' = files
      BY <2>1, <3>1 DEF DiskInv, FilesIndexed, MemoryMatchesFiles
    <3> QED
      BY <2>2, <3>1, <3>2, DirAssumption DEF Only
  <2>12. CASE Fail(r)
    BY <2>1, <2>12 DEF Fail
  <2> QED
    BY <1>4, <2>3, <2>4, <2>5, <2>6, <2>7, <2>8, <2>9, <2>10, <2>11, <2>12 DEF DirWorker
<1>5. CASE DirDie
  BY <1>5 DEF DirDie
<1>6. CASE UNCHANGED dirVars
  <2>1. Mine(q)
    BY <1>6 DEF Followed, dirVars, bounds
  <2> QED
    BY <1>6, <2>1 DEF dirVars, dirDisk, memory, worker, Only
<1> QED
  BY <1>2, <1>3, <1>4, <1>5, <1>6 DEF DirNext, DirMain, DirEnded

LEMMA FollowedCorrect == DirSpec => [](DirTypeOK /\ DiskInv /\ Followed)
<1>1. DirInit => Followed
  BY DEF DirInit, Followed
<1>2. DirTypeOK /\ DiskInv /\ Followed /\ [DirNext]_dirVars => Followed'
  BY FollowedStep
<1> QED
  BY <1>1, <1>2, DiskCorrect, PTL DEF DirSpec

\* While no write has failed, files and index differ in one run at most, whose
\* worker holds the lock; with the lock free the directory can be loaded, and it
\* has the simulation of every worker that has returned.
THEOREM HolderInDoubt == DirSpec => []OnlyHolderInDoubt
<1>1. DirTypeOK /\ DiskInv /\ Followed => OnlyHolderInDoubt
  <2> SUFFICES ASSUME DirTypeOK, DiskInv, Followed, dirMain = "running", failures = 0
               PROVE  /\ \A r \in Keys : Only(files, r) # Only(index, r) => lock = r
                      /\ lock = NoOne => Loadable
                      /\ \A r \in Keys : phase[r] = "returned" => Only(index, r) = {current[r]}
    BY DEF OnlyHolderInDoubt
  <2>1. \A r \in Keys : Only(files, r) # Only(index, r) => lock = r
    BY DEF Followed
  <2>2. ASSUME lock = NoOne PROVE Loadable
    <3>1. \A r \in Keys : Only(files, r) = Only(index, r)
      BY <2>1, <2>2, DirAssumption
    <3>2. files \subseteq DirSimulation /\ index \subseteq DirSimulation
      BY DEF DirTypeOK
    <3>3. files = index
      BY <3>1, <3>2 DEF Only, DirSimulation
    <3>4. at = "free"
      BY <2>2 DEF DirTypeOK
    <3> QED
      BY <3>3, <3>4 DEF Loadable, DiskInv, Prepared
  <2>3. ASSUME NEW r \in Keys, phase[r] = "returned" PROVE Only(index, r) = {current[r]}
    <3>1. lock # r
      BY <2>3, DirAssumption DEF DiskInv, Exclusive
    <3> QED
      BY <2>1, <2>3, <3>1 DEF Followed
  <2> QED
    BY <2>1, <2>2, <2>3
<1> QED
  BY <1>1, FollowedCorrect, PTL
-----------------------------------------------------------------------------
(* The index implements CheckpointStore.                                   *)

\* Opening results.json loses the rows whose files are gone, and no other.
LEMMA OpenDrops ==
  ASSUME DiskInv, OpenMeta
  PROVE  Rows' = Rows \ DirStore!Failed
<1>1. Rows = index /\ Rows' = files
  BY DEF OpenMeta, Rows
<1>2. files = index \ Infrastructure(index)
  BY DEF OpenMeta, DiskInv, Prepared, Infrastructure
<1> QED
  BY <1>1, <1>2 DEF DirStore!Failed, Infrastructure

\* What the last step of a save or a replacement does to the index.
LEMMA FlushStores ==
  ASSUME DirTypeOK, DiskInv, Followed, failures = 0, NEW r \in Keys, Flush(r)
  PROVE  DirStore!Add \/ DirStore!Exchange
<1> DEFINE s == current[r]
<1>1. /\ dirMain = "running" /\ lock = r /\ at = "flush" /\ index' = files
      /\ Rows = index /\ Rows' = index'
      /\ s.run = r /\ phase[r] \in {"saving", "replacing"}
  <2>1. dirMain = "running"
    BY WorkerRuns DEF DirWorker, DiskInv
  <2>2. Rows = index /\ Rows' = index'
    BY <2>1 DEF Flush, Rows
  <2> QED
    BY <2>1, <2>2, DirAssumption DEF Flush, DiskInv, FilesIndexed, MemoryMatchesFiles, HoldsOwn,
                                     Exclusive
<1>2. Only(files, r) = {s} /\ \A q \in Keys \ {r} : Only(files, q) = Only(index, q)
  BY <1>1 DEF Followed
<1>3. files \subseteq DirSimulation /\ index \subseteq DirSimulation
  BY DEF DirTypeOK
<1>4. Rows' = DirStore!Others(s) \cup {s}
  <2>1. \A t \in DirSimulation : t.run # r => (t \in files <=> t \in index)
    BY <1>2 DEF Only, DirSimulation
  <2>2. \A t : t \in files /\ t.run = r <=> t = s
    BY <1>1, <1>2 DEF Only
  <2> QED
    BY <1>1, <1>3, <2>1, <2>2 DEF DirStore!Others
<1>5. CASE phase[r] = "saving"
  <2>1. Only(index, r) = {}
    BY <1>1, <1>5 DEF Followed
  <2>2. DirStore!Others(s) = Rows
    BY <1>1, <2>1 DEF DirStore!Others, Only
  <2> QED
    BY <1>4, <2>2 DEF DirStore!Add
<1>6. CASE phase[r] = "replacing"
  <2>1. Only(index, r) # {} /\ s.kind = "conversation"
    BY <1>1, <1>6 DEF Followed, DiskInv, HoldsOwn
  <2>2. DirStore!Others(s) # Rows
    BY <1>1, <2>1 DEF DirStore!Others, Only
  <2> QED
    BY <1>4, <2>1, <2>2 DEF DirStore!Exchange
<1> QED
  BY <1>1, <1>5, <1>6

\* Until a write fails, the index on disk changes as the abstract checkpoint
\* does: one row added or exchanged at a stroke, or the failed runs dropped,
\* however many steps the disk takes and whenever the process dies, unless it
\* dies with results.json open for writing.
THEOREM Implementation == DirSpec => DirImplementsStore
<1>1. DirInit => DirStore!Init
  BY DEF DirInit, DirStore!Init, Rows
<1>2. DirTypeOK /\ DiskInv /\ Followed /\ [DirNext]_dirVars
      => [failures = 0 /\ ~(meta = "torn" /\ dirMain' = "starting") => DirStore!Next]_Rows
  <2> SUFFICES ASSUME DirTypeOK, DiskInv, Followed, [DirNext]_dirVars, failures = 0,
                      ~(meta = "torn" /\ dirMain' = "starting"), Rows' # Rows
               PROVE  DirStore!Next
    OBVIOUS
  <2>1. CASE OpenMeta
    BY <2>1, OpenDrops DEF DirStore!Next, DirStore!DropFailed
  <2>2. ASSUME NEW r \in Keys, Flush(r) PROVE DirStore!Next
    BY <2>2, FlushStores DEF DirStore!Next
  <2>3. ~WriteMeta
    BY DEF WriteMeta, Rows
  <2>4. ~DirDie
    BY DEF DirDie, Rows, dirDisk, DiskInv, Prepared
  <2>5. ~CreateDir /\ ~Load /\ ~RefuseLoad /\ ~DropFile /\ ~Open
    BY DEF CreateDir, Load, RefuseLoad, DropFile, Open, dirDisk, Rows
  <2>6. ASSUME NEW r \in Keys,
               DirExecute(r) \/ DirRerun(r) \/ Return(r) \/ BeginSave(r) \/ BeginReplace(r)
                 \/ Unlink(r) \/ WriteTemp(r) \/ Rename(r) \/ Fail(r)
        PROVE  FALSE
    <3>1. index' = index
      BY <2>6 DEF DirExecute, DirRerun, Return, BeginSave, BeginReplace, Unlink, WriteTemp, Rename,
                  Fail, dirDisk
    <3>2. dirMain = "running" /\ dirMain' = "running"
      BY <2>6, WorkerRuns DEF DirWorker, DiskInv
    <3> QED
      BY <3>1, <3>2 DEF Rows
  <2>7. ~UNCHANGED dirVars
    BY DEF dirVars, dirDisk, Rows
  <2> QED
    BY <2>1, <2>2, <2>3, <2>4, <2>5, <2>6, <2>7 DEF DirNext, DirMain, DirWorker, DirEnded
<1> QED
  BY <1>1, <1>2, FollowedCorrect, PTL DEF DirSpec, DirImplementsStore
=============================================================================
