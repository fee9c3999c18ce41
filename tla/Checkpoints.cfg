\* One file: up to three runs at a time on two threads, one retry, one
\* hallucination retry, one more start, with more or fewer tasks and trials.
\* A directory: two runs, two deaths, and up to two writes that fail.
CONSTANTS
  Formats = {"json", "dir"}
  NumTasks = 2
  NumTrials = 3
  Configurations <- MCConfigurations
  MaxRetries = 1
  HallucinationRetries = 1
  MaxConcurrency = 2
  MaxCrashes = 1
  Keys = {r1, r2}
  MaxDeaths = 2
  MaxFailures = 2
  NoOne = NoOne
SPECIFICATION Spec
INVARIANTS
  TypeOK
  OneRecordPerRun
  NoRecordedRunExecuted
  ResultsOnDisk
  DoneIsComplete
  OnlyHolderInDoubt
  FilesIndexed
PROPERTIES
  RecordsDurable
  ImplementsStore
  DirImplementsStore
  JsonBatchEnds
