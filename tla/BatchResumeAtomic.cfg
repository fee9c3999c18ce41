\* A death while try_resume rewrites the results file.
CONSTANTS
  Formats = {"json"}
  NumTasks = 2
  NumTrials = 3
  Configurations <- MCConfigurations
  MaxRetries = 0
  HallucinationRetries = 0
  MaxConcurrency = 1
  MaxCrashes = 2
  Keys = {r1}
  MaxDeaths = 0
  MaxFailures = 0
  NoOne = NoOne
SPECIFICATION Spec
PROPERTIES
  ResumeAtomic
