\* Dialogues as run_tasks runs them, and solo runs.
CONSTANTS
  MaxSteps = 4
  MaxErrors = 2
  MaxCalls = 2
  Modes <- RunModes
  HasTimeout = TRUE
  Histories <- TaskHistories
SPECIFICATION FairSpec
INVARIANTS
  RoutingSound
  ToolCallsSettled
  DeliveredInOrder
  RunEndsSoundly
PROPERTIES
  ImplementsDialogue
