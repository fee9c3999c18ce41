\* Orchestrator: three ticks after the first, up to two tool calls per chunk.
\* User: every kind of user, one that interrupts or not, and one that backchannels
\* as an LLM decides every other tick or by the Poisson rule.  Context: histories
\* of five ticks, and one heard.  Agent: two answers of up to three pieces of audio
\* and two of text, two to a tick, and one or two interruptions.  Session: two
\* resumptions, five events.
CONSTANTS
  Parts = {"orchestrator", "user", "context", "agent", "session"}
  MaxSteps = 3
  MaxErrors = 3
  MaxCalls = 2
  HasTimeout = TRUE
  WaitOther = 1
  WaitSelf = 2
  Yield = 2
  YieldInterrupting = 3
  Policies <- AllPolicies
  BackchannelMin = 2
  BackchannelMax = 4
  CheckInterval = 2
  Lengths = {1, 2, 4}
  MaxRun = 6
  IntegrationTicks = {1, 2}
  SilenceTicks = 2
  MaxHistory = 5
  Services = {"openai", "xai", "qwen", "gemini", "nova"}
  TickLength = 2
  MaxItems = 2
  MaxAudio = 3
  MaxText = 2
  MaxBargeIns = 2
  MaxResumptions = 2
  MaxResponses = 5
SPECIFICATION Spec
INVARIANTS
  ChannelsInLockstep
  TickRunEndsSoundly
  HistoryShownWhole
  AnswersHeardWhole
  ResumesCleanly
PROPERTIES
  UtterancesWhole
  YieldsInTime
  UserBreaksSilence
  SilentAfterBargeIn
  TextFollowsAudio
  SessionListens
CHECK_DEADLOCK FALSE
