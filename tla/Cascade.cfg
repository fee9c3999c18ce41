\* Three STT events, two answers of up to two pieces, two tool calls, two tasks at a
\* time.  A start of speech and a partial transcript do a part of what a final one
\* does, and are left out.
CONSTANTS
  SttKinds = {"final", "end"}
  MaxTasks = 2
  MaxHeard = 3
  MaxReplies = 2
  MaxToolCalls = 2
  MaxPieces = 2
  TickPieces = 1
SPECIFICATION CascadeSpec
INVARIANTS
  NothingLost
PROPERTIES
  WordsAnswered
