\* One resumption, four events: enough for a tool call, the handle and a GoAway that ends its turn.
CONSTANTS
  MaxResumptions = 1
  MaxResponses = 4
SPECIFICATION GeminiSpec
PROPERTIES
  ReconnectBeforeIO
CHECK_DEADLOCK FALSE
