\* One exchange of two tool steps, and a tool the user refused.
CONSTANTS
  Tools = {transfer, lookup}
  Prohibited = transfer
  MaxExchanges = 1
  MaxToolSteps = 2
  MaxCalls = 1
SPECIFICATION Spec
INVARIANTS
  AnyInvocationIsViolation
