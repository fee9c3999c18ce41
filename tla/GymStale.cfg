\* The turn is given away before the observation is set.
CONSTANTS
  MaxEpisodes = 1
  MaxTurns = 2
SPECIFICATION Spec
INVARIANTS
  ObservationFresh
CHECK_DEADLOCK FALSE
