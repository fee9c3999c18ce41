\* Three episodes of at most three turns of the agent.
CONSTANTS
  MaxEpisodes = 3
  MaxTurns = 3
SPECIFICATION FairSpec
INVARIANTS
  ActionsTakenOnce
  EpisodesApart
PROPERTIES
  CallsReturn
