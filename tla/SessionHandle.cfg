\* A queue of two, two sizes, four commands and one chunk of output;
\* three things done in the owner's rounds.  A behaviour stops when its bounds are used up.
SPECIFICATION HandleSpec
CONSTANTS
  COMMAND_QUEUE = 2
  Sizes = {s1, s2}
  NoSize = NoSize
  MaxSends = 4
  MaxText = 1
  MaxWork = 3
INVARIANTS
  CommandsNoticed
  NewestSizeWins
  SearchTied
  AtMostOneEvent
  NoLostUpdate
  NoLostCopy
PROPERTY UpdatesSeen
CHECK_DEADLOCK FALSE
