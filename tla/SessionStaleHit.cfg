\* The shortest way to a hit test of an older epoch.
SPECIFICATION Spec
CONSTANTS
  COMMAND_QUEUE = 2
  Sizes = {s1, s2}
  NoSize = NoSize
  MaxSends = 2
  MaxText = 1
INVARIANT HitTestsRejected
CHECK_DEADLOCK FALSE
