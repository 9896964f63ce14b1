\* As in the run of the settings; a drag that begins with Shift.
SPECIFICATION Spec
CONSTANTS
  Fields = {"theme", "font_size", "scrollback_lines", "sound_enabled"}
  Numbers = {0, 399, 400, 500, 640, 4320, 7680, 7681, 100000, 100001}
  Tried <- MCTried
  TriedKeys <- MCTriedKeys
  TriedConfigs <- MCTriedConfigs
  TriedOverrides <- MCTriedOverrides
  Mac = FALSE
  MaxSteps = 6
  MaxPaste = 8
  Keys <- MCKeys
  Keyboards = {"en-us", "small"}
  Cues = {"keypress", "bell", "open"}
  MaxOverlap = 2
  MaxOpenings = 2
  Columns = 2
  Fingers = {"f1", "f2"}
  Heights = {0, 1, 2, 4}
  TapSlop = 2
INVARIANTS ShiftSelects
CHECK_DEADLOCK FALSE
