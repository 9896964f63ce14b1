\* Three sessions in up to three tabs, of at most three panes each: trees of
\* depth three, a full window, one pane identifier in every tab.
SPECIFICATION Spec
CONSTANTS
  MaxSessions = 3
  MaxPanesPerTab = 3
  Presets = {"focus", "split"}
  Files <- MCFiles
  MaxPaneId = 2
INVARIANTS TypeOK LimitKept SavedRestorable KeysGoToDrawn DecisionHonoured
 
CHECK_DEADLOCK FALSE
