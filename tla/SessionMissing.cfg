\* The thread of the waiter may be missing.
SPECIFICATION AttentiveSpec
CONSTANTS
  READ_QUEUE_CHUNKS = 1
  DRAIN_GRACE = 1
  REAP_GRACE = 1
  PtyChunks = 1
  ReplyReserve = 0
  Faults = {}
  Missing = {"wait"}
PROPERTY MissingWorkerFails
CHECK_DEADLOCK FALSE
