\* Channels of one slot, deadlines of one tick; writes and the wait for the
\* child may fail, and the waiter's thread may be missing.  A session stops
\* once its owner and its workers are gone.
SPECIFICATION Spec
CONSTANTS
  READ_QUEUE_CHUNKS = 1
  DRAIN_GRACE = 1
  REAP_GRACE = 1
  PtyChunks = 1
  ReplyReserve = 1
  Faults = {"write", "wait"}
  Missing = {"wait"}
INVARIANTS
  TypeOK
  NoLostDoorbell
  AllOutputShown
  ChildNotAbandoned
PROPERTY ImplementsLifecycle
CHECK_DEADLOCK FALSE
