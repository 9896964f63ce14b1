\* The teardown under fairness.  Without a reply reserve a query fails the
\* session at once and the writer stays idle; reading may fail.
SPECIFICATION FairSpec
CONSTANTS
  READ_QUEUE_CHUNKS = 1
  DRAIN_GRACE = 1
  REAP_GRACE = 1
  PtyChunks = 1
  ReplyReserve = 0
  Faults = {"read"}
  Missing = {}
PROPERTY Teardown
CHECK_DEADLOCK FALSE
