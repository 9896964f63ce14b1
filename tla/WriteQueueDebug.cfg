\* The same queue in a debug build, whose overflow checks panic: one reply
\* length and one input length suffice.
SPECIFICATION FairSpec
CONSTANTS
  REPLY_RESERVE_BYTES = 1
  TYPED_INPUT_BYTES = 1
  PASTE_INPUT_BYTES = 1
  REPLIES_PER_INPUT = 4
  INPUT_CHUNK_BYTES = 1
  CounterSize = 256
  OverflowChecks = TRUE
  ReplyLens = {1}
  InputLens = {1}
PROPERTY InputServed
