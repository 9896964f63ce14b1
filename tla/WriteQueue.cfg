\* Small limits (an input of 3 is a chunk of 2 and one of 1; typed input is
\* refused where a paste still fits) and the real counter width and fairness
\* constant, in a release build, whose counter wraps.
SPECIFICATION FairSpec
CONSTANTS
  REPLY_RESERVE_BYTES = 3
  TYPED_INPUT_BYTES = 2
  PASTE_INPUT_BYTES = 3
  REPLIES_PER_INPUT = 4
  INPUT_CHUNK_BYTES = 2
  CounterSize = 256
  OverflowChecks = FALSE
  ReplyLens = {1, 2}
  InputLens = {0, 1, 3}
INVARIANTS
  TypeOK
  BytesMatchContents
  NoLostWakeup
  InputNotOvertaken
PROPERTIES
  ImplementsChannels
  InputServed
