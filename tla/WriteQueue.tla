---------------------------- MODULE WriteQueue -----------------------------
(***************************************************************************)
(* The PTY write queue of a session (session/write_queue.rs) with the      *)
(* threads around it: the model owner, which pushes protocol replies and   *)
(* closes the queue; the UI, which pushes typed or pasted input; and the   *)
(* writer thread of session/spawn.rs, which blocks on the condition        *)
(* variable `ready` and writes what the queue hands it to the PTY.         *)
(*                                                                         *)
(* A critical section of the mutex is one action.  Producers notify the    *)
(* condition variable after they unlocked, so notifying is an action of    *)
(* its own.  A chunk is abstracted to its length.                          *)
(***************************************************************************)
EXTENDS Integers, Sequences, SequencesExt

CONSTANTS
  REPLY_RESERVE_BYTES,
  TYPED_INPUT_BYTES,
  PASTE_INPUT_BYTES,
  REPLIES_PER_INPUT,
  INPUT_CHUNK_BYTES,
  CounterSize,     \* number of values of replies_since_input, a u8: 256
  OverflowChecks,  \* the build panics on integer overflow (a debug build)
  ReplyLens,       \* lengths of the replies the engine produces
  InputLens        \* lengths of the inputs the UI pushes

ASSUME LimitsAssumption ==
  /\ REPLY_RESERVE_BYTES \in Nat
  /\ TYPED_INPUT_BYTES \in Nat
  /\ PASTE_INPUT_BYTES \in Nat
  /\ TYPED_INPUT_BYTES <= PASTE_INPUT_BYTES
  /\ INPUT_CHUNK_BYTES \in Nat \ {0}

ASSUME CounterAssumption ==
  /\ REPLIES_PER_INPUT \in Nat \ {0}
  /\ CounterSize \in Nat
  /\ REPLIES_PER_INPUT < CounterSize
  /\ OverflowChecks \in BOOLEAN

ASSUME LensAssumption ==
  /\ ReplyLens \subseteq Nat
  /\ InputLens \subseteq Nat

VARIABLES
  replies,              \* VecDeque of replies
  reply_bytes,
  input,                \* VecDeque of input chunks
  input_bytes,
  replies_since_input,
  closed,
  owner,                \* what the owner has to do: a notification, or nothing
  ui,                   \* the same of the UI
  writer,               \* where the writer thread is
  overtaken             \* auxiliary: replies handed out while the first input
                        \* chunk waited

queue == <<replies, reply_bytes, input, input_bytes, replies_since_input, closed>>
vars == <<queue, owner, ui, writer, overtaken>>

InputKind == {"Typed", "Paste"}
Producer == {"ready", "notify_one", "notify_all"}

(* The writer is about to lock the queue, blocked on `ready`, writing a    *)
(* chunk to the PTY, or gone: the queue was closed, a write failed, or the *)
(* thread panicked.                                                        *)
Gone == {"exited", "failed", "panicked"}
Writer == {"locking", "waiting", "writing"} \union Gone

Init ==
  /\ replies = <<>> /\ reply_bytes = 0
  /\ input = <<>> /\ input_bytes = 0
  /\ replies_since_input = 0
  /\ closed = FALSE
  /\ owner = "ready" /\ ui = "ready"
  /\ writer = "locking"
  /\ overtaken = 0

(***************************************************************************)
(* Producers.  None of their steps blocks.  A push that is refused         *)
(* (Closed, ReplyBackpressure, InputBusy) changes nothing.                 *)
(***************************************************************************)

PushReply(len) ==
  /\ owner = "ready"
  /\ ~closed
  /\ reply_bytes + len <= REPLY_RESERVE_BYTES
  /\ reply_bytes' = reply_bytes + len
  /\ replies' = Append(replies, len)
  /\ owner' = "notify_one"
  /\ UNCHANGED <<input, input_bytes, replies_since_input, closed, ui, writer, overtaken>>

Limit(kind) == IF kind = "Typed" THEN TYPED_INPUT_BYTES ELSE PASTE_INPUT_BYTES

(* Mutant: slice::chunks_exact, which leaves the last short chunk out.     *)
ChunksExact(len) ==
  [i \in 1 .. len \div INPUT_CHUNK_BYTES |-> INPUT_CHUNK_BYTES]

(* slice::chunks: full chunks, then what is left.                          *)
Chunks(len) ==
  [i \in 1 .. (len + INPUT_CHUNK_BYTES - 1) \div INPUT_CHUNK_BYTES |->
    IF i * INPUT_CHUNK_BYTES <= len
    THEN INPUT_CHUNK_BYTES
    ELSE len - (i - 1) * INPUT_CHUNK_BYTES]

(* Mutant: input accepted without notify_one.                              *)
PushInputQuietly(len, kind) ==
  /\ ui = "ready"
  /\ ~closed
  /\ input_bytes + len <= Limit(kind)
  /\ input_bytes' = input_bytes + len
  /\ input' = input \o Chunks(len)
  /\ UNCHANGED <<replies, reply_bytes, replies_since_input, closed, owner, ui,
                 writer, overtaken>>

PushInput(len, kind) ==
  /\ ui = "ready"
  /\ ~closed
  /\ input_bytes + len <= Limit(kind)
  /\ input_bytes' = input_bytes + len
  /\ input' = input \o Chunks(len)
  /\ ui' = "notify_one"
  /\ UNCHANGED <<replies, reply_bytes, replies_since_input, closed, owner, writer, overtaken>>

(* Mutant: close without notify_all.                                       *)
CloseQuietly ==
  /\ owner = "ready"
  /\ closed' = TRUE
  /\ UNCHANGED <<replies, reply_bytes, input, input_bytes, replies_since_input,
                 owner, ui, writer, overtaken>>

Close ==
  /\ owner = "ready"
  /\ closed' = TRUE
  /\ owner' = "notify_all"
  /\ UNCHANGED <<replies, reply_bytes, input, input_bytes, replies_since_input,
                 ui, writer, overtaken>>

(* notify_one and notify_all: only one thread ever waits.                  *)
Woken == IF writer = "waiting" THEN "locking" ELSE writer

OwnerNotifies ==
  /\ owner # "ready"
  /\ owner' = "ready"
  /\ writer' = Woken
  /\ UNCHANGED <<queue, ui, overtaken>>

UiNotifies ==
  /\ ui # "ready"
  /\ ui' = "ready"
  /\ writer' = Woken
  /\ UNCHANGED <<queue, owner, overtaken>>

(***************************************************************************)
(* The writer: WriteQueue::next, then write_all and flush.                 *)
(***************************************************************************)

(* Mutant: an off-by-one in the fairness counter.                          *)
PreferReplyOneMore == replies_since_input <= REPLIES_PER_INPUT \/ input = <<>>

PreferReply == replies_since_input < REPLIES_PER_INPUT \/ input = <<>>

(* Mutant: closing does not stop the hand-over of what is pending.         *)
ServingThoughClosed == writer = "locking"

(* The writer holds the lock and next() has not returned None.             *)
Serving == writer = "locking" /\ ~closed

(* Mutant: a counter wider than u8, which the type excludes.               *)
IncrementedWide(count) == count + 1

(* `+= 1` on a u8 in a release build.                                      *)
Incremented(count) == (count + 1) % CounterSize

TakeReply ==
  /\ Serving
  /\ PreferReply /\ replies # <<>>
  /\ replies' = Tail(replies)
  /\ reply_bytes' = reply_bytes - Head(replies)
  /\ overtaken' = IF input = <<>> THEN 0 ELSE overtaken + 1
  /\ IF OverflowChecks /\ replies_since_input + 1 = CounterSize
     THEN writer' = "panicked" /\ UNCHANGED replies_since_input
     ELSE /\ writer' = "writing"
          /\ replies_since_input' = Incremented(replies_since_input)
  /\ UNCHANGED <<input, input_bytes, closed, owner, ui>>

TakeInput ==
  /\ Serving
  /\ ~(PreferReply /\ replies # <<>>)
  /\ input # <<>>
  /\ input' = Tail(input)
  /\ input_bytes' = input_bytes - Head(input)
  /\ replies_since_input' = 0
  /\ overtaken' = 0
  /\ writer' = "writing"
  /\ UNCHANGED <<replies, reply_bytes, closed, owner, ui>>

(* Nothing to take: wait(), which unlocks and blocks in one step.          *)
Wait ==
  /\ Serving
  /\ replies = <<>> /\ input = <<>>
  /\ writer' = "waiting"
  /\ UNCHANGED <<queue, owner, ui, overtaken>>

SpuriousWakeup ==
  /\ writer = "waiting"
  /\ writer' = "locking"
  /\ UNCHANGED <<queue, owner, ui, overtaken>>

(* next() returns None; pending data is dropped with the queue.            *)
WriterExits ==
  /\ writer = "locking" /\ closed
  /\ writer' = "exited"
  /\ UNCHANGED <<queue, owner, ui, overtaken>>

Written ==
  /\ writer = "writing"
  /\ writer' = "locking"
  /\ UNCHANGED <<queue, owner, ui, overtaken>>

(* The error goes to the owner and the thread ends.                        *)
WriteFails ==
  /\ writer = "writing"
  /\ writer' = "failed"
  /\ UNCHANGED <<queue, owner, ui, overtaken>>

WriterNext == TakeReply \/ TakeInput \/ Wait \/ WriterExits

Next ==
  \/ \E len \in ReplyLens : PushReply(len)
  \/ \E len \in InputLens, kind \in InputKind : PushInput(len, kind)
  \/ Close
  \/ OwnerNotifies
  \/ UiNotifies
  \/ WriterNext
  \/ SpuriousWakeup
  \/ Written
  \/ WriteFails

Spec == Init /\ [][Next]_vars

(* Threads that can run do run, and the child reads its input in the end   *)
(* (write_all returns).  Nobody has to push, close or wake spuriously.     *)
Fairness ==
  /\ WF_vars(OwnerNotifies)
  /\ WF_vars(UiNotifies)
  /\ WF_vars(WriterNext)
  /\ WF_vars(Written \/ WriteFails)

FairSpec == Spec /\ Fairness

(***************************************************************************)
(* Properties                                                              *)
(***************************************************************************)

(* Every variable keeps its type; the counter stays within its width.      *)
TypeOK ==
  /\ replies \in Seq(Nat) /\ input \in Seq(Nat)
  /\ reply_bytes \in Int /\ input_bytes \in Int
  /\ replies_since_input \in 0 .. CounterSize - 1
  /\ closed \in BOOLEAN
  /\ owner \in Producer /\ ui \in {"ready", "notify_one"}
  /\ writer \in Writer
  /\ overtaken \in Nat

(* `sum` runs along the chunks of s and comes to n.                        *)
AddsUp(s, n) ==
  \E sum \in [0 .. Len(s) -> 0 .. n] :
    /\ sum[0] = 0 /\ sum[Len(s)] = n
    /\ \A i \in 1 .. Len(s) : sum[i] = sum[i - 1] + s[i]

(* reply_bytes and input_bytes are what is pending, chunk for chunk, even  *)
(* after pastes were split and after a panic: the subtractions in          *)
(* take_next cannot underflow and a class that drained accepts again.      *)
BytesMatchContents == AddsUp(replies, reply_bytes) /\ AddsUp(input, input_bytes)

(* The writer never sleeps on `ready` while there is something for it to   *)
(* do (a chunk, or the close that must end it) unless a producer is about  *)
(* to notify it: notifying after the unlock loses no wakeup.               *)
NoLostWakeup ==
  writer = "waiting" /\ (closed \/ replies # <<>> \/ input # <<>>)
    => owner # "ready" \/ ui # "ready"

(* While an input chunk waits, at most REPLIES_PER_INPUT replies are       *)
(* written before it, however long the run of replies before it was and    *)
(* also when the 8-bit counter of that run has wrapped.                    *)
InputNotOvertaken == overtaken <= REPLIES_PER_INPUT

(* The queue is two FIFO channels that lose nothing (WriteChannels).       *)
Channels == INSTANCE WriteChannels WITH
  MaxReplyBytes <- REPLY_RESERVE_BYTES,
  MaxInputBytes <- PASTE_INPUT_BYTES,
  open <- ~closed,
  alive <- writer \notin Gone

(* Accepted chunks are handed over once, in order, and never after close.  *)
ImplementsChannels == Channels!Safety

(* "Accepted input is never discarded" (push_input): while the queue is    *)
(* open and no write has failed, waiting input keeps being written.        *)
InputServed ==
  \/ []<>(input = <<>> \/ closed \/ writer = "failed")
  \/ []<><<TakeInput>>_vars
=============================================================================
