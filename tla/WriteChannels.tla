--------------------------- MODULE WriteChannels ---------------------------
(***************************************************************************)
(* What the PTY write queue of a session promises its producers.  There    *)
(* are two FIFO channels to the writer thread, one of protocol replies and *)
(* one of user input.  Every accepted chunk is handed to the writer in the *)
(* order of its class, exactly once; a class never holds more bytes than   *)
(* its limit; nothing is handed over once the queue is closed; and, as     *)
(* long as the queue is open and its writer lives, input that waits is     *)
(* handed over in the end, however many replies are produced.              *)
(*                                                                         *)
(* A chunk is abstracted to its length.                                    *)
(***************************************************************************)
EXTENDS Integers, Sequences, SequencesExt

CONSTANTS
  MaxReplyBytes,  \* what pending replies may add up to
  MaxInputBytes   \* what pending input may add up to

VARIABLES
  replies,  \* accepted replies not yet handed over
  input,    \* accepted input chunks not yet handed over
  open,     \* producers may still add
  alive     \* the writer still takes chunks

vars == <<replies, input, open, alive>>

Chunk == Nat

Total(s) == FoldSeq(LAMBDA len, sum : len + sum, 0, s)

Init ==
  /\ replies = <<>>
  /\ input = <<>>
  /\ open = TRUE
  /\ alive = TRUE

(* A producer adds a whole reply, or the chunks of a whole input, at the   *)
(* back of its channel.                                                    *)
AcceptReply ==
  /\ open
  /\ replies' # <<>>
  /\ replies' = Append(replies, Last(replies'))
  /\ UNCHANGED <<input, open, alive>>

AcceptInput ==
  /\ open
  /\ IsPrefix(input, input')
  /\ UNCHANGED <<replies, open, alive>>

(* The writer takes the oldest chunk of a channel.                         *)
HandReply ==
  /\ open /\ alive
  /\ replies # <<>>
  /\ replies' = Tail(replies)
  /\ UNCHANGED <<input, open, alive>>

HandInput ==
  /\ open /\ alive
  /\ input # <<>>
  /\ input' = Tail(input)
  /\ UNCHANGED <<replies, open, alive>>

Close ==
  /\ open' = FALSE
  /\ UNCHANGED <<replies, input, alive>>

(* The writer goes: it found the queue closed, or a write failed.  What is *)
(* pending stays pending.                                                  *)
Leave ==
  /\ alive' = FALSE
  /\ UNCHANGED <<replies, input, open>>

Next ==
  \/ AcceptReply
  \/ AcceptInput
  \/ HandReply
  \/ HandInput
  \/ Close
  \/ Leave

Fifo == Init /\ [][Next]_vars

(* Limits are kept by what is in the channels, not by a counter.           *)
WithinLimits ==
  /\ Total(replies) <= MaxReplyBytes
  /\ Total(input) <= MaxInputBytes

Safety == Fifo /\ []WithinLimits

(* Replies may be served first, but not for ever.                          *)
InputProgress == WF_vars(HandInput)

Spec == Safety /\ InputProgress
=============================================================================
