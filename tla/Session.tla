------------------------------ MODULE Session ------------------------------
(***************************************************************************)
(* One terminal session (session/owner.rs, spawn.rs, mod.rs): the model    *)
(* owner and its scheduling rounds, the blocking reader, writer and waiter *)
(* threads, the bounded channels and the one-slot doorbell between them,   *)
(* the handle the UI holds, and the child on the other side of the PTY.    *)
(*                                                                         *)
(* Every access of a channel or of shared state by a thread is an action.  *)
(* The owner's program counter names the part of Owner::step it is about   *)
(* to do.  Output is abstracted to chunks, some of which hold a query that *)
(* the engine answers; time is abstracted to ticks of the two deadlines of *)
(* the shutdown.  The write queue is reduced to its pending replies (see   *)
(* WriteQueue); commands and the wakeup of the UI have modules of their    *)
(* own (SessionCommands, SessionWake).                                     *)
(***************************************************************************)
EXTENDS Integers, Sequences

CONSTANTS
  READ_QUEUE_CHUNKS,  \* capacity of the output channel
  DRAIN_GRACE,        \* ticks of the output drain window
  REAP_GRACE,         \* ticks the child has after termination was requested
  PtyChunks,          \* chunks the kernel buffers between child and reader
  ReplyReserve,       \* replies the write queue holds
  Faults,             \* operations that may fail: "read", "write", "wait"
  Missing             \* workers whose thread may fail to be created

ASSUME CapacityAssumption ==
  /\ READ_QUEUE_CHUNKS \in Nat \ {0}
  /\ PtyChunks \in Nat \ {0}
  /\ ReplyReserve \in Nat

ASSUME GraceAssumption ==
  /\ DRAIN_GRACE \in Nat \ {0}
  /\ REAP_GRACE \in Nat
  /\ DRAIN_GRACE <= REAP_GRACE

ASSUME FaultAssumption ==
  /\ Faults \subseteq {"read", "write", "wait"}
  /\ Missing \subseteq {"read", "write", "wait"}

VARIABLES
  \* the owner
  pc,            \* the part of its round the owner is about to do
  phase,         \* Phase: Running, Closing or Done
  closing,       \* how far begin_close has come, when the owner is in it
  drain,         \* ticks left until drain_until
  terminated,    \* terminated_at is set
  reap,          \* ticks left until terminated_at + REAP_GRACE
  exit,          \* the recorded ExitInfo: none, ok, or made up after an error
  reader_done,
  dirty,
  more,          \* the round left output in the channel
  \* shared with the UI
  status,
  closed,        \* the write queue takes no more
  fresh,         \* auxiliary: the published snapshot shows all parsed output
  close_requested,
  ui,            \* what the UI does with its handle
  \* channels
  doorbell,
  output,
  exit_ch,
  write_errors,
  replies,       \* replies pending in the write queue
  \* workers
  reader,
  held,          \* the message the reader has read and not sent yet
  writer,
  waiter,
  \* the child and its terminal
  child,
  slave,         \* the child or a descendant holds the terminal open
  pty            \* chunks written and not read yet

shutdown == <<phase, closing, drain, terminated, reap>>
model == <<exit, reader_done, dirty, more, fresh>>
ownerVars == <<pc, shutdown, model>>
published == <<status, closed>>
uiVars == <<close_requested, ui>>
channels == <<doorbell, output, exit_ch, write_errors, replies>>
workers == <<reader, held, writer, waiter>>
childVars == <<child, slave, pty>>
vars == <<ownerVars, published, uiVars, channels, workers, childVars>>

(* ReaderMsg                                                               *)
Message == {"Data", "Eof", "Error"}

(* spawn_session: the workers start; one whose thread cannot be created    *)
(* drops the ends of the channels it was given.                            *)
Worker(role, start) == {start} \union IF role \in Missing THEN {"done"} ELSE {}

Init ==
  /\ pc = "spawn"
  /\ phase = "Running" /\ closing = "no" /\ drain = 0 /\ terminated = FALSE /\ reap = 0
  /\ exit = "none" /\ reader_done = FALSE /\ dirty = TRUE /\ more = FALSE
  /\ status = "Creating" /\ closed = FALSE /\ fresh = FALSE
  /\ close_requested = FALSE /\ ui = "none"
  /\ doorbell = 0 /\ output = <<>> /\ exit_ch = "none"
  /\ write_errors = FALSE /\ replies = 0
  /\ reader \in Worker("read", "read") /\ held = "none"
  /\ writer \in Worker("write", "next")
  /\ waiter \in Worker("wait", "wait")
  /\ child = "running" /\ slave = TRUE /\ pty = 0

(***************************************************************************)
(* The child and what it started: external.  It writes, exits and lets go  *)
(* of the terminal when it likes; a descendant may keep the terminal.      *)
(***************************************************************************)

ChildWrites ==
  /\ slave
  /\ pty < PtyChunks
  /\ pty' = pty + 1
  /\ UNCHANGED <<ownerVars, published, uiVars, channels, workers, child, slave>>

ChildExits ==
  /\ child = "running"
  /\ child' = "exited"
  /\ UNCHANGED <<ownerVars, published, uiVars, channels, workers, slave, pty>>

SlaveCloses ==
  /\ slave
  /\ slave' = FALSE
  /\ UNCHANGED <<ownerVars, published, uiVars, channels, workers, child, pty>>

(***************************************************************************)
(* The reader                                                              *)
(***************************************************************************)

OwnerGone == pc = "gone"

(* doorbell.try_send(()): a full doorbell has rung, a dead owner is deaf.  *)
Ring == doorbell' = IF OwnerGone THEN doorbell ELSE 1

(* read(): data, end of file (0 bytes or EIO), or an error.                *)
Read ==
  /\ reader = "read"
  /\ \/ pty > 0 /\ held' = "Data" /\ pty' = pty - 1
     \/ pty = 0 /\ ~slave /\ held' = "Eof" /\ UNCHANGED pty
     \/ "read" \in Faults /\ held' = "Error" /\ UNCHANGED pty
  /\ reader' = "send"
  /\ UNCHANGED <<ownerVars, published, uiVars, channels, writer, waiter, child, slave>>

(* Mutant: the channel takes one chunk more.                               *)
RoomForMore == Len(output) <= READ_QUEUE_CHUNKS

Room == Len(output) < READ_QUEUE_CHUNKS

(* A blocking send waits for room; it fails once the owner has dropped its *)
(* end.                                                                    *)
Send ==
  /\ reader = "send"
  /\ \/ /\ ~OwnerGone
        /\ Room
        /\ output' = Append(output, held)
        /\ reader' = "ring"
        /\ UNCHANGED held
     \/ /\ OwnerGone
        /\ reader' = "done"
        /\ held' = "none"
        /\ UNCHANGED output
  /\ UNCHANGED <<ownerVars, published, uiVars, doorbell, exit_ch,
                 write_errors, replies, writer, waiter, childVars>>

ReaderRings ==
  /\ reader = "ring"
  /\ Ring
  /\ reader' = IF held = "Data" THEN "read" ELSE "done"
  /\ held' = "none"
  /\ UNCHANGED <<ownerVars, published, uiVars, output, exit_ch,
                 write_errors, replies, writer, waiter, childVars>>

(***************************************************************************)
(* The writer and the waiter                                               *)
(***************************************************************************)

(* WriteQueue::next                                                        *)
WriterNext ==
  /\ writer = "next"
  /\ \/ closed /\ writer' = "done" /\ UNCHANGED replies
     \/ ~closed /\ replies > 0 /\ writer' = "write" /\ replies' = replies - 1
  /\ UNCHANGED <<ownerVars, published, uiVars, doorbell, output, exit_ch,
                 write_errors, reader, held, waiter, childVars>>

(* write_all returns when the child has read; nothing makes it read.       *)
Written ==
  /\ writer = "write"
  /\ writer' = "next"
  /\ UNCHANGED <<ownerVars, published, uiVars, channels, reader, held, waiter, childVars>>

WriteFails ==
  /\ writer = "write"
  /\ "write" \in Faults \/ child = "exited" \/ ~slave
  /\ write_errors' = ~OwnerGone
  /\ writer' = "ring"
  /\ UNCHANGED <<ownerVars, published, uiVars, doorbell, output, exit_ch,
                 replies, reader, held, waiter, childVars>>

WriterRings ==
  /\ writer = "ring"
  /\ Ring
  /\ writer' = "done"
  /\ UNCHANGED <<ownerVars, published, uiVars, output, exit_ch, write_errors,
                 replies, reader, held, waiter, childVars>>

(* child.wait(): from here on the child is reaped, or known to be unknown. *)
Reap ==
  /\ waiter = "wait"
  /\ \/ child = "exited" /\ waiter' = "send_ok"
     \/ "wait" \in Faults /\ waiter' = "send_err"
  /\ UNCHANGED <<ownerVars, published, uiVars, channels, reader, held, writer, childVars>>

WaiterSends ==
  /\ waiter \in {"send_ok", "send_err"}
  /\ exit_ch' = IF OwnerGone THEN exit_ch
                ELSE IF waiter = "send_ok" THEN "ok" ELSE "error"
  /\ waiter' = "ring"
  /\ UNCHANGED <<ownerVars, published, uiVars, doorbell, output, write_errors,
                 replies, reader, held, writer, childVars>>

WaiterRings ==
  /\ waiter = "ring"
  /\ Ring
  /\ waiter' = "done"
  /\ UNCHANGED <<ownerVars, published, uiVars, output, exit_ch, write_errors,
                 replies, reader, held, writer, childVars>>

(***************************************************************************)
(* The UI and its SessionHandle                                            *)
(***************************************************************************)

(* The end of spawn_session: the workers run already; the status becomes   *)
(* Running, the owner starts, and the UI gets the handle.                  *)
SpawnOwner ==
  /\ pc = "spawn"
  /\ pc' = "start"
  /\ status' = "Running"
  /\ ui' = "ready"
  /\ UNCHANGED <<shutdown, closed, model, close_requested, channels, workers,
                 childVars>>

(* Closing a pane, a tab or the window drops the handle: Drop calls close, *)
(* and the handle's end of the doorbell goes last.                         *)
RequestClose ==
  /\ ui = "ready"
  /\ close_requested' = TRUE
  /\ ui' = "ring"
  /\ UNCHANGED <<ownerVars, published, channels, workers, childVars>>

UiRings ==
  /\ ui = "ring"
  /\ Ring
  /\ ui' = "gone"
  /\ UNCHANGED <<ownerVars, published, close_requested, output, exit_ch,
                 write_errors, replies, workers, childVars>>

(***************************************************************************)
(* The owner.  One action per part of Owner::run and Owner::step.          *)
(***************************************************************************)

environment == <<uiVars, workers, childVars>>

(* The owner has come to a part of its round, and is not in begin_close.   *)
At(part) == pc = part /\ closing = "no"

(* begin_close() begins; the program counter holds where the owner goes on *)
(* from.                                                                   *)
BeginClose ==
  /\ closing' = IF phase = "Running" THEN "queue" ELSE "no"
  /\ UNCHANGED <<phase, drain, terminated, reap, closed>>

(* fail(): the failure is published first, be the session closing or not.  *)
Fail ==
  /\ status' = "Failed"
  /\ BeginClose

(* WriteQueue::close                                                       *)
CloseQueue ==
  /\ closing = "queue"
  /\ closed' = TRUE
  /\ closing' = "status"
  /\ UNCHANGED <<pc, phase, drain, terminated, reap, model, status, channels,
                 environment>>

(* Mutant: Closing is published over a failure.                            *)
ClosingPublished == status' = "Closing"

PublishClosing == status' = IF status = "Failed" THEN status ELSE "Closing"

(* The status, under its lock, and what is left is the owner's own.        *)
EnterClosing ==
  /\ closing = "status"
  /\ PublishClosing
  /\ phase' = "Closing"
  /\ closing' = "no"
  /\ drain' = DRAIN_GRACE
  /\ dirty' = TRUE
  /\ UNCHANGED <<pc, terminated, reap, exit, reader_done, more, fresh, closed,
                 channels, environment>>

Unshaken == UNCHANGED <<shutdown, published>>

(* publish(): the newest snapshot, if anything changed.                    *)
Published ==
  /\ dirty' = FALSE
  /\ fresh' = (fresh \/ dirty)

(* run(): the first publish.                                               *)
Start ==
  /\ At("start")
  /\ pc' = "close"
  /\ Published
  /\ UNCHANGED <<shutdown, exit, reader_done, more, published, channels,
                 environment>>

CheckClose ==
  /\ At("close")
  /\ pc' = "output"
  /\ IF close_requested THEN BeginClose /\ UNCHANGED status ELSE Unshaken
  /\ UNCHANGED <<model, channels, environment>>

(* parse(): text, or a query that the engine answers.  A full reply        *)
(* reserve fails the session; a closed queue refuses without a word.       *)
Parse ==
  /\ At("output")
  /\ output # <<>> /\ Head(output) = "Data"
  /\ output' = Tail(output)
  /\ fresh' = FALSE
  /\ dirty' = TRUE
  /\ \/ UNCHANGED <<shutdown, published, replies>>
     \/ /\ ~closed /\ replies < ReplyReserve
        /\ replies' = replies + 1
        /\ UNCHANGED <<shutdown, published>>
     \/ /\ ~closed /\ replies = ReplyReserve
        /\ Fail
        /\ UNCHANGED replies
  /\ UNCHANGED <<pc, exit, reader_done, more, doorbell, exit_ch,
                 write_errors, environment>>

(* The batch ends: out of bytes or time, at the end of the output (or the  *)
(* reader is gone), on a read error, or for want of output.                *)
EndBatch(left) ==
  /\ At("output")
  /\ pc' = "errors"
  /\ more' = left
  /\ UNCHANGED <<exit, dirty, fresh, doorbell, exit_ch, write_errors, replies,
                 environment>>

(* Mutant: the owner goes to sleep over the output that is left.           *)
BatchForgotten ==
  /\ EndBatch(FALSE)
  /\ Unshaken
  /\ UNCHANGED <<reader_done, output>>

BatchBudgetSpent ==
  /\ EndBatch(TRUE)
  /\ Unshaken
  /\ UNCHANGED <<reader_done, output>>

ReaderFinished ==
  \/ output # <<>> /\ Head(output) = "Eof"
  \/ output = <<>> /\ reader = "done"

EndOfOutput ==
  /\ EndBatch(FALSE)
  /\ ReaderFinished
  /\ reader_done' = TRUE
  /\ output' = IF output = <<>> THEN output ELSE Tail(output)
  /\ Unshaken

ReadError ==
  /\ EndBatch(FALSE)
  /\ output # <<>> /\ Head(output) = "Error"
  /\ reader_done' = TRUE
  /\ output' = Tail(output)
  /\ Fail

OutputEmpty ==
  /\ EndBatch(FALSE)
  /\ output = <<>> /\ reader # "done"
  /\ Unshaken
  /\ UNCHANGED <<reader_done, output>>

(* An error counts only while the session runs.                            *)
HandleWriteErrors ==
  /\ At("errors")
  /\ pc' = "exit"
  /\ write_errors' = FALSE
  /\ IF write_errors /\ phase = "Running" THEN Fail ELSE Unshaken
  /\ UNCHANGED <<model, doorbell, output, exit_ch, replies, environment>>

(* The exit is recorded once.  A waiter that is gone without a word is not *)
(* told from one that still waits.                                         *)
HandleExit ==
  /\ At("exit")
  /\ pc' = "shutdown"
  /\ IF exit = "none"
     THEN /\ exit' = exit_ch
          /\ exit_ch' = "none"
          /\ \/ exit_ch = "ok" /\ BeginClose /\ UNCHANGED status
             \/ exit_ch = "error" /\ Fail
             \/ exit_ch = "none" /\ Unshaken
     ELSE Unshaken /\ UNCHANGED <<exit, exit_ch>>
  /\ UNCHANGED <<reader_done, dirty, more, fresh, doorbell, output,
                 write_errors, replies, environment>>

(* Mutant: the exit of the child ends the drain.                           *)
DrainedByExit == reader_done \/ drain = 0 \/ exit # "none"

Drained == reader_done \/ drain = 0

EndKnown == exit # "none" /\ Drained

MayTerminate ==
  ~terminated /\ exit = "none" /\ (Drained \/ close_requested)

(* Mutant: the reap deadline counts before termination is requested.       *)
OverdueUnasked == reap = 0

Overdue == terminated /\ reap = 0

Unterminated == UNCHANGED <<phase, terminated, reap>>

(* advance_shutdown()                                                      *)
AdvanceShutdown ==
  /\ At("shutdown")
  /\ pc' = "publish"
  /\ IF phase = "Closing" /\ (EndKnown \/ Overdue)
     THEN phase' = "Done" /\ UNCHANGED <<terminated, reap>>
     ELSE IF phase = "Closing" /\ MayTerminate
     THEN terminated' = TRUE /\ reap' = REAP_GRACE /\ UNCHANGED phase
     ELSE Unterminated
  /\ UNCHANGED <<closing, drain, model, published, channels, environment>>

(* The end of a round of run(); wait_for_work computes its deadline once:  *)
(* the drain deadline only counts while it is still ahead.                 *)
Publish ==
  /\ At("publish")
  /\ Published
  /\ pc' = IF phase = "Done" THEN "finish"
           ELSE IF more THEN "close"
           ELSE IF terminated /\ drain = 0 THEN "wait_reap" ELSE "wait"
  /\ more' = FALSE
  /\ UNCHANGED <<shutdown, exit, reader_done, published, channels, environment>>

Waiting == pc \in {"wait", "wait_reap"}

(* Mutant: only the drain deadline is waited for.                          *)
DrainDeadlinePassed == phase = "Closing" /\ pc = "wait" /\ drain = 0

DeadlinePassed ==
  /\ phase = "Closing"
  /\ \/ terminated /\ reap = 0
     \/ pc = "wait" /\ drain = 0

SendersGone ==
  reader = "done" /\ writer = "done" /\ waiter = "done" /\ ui = "gone"

Rung ==
  /\ Waiting
  /\ doorbell = 1
  /\ doorbell' = 0
  /\ pc' = "close"
  /\ UNCHANGED <<shutdown, model, published, output, exit_ch, write_errors,
                 replies, environment>>

TimedOut ==
  /\ Waiting
  /\ doorbell = 0
  /\ DeadlinePassed
  /\ pc' = "close"
  /\ UNCHANGED <<shutdown, model, published, channels, environment>>

(* recv() fails: every sender of the doorbell is gone.                     *)
Disconnected ==
  /\ Waiting
  /\ doorbell = 0 /\ SendersGone
  /\ pc' = "finish"
  /\ UNCHANGED <<shutdown, model, published, channels, environment>>

FinalStatus ==
  IF status # "Failed" /\ exit # "none" THEN "Exited" ELSE "Failed"

(* finish(), and the owner's ends of the channels are dropped.             *)
Finish ==
  /\ At("finish")
  /\ pc' = "gone"
  /\ status' = FinalStatus
  /\ doorbell' = 0 /\ output' = <<>> /\ exit_ch' = "none" /\ write_errors' = FALSE
  /\ UNCHANGED <<shutdown, model, closed, replies, environment>>

(* The deadlines come nearer.                                              *)
Tick ==
  /\ phase = "Closing" /\ ~OwnerGone
  /\ drain > 0 \/ (terminated /\ reap > 0)
  /\ drain' = IF drain > 0 THEN drain - 1 ELSE 0
  /\ reap' = IF reap > 0 THEN reap - 1 ELSE 0
  /\ UNCHANGED <<pc, phase, closing, terminated, model, published, channels,
                 environment>>

EndBatches ==
  BatchBudgetSpent \/ EndOfOutput \/ ReadError \/ OutputEmpty

Wait == Rung \/ TimedOut \/ Disconnected

OwnerNext ==
  \/ Start
  \/ CheckClose
  \/ CloseQueue
  \/ EnterClosing
  \/ Parse
  \/ EndBatches
  \/ HandleWriteErrors
  \/ HandleExit
  \/ AdvanceShutdown
  \/ Publish
  \/ Wait
  \/ Finish

ReaderNext == Read \/ Send \/ ReaderRings
WriterStep == WriterNext \/ Written \/ WriteFails \/ WriterRings
WaiterNext == Reap \/ WaiterSends \/ WaiterRings
UiNext == SpawnOwner \/ RequestClose \/ UiRings
ChildNext == ChildWrites \/ ChildExits \/ SlaveCloses

Next == OwnerNext \/ ReaderNext \/ WriterStep \/ WaiterNext \/ UiNext \/ ChildNext \/ Tick

Spec == Init /\ [][Next]_vars

(* The owner, the waiter and the UI run when they can, a batch ends by its *)
(* bytes or its time, and time passes.  Nothing makes the reader or the    *)
(* writer return from a system call, nor the child write, read, exit or    *)
(* let go of the terminal, and nobody has to close the session.            *)
Fairness ==
  /\ WF_vars(SpawnOwner)
  /\ WF_vars(OwnerNext)
  /\ WF_vars(EndBatches)
  /\ WF_vars(WaiterNext)
  /\ WF_vars(UiRings)
  /\ WF_vars(Tick)

FairSpec == Spec /\ Fairness

(* A batch has its time for at least one chunk, time and again: the clock  *)
(* is read right before the channel.                                       *)
TakeOutput == Parse \/ EndOfOutput \/ ReadError \/ OutputEmpty

AttentiveSpec == FairSpec /\ SF_vars(TakeOutput)

(***************************************************************************)
(* Properties                                                              *)
(***************************************************************************)

TypeOK ==
  /\ pc \in {"spawn", "start", "close", "output", "errors", "exit", "shutdown",
             "publish", "wait", "wait_reap", "finish", "gone"}
  /\ phase \in {"Running", "Closing", "Done"}
  /\ closing \in {"no", "queue", "status"}
  /\ drain \in 0 .. DRAIN_GRACE /\ reap \in 0 .. REAP_GRACE
  /\ terminated \in BOOLEAN
  /\ exit \in {"none", "ok", "error"} /\ exit_ch \in {"none", "ok", "error"}
  /\ reader_done \in BOOLEAN /\ dirty \in BOOLEAN /\ more \in BOOLEAN
  /\ status \in {"Creating", "Running", "Closing", "Exited", "Failed"}
  /\ closed \in BOOLEAN /\ fresh \in BOOLEAN
  /\ close_requested \in BOOLEAN
  /\ ui \in {"none", "ready", "ring", "gone"}
  /\ doorbell \in 0 .. 1
  /\ output \in Seq(Message) /\ Len(output) <= READ_QUEUE_CHUNKS
  /\ write_errors \in BOOLEAN
  /\ replies \in 0 .. ReplyReserve
  /\ reader \in {"read", "send", "ring", "done"}
  /\ held \in Message \union {"none"}
  /\ reader \in {"send", "ring"} => held \in Message
  /\ writer \in {"next", "write", "ring", "done"}
  /\ waiter \in {"wait", "send_ok", "send_err", "ring", "done"}
  /\ child \in {"running", "exited"} /\ slave \in BOOLEAN
  /\ pty \in 0 .. PtyChunks

(* The owner never sleeps over work: with the doorbell silent, output, an  *)
(* exit, a write error or a close request that it has not dealt with has a *)
(* producer that is still to ring.  One slot of doorbell serves all of     *)
(* them, and a ring that meets a full slot is dropped.                     *)
NoLostDoorbell ==
  Waiting /\ doorbell = 0 =>
    /\ output # <<>> => reader = "ring"
    /\ exit_ch # "none" /\ exit = "none" => waiter = "ring"
    /\ write_errors => writer = "ring"
    /\ close_requested /\ phase = "Running" => ui = "ring"

(* A session that ends as Exited before the drain deadline shows all that  *)
(* was ever written to the terminal: exit and end of output arrive on      *)
(* different channels in either order, and neither cuts the other short.   *)
AllOutputShown ==
  pc = "finish" /\ exit = "ok" /\ status # "Failed" /\ drain > 0
    => ~slave /\ pty = 0 /\ held # "Data" /\ output = <<>> /\ fresh

(* The session does not end over a child that runs without having asked it *)
(* to end, except when waiting for it failed.                              *)
ChildNotAbandoned ==
  pc = "finish" /\ child = "running" => terminated \/ exit = "error"

(* The status and the input of the session follow the lifecycle: Failed    *)
(* and Exited are final, whatever arrives late; the input closes once, for *)
(* good, after a failure is published and before Closing is; and nothing   *)
(* ends with its input open.                                               *)
Lifecycle == INSTANCE SessionLifecycle WITH
  input <- ~closed,
  ended <- OwnerGone

ImplementsLifecycle == Lifecycle!Safety

(* A session that is closed, or whose child exits, or that fails, ends,    *)
(* even when the child ignores the request to terminate, a descendant      *)
(* keeps the terminal, or the writer is stuck: no step waits for a worker. *)
Teardown == close_requested \/ child = "exited" \/ status = "Failed" ~> OwnerGone

(* "the owner observes a disconnected channel and fails the session"       *)
(* (spawn_named), should the thread of a worker be missing at the start.   *)
MissingWorkerFails ==
  reader = "done" \/ writer = "done" \/ waiter = "done" => <>(status = "Failed")
=============================================================================
