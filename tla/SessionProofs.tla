--------------------------- MODULE SessionProofs ---------------------------
(***************************************************************************)
(* The session never sleeps over work (NoLostDoorbell) and follows its     *)
(* lifecycle (ImplementsLifecycle), for all capacities, deadlines, faults  *)
(* and missing workers.                                                    *)
(***************************************************************************)
EXTENDS Session, SequenceTheorems, TLAPS

(* The owner looks at the item of a channel after this point of the round: *)
(* it has not come to it yet, or it goes round again, or it has ended.     *)
Ending == pc \in {"finish", "gone"}
Again == more /\ pc \in {"errors", "exit", "shutdown", "publish"}
BeforeClose == pc \in {"spawn", "start", "close"}
BeforeOutput == BeforeClose \/ pc = "output"
BeforeErrors == BeforeOutput \/ pc = "errors"
BeforeExit == BeforeErrors \/ pc = "exit"

(* The end of the output, or an error, is the last message of the reader.  *)
LastMessageLast ==
  \A i \in 1 .. Len(output) : output[i] # "Data" =>
    i = Len(output) /\ (reader = "done" \/ (reader = "ring" /\ held # "Data"))

(* NoLostDoorbell at every point of the round.                             *)
OutputNoticed ==
  doorbell = 0 /\ output # <<>> =>
    reader = "ring" \/ BeforeOutput \/ Again \/ Ending

ExitNoticed ==
  doorbell = 0 /\ exit_ch # "none" /\ exit = "none" =>
    waiter = "ring" \/ BeforeExit \/ Again \/ Ending

ErrorNoticed ==
  doorbell = 0 /\ write_errors =>
    writer = "ring" \/ BeforeErrors \/ Again \/ Ending

CloseNoticed ==
  doorbell = 0 /\ close_requested /\ phase = "Running" =>
    ui = "ring" \/ BeforeClose \/ Ending \/ closing # "no"

Noticed == OutputNoticed /\ ExitNoticed /\ ErrorNoticed /\ CloseNoticed

(* The status and the write queue along the owner's life; begin_close is   *)
(* entered while the session runs, and leaves it closing.                  *)
StatusInv ==
  /\ pc = "spawn" <=> status = "Creating"
  /\ pc = "spawn" => phase = "Running"
  /\ phase = "Running" /\ closing = "no" /\ pc # "spawn" => status = "Running"
  /\ phase = "Running" /\ pc # "spawn" => status \in {"Running", "Failed"}
  /\ phase # "Running" /\ pc # "gone" => status \in {"Closing", "Failed"}
  /\ Ending => phase # "Running"
  /\ closing # "no" =>
       phase = "Running" /\ pc \in {"output", "errors", "exit", "shutdown"}
  /\ closed <=> phase # "Running" \/ closing = "status"
  /\ ui \in {"ring", "gone"} => close_requested

IInv == TypeOK /\ LastMessageLast /\ Noticed /\ StatusInv

USE DEF vars, ownerVars, uiVars, channels, workers, childVars, environment,
        shutdown, model, published

(* The types, the Boolean variables apart from the others.                 *)
FlagsOK ==
  /\ terminated \in BOOLEAN /\ reader_done \in BOOLEAN /\ dirty \in BOOLEAN
  /\ more \in BOOLEAN /\ fresh \in BOOLEAN /\ close_requested \in BOOLEAN
  /\ write_errors \in BOOLEAN /\ slave \in BOOLEAN /\ closed \in BOOLEAN

DataOK ==
  /\ pc \in {"spawn", "start", "close", "output", "errors", "exit", "shutdown",
             "publish", "wait", "wait_reap", "finish", "gone"}
  /\ phase \in {"Running", "Closing", "Done"}
  /\ closing \in {"no", "queue", "status"}
  /\ drain \in 0 .. DRAIN_GRACE /\ reap \in 0 .. REAP_GRACE
  /\ exit \in {"none", "ok", "error"} /\ exit_ch \in {"none", "ok", "error"}
  /\ status \in {"Creating", "Running", "Closing", "Exited", "Failed"}
  /\ ui \in {"none", "ready", "ring", "gone"}
  /\ doorbell \in 0 .. 1
  /\ output \in Seq(Message) /\ Len(output) <= READ_QUEUE_CHUNKS
  /\ replies \in 0 .. ReplyReserve
  /\ reader \in {"read", "send", "ring", "done"}
  /\ held \in Message \union {"none"}
  /\ reader \in {"send", "ring"} => held \in Message
  /\ writer \in {"next", "write", "ring", "done"}
  /\ waiter \in {"wait", "send_ok", "send_err", "ring", "done"}
  /\ child \in {"running", "exited"}
  /\ pty \in 0 .. PtyChunks

LEMMA TypeParts == TypeOK <=> FlagsOK /\ DataOK
  BY Zenon DEF TypeOK, FlagsOK, DataOK

(* The initial state satisfies the invariant.                              *)
LEMMA InitIInv == Init => IInv
<1> SUFFICES ASSUME Init PROVE IInv
  OBVIOUS
<1>1. FlagsOK
  BY Zenon DEF Init, FlagsOK
<1>2. DataOK
  BY CapacityAssumption, GraceAssumption DEF Init, DataOK, Worker, Message
<1>3. LastMessageLast
  BY DEF Init, LastMessageLast
<1>4. Noticed
  BY DEF Init, Noticed, OutputNoticed, ExitNoticed, ErrorNoticed, CloseNoticed,
     BeforeExit, BeforeErrors, BeforeOutput, BeforeClose
<1>5. StatusInv
  BY DEF Init, StatusInv, Ending
<1> QED
  BY <1>1, <1>2, <1>3, <1>4, <1>5, TypeParts DEF IInv

(* Every step preserves the Boolean variables.                             *)
LEMMA NextFlagsOK == ASSUME FlagsOK, [Next]_vars PROVE FlagsOK'
<1> USE DEF FlagsOK
<1>1. CASE OwnerNext
  <2> USE DEF At, Unshaken, BeginClose, Fail, Published, Unterminated, EndBatch
  <2>1. CASE Start
    BY <2>1, Zenon DEF Start
  <2>2. CASE CheckClose
    BY <2>2, Zenon DEF CheckClose
  <2>3. CASE Parse
    BY <2>3, Zenon DEF Parse
  <2>4. CASE EndBatches
    BY <2>4, Zenon DEF EndBatches, BatchBudgetSpent, EndOfOutput, ReadError, OutputEmpty
  <2>5. CASE HandleWriteErrors
    BY <2>5, Zenon DEF HandleWriteErrors
  <2>6. CASE HandleExit
    BY <2>6, Zenon DEF HandleExit
  <2>7. CASE AdvanceShutdown
    BY <2>7, Zenon DEF AdvanceShutdown
  <2>8. CASE Publish
    BY <2>8, Zenon DEF Publish
  <2>9. CASE Wait
    BY <2>9, Zenon DEF Wait, Rung, TimedOut, Disconnected
  <2>10. CASE Finish
    BY <2>10, Zenon DEF Finish, FinalStatus
  <2>11. CASE CloseQueue
    BY <2>11, Zenon DEF CloseQueue
  <2>12. CASE EnterClosing
    BY <2>12, Zenon DEF EnterClosing, PublishClosing
  <2> QED
    BY <1>1, <2>1, <2>2, <2>3, <2>4, <2>5, <2>6, <2>7, <2>8, <2>9, <2>10, <2>11,
       <2>12
       DEF OwnerNext
<1>2. CASE ReaderNext
  BY <1>2, Zenon DEF ReaderNext, Read, Send, Room, ReaderRings, Ring
<1>3. CASE WriterStep
  BY <1>3, Zenon DEF WriterStep, WriterNext, Written, WriteFails, WriterRings, Ring, OwnerGone
<1>4. CASE WaiterNext
  BY <1>4, Zenon DEF WaiterNext, Reap, WaiterSends, WaiterRings, Ring
<1>5. CASE UiNext
  BY <1>5, Zenon DEF UiNext, SpawnOwner, RequestClose, UiRings, Ring
<1>6. CASE ChildNext
  BY <1>6, Zenon DEF ChildNext, ChildWrites, ChildExits, SlaveCloses
<1>7. CASE Tick
  BY <1>7, Zenon DEF Tick
<1>8. CASE UNCHANGED vars
  BY <1>8, Zenon
<1> QED
  BY <1>1, <1>2, <1>3, <1>4, <1>5, <1>6, <1>7, <1>8 DEF Next

(* Every step preserves the other types.                                   *)
LEMMA NextDataOK == ASSUME FlagsOK, DataOK, [Next]_vars PROVE DataOK'
<1> USE CapacityAssumption, GraceAssumption DEF DataOK, Message
<1>1. CASE OwnerNext
  <2> USE DEF At, Unshaken, BeginClose, Fail, Published, Unterminated, EndBatch
  <2>1. CASE Start
    BY <2>1 DEF Start
  <2>2. CASE CheckClose
    BY <2>2 DEF CheckClose
  <2>3. CASE Parse
    BY <2>3 DEF Parse
  <2>4. CASE EndBatches
    <3>1. output # <<>> => Tail(output) \in Seq(Message)
                           /\ Len(Tail(output)) <= READ_QUEUE_CHUNKS
      OBVIOUS
    <3>2. CASE BatchBudgetSpent
      BY <3>2 DEF BatchBudgetSpent
    <3>3. CASE EndOfOutput
      BY <3>1, <3>3 DEF EndOfOutput
    <3>4. CASE ReadError
      BY <3>1, <3>4 DEF ReadError
    <3>5. CASE OutputEmpty
      BY <3>5 DEF OutputEmpty
    <3> QED
      BY <2>4, <3>2, <3>3, <3>4, <3>5 DEF EndBatches
  <2>5. CASE HandleWriteErrors
    BY <2>5 DEF HandleWriteErrors
  <2>6. CASE HandleExit
    BY <2>6 DEF HandleExit
  <2>7. CASE AdvanceShutdown
    BY <2>7 DEF AdvanceShutdown
  <2>8. CASE Publish
    BY <2>8 DEF Publish
  <2>9. CASE Wait
    BY <2>9 DEF Wait, Rung, TimedOut, Disconnected
  <2>10. CASE Finish
    BY <2>10 DEF Finish, FinalStatus
  <2>11. CASE CloseQueue
    BY <2>11 DEF CloseQueue
  <2>12. CASE EnterClosing
    BY <2>12 DEF EnterClosing, PublishClosing
  <2> QED
    BY <1>1, <2>1, <2>2, <2>3, <2>4, <2>5, <2>6, <2>7, <2>8, <2>9, <2>10, <2>11,
       <2>12
       DEF OwnerNext
<1>2. CASE ReaderNext
  <2>1. CASE Read
    BY <2>1 DEF Read
  <2>2. CASE Send
    <3>1. held \in Message => Append(output, held) \in Seq(Message)
                              /\ Len(Append(output, held)) = Len(output) + 1
      OBVIOUS
    <3> QED
      BY <2>2, <3>1 DEF Send, Room
  <2>3. CASE ReaderRings
    BY <2>3 DEF ReaderRings, Ring
  <2> QED
    BY <1>2, <2>1, <2>2, <2>3 DEF ReaderNext
<1>3. CASE WriterStep
  BY <1>3 DEF WriterStep, WriterNext, Written, WriteFails, WriterRings, Ring, OwnerGone
<1>4. CASE WaiterNext
  BY <1>4 DEF WaiterNext, Reap, WaiterSends, WaiterRings, Ring
<1>5. CASE UiNext
  BY <1>5 DEF UiNext, SpawnOwner, RequestClose, UiRings, Ring
<1>6. CASE ChildNext
  BY <1>6 DEF ChildNext, ChildWrites, ChildExits, SlaveCloses
<1>7. CASE Tick
  BY <1>7 DEF Tick
<1>8. CASE UNCHANGED vars
  BY <1>8
<1> QED
  BY <1>1, <1>2, <1>3, <1>4, <1>5, <1>6, <1>7, <1>8 DEF Next

(* The last message of the reader stays the last one in the channel.       *)
LEMMA NextLastMessage ==
  ASSUME TypeOK, LastMessageLast, [Next]_vars PROVE LastMessageLast'
<1>1. output \in Seq(Message) /\ (reader = "ring" => held \in Message)
  BY DEF TypeOK
<1>2. CASE UNCHANGED <<output, reader, held>>
  BY <1>2 DEF LastMessageLast
<1>3. CASE output # <<>> /\ output' = Tail(output) /\ UNCHANGED <<reader, held>>
  <2>1. \A i \in 1 .. Len(output') : output'[i] = output[i + 1] /\ i + 1 \in 1 .. Len(output)
    BY <1>1, <1>3
  <2>2. Len(output') = Len(output) - 1
    BY <1>1, <1>3
  <2>3. ASSUME NEW i \in 1 .. Len(output'), output'[i] # "Data"
        PROVE  i = Len(output') /\ (reader = "done" \/ (reader = "ring" /\ held # "Data"))
    <3>1. output[i + 1] # "Data" /\ i + 1 \in 1 .. Len(output)
      BY <2>1, <2>3
    <3>2. i + 1 = Len(output) /\ (reader = "done" \/ (reader = "ring" /\ held # "Data"))
      BY <3>1 DEF LastMessageLast
    <3> QED
      BY <1>1, <2>2, <3>2
  <2> QED
    BY <1>3, <2>3 DEF LastMessageLast
<1>4. CASE output' = <<>>
  BY <1>4 DEF LastMessageLast
<1>5. CASE Read
  BY <1>1, <1>5 DEF Read, LastMessageLast
<1>6. CASE Send
  <2>1. CASE OwnerGone
    BY <1>1, <1>6, <2>1 DEF Send, LastMessageLast
  <2>2. CASE ~OwnerGone
    <3>1. output' = Append(output, held) /\ reader' = "ring" /\ held' = held /\ reader = "send"
      BY <1>6, <2>2 DEF Send
    <3>2. \A i \in 1 .. Len(output) : output[i] = "Data"
      BY <3>1 DEF LastMessageLast
    <3>3. Len(output') = Len(output) + 1 /\ output'[Len(output) + 1] = held
          /\ \A i \in 1 .. Len(output) : output'[i] = output[i]
      BY <1>1, <3>1
    <3> QED
      BY <1>1, <3>1, <3>2, <3>3 DEF LastMessageLast
  <2> QED
    BY <2>1, <2>2
<1>7. CASE ReaderRings
  BY <1>1, <1>7 DEF ReaderRings, LastMessageLast
<1>8. \/ UNCHANGED <<output, reader, held>>
      \/ output # <<>> /\ output' = Tail(output) /\ UNCHANGED <<reader, held>>
      \/ output' = <<>>
      \/ Read \/ Send \/ ReaderRings
  <2> SUFFICES ASSUME ~(Read \/ Send \/ ReaderRings)
               PROVE \/ UNCHANGED <<output, reader, held>>
                     \/ output # <<>> /\ output' = Tail(output) /\ UNCHANGED <<reader, held>>
                     \/ output' = <<>>
    OBVIOUS
  <2>1. CASE OwnerNext
    BY <2>1 DEF OwnerNext, Start, CheckClose, CloseQueue, EnterClosing, At, Parse, EndBatches, EndBatch,
       BatchBudgetSpent, EndOfOutput, ReadError, OutputEmpty, HandleWriteErrors,
       HandleExit, AdvanceShutdown, Publish, Wait, Rung, TimedOut, Disconnected, Finish
  <2>2. CASE ~OwnerNext
    BY <2>2 DEF Next, ReaderNext, WriterStep, WriterNext, Written, WriteFails,
       WriterRings, WaiterNext, Reap, WaiterSends, WaiterRings, UiNext, SpawnOwner,
       RequestClose, UiRings, ChildNext, ChildWrites, ChildExits, SlaveCloses, Tick
  <2> QED
    BY <2>1, <2>2
<1> QED
  BY <1>2, <1>3, <1>4, <1>5, <1>6, <1>7, <1>8

(* When the reader has said its last word, the channel is empty after it.  *)
LEMMA LastWord ==
  ASSUME TypeOK, LastMessageLast, EndOfOutput \/ ReadError PROVE output' = <<>>
<1> USE DEF EndOfOutput, ReadError, ReaderFinished
<1>1. CASE output = <<>>
  BY <1>1
<1>2. CASE output # <<>>
  <2>1. output \in Seq(Message) /\ output' = Tail(output) /\ Head(output) # "Data"
    BY <1>2 DEF TypeOK
  <2>2. 1 \in 1 .. Len(output) /\ output[1] # "Data"
    BY <1>2, <2>1
  <2>3. Len(output) = 1
    BY <2>1, <2>2 DEF LastMessageLast
  <2> QED
    BY <2>1, <2>3
<1> QED
  BY <1>1, <1>2

(* Output is noticed.                                                      *)
LEMMA NextOutputNoticed ==
  ASSUME TypeOK, LastMessageLast, OutputNoticed, [Next]_vars PROVE OutputNoticed'
<1> USE DEF OutputNoticed, Again, Ending, BeforeClose, BeforeOutput, BeforeErrors, BeforeExit, TypeOK
<1>1. CASE OwnerNext
  <2> USE DEF At, Unshaken, BeginClose, Fail, Published, Unterminated, EndBatch
  <2>1. CASE Start
    BY <2>1 DEF Start
  <2>2. CASE CheckClose
    BY <2>2 DEF CheckClose
  <2>3. CASE Parse
    BY <2>3 DEF Parse
  <2>4. CASE EndBatches
    BY <2>4, LastWord DEF EndBatches, BatchBudgetSpent, EndOfOutput, ReadError, OutputEmpty, ReaderFinished
  <2>5. CASE HandleWriteErrors
    BY <2>5 DEF HandleWriteErrors
  <2>6. CASE HandleExit
    BY <2>6 DEF HandleExit
  <2>7. CASE AdvanceShutdown
    BY <2>7 DEF AdvanceShutdown
  <2>8. CASE Publish
    BY <2>8 DEF Publish
  <2>9. CASE Wait
    BY <2>9 DEF Wait, Rung, TimedOut, Disconnected, Waiting
  <2>10. CASE Finish
    BY <2>10 DEF Finish, FinalStatus
  <2>11. CASE CloseQueue
    BY <2>11 DEF CloseQueue
  <2>12. CASE EnterClosing
    BY <2>12 DEF EnterClosing, PublishClosing
  <2> QED
    BY <1>1, <2>1, <2>2, <2>3, <2>4, <2>5, <2>6, <2>7, <2>8, <2>9, <2>10, <2>11,
       <2>12
       DEF OwnerNext
<1>2. CASE ReaderNext
  BY <1>2 DEF ReaderNext, Read, Send, ReaderRings, Ring, OwnerGone
<1>3. CASE WriterStep
  BY <1>3 DEF WriterStep, WriterNext, Written, WriteFails, WriterRings, Ring, OwnerGone
<1>4. CASE WaiterNext
  BY <1>4 DEF WaiterNext, Reap, WaiterSends, WaiterRings, Ring, OwnerGone
<1>5. CASE UiNext
  BY <1>5 DEF UiNext, SpawnOwner, RequestClose, UiRings, Ring, OwnerGone
<1>6. CASE ChildNext
  BY <1>6 DEF ChildNext, ChildWrites, ChildExits, SlaveCloses
<1>7. CASE Tick
  BY <1>7 DEF Tick
<1>8. CASE UNCHANGED vars
  BY <1>8
<1> QED
  BY <1>1, <1>2, <1>3, <1>4, <1>5, <1>6, <1>7, <1>8 DEF Next

(* The exit of the child is noticed.                                       *)
LEMMA NextExitNoticed ==
  ASSUME TypeOK, ExitNoticed, [Next]_vars PROVE ExitNoticed'
<1> USE DEF ExitNoticed, Again, Ending, BeforeClose, BeforeOutput, BeforeErrors, BeforeExit, TypeOK
<1>1. CASE OwnerNext
  <2> USE DEF At, Unshaken, BeginClose, Fail, Published, Unterminated, EndBatch
  <2>1. CASE Start
    BY <2>1 DEF Start
  <2>2. CASE CheckClose
    BY <2>2 DEF CheckClose
  <2>3. CASE Parse
    BY <2>3 DEF Parse
  <2>4. CASE EndBatches
    BY <2>4 DEF EndBatches, BatchBudgetSpent, EndOfOutput, ReadError, OutputEmpty, ReaderFinished
  <2>5. CASE HandleWriteErrors
    BY <2>5 DEF HandleWriteErrors
  <2>6. CASE HandleExit
    BY <2>6 DEF HandleExit
  <2>7. CASE AdvanceShutdown
    BY <2>7 DEF AdvanceShutdown
  <2>8. CASE Publish
    BY <2>8 DEF Publish
  <2>9. CASE Wait
    BY <2>9 DEF Wait, Rung, TimedOut, Disconnected, Waiting
  <2>10. CASE Finish
    BY <2>10 DEF Finish, FinalStatus
  <2>11. CASE CloseQueue
    BY <2>11 DEF CloseQueue
  <2>12. CASE EnterClosing
    BY <2>12 DEF EnterClosing, PublishClosing
  <2> QED
    BY <1>1, <2>1, <2>2, <2>3, <2>4, <2>5, <2>6, <2>7, <2>8, <2>9, <2>10, <2>11,
       <2>12
       DEF OwnerNext
<1>2. CASE ReaderNext
  BY <1>2 DEF ReaderNext, Read, Send, ReaderRings, Ring, OwnerGone
<1>3. CASE WriterStep
  BY <1>3 DEF WriterStep, WriterNext, Written, WriteFails, WriterRings, Ring, OwnerGone
<1>4. CASE WaiterNext
  BY <1>4 DEF WaiterNext, Reap, WaiterSends, WaiterRings, Ring, OwnerGone
<1>5. CASE UiNext
  BY <1>5 DEF UiNext, SpawnOwner, RequestClose, UiRings, Ring, OwnerGone
<1>6. CASE ChildNext
  BY <1>6 DEF ChildNext, ChildWrites, ChildExits, SlaveCloses
<1>7. CASE Tick
  BY <1>7 DEF Tick
<1>8. CASE UNCHANGED vars
  BY <1>8
<1> QED
  BY <1>1, <1>2, <1>3, <1>4, <1>5, <1>6, <1>7, <1>8 DEF Next

(* A write error is noticed.                                               *)
LEMMA NextErrorNoticed ==
  ASSUME TypeOK, ErrorNoticed, [Next]_vars PROVE ErrorNoticed'
<1> USE DEF ErrorNoticed, Again, Ending, BeforeClose, BeforeOutput, BeforeErrors, BeforeExit, TypeOK
<1>1. CASE OwnerNext
  <2> USE DEF At, Unshaken, BeginClose, Fail, Published, Unterminated, EndBatch
  <2>1. CASE Start
    BY <2>1 DEF Start
  <2>2. CASE CheckClose
    BY <2>2 DEF CheckClose
  <2>3. CASE Parse
    BY <2>3 DEF Parse
  <2>4. CASE EndBatches
    BY <2>4 DEF EndBatches, BatchBudgetSpent, EndOfOutput, ReadError, OutputEmpty, ReaderFinished
  <2>5. CASE HandleWriteErrors
    BY <2>5 DEF HandleWriteErrors
  <2>6. CASE HandleExit
    BY <2>6 DEF HandleExit
  <2>7. CASE AdvanceShutdown
    BY <2>7 DEF AdvanceShutdown
  <2>8. CASE Publish
    BY <2>8 DEF Publish
  <2>9. CASE Wait
    BY <2>9 DEF Wait, Rung, TimedOut, Disconnected, Waiting
  <2>10. CASE Finish
    BY <2>10 DEF Finish, FinalStatus
  <2>11. CASE CloseQueue
    BY <2>11 DEF CloseQueue
  <2>12. CASE EnterClosing
    BY <2>12 DEF EnterClosing, PublishClosing
  <2> QED
    BY <1>1, <2>1, <2>2, <2>3, <2>4, <2>5, <2>6, <2>7, <2>8, <2>9, <2>10, <2>11,
       <2>12
       DEF OwnerNext
<1>2. CASE ReaderNext
  <2>1. UNCHANGED <<pc, more, write_errors, writer>>
    BY <1>2 DEF ReaderNext, Read, Send, ReaderRings
  <2>2. doorbell' \in {doorbell, 1}
    BY <1>2 DEF ReaderNext, Read, Send, ReaderRings, Ring
  <2> QED
    BY <2>1, <2>2
<1>3. CASE WriterStep
  <2>1. CASE WriterNext \/ Written
    <3>1. UNCHANGED <<pc, more, write_errors, doorbell>> /\ writer # "ring"
      BY <2>1 DEF WriterNext, Written
    <3> QED
      BY <3>1
  <2>2. CASE WriteFails
    BY <2>2 DEF WriteFails
  <2>3. CASE WriterRings
    <3>1. UNCHANGED <<pc, more, write_errors>> /\ (doorbell' = 1 \/ pc = "gone")
      BY <2>3 DEF WriterRings, Ring, OwnerGone
    <3> QED
      BY <3>1
  <2> QED
    BY <1>3, <2>1, <2>2, <2>3 DEF WriterStep
<1>4. CASE WaiterNext
  <2>1. UNCHANGED <<pc, more, write_errors, writer>>
    BY <1>4 DEF WaiterNext, Reap, WaiterSends, WaiterRings
  <2>2. doorbell' \in {doorbell, 1}
    BY <1>4 DEF WaiterNext, Reap, WaiterSends, WaiterRings, Ring
  <2> QED
    BY <2>1, <2>2
<1>5. CASE UiNext
  <2>1. UNCHANGED <<phase, more, write_errors, writer>>
    BY <1>5 DEF UiNext, SpawnOwner, RequestClose, UiRings
  <2>2. doorbell' \in {doorbell, 1}
    BY <1>5 DEF UiNext, SpawnOwner, RequestClose, UiRings, Ring
  <2>3. pc' \in {pc, "start"}
    BY <1>5 DEF UiNext, SpawnOwner, RequestClose, UiRings
  <2> QED
    BY <2>1, <2>2, <2>3
<1>6. CASE ChildNext
  BY <1>6 DEF ChildNext, ChildWrites, ChildExits, SlaveCloses
<1>7. CASE Tick
  BY <1>7 DEF Tick
<1>8. CASE UNCHANGED vars
  BY <1>8
<1> QED
  BY <1>1, <1>2, <1>3, <1>4, <1>5, <1>6, <1>7, <1>8 DEF Next

(* A request to close is noticed.                                          *)
LEMMA NextCloseNoticed ==
  ASSUME TypeOK, CloseNoticed, [Next]_vars PROVE CloseNoticed'
<1> USE DEF CloseNoticed, Again, Ending, BeforeClose, BeforeOutput, BeforeErrors, BeforeExit, TypeOK
<1>1. CASE OwnerNext
  <2> USE DEF At, Unshaken, BeginClose, Fail, Published, Unterminated, EndBatch
  <2>1. CASE Start
    BY <2>1 DEF Start
  <2>2. CASE CheckClose
    BY <2>2 DEF CheckClose
  <2>3. CASE Parse
    BY <2>3 DEF Parse
  <2>4. CASE EndBatches
    BY <2>4 DEF EndBatches, BatchBudgetSpent, EndOfOutput, ReadError, OutputEmpty, ReaderFinished
  <2>5. CASE HandleWriteErrors
    BY <2>5 DEF HandleWriteErrors
  <2>6. CASE HandleExit
    BY <2>6 DEF HandleExit
  <2>7. CASE AdvanceShutdown
    BY <2>7 DEF AdvanceShutdown
  <2>8. CASE Publish
    BY <2>8 DEF Publish
  <2>9. CASE Wait
    BY <2>9 DEF Wait, Rung, TimedOut, Disconnected, Waiting
  <2>10. CASE Finish
    BY <2>10 DEF Finish, FinalStatus
  <2>11. CASE CloseQueue
    BY <2>11 DEF CloseQueue
  <2>12. CASE EnterClosing
    BY <2>12 DEF EnterClosing, PublishClosing
  <2> QED
    BY <1>1, <2>1, <2>2, <2>3, <2>4, <2>5, <2>6, <2>7, <2>8, <2>9, <2>10, <2>11,
       <2>12
       DEF OwnerNext
<1>2. CASE ReaderNext
  <2>1. UNCHANGED <<pc, phase, closing, more, close_requested, ui>>
    BY <1>2 DEF ReaderNext, Read, Send, ReaderRings
  <2>2. doorbell' \in {doorbell, 1}
    BY <1>2 DEF ReaderNext, Read, Send, ReaderRings, Ring
  <2> QED
    BY <2>1, <2>2
<1>3. CASE WriterStep
  <2>1. UNCHANGED <<pc, phase, closing, more, close_requested, ui>>
    BY <1>3 DEF WriterStep, WriterNext, Written, WriteFails, WriterRings
  <2>2. doorbell' \in {doorbell, 1}
    BY <1>3 DEF WriterStep, WriterNext, Written, WriteFails, WriterRings, Ring
  <2> QED
    BY <2>1, <2>2
<1>4. CASE WaiterNext
  <2>1. UNCHANGED <<pc, phase, closing, more, close_requested, ui>>
    BY <1>4 DEF WaiterNext, Reap, WaiterSends, WaiterRings
  <2>2. doorbell' \in {doorbell, 1}
    BY <1>4 DEF WaiterNext, Reap, WaiterSends, WaiterRings, Ring
  <2> QED
    BY <2>1, <2>2
<1>5. CASE UiNext
  <2>1. CASE SpawnOwner
    <3>1. pc' = "start"
      BY <2>1 DEF SpawnOwner
    <3> QED
      BY <3>1
  <2>2. CASE RequestClose
    <3>1. ui' = "ring"
      BY <2>2 DEF RequestClose
    <3> QED
      BY <3>1
  <2>3. CASE UiRings
    <3>1. UNCHANGED pc /\ (doorbell' = 1 \/ pc = "gone")
      BY <2>3 DEF UiRings, Ring, OwnerGone
    <3> QED
      BY <3>1
  <2> QED
    BY <1>5, <2>1, <2>2, <2>3 DEF UiNext
<1>6. CASE ChildNext
  BY <1>6 DEF ChildNext, ChildWrites, ChildExits, SlaveCloses
<1>7. CASE Tick
  BY <1>7 DEF Tick
<1>8. CASE UNCHANGED vars
  BY <1>8
<1> QED
  BY <1>1, <1>2, <1>3, <1>4, <1>5, <1>6, <1>7, <1>8 DEF Next

(* The status keeps to the owner's life; in particular an owner that finds *)
(* every sender of its doorbell gone has seen the request to close.        *)
LEMMA NextStatusInv ==
  ASSUME TypeOK, CloseNoticed, StatusInv, [Next]_vars PROVE StatusInv'
<1> USE DEF StatusInv, Ending, BeforeClose, TypeOK
<1>1. CASE OwnerNext
  <2> USE DEF At, Unshaken, BeginClose, Fail, Published, Unterminated, EndBatch
  <2>1. CASE Start
    BY <2>1 DEF Start
  <2>2. CASE CheckClose
    BY <2>2 DEF CheckClose
  <2>3. CASE Parse
    BY <2>3 DEF Parse
  <2>4. CASE EndBatches
    BY <2>4 DEF EndBatches, BatchBudgetSpent, EndOfOutput, ReadError, OutputEmpty
  <2>5. CASE HandleWriteErrors
    BY <2>5 DEF HandleWriteErrors
  <2>6. CASE HandleExit
    BY <2>6 DEF HandleExit
  <2>7. CASE AdvanceShutdown
    BY <2>7 DEF AdvanceShutdown
  <2>8. CASE Publish
    BY <2>8 DEF Publish
  <2>9. CASE Rung \/ TimedOut
    BY <2>9 DEF Rung, TimedOut, Waiting
  <2>10. CASE Disconnected
    BY <2>10 DEF Disconnected, Waiting, SendersGone, CloseNoticed
  <2>11. CASE Finish
    BY <2>11 DEF Finish, FinalStatus
  <2>12. CASE CloseQueue
    BY <2>12 DEF CloseQueue
  <2>13. CASE EnterClosing
    BY <2>13 DEF EnterClosing, PublishClosing
  <2> QED
    BY <1>1, <2>1, <2>2, <2>3, <2>4, <2>5, <2>6, <2>7, <2>8, <2>9, <2>10, <2>11,
       <2>12, <2>13
       DEF OwnerNext, Wait
<1>2. CASE ReaderNext
  BY <1>2 DEF ReaderNext, Read, Send, ReaderRings
<1>3. CASE WriterStep
  BY <1>3 DEF WriterStep, WriterNext, Written, WriteFails, WriterRings
<1>4. CASE WaiterNext
  BY <1>4 DEF WaiterNext, Reap, WaiterSends, WaiterRings
<1>5. CASE UiNext
  BY <1>5 DEF UiNext, SpawnOwner, RequestClose, UiRings
<1>6. CASE ChildNext
  BY <1>6 DEF ChildNext, ChildWrites, ChildExits, SlaveCloses
<1>7. CASE Tick
  BY <1>7 DEF Tick
<1>8. CASE UNCHANGED vars
  BY <1>8
<1> QED
  BY <1>1, <1>2, <1>3, <1>4, <1>5, <1>6, <1>7, <1>8 DEF Next

(* The invariant is inductive.                                             *)
LEMMA NextIInv == IInv /\ [Next]_vars => IInv'
<1> SUFFICES ASSUME IInv, [Next]_vars PROVE IInv'
  OBVIOUS
<1>1. TypeOK /\ FlagsOK /\ DataOK /\ LastMessageLast /\ StatusInv
      /\ OutputNoticed /\ ExitNoticed /\ ErrorNoticed /\ CloseNoticed
  BY TypeParts DEF IInv, Noticed
<1>2. FlagsOK' /\ DataOK'
  BY <1>1, NextFlagsOK, NextDataOK
<1>3. TypeOK'
  BY <1>2, Zenon DEF TypeOK, FlagsOK, DataOK
<1>4. LastMessageLast' /\ StatusInv'
  BY <1>1, NextLastMessage, NextStatusInv
<1>5. OutputNoticed' /\ ExitNoticed' /\ ErrorNoticed' /\ CloseNoticed'
  BY <1>1, NextOutputNoticed, NextExitNoticed, NextErrorNoticed, NextCloseNoticed
<1> QED
  BY <1>3, <1>4, <1>5 DEF IInv, Noticed

LEMMA Invariance == Spec => []IInv
  BY InitIInv, NextIInv, PTL DEF Spec

(* Every value stays within its bounds, the channels included.             *)
THEOREM TypeCorrect == Spec => []TypeOK
<1>1. IInv => TypeOK
  BY DEF IInv
<1> QED
  BY <1>1, Invariance, PTL

(* The owner never sleeps over output, an exit, a write error or a request *)
(* to close, however the producers, the owner's round and the one slot of  *)
(* the doorbell interleave.                                                *)
THEOREM DoorbellNeverLost == Spec => []NoLostDoorbell
<1>1. IInv => NoLostDoorbell
  BY DEF IInv, Noticed, OutputNoticed, ExitNoticed, ErrorNoticed, CloseNoticed,
     StatusInv, NoLostDoorbell, Waiting, Again, Ending, BeforeClose, BeforeOutput,
     BeforeErrors, BeforeExit
<1> QED
  BY <1>1, Invariance, PTL

(* A step of the session is a step of its lifecycle, or none.              *)
LEMMA StepIsLifecycleStep ==
  ASSUME IInv, [Next]_vars PROVE [Lifecycle!Next]_(Lifecycle!vars)
<1> USE DEF Lifecycle!Next, Lifecycle!vars, Lifecycle!Run, Lifecycle!Close,
            Lifecycle!Break, Lifecycle!Shut, Lifecycle!End, OwnerGone
<1>1. TypeOK /\ StatusInv /\ CloseNoticed
  BY DEF IInv, Noticed
<1>2. CASE OwnerNext
  <2> USE DEF StatusInv, Ending, At
  <2>1. CASE CheckClose
    BY <1>1, <2>1 DEF CheckClose, BeginClose, Unshaken
  <2>2. CASE Parse \/ ReadError \/ HandleWriteErrors \/ HandleExit
    <3> USE DEF Fail, BeginClose, Unshaken
    <3>1. CASE Parse
      BY <1>1, <3>1 DEF Parse
    <3>2. CASE ReadError
      BY <1>1, <3>2 DEF ReadError, EndBatch
    <3>3. CASE HandleWriteErrors
      BY <1>1, <3>3 DEF HandleWriteErrors
    <3>4. CASE HandleExit
      BY <1>1, <3>4 DEF HandleExit
    <3> QED
      BY <2>2, <3>1, <3>2, <3>3, <3>4
  <2>6. CASE CloseQueue
    BY <1>1, <2>6 DEF CloseQueue
  <2>7. CASE EnterClosing
    BY <1>1, <2>7 DEF EnterClosing, PublishClosing
  <2>3. CASE AdvanceShutdown
    BY <1>1, <2>3 DEF AdvanceShutdown, Unterminated
  <2>4. CASE Finish
    BY <1>1, <2>4 DEF Finish, FinalStatus
  <2>5. CASE Start \/ BatchBudgetSpent \/ EndOfOutput \/ OutputEmpty \/ Publish \/ Wait
    BY <1>1, <2>5 DEF Start, Publish, Wait, Rung, TimedOut, Disconnected, Waiting,
       BatchBudgetSpent, EndOfOutput, OutputEmpty, EndBatch, Unshaken
  <2> QED
    BY <1>2, <2>1, <2>2, <2>3, <2>4, <2>5, <2>6, <2>7 DEF OwnerNext, EndBatches
<1>3. CASE SpawnOwner
  BY <1>1, <1>3 DEF SpawnOwner, StatusInv
<1>4. CASE ReaderNext \/ WriterStep \/ WaiterNext
  BY <1>4 DEF ReaderNext, Read, Send, ReaderRings, WriterStep, WriterNext, Written,
     WriteFails, WriterRings, WaiterNext, Reap, WaiterSends, WaiterRings
<1>5. CASE RequestClose \/ UiRings \/ ChildNext \/ Tick \/ UNCHANGED vars
  BY <1>5 DEF RequestClose, UiRings, ChildNext, ChildWrites, ChildExits, SlaveCloses, Tick
<1> QED
  BY <1>2, <1>3, <1>4, <1>5 DEF Next, UiNext

(* The session implements its lifecycle: the status moves as the handle is *)
(* promised, Failed and Exited are final, no input is taken once it closes *)
(* and it ends only after it closed.                                       *)
THEOREM RefinesLifecycle == Spec => ImplementsLifecycle
<1>1. Init => Lifecycle!Init
  BY DEF Init, Lifecycle!Init, OwnerGone
<1>2. IInv /\ [Next]_vars => [Lifecycle!Next]_(Lifecycle!vars)
  BY StepIsLifecycleStep
<1> QED
  BY <1>1, <1>2, Invariance, PTL DEF Spec, ImplementsLifecycle, Lifecycle!Safety
(***************************************************************************)
(* How a session ends.  What is claimed of its last state needs to know    *)
(* why the owner got there.                                                *)
(***************************************************************************)

(* An exit that is reported is true.                                       *)
ExitTrue ==
  exit = "ok" \/ exit_ch = "ok" \/ waiter = "send_ok" => child = "exited"

(* A request to close while the session closes for another reason gets the *)
(* child terminated in this round, or rings.                               *)
CloseHeard ==
  /\ doorbell = 0 /\ close_requested
  /\ phase = "Closing" /\ ~terminated /\ exit = "none"
  => \/ ui = "ring"
     \/ pc \in {"close", "output", "errors", "exit", "shutdown", "finish", "gone"}

(* Why the owner is done, or has left the loop without being done.         *)
DoneReason ==
  phase = "Done" =>
    /\ pc \in {"publish", "finish", "gone"}
    /\ \/ terminated /\ reap = 0
       \/ exit # "none" /\ (reader_done \/ drain = 0)

LeftReason ==
  pc = "finish" /\ phase # "Done" =>
    reader = "done" /\ output = <<>> /\ (terminated \/ exit # "none")

(* The drain deadline is never behind the reap deadline.                   *)
Deadlines == terminated => phase # "Running" /\ drain <= reap

(* What is parsed is shown, or going to be.                                *)
Fresh ==
  /\ fresh \/ dirty
  /\ pc \in {"wait", "wait_reap", "finish"} => fresh

(* An end of file is believed only when nothing can follow it.             *)
Silent == ~slave /\ pty = 0
LastSaid == reader = "done" \/ (reader = "ring" /\ held # "Data")
Sent(message) == \E i \in 1 .. Len(output) : output[i] = message

ReaderTruth ==
  "read" \notin Missing /\ pc # "gone" =>
    /\ reader \in {"read", "done"} => held = "none"
    /\ held = "Eof" \/ Sent("Eof") => Silent
    /\ reader = "done" \/ (reader = "ring" /\ held = "Error") =>
         Silent \/ status = "Failed" \/ Sent("Error")
    /\ reader_done =>
         status = "Failed" \/ (Silent /\ output = <<>> /\ LastSaid)

EndInv ==
  ExitTrue /\ CloseHeard /\ DoneReason /\ LeftReason /\ Deadlines /\ Fresh /\ ReaderTruth

LEMMA InitEndInv == Init => EndInv
<1> SUFFICES ASSUME Init PROVE EndInv
  OBVIOUS
<1>1. ExitTrue /\ CloseHeard /\ DoneReason /\ LeftReason /\ Deadlines
  BY DEF Init, ExitTrue, CloseHeard, DoneReason, LeftReason, Deadlines, Worker
<1>2. Fresh
  BY DEF Init, Fresh
<1>3. ReaderTruth
  BY DEF Init, ReaderTruth, Sent, Worker
<1> QED
  BY <1>1, <1>2, <1>3 DEF EndInv

LEMMA NextExitTrue ==
  ASSUME ExitTrue, [Next]_vars PROVE ExitTrue'
<1> USE DEF ExitTrue
<1>1. CASE OwnerNext
  <2> USE DEF At, Unshaken, BeginClose, Fail, Published, Unterminated, EndBatch
  <2>1. CASE Start
    BY <2>1 DEF Start
  <2>2. CASE CheckClose
    BY <2>2 DEF CheckClose
  <2>3. CASE Parse
    BY <2>3 DEF Parse
  <2>4. CASE EndBatches
    BY <2>4 DEF EndBatches, BatchBudgetSpent, EndOfOutput, ReadError,
       OutputEmpty, ReaderFinished
  <2>5. CASE HandleWriteErrors
    BY <2>5 DEF HandleWriteErrors
  <2>6. CASE HandleExit
    BY <2>6 DEF HandleExit
  <2>7. CASE AdvanceShutdown
    BY <2>7 DEF AdvanceShutdown, EndKnown, Drained, Overdue, MayTerminate
  <2>8. CASE Publish
    BY <2>8 DEF Publish
  <2>9. CASE Rung
    BY <2>9 DEF Rung, Waiting
  <2>10. CASE TimedOut
    BY <2>10 DEF TimedOut, Waiting
  <2>11. CASE Disconnected
    BY <2>11 DEF Disconnected, Waiting, SendersGone
  <2>12. CASE Finish
    BY <2>12 DEF Finish, FinalStatus
  <2>13. CASE CloseQueue
    BY <2>13 DEF CloseQueue
  <2>14. CASE EnterClosing
    BY <2>14 DEF EnterClosing, PublishClosing
  <2> QED
    BY <1>1, <2>1, <2>2, <2>3, <2>4, <2>5, <2>6, <2>7, <2>8, <2>9, <2>10, <2>11,
       <2>12, <2>13, <2>14
       DEF OwnerNext, Wait
<1>2. CASE ReaderNext
  BY <1>2 DEF ReaderNext, Read, Send, ReaderRings, Ring, OwnerGone
<1>3. CASE WriterStep
  BY <1>3 DEF WriterStep, WriterNext, Written, WriteFails, WriterRings, Ring, OwnerGone
<1>4. CASE WaiterNext
  BY <1>4 DEF WaiterNext, Reap, WaiterSends, WaiterRings, Ring, OwnerGone
<1>5. CASE UiNext
  BY <1>5 DEF UiNext, SpawnOwner, RequestClose, UiRings, Ring, OwnerGone
<1>6. CASE ChildNext
  BY <1>6 DEF ChildNext, ChildWrites, ChildExits, SlaveCloses
<1>7. CASE Tick
  BY <1>7 DEF Tick
<1>8. CASE UNCHANGED vars
  BY <1>8
<1> QED
  BY <1>1, <1>2, <1>3, <1>4, <1>5, <1>6, <1>7, <1>8 DEF Next

LEMMA NextCloseHeard ==
  ASSUME TypeOK, StatusInv, CloseNoticed, CloseHeard, [Next]_vars PROVE CloseHeard'
<1> USE DEF CloseHeard, StatusInv, CloseNoticed, BeforeClose, Ending
<1>1. CASE OwnerNext
  <2> USE DEF At, Unshaken, BeginClose, Fail, Published, Unterminated, EndBatch
  <2>1. CASE Start
    BY <2>1 DEF Start
  <2>2. CASE CheckClose
    BY <2>2 DEF CheckClose
  <2>3. CASE Parse
    BY <2>3 DEF Parse
  <2>4. CASE EndBatches
    BY <2>4 DEF EndBatches, BatchBudgetSpent, EndOfOutput, ReadError,
       OutputEmpty, ReaderFinished
  <2>5. CASE HandleWriteErrors
    BY <2>5 DEF HandleWriteErrors
  <2>6. CASE HandleExit
    BY <2>6 DEF HandleExit
  <2>7. CASE AdvanceShutdown
    BY <2>7 DEF AdvanceShutdown, EndKnown, Drained, Overdue, MayTerminate
  <2>8. CASE Publish
    BY <2>8 DEF Publish
  <2>9. CASE Rung
    BY <2>9 DEF Rung, Waiting
  <2>10. CASE TimedOut
    BY <2>10 DEF TimedOut, Waiting
  <2>11. CASE Disconnected
    BY <2>11 DEF Disconnected, Waiting, SendersGone
  <2>12. CASE Finish
    BY <2>12 DEF Finish, FinalStatus
  <2>13. CASE CloseQueue
    BY <2>13 DEF CloseQueue
  <2>14. CASE EnterClosing
    BY <2>14 DEF EnterClosing, PublishClosing
  <2> QED
    BY <1>1, <2>1, <2>2, <2>3, <2>4, <2>5, <2>6, <2>7, <2>8, <2>9, <2>10, <2>11,
       <2>12, <2>13, <2>14
       DEF OwnerNext, Wait
<1>2. CASE ReaderNext
  <2>1. UNCHANGED <<pc, phase, terminated, close_requested, ui>>
    BY <1>2 DEF ReaderNext, Read, Send, ReaderRings
  <2>2. exit' = exit
    BY <1>2 DEF ReaderNext, Read, Send, ReaderRings
  <2>3. doorbell' \in {doorbell, 1}
    BY <1>2 DEF ReaderNext, Read, Send, ReaderRings, Ring
  <2> QED
    BY <2>1, <2>2, <2>3
<1>3. CASE WriterStep
  <2>1. UNCHANGED <<pc, phase, terminated, close_requested, ui>>
    BY <1>3 DEF WriterStep, WriterNext, Written, WriteFails, WriterRings
  <2>2. exit' = exit
    BY <1>3 DEF WriterStep, WriterNext, Written, WriteFails, WriterRings
  <2>3. doorbell' \in {doorbell, 1}
    BY <1>3 DEF WriterStep, WriterNext, Written, WriteFails, WriterRings, Ring
  <2> QED
    BY <2>1, <2>2, <2>3
<1>4. CASE WaiterNext
  <2>1. UNCHANGED <<pc, phase, terminated, close_requested, ui>>
    BY <1>4 DEF WaiterNext, Reap, WaiterSends, WaiterRings
  <2>2. exit' = exit
    BY <1>4 DEF WaiterNext, Reap, WaiterSends, WaiterRings
  <2>3. doorbell' \in {doorbell, 1}
    BY <1>4 DEF WaiterNext, Reap, WaiterSends, WaiterRings, Ring
  <2> QED
    BY <2>1, <2>2, <2>3
<1>5. CASE UiNext
  <2>1. CASE SpawnOwner
    BY <2>1 DEF SpawnOwner
  <2>2. CASE RequestClose
    BY <2>2 DEF RequestClose
  <2>3. CASE UiRings
    <3>1. /\ UNCHANGED <<pc, phase, terminated, close_requested>>
          /\ UNCHANGED exit
          /\ doorbell' = 1 \/ pc = "gone"
      BY <2>3 DEF UiRings, Ring, OwnerGone
    <3> QED
      BY <3>1
  <2> QED
    BY <1>5, <2>1, <2>2, <2>3 DEF UiNext
<1>6. CASE ChildNext
  BY <1>6 DEF ChildNext, ChildWrites, ChildExits, SlaveCloses
<1>7. CASE Tick
  BY <1>7 DEF Tick
<1>8. CASE UNCHANGED vars
  BY <1>8
<1> QED
  BY <1>1, <1>2, <1>3, <1>4, <1>5, <1>6, <1>7, <1>8 DEF Next

LEMMA NextDeadlines ==
  ASSUME DataOK, StatusInv, Deadlines, [Next]_vars PROVE Deadlines'
<1> USE DEF Deadlines, DataOK
<1>1. CASE OwnerNext
  <2> USE DEF At, Unshaken, BeginClose, Fail, Published, Unterminated, EndBatch
  <2>1. CASE Start
    BY <2>1, GraceAssumption DEF Start
  <2>2. CASE CheckClose
    BY <2>2, GraceAssumption DEF CheckClose
  <2>3. CASE Parse
    BY <2>3, GraceAssumption DEF Parse
  <2>4. CASE EndBatches
    BY <2>4, GraceAssumption DEF EndBatches, BatchBudgetSpent, EndOfOutput, ReadError,
       OutputEmpty, ReaderFinished
  <2>5. CASE HandleWriteErrors
    BY <2>5, GraceAssumption DEF HandleWriteErrors
  <2>6. CASE HandleExit
    BY <2>6, GraceAssumption DEF HandleExit
  <2>7. CASE AdvanceShutdown
    <3>1. CASE terminated' = TRUE /\ reap' = REAP_GRACE /\ phase = "Closing"
      <4>1. UNCHANGED drain /\ phase' # "Running"
        BY <2>7, <3>1 DEF AdvanceShutdown, Unterminated
      <4> QED
        BY <3>1, <4>1, GraceAssumption
    <3>2. CASE UNCHANGED <<terminated, reap>>
      <4>1. UNCHANGED drain /\ (phase # "Running" => phase' # "Running")
        BY <2>7 DEF AdvanceShutdown, Unterminated
      <4> QED
        BY <3>2, <4>1
    <3> QED
      BY <2>7, <3>1, <3>2 DEF AdvanceShutdown, Unterminated
  <2>8. CASE Publish
    BY <2>8, GraceAssumption DEF Publish
  <2>9. CASE Rung
    BY <2>9, GraceAssumption DEF Rung, Waiting
  <2>10. CASE TimedOut
    BY <2>10, GraceAssumption DEF TimedOut, Waiting
  <2>11. CASE Disconnected
    BY <2>11, GraceAssumption DEF Disconnected, Waiting, SendersGone
  <2>12. CASE Finish
    BY <2>12, GraceAssumption DEF Finish, FinalStatus
  <2>13. CASE CloseQueue
    BY <2>13, GraceAssumption DEF CloseQueue
  <2>14. CASE EnterClosing
    BY <2>14, GraceAssumption DEF EnterClosing, PublishClosing, StatusInv
  <2> QED
    BY <1>1, <2>1, <2>2, <2>3, <2>4, <2>5, <2>6, <2>7, <2>8, <2>9, <2>10, <2>11,
       <2>12, <2>13, <2>14
       DEF OwnerNext, Wait
<1>2. CASE ReaderNext
  BY <1>2 DEF ReaderNext, Read, Send, ReaderRings, Ring, OwnerGone
<1>3. CASE WriterStep
  BY <1>3 DEF WriterStep, WriterNext, Written, WriteFails, WriterRings, Ring, OwnerGone
<1>4. CASE WaiterNext
  BY <1>4 DEF WaiterNext, Reap, WaiterSends, WaiterRings, Ring, OwnerGone
<1>5. CASE UiNext
  BY <1>5 DEF UiNext, SpawnOwner, RequestClose, UiRings, Ring, OwnerGone
<1>6. CASE ChildNext
  BY <1>6 DEF ChildNext, ChildWrites, ChildExits, SlaveCloses
<1>7. CASE Tick
  BY <1>7 DEF Tick
<1>8. CASE UNCHANGED vars
  BY <1>8
<1> QED
  BY <1>1, <1>2, <1>3, <1>4, <1>5, <1>6, <1>7, <1>8 DEF Next

LEMMA NextDoneReason ==
  ASSUME DataOK, DoneReason, [Next]_vars PROVE DoneReason'
<1> USE DEF DoneReason, DataOK
<1>1. CASE OwnerNext
  <2> USE DEF At, Unshaken, BeginClose, Fail, Published, Unterminated, EndBatch
  <2>1. CASE Start
    BY <2>1 DEF Start
  <2>2. CASE CheckClose
    BY <2>2 DEF CheckClose
  <2>3. CASE Parse
    BY <2>3 DEF Parse
  <2>4. CASE EndBatches
    BY <2>4 DEF EndBatches, BatchBudgetSpent, EndOfOutput, ReadError,
       OutputEmpty, ReaderFinished
  <2>5. CASE HandleWriteErrors
    BY <2>5 DEF HandleWriteErrors
  <2>6. CASE HandleExit
    BY <2>6 DEF HandleExit
  <2>7. CASE AdvanceShutdown
    BY <2>7 DEF AdvanceShutdown, EndKnown, Drained, Overdue, MayTerminate
  <2>8. CASE Publish
    BY <2>8 DEF Publish
  <2>9. CASE Rung
    BY <2>9 DEF Rung, Waiting
  <2>10. CASE TimedOut
    BY <2>10 DEF TimedOut, Waiting
  <2>11. CASE Disconnected
    BY <2>11 DEF Disconnected, Waiting, SendersGone
  <2>12. CASE Finish
    BY <2>12 DEF Finish, FinalStatus
  <2>13. CASE CloseQueue
    BY <2>13 DEF CloseQueue
  <2>14. CASE EnterClosing
    BY <2>14 DEF EnterClosing, PublishClosing
  <2> QED
    BY <1>1, <2>1, <2>2, <2>3, <2>4, <2>5, <2>6, <2>7, <2>8, <2>9, <2>10, <2>11,
       <2>12, <2>13, <2>14
       DEF OwnerNext, Wait
<1>2. CASE ReaderNext
  BY <1>2 DEF ReaderNext, Read, Send, ReaderRings, Ring, OwnerGone
<1>3. CASE WriterStep
  BY <1>3 DEF WriterStep, WriterNext, Written, WriteFails, WriterRings, Ring, OwnerGone
<1>4. CASE WaiterNext
  BY <1>4 DEF WaiterNext, Reap, WaiterSends, WaiterRings, Ring, OwnerGone
<1>5. CASE UiNext
  BY <1>5 DEF UiNext, SpawnOwner, RequestClose, UiRings, Ring, OwnerGone
<1>6. CASE ChildNext
  BY <1>6 DEF ChildNext, ChildWrites, ChildExits, SlaveCloses
<1>7. CASE Tick
  BY <1>7 DEF Tick
<1>8. CASE UNCHANGED vars
  BY <1>8
<1> QED
  BY <1>1, <1>2, <1>3, <1>4, <1>5, <1>6, <1>7, <1>8 DEF Next

LEMMA NextFresh ==
  ASSUME Fresh, [Next]_vars PROVE Fresh'
<1> USE DEF Fresh
<1>1. CASE OwnerNext
  <2> USE DEF At, Unshaken, BeginClose, Fail, Published, Unterminated, EndBatch
  <2>1. CASE Start
    BY <2>1 DEF Start
  <2>2. CASE CheckClose
    BY <2>2 DEF CheckClose
  <2>3. CASE Parse
    BY <2>3 DEF Parse
  <2>4. CASE EndBatches
    BY <2>4 DEF EndBatches, BatchBudgetSpent, EndOfOutput, ReadError,
       OutputEmpty, ReaderFinished
  <2>5. CASE HandleWriteErrors
    BY <2>5 DEF HandleWriteErrors
  <2>6. CASE HandleExit
    BY <2>6 DEF HandleExit
  <2>7. CASE AdvanceShutdown
    BY <2>7 DEF AdvanceShutdown, EndKnown, Drained, Overdue, MayTerminate
  <2>8. CASE Publish
    BY <2>8 DEF Publish
  <2>9. CASE Rung
    BY <2>9 DEF Rung, Waiting
  <2>10. CASE TimedOut
    BY <2>10 DEF TimedOut, Waiting
  <2>11. CASE Disconnected
    BY <2>11 DEF Disconnected, Waiting, SendersGone
  <2>12. CASE Finish
    BY <2>12 DEF Finish, FinalStatus
  <2>13. CASE CloseQueue
    BY <2>13 DEF CloseQueue
  <2>14. CASE EnterClosing
    BY <2>14 DEF EnterClosing, PublishClosing
  <2> QED
    BY <1>1, <2>1, <2>2, <2>3, <2>4, <2>5, <2>6, <2>7, <2>8, <2>9, <2>10, <2>11,
       <2>12, <2>13, <2>14
       DEF OwnerNext, Wait
<1>2. CASE ReaderNext
  BY <1>2 DEF ReaderNext, Read, Send, ReaderRings, Ring, OwnerGone
<1>3. CASE WriterStep
  BY <1>3 DEF WriterStep, WriterNext, Written, WriteFails, WriterRings, Ring, OwnerGone
<1>4. CASE WaiterNext
  BY <1>4 DEF WaiterNext, Reap, WaiterSends, WaiterRings, Ring, OwnerGone
<1>5. CASE UiNext
  BY <1>5 DEF UiNext, SpawnOwner, RequestClose, UiRings, Ring, OwnerGone
<1>6. CASE ChildNext
  BY <1>6 DEF ChildNext, ChildWrites, ChildExits, SlaveCloses
<1>7. CASE Tick
  BY <1>7 DEF Tick
<1>8. CASE UNCHANGED vars
  BY <1>8
<1> QED
  BY <1>1, <1>2, <1>3, <1>4, <1>5, <1>6, <1>7, <1>8 DEF Next

(* An owner that finds every sender of its doorbell gone knows the end of  *)
(* the output, has asked the child to end or knows that it did.            *)
LEMMA NextLeftReason ==
  ASSUME TypeOK, OutputNoticed, CloseNoticed, StatusInv, CloseHeard, DoneReason,
         LeftReason, [Next]_vars
  PROVE  LeftReason'
<1>1. CASE Disconnected
  <2>1. Waiting /\ doorbell = 0 /\ SendersGone
    BY <1>1 DEF Disconnected
  <2>2. reader = "done" /\ ui = "gone"
    BY <2>1 DEF SendersGone
  <2>3. output = <<>>
    BY <2>1, <2>2 DEF OutputNoticed, Waiting, BeforeOutput, BeforeClose, Again, Ending
  <2>4. close_requested /\ phase # "Running" /\ phase # "Done"
    BY <2>1, <2>2 DEF StatusInv, CloseNoticed, DoneReason, Waiting, BeforeClose, Ending
  <2>5. phase = "Closing"
    BY <2>4 DEF TypeOK
  <2>6. terminated \/ exit # "none"
    BY <2>1, <2>2, <2>4, <2>5 DEF CloseHeard, Waiting
  <2>7. UNCHANGED <<reader, output, terminated, exit>>
    BY <1>1 DEF Disconnected
  <2> QED
    BY <2>2, <2>3, <2>6, <2>7 DEF LeftReason
<1>2. CASE Publish
  BY <1>2 DEF Publish, LeftReason
<1>3. CASE pc' # "finish"
  BY <1>3 DEF LeftReason
<1>4. CASE pc = "finish" /\ UNCHANGED <<pc, phase, terminated, exit>>
           /\ (reader = "done" => UNCHANGED <<reader, output>>)
  BY <1>4 DEF LeftReason
<1>5. \/ Disconnected \/ Publish \/ pc' # "finish"
      \/ /\ pc = "finish" /\ UNCHANGED <<pc, phase, terminated, exit>>
         /\ reader = "done" => UNCHANGED <<reader, output>>
  <2>1. CASE OwnerNext
    BY <2>1 DEF OwnerNext, Start, CheckClose, CloseQueue, EnterClosing, At, Parse, EndBatches, EndBatch,
       BatchBudgetSpent, EndOfOutput, ReadError, OutputEmpty, HandleWriteErrors,
       HandleExit, AdvanceShutdown, Wait, Rung, TimedOut, Finish, StatusInv
  <2>2. CASE ~OwnerNext
    BY <2>2 DEF Next, ReaderNext, Read, Send, ReaderRings, WriterStep, WriterNext,
       Written, WriteFails, WriterRings, WaiterNext, Reap, WaiterSends, WaiterRings,
       UiNext, SpawnOwner, RequestClose, UiRings, ChildNext, ChildWrites, ChildExits,
       SlaveCloses, Tick
  <2> QED
    BY <2>1, <2>2
<1> QED
  BY <1>1, <1>2, <1>3, <1>4, <1>5

LEMMA SentAppend ==
  ASSUME output \in Seq(Message), NEW m \in Message, output' = Append(output, m),
         NEW message
  PROVE  Sent(message)' <=> Sent(message) \/ m = message
<1>1. /\ Len(output) \in Nat /\ Len(output') = Len(output) + 1
      /\ output'[Len(output) + 1] = m
      /\ \A i \in 1 .. Len(output) : output'[i] = output[i]
  OBVIOUS
<1> QED
  BY <1>1 DEF Sent

LEMMA SentTail ==
  ASSUME output \in Seq(Message), output # <<>>, output' = Tail(output),
         NEW message, Head(output) # message
  PROVE  Sent(message)' <=> Sent(message)
<1>1. /\ Len(output) \in Nat /\ Len(output') = Len(output) - 1
      /\ output[1] # message
      /\ \A i \in 1 .. Len(output') : output'[i] = output[i + 1] /\ i + 1 \in 1 .. Len(output)
  OBVIOUS
<1>2. ASSUME NEW i \in 1 .. Len(output'), output'[i] = message
      PROVE  Sent(message)
  BY <1>1, <1>2 DEF Sent
<1>3. ASSUME NEW i \in 1 .. Len(output), output[i] = message
      PROVE  Sent(message)'
  <2>1. i - 1 \in 1 .. Len(output') /\ output'[i - 1] = message
    BY <1>1, <1>3
  <2> QED
    BY <2>1 DEF Sent
<1> QED
  BY <1>2, <1>3 DEF Sent

LEMMA SentNothing ==
  ASSUME output' = <<>>, NEW message
  PROVE  ~Sent(message)'
BY DEF Sent

(* A step of somebody else leaves what the reader has said.                *)
Quiet ==
  /\ UNCHANGED <<reader, held, output, reader_done>>
  /\ Silent => Silent'
  /\ status = "Failed" /\ pc # "gone" => status' = "Failed" \/ pc' = "gone"
  /\ pc = "gone" => pc' = "gone"

LEMMA NextReaderTruth ==
  ASSUME TypeOK, LastMessageLast, StatusInv, ReaderTruth, [Next]_vars
  PROVE  ReaderTruth'
<1> SUFFICES ASSUME "read" \notin Missing, pc' # "gone", pc # "gone"
             PROVE  ReaderTruth'
  <2>1. pc = "gone" => pc' = "gone"
    <3>1. CASE OwnerNext
      BY <3>1 DEF OwnerNext, Start, CheckClose, CloseQueue, EnterClosing, At, Parse, EndBatches, EndBatch,
         BatchBudgetSpent, EndOfOutput, ReadError, OutputEmpty, HandleWriteErrors,
         HandleExit, AdvanceShutdown, Publish, Wait, Rung, TimedOut, Disconnected,
         Waiting, Finish
    <3>2. CASE ~OwnerNext
      BY <3>2 DEF Next, ReaderNext, Read, Send, ReaderRings, WriterStep, WriterNext,
         Written, WriteFails, WriterRings, WaiterNext, Reap, WaiterSends, WaiterRings,
         UiNext, SpawnOwner, RequestClose, UiRings, ChildNext, ChildWrites, ChildExits,
         SlaveCloses, Tick
    <3> QED
      BY <3>1, <3>2
  <2> QED
    BY <2>1 DEF ReaderTruth
<1>1. /\ output \in Seq(Message)
      /\ reader \in {"read", "send", "ring", "done"}
      /\ held \in {"Data", "Eof", "Error", "none"}
      /\ reader \in {"send", "ring"} => held \in Message
      /\ pty \in Nat
  BY CapacityAssumption DEF TypeOK, Message
<1>2. /\ reader \in {"read", "done"} => held = "none"
      /\ held = "Eof" \/ Sent("Eof") => Silent
      /\ reader = "done" \/ (reader = "ring" /\ held = "Error") =>
           Silent \/ status = "Failed" \/ Sent("Error")
      /\ reader_done =>
           status = "Failed" \/ (Silent /\ output = <<>> /\ LastSaid)
  BY DEF ReaderTruth
<1>3. CASE Quiet
  <2>1. (Sent("Eof") <=> Sent("Eof")') /\ (Sent("Error") <=> Sent("Error")')
    BY <1>3 DEF Quiet, Sent
  <2> QED
    BY <1>2, <1>3, <2>1 DEF Quiet, ReaderTruth, LastSaid
<1>4. CASE Parse
  <2>1. /\ output # <<>> /\ Head(output) = "Data" /\ output' = Tail(output)
        /\ UNCHANGED <<reader, held, reader_done, slave, pty>>
        /\ status = "Failed" => status' = "Failed"
    BY <1>4 DEF Parse, Fail
  <2>2. (Sent("Eof") <=> Sent("Eof")') /\ (Sent("Error") <=> Sent("Error")')
    BY <1>1, <2>1, SentTail
  <2> QED
    BY <1>2, <2>1, <2>2 DEF ReaderTruth, Silent
<1>5. CASE EndOfOutput
  <2>1. /\ output' = <<>> /\ ReaderFinished
        /\ UNCHANGED <<reader, held, slave, pty, status>>
    BY <1>5, LastWord DEF EndOfOutput, EndBatch, Unshaken
  <2>2. ~Sent("Eof")' /\ ~Sent("Error")'
    BY <2>1, SentNothing
  <2>3. LastSaid /\ (Silent \/ status = "Failed")
    <3>1. CASE output = <<>>
      BY <1>2, <2>1, <3>1 DEF ReaderFinished, LastSaid, Sent
    <3>2. CASE output # <<>>
      <4>1. 1 \in 1 .. Len(output) /\ output[1] = "Eof"
        BY <1>1, <2>1, <3>2 DEF ReaderFinished
      <4>2. Silent
        BY <1>2, <4>1 DEF Sent
      <4>3. LastSaid
        BY <4>1 DEF LastMessageLast, LastSaid
      <4> QED
        BY <4>2, <4>3
    <3> QED
      BY <3>1, <3>2
  <2> QED
    BY <1>2, <2>1, <2>2, <2>3 DEF ReaderTruth, LastSaid, Silent
<1>6. CASE ReadError
  <2>1. /\ output' = <<>> /\ status' = "Failed"
        /\ UNCHANGED <<reader, held, slave, pty>>
    BY <1>6, LastWord DEF ReadError, EndBatch, Fail
  <2>2. ~Sent("Eof")'
    BY <2>1, SentNothing
  <2> QED
    BY <1>2, <2>1, <2>2 DEF ReaderTruth, Silent
<1>7. CASE Read
  <2>1. /\ reader = "read" /\ reader' = "send"
        /\ UNCHANGED <<output, slave, status, reader_done>>
        /\ Silent => Silent'
        /\ held' = "Eof" => Silent'
    BY <1>1, <1>7 DEF Read, Silent
  <2>2. Sent("Eof") <=> Sent("Eof")'
    BY <2>1 DEF Sent
  <2> QED
    BY <1>2, <2>1, <2>2 DEF ReaderTruth, LastSaid
<1>8. CASE Send
  <2>1. /\ reader = "send" /\ reader' = "ring" /\ output' = Append(output, held)
        /\ UNCHANGED <<held, slave, pty, status, reader_done>>
    BY <1>8 DEF Send, OwnerGone
  <2>2. /\ Sent("Eof")' <=> Sent("Eof") \/ held = "Eof"
        /\ Sent("Error")' <=> Sent("Error") \/ held = "Error"
    BY <1>1, <2>1, SentAppend
  <2> QED
    BY <1>2, <2>1, <2>2 DEF ReaderTruth, LastSaid, Silent
<1>9. CASE ReaderRings
  <2>1. /\ reader = "ring" /\ held' = "none"
        /\ reader' = IF held = "Data" THEN "read" ELSE "done"
        /\ UNCHANGED <<output, slave, pty, status, reader_done>>
    BY <1>9 DEF ReaderRings
  <2>2. (Sent("Eof") <=> Sent("Eof")') /\ (Sent("Error") <=> Sent("Error")')
    BY <2>1 DEF Sent
  <2>3. held \in {"Data", "Eof", "Error"}
    BY <1>1, <2>1 DEF Message
  <2> QED
    BY <1>2, <2>1, <2>2, <2>3 DEF ReaderTruth, LastSaid, Silent
<1>10. CASE OwnerNext /\ ~(Parse \/ EndOfOutput \/ ReadError)
  <2>1. Quiet
    BY <1>10 DEF OwnerNext, Quiet, Silent, Start, CheckClose, EndBatches, EndBatch,
       BatchBudgetSpent, OutputEmpty, HandleWriteErrors, HandleExit, AdvanceShutdown,
       Publish, Wait, Rung, TimedOut, Disconnected, Finish, BeginClose, Fail,
       CloseQueue, EnterClosing, PublishClosing, At, Unshaken
  <2> QED
    BY <1>3, <2>1
<1>11. CASE WriterStep \/ WaiterNext \/ UiNext \/ ChildNext \/ Tick \/ UNCHANGED vars
  <2>1. UNCHANGED <<reader, held, output, reader_done>>
    BY <1>11 DEF WriterStep, WriterNext, Written, WriteFails, WriterRings,
       WaiterNext, Reap, WaiterSends, WaiterRings, UiNext, SpawnOwner, RequestClose,
       UiRings, ChildNext, ChildWrites, ChildExits, SlaveCloses, Tick
  <2>2. Silent => Silent'
    BY <1>11, Zenon DEF Silent, WriterStep, WriterNext, Written, WriteFails, WriterRings,
       WaiterNext, Reap, WaiterSends, WaiterRings, UiNext, SpawnOwner, RequestClose,
       UiRings, ChildNext, ChildWrites, ChildExits, SlaveCloses, Tick
  <2>3. status' = status \/ (pc = "spawn" /\ status' = "Running")
    BY <1>11 DEF WriterStep, WriterNext, Written, WriteFails, WriterRings,
       WaiterNext, Reap, WaiterSends, WaiterRings, UiNext, SpawnOwner, RequestClose,
       UiRings, ChildNext, ChildWrites, ChildExits, SlaveCloses, Tick
  <2> QED
    BY <1>3, <2>1, <2>2, <2>3 DEF Quiet, StatusInv
<1> QED
  BY <1>4, <1>5, <1>6, <1>7, <1>8, <1>9, <1>10, <1>11 DEF Next, ReaderNext

LEMMA NextEndInv == IInv /\ EndInv /\ [Next]_vars => EndInv'
<1> SUFFICES ASSUME IInv, EndInv, [Next]_vars PROVE EndInv'
  OBVIOUS
<1>1. /\ TypeOK /\ DataOK /\ LastMessageLast /\ StatusInv
      /\ OutputNoticed /\ CloseNoticed
  BY TypeParts DEF IInv, Noticed
<1>2. /\ ExitTrue /\ CloseHeard /\ DoneReason /\ LeftReason
      /\ Deadlines /\ Fresh /\ ReaderTruth
  BY DEF EndInv
<1>3. ExitTrue' /\ CloseHeard' /\ DoneReason' /\ Deadlines' /\ Fresh'
  BY <1>1, <1>2, NextExitTrue, NextCloseHeard, NextDoneReason, NextDeadlines, NextFresh
<1>4. LeftReason' /\ ReaderTruth'
  BY <1>1, <1>2, NextLeftReason, NextReaderTruth
<1> QED
  BY <1>3, <1>4 DEF EndInv

LEMMA EndInvariance == Spec => [](IInv /\ EndInv)
  BY Invariance, InitEndInv, NextEndInv, PTL DEF Spec

(* Owner::advance_shutdown and wait_for_work: no session leaves a running  *)
(* child behind that it has not asked to end, unless it could not learn of *)
(* its end, and that whichever workers are missing.                        *)
THEOREM ChildAskedToEnd == Spec => []ChildNotAbandoned
<1>1. IInv /\ EndInv => ChildNotAbandoned
  <2> SUFFICES ASSUME IInv, EndInv, pc = "finish", child = "running", ~terminated
               PROVE  exit = "error"
    BY DEF ChildNotAbandoned
  <2>1. exit # "none"
    BY DEF EndInv, DoneReason, LeftReason
  <2>2. exit # "ok"
    BY DEF EndInv, ExitTrue
  <2> QED
    BY <2>1, <2>2 DEF IInv, TypeOK
<1> QED
  BY <1>1, EndInvariance, PTL

(* Owner::advance_shutdown: a session that ends before its drain deadline  *)
(* without an error shows everything that was written to its terminal,     *)
(* provided its reader's thread was created.                               *)
THEOREM OutputNeverCut == Spec => []("read" \notin Missing => AllOutputShown)
<1>1. IInv /\ EndInv => ("read" \notin Missing => AllOutputShown)
  <2> SUFFICES ASSUME IInv, EndInv, "read" \notin Missing,
                      pc = "finish", exit = "ok", status # "Failed", drain > 0
               PROVE  ~slave /\ pty = 0 /\ held # "Data" /\ output = <<>> /\ fresh
    BY DEF AllOutputShown
  <2>1. DataOK /\ ReaderTruth
    BY TypeParts DEF IInv, EndInv
  <2>2. fresh
    BY DEF EndInv, Fresh
  <2>3. CASE phase = "Done"
    <3>1. ~(terminated /\ reap = 0)
      BY <2>1 DEF EndInv, Deadlines, DataOK
    <3>2. reader_done
      BY <2>3, <3>1 DEF EndInv, DoneReason
    <3>3. Silent /\ output = <<>> /\ LastSaid
      BY <2>1, <3>2 DEF ReaderTruth
    <3>4. held # "Data"
      BY <2>1, <3>3 DEF ReaderTruth, LastSaid
    <3> QED
      BY <2>2, <3>3, <3>4 DEF Silent
  <2>4. CASE phase # "Done"
    <3>1. reader = "done" /\ output = <<>>
      BY <2>4 DEF EndInv, LeftReason
    <3>2. Silent /\ held = "none"
      BY <2>1, <3>1 DEF ReaderTruth, Sent
    <3> QED
      BY <2>2, <3>1, <3>2 DEF Silent
  <2> QED
    BY <2>3, <2>4
<1> QED
  BY <1>1, EndInvariance, PTL
=============================================================================
