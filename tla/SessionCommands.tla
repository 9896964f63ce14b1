-------------------------- MODULE SessionCommands --------------------------
(***************************************************************************)
(* Commands from the UI to the owner of a session (session/mod.rs,         *)
(* owner.rs): the bounded channel, the doorbell behind it, the coalescing  *)
(* of resizes, and what a search result and a hit test refer to.           *)
(*                                                                         *)
(* The content of the terminal is abstracted to the number of chunks       *)
(* parsed so far and the resize epoch; the other parts of the owner's      *)
(* round are in Session.                                                   *)
(***************************************************************************)
EXTENDS Integers, Sequences

CONSTANTS
  COMMAND_QUEUE,  \* capacity of the command channel
  Sizes,          \* terminal sizes a pane may ask for
  NoSize,         \* no resize pending
  MaxSends,       \* bound: commands sent
  MaxText         \* bound: chunks parsed

ASSUME CommandAssumption ==
  /\ COMMAND_QUEUE \in Nat \ {0}
  /\ Sizes # {} /\ NoSize \notin Sizes
  /\ MaxSends \in Nat /\ MaxText \in Nat

NoSearch == [version |-> 0]

VARIABLES
  \* the UI
  ui,         \* ready, or about to ring after a send
  shown,      \* the epoch of the pane's clone of the snapshot
  newest,     \* auxiliary: the size of the last resize the channel took
  sent,       \* auxiliary: commands sent
  \* shared
  commands,
  doorbell,
  snapshots,  \* auxiliary: all snapshots published; the last one is visible
  search,     \* Published.search
  \* the owner
  pc,
  batch,      \* commands drained from the channel and not applied yet
  pending,    \* the newest resize among those applied
  size, epoch, text,  \* the model
  failed,     \* auxiliary: the last PTY resize failed
  dirty,
  stale       \* auxiliary: a hit test of another epoch was applied

uiVars == <<ui, shown, newest, sent>>
channel == <<commands, doorbell>>
published == <<snapshots, search>>
model == <<size, epoch, text>>
vars == <<uiVars, channel, published, pc, batch, pending, model, failed, dirty, stale>>

(* SessionCommand: commands that change the view alike are one.  A point   *)
(* in the grid comes from the snapshot the pane shows.                     *)
Command ==
  [kind : {"Resize"}, to : Sizes]
    \union [kind : {"Select"}, seen : Nat]
    \union [kind : {"Search", "Scroll", "Palette"}]

Content == [epoch |-> epoch, text |-> text]

Init ==
  /\ ui = "ready" /\ shown = 0 /\ sent = 0
  /\ commands = <<>> /\ doorbell = 0
  /\ snapshots = <<>> /\ search = NoSearch
  /\ pc = "start" /\ batch = <<>> /\ pending = NoSize
  /\ size \in Sizes /\ epoch = 0 /\ text = 0
  /\ newest = size
  /\ failed = FALSE /\ dirty = TRUE /\ stale = FALSE

(***************************************************************************)
(* The UI                                                                  *)
(***************************************************************************)

OwnerGone == pc = "gone"

(* SessionHandle::send: a full channel refuses, and PaneState::send does   *)
(* not look; a finished owner ignores.                                     *)
Send(command) ==
  /\ ui = "ready"
  /\ sent < MaxSends
  /\ sent' = sent + 1
  /\ IF Len(commands) < COMMAND_QUEUE /\ ~OwnerGone
     THEN /\ commands' = Append(commands, command)
          /\ ui' = "ring"
          /\ newest' = IF command.kind = "Resize" THEN command.to ELSE newest
     ELSE UNCHANGED <<commands, ui, newest>>
  /\ UNCHANGED <<shown, doorbell, published, pc, batch, pending, model, failed, dirty, stale>>

SendAny ==
  \/ \E wanted \in Sizes : Send([kind |-> "Resize", to |-> wanted])
  \/ Send([kind |-> "Select", seen |-> shown])
  \/ \E kind \in {"Search", "Scroll", "Palette"} : Send([kind |-> kind])

Ring ==
  /\ ui = "ring"
  /\ ui' = "ready"
  /\ doorbell' = IF OwnerGone THEN doorbell ELSE 1
  /\ UNCHANGED <<shown, newest, sent, commands, published, pc, batch, pending,
                 model, failed, dirty, stale>>

(* PaneState::refresh                                                      *)
Refresh ==
  /\ ui = "ready"
  /\ snapshots # <<>>
  /\ shown' = snapshots[Len(snapshots)].epoch
  /\ UNCHANGED <<ui, newest, sent, channel, published, pc, batch, pending,
                 model, failed, dirty, stale>>

(* The reader, the writer and the waiter ring the same doorbell.           *)
WorkerRings ==
  /\ ~OwnerGone
  /\ doorbell' = 1
  /\ UNCHANGED <<uiVars, commands, published, pc, batch, pending, model,
                 failed, dirty, stale>>

(***************************************************************************)
(* The owner                                                               *)
(***************************************************************************)

Publish(next) ==
  /\ snapshots' = IF dirty THEN Append(snapshots, Content) ELSE snapshots
  /\ dirty' = FALSE
  /\ pc' = next
  /\ UNCHANGED <<uiVars, channel, search, batch, pending, model, failed, stale>>

Start == pc = "start" /\ Publish("drain")

(* Mutant: one command a round.                                            *)
DrainOne ==
  /\ pc = "drain"
  /\ pc' = "apply"
  /\ IF commands = <<>>
     THEN UNCHANGED <<batch, commands>>
     ELSE batch' = Append(batch, Head(commands)) /\ commands' = Tail(commands)
  /\ UNCHANGED <<uiVars, doorbell, published, pending, model, failed, dirty, stale>>

(* drain(): one try_recv after the other until the channel is empty.       *)
Drain ==
  /\ pc = "drain"
  /\ IF commands = <<>>
     THEN pc' = "apply" /\ UNCHANGED <<batch, commands>>
     ELSE /\ batch' = Append(batch, Head(commands))
          /\ commands' = Tail(commands)
          /\ UNCHANGED pc
  /\ UNCHANGED <<uiVars, doorbell, published, pending, model, failed, dirty, stale>>

(* Mutant: the oldest resize of a batch wins.                              *)
CoalescedFirst(wanted) == IF pending = NoSize THEN wanted ELSE pending

(* The resize that a batch leaves to be done.                              *)
Coalesced(wanted) == wanted

(* Owner::handle_commands and apply: the resizes of a batch wait until its *)
(* other commands are done.                                                *)
Apply ==
  /\ pc = "apply" /\ batch # <<>>
  /\ batch' = Tail(batch)
  /\ LET command == Head(batch) IN
     \/ /\ command.kind = "Resize"
        /\ pending' = Coalesced(command.to)
        /\ UNCHANGED <<search, dirty, stale>>
     \/ /\ command.kind = "Search"
        /\ search' = [version |-> Len(snapshots), found |-> Content]
        /\ dirty' = TRUE
        /\ UNCHANGED <<pending, stale>>
     \/ /\ command.kind = "Select"
        /\ stale' = (stale \/ command.seen # epoch)
        /\ dirty' = TRUE
        /\ UNCHANGED <<pending, search>>
     \/ /\ command.kind = "Scroll"
        /\ dirty' = TRUE
        /\ UNCHANGED <<pending, search, stale>>
     \/ /\ command.kind = "Palette"
        /\ UNCHANGED <<pending, search, dirty, stale>>
  /\ UNCHANGED <<uiVars, channel, snapshots, pc, model, failed>>

(* Mutant: the resized model is not published.                             *)
ResizedQuietly(wanted) ==
  /\ size' = wanted /\ epoch' = epoch + 1
  /\ failed' = FALSE
  /\ UNCHANGED dirty

(* Owner::resize, the PTY having agreed.                                   *)
Resized(wanted) ==
  /\ size' = wanted /\ epoch' = epoch + 1
  /\ failed' = FALSE
  /\ dirty' = TRUE

(* Owner::resize: the PTY first; when it fails, or a closing session has   *)
(* let go of it, the model stays.                                          *)
Resize ==
  /\ pc = "apply" /\ batch = <<>>
  /\ pc' = "output"
  /\ pending' = NoSize
  /\ \/ /\ pending # NoSize /\ pending # size
        /\ Resized(pending)
     \/ /\ pending # NoSize /\ pending # size
        /\ failed' = TRUE
        /\ UNCHANGED <<size, epoch, dirty>>
     \/ /\ pending \in {NoSize, size}
        /\ failed' = (failed /\ pending = NoSize)
        /\ UNCHANGED <<size, epoch, dirty>>
  /\ UNCHANGED <<uiVars, channel, published, batch, text, stale>>

(* Owner::process_output_batch                                             *)
Parse ==
  /\ pc = "output"
  /\ text < MaxText
  /\ text' = text + 1
  /\ dirty' = TRUE
  /\ UNCHANGED <<uiVars, channel, published, pc, batch, pending, size, epoch,
                 failed, stale>>

(* The rest of the round, and of run(): output may be left, the session    *)
(* may end, or the owner waits.                                            *)
EndRound ==
  /\ pc = "output"
  /\ \E next \in {"drain", "wait", "gone"} : Publish(next)

WakeUp ==
  /\ pc = "wait"
  /\ doorbell = 1
  /\ doorbell' = 0
  /\ pc' = "drain"
  /\ UNCHANGED <<uiVars, commands, published, batch, pending, model, failed, dirty, stale>>

OwnerNext == Start \/ Drain \/ Apply \/ Resize \/ Parse \/ EndRound \/ WakeUp

Next == SendAny \/ Ring \/ Refresh \/ WorkerRings \/ OwnerNext

Spec == Init /\ [][Next]_vars

(***************************************************************************)
(* Properties                                                              *)
(***************************************************************************)

TypeOK ==
  /\ ui \in {"ready", "ring"}
  /\ shown \in Nat /\ sent \in 0 .. MaxSends
  /\ newest \in Sizes /\ size \in Sizes
  /\ commands \in Seq(Command) /\ Len(commands) <= COMMAND_QUEUE
  /\ doorbell \in 0 .. 1
  /\ snapshots \in Seq([epoch : Nat, text : Nat])
  /\ pc \in {"start", "drain", "apply", "output", "wait", "gone"}
  /\ batch \in Seq(Command)
  /\ pending \in Sizes \union {NoSize}
  /\ epoch \in Nat /\ text \in Nat
  /\ failed \in BOOLEAN /\ dirty \in BOOLEAN /\ stale \in BOOLEAN

(* The owner does not sleep over a command, though a full doorbell drops   *)
(* the ring of whoever comes second.                                       *)
CommandsNoticed ==
  pc = "wait" /\ doorbell = 0 /\ commands # <<>> => ui = "ring"

(* However resizes are spread over batches and mixed with other commands,  *)
(* a session with nothing left to do has the newest size its channel took, *)
(* unless the PTY refused.                                                 *)
NewestSizeWins ==
  pc = "wait" /\ commands = <<>> => size = newest \/ failed

(* "A result is tied to the snapshot version it was computed from"         *)
(* (search.rs): the search runs on the owner's model, the version is that  *)
(* of the published snapshot, and they agree.                              *)
SearchTied ==
  search # NoSearch =>
    /\ search.version \in 1 .. Len(snapshots)
    /\ snapshots[search.version] = search.found

(* "Snapshots and hit tests from an older epoch are rejected" (ids.rs).    *)
HitTestsRejected == ~stale
=============================================================================
