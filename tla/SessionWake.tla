---------------------------- MODULE SessionWake ----------------------------
(***************************************************************************)
(* How a session tells the UI that its published state changed             *)
(* (session/mod.rs, owner.rs, ui/events.rs).  The owner changes the        *)
(* published state under a lock.  Some changes it announces at once with   *)
(* Shared::wake; the others (a title, a bell, the status) wait for the     *)
(* publish at the end of the round, or for the end of the session.  wake   *)
(* swaps the flag wake_pending and sends an event only when it was clear.  *)
(* The UI handles an event by clearing the flag, then cloning the          *)
(* published state, then taking the copied text.  Every access of shared   *)
(* state is an action.                                                     *)
(*                                                                         *)
(* The published state is abstracted to the number of its changes.         *)
(***************************************************************************)
EXTENDS Integers

CONSTANT MaxWork  \* bound: things the owner does in its rounds

ASSUME MaxWorkAssumption == MaxWork \in Nat

VARIABLES
  version,       \* changes made to Published
  copied,        \* Published.copied holds a text
  wake_pending,
  events,        \* AppEvent::Wake messages of this session in the UI's channel
  owner,         \* where the owner is: in its round, asleep, in Shared::wake...
  after,         \* where it goes on from Shared::wake
  changed,       \* Owner::dirty: a publish is due
  running,       \* the phase is Running
  late,          \* auxiliary: a failure of the teardown is not announced yet
  work,          \* things done in the rounds
  refresh,       \* the UI's next step of PaneState::refresh
  view,          \* the version the pane's clone of Published has
  pane           \* the session's pane is still in a tab

round == <<after, changed, running, late, work>>
uiSide == <<refresh, view, pane>>
wakeVars == <<version, copied, wake_pending, events, owner, round, uiSide>>

(* The session is spawned: Running is published, and the pane starts from  *)
(* the default.  The owner publishes before its first round.               *)
WakeInit ==
  /\ version = 1 /\ view = 0
  /\ copied = FALSE
  /\ wake_pending = FALSE
  /\ events = 0
  /\ owner = "publish" /\ after = "round"
  /\ changed = TRUE /\ running = TRUE /\ late = FALSE
  /\ work = 0
  /\ refresh = "idle"
  /\ pane = TRUE

(***************************************************************************)
(* The owner                                                               *)
(***************************************************************************)

InRound ==
  /\ owner = "round"
  /\ work < MaxWork
  /\ work' = work + 1
  /\ UNCHANGED <<wake_pending, events, uiSide>>

(* parse() and the commands without an answer: the model changes, and with *)
(* it perhaps the title or the count of bells.                             *)
ChangeModel ==
  /\ InRound
  /\ changed' = TRUE
  /\ version' \in {version, version + 1}
  /\ UNCHANGED <<copied, owner, after, running, late>>

(* Mutant: the session begins to close, and no publish is due.             *)
BeginToCloseQuietly ==
  /\ InRound
  /\ running
  /\ version' = version + 1
  /\ running' = FALSE
  /\ UNCHANGED <<copied, owner, after, changed, late>>

(* begin_close() of a running session, by itself or in fail(): the status  *)
(* changes, and a publish is due.                                          *)
BeginToClose ==
  /\ InRound
  /\ running
  /\ version' = version + 1
  /\ running' = FALSE
  /\ changed' = TRUE
  /\ UNCHANGED <<copied, owner, after, late>>

(* fail() of a session that closes already: the status changes, and that   *)
(* is all.                                                                 *)
FailLate ==
  /\ InRound
  /\ ~running
  /\ version' = version + 1
  /\ late' = TRUE
  /\ UNCHANGED <<copied, owner, after, changed, running>>

(* A search result, after which a publish is due too, or the error of a    *)
(* resize: a change and its wake().                                        *)
Answer ==
  /\ InRound
  /\ version' = version + 1
  /\ changed' \in {changed, TRUE}
  /\ owner' = "swap" /\ after' = "round"
  /\ UNCHANGED <<copied, running, late>>

(* CopySelection: the selected text, or None, replaces what was there.     *)
CopySelection ==
  /\ InRound
  /\ version' = version + 1
  /\ copied' \in BOOLEAN
  /\ owner' = "swap" /\ after' = "round"
  /\ UNCHANGED <<changed, running, late>>

RoundEnds ==
  /\ owner = "round"
  /\ owner' = "publish"
  /\ UNCHANGED <<version, copied, wake_pending, events, round, uiSide>>

(* publish(), and then the next round, a wait, or the end of a session     *)
(* that closes.                                                            *)
PublishThen(next) ==
  /\ owner = "publish"
  /\ next = "finish" => ~running
  /\ IF changed
     THEN /\ version' = version + 1
          /\ changed' = FALSE
          /\ owner' = "swap" /\ after' = next
     ELSE /\ owner' = next
          /\ UNCHANGED <<version, changed, after>>
  /\ UNCHANGED <<copied, wake_pending, events, running, late, work, uiSide>>

PublishChange == \E next \in {"round", "wait", "finish"} : PublishThen(next)

(* wait_for_work() returns, or finds that nobody can ring any more.        *)
StopWaiting ==
  /\ owner = "wait"
  /\ owner' \in {"round"} \union IF running THEN {} ELSE {"finish"}
  /\ UNCHANGED <<version, copied, wake_pending, events, round, uiSide>>

(* finish(): the final status, unless the session has failed before, and a *)
(* wake in any case.                                                       *)
PublishEnd ==
  /\ owner = "finish"
  /\ version' \in {version, version + 1}
  /\ owner' = "swap" /\ after' = "gone"
  /\ UNCHANGED <<copied, wake_pending, events, changed, running, late, work, uiSide>>

(* Mutant: an event for every change.                                      *)
SwapAlwaysNotify ==
  /\ owner = "swap"
  /\ wake_pending' = TRUE
  /\ late' = FALSE
  /\ owner' = "notify"
  /\ UNCHANGED <<version, copied, events, after, changed, running, work, uiSide>>

(* Mutant: the test is inverted: an event only when one is pending.        *)
SwapInverted ==
  /\ owner = "swap"
  /\ wake_pending' = TRUE
  /\ late' = FALSE
  /\ owner' = IF wake_pending THEN "notify" ELSE after
  /\ UNCHANGED <<version, copied, events, after, changed, running, work, uiSide>>

(* wake_pending.swap(true)                                                 *)
Swap ==
  /\ owner = "swap"
  /\ wake_pending' = TRUE
  /\ late' = FALSE
  /\ owner' = IF wake_pending THEN after ELSE "notify"
  /\ UNCHANGED <<version, copied, events, after, changed, running, work, uiSide>>

(* Notify::wake: an unbounded send.                                        *)
Notify ==
  /\ owner = "notify"
  /\ events' = events + 1
  /\ owner' = after
  /\ UNCHANGED <<version, copied, wake_pending, round, uiSide>>

(***************************************************************************)
(* The UI: on_wake calls PaneState::refresh                                *)
(***************************************************************************)

TakeEvent ==
  /\ refresh = "idle" /\ pane
  /\ events > 0
  /\ events' = events - 1
  /\ refresh' = "clear"
  /\ UNCHANGED <<version, copied, wake_pending, owner, round, view, pane>>

(* on_wake finds no pane with this session: the event is discarded.        *)
DiscardEvent ==
  /\ refresh = "idle" /\ ~pane
  /\ events > 0
  /\ events' = events - 1
  /\ UNCHANGED <<version, copied, wake_pending, owner, round, uiSide>>

(* The pane is closed; its session is torn down and goes on publishing.    *)
ClosePane ==
  /\ refresh = "idle"
  /\ pane' = FALSE
  /\ UNCHANGED <<version, copied, wake_pending, events, owner, round, refresh, view>>

(* Mutant: the copied text is taken before the flag is cleared.            *)
RefreshPaneTakeFirst ==
  \/ /\ refresh = "clear"
     /\ copied' = FALSE
     /\ refresh' = "take"
     /\ UNCHANGED <<version, wake_pending, events, owner, round, view, pane>>
  \/ /\ refresh = "take"
     /\ wake_pending' = FALSE
     /\ refresh' = "clone"
     /\ UNCHANGED <<version, copied, events, owner, round, view, pane>>
  \/ /\ refresh = "clone"
     /\ view' = version
     /\ refresh' = "idle"
     /\ UNCHANGED <<version, copied, wake_pending, events, owner, round, pane>>

(* published() clears the flag, then clones; take_copied() locks again.    *)
RefreshPane ==
  \/ /\ refresh = "clear"
     /\ wake_pending' = FALSE
     /\ refresh' = "clone"
     /\ UNCHANGED <<version, copied, events, owner, round, view, pane>>
  \/ /\ refresh = "clone"
     /\ view' = version
     /\ refresh' = "take"
     /\ UNCHANGED <<version, copied, wake_pending, events, owner, round, pane>>
  \/ /\ refresh = "take"
     /\ copied' = FALSE
     /\ refresh' = "idle"
     /\ UNCHANGED <<version, wake_pending, events, owner, round, view, pane>>

WakeNext ==
  \/ ChangeModel
  \/ BeginToClose
  \/ FailLate
  \/ Answer
  \/ CopySelection
  \/ RoundEnds
  \/ PublishChange
  \/ StopWaiting
  \/ PublishEnd
  \/ Swap
  \/ Notify
  \/ TakeEvent
  \/ DiscardEvent
  \/ ClosePane
  \/ RefreshPane

WakeSpec == WakeInit /\ [][WakeNext]_wakeVars

(* Both threads run.  Nobody has to do anything to a session that runs;    *)
(* one that closes goes round until it ends (Teardown in module Session).  *)
WakeFairness ==
  /\ WF_wakeVars(RoundEnds)
  /\ WF_wakeVars(PublishChange)
  /\ WF_wakeVars(StopWaiting /\ ~running)
  /\ SF_wakeVars(PublishThen("finish"))
  /\ WF_wakeVars(PublishEnd)
  /\ WF_wakeVars(Swap)
  /\ WF_wakeVars(Notify)
  /\ WF_wakeVars(TakeEvent \/ DiscardEvent)
  /\ WF_wakeVars(RefreshPane)

(***************************************************************************)
(* Properties                                                              *)
(***************************************************************************)

WakeTypeOK ==
  /\ version \in Nat
  /\ view \in 0 .. version
  /\ copied \in BOOLEAN
  /\ wake_pending \in BOOLEAN
  /\ events \in Nat
  /\ owner \in {"round", "publish", "wait", "finish", "swap", "notify", "gone"}
  /\ after \in {"round", "wait", "finish", "gone"}
  /\ changed \in BOOLEAN /\ running \in BOOLEAN /\ late \in BOOLEAN
  /\ work \in 0 .. MaxWork
  /\ refresh \in {"idle", "clear", "clone", "take"}
  /\ pane \in BOOLEAN

(* "At most one pending wake per session" (ui/app.rs): the unbounded       *)
(* channel of the UI never holds two events of one session, however the    *)
(* swap, the send and the clearing interleave.                             *)
AtMostOneEvent == events <= 1

(* A change the pane has not cloned is never forgotten: its wake is        *)
(* pending or about to be, or the UI is about to clone; or the owner is in *)
(* a round that ends with a publish; or it is a failure of the teardown,   *)
(* which is announced by the end of the session at the latest.  An owner   *)
(* that sleeps in a running session, or is gone, owes nothing.             *)
NoLostUpdate ==
  pane /\ view # version =>
    \/ wake_pending \/ owner = "swap" \/ refresh \in {"clear", "clone"}
    \/ changed /\ owner \in {"round", "publish"}
    \/ late /\ ~running /\ owner # "gone"

(* A copied text that arrives after the pane cloned the published state,   *)
(* or between two refreshes, is not left behind.                           *)
NoLostCopy ==
  pane /\ copied
    => wake_pending \/ owner = "swap" \/ refresh # "idle"

(* A pane that is behind catches up, and every copied text is taken, in    *)
(* the end.                                                                *)
UpdatesSeen ==
  /\ view # version ~> view = version \/ ~pane
  /\ copied ~> ~copied \/ ~pane
=============================================================================
