----------------------------- MODULE Workspace -----------------------------
(***************************************************************************)
(* The window (ui/app.rs, ui/commands.rs, ui/events.rs): tabs of panes,    *)
(* the session of each, the dialogs that decide later about a pane, the    *)
(* clipboard that answers later, and the layout file across restarts.      *)
(*                                                                         *)
(* One message of the update loop is one action.  A session is a number    *)
(* that no open pane has; `live` are those whose published status, as far  *)
(* as the UI has taken it, is live.  Tabs are numbered from 1.  Messages   *)
(* that change none of this (scrolling, searching, fonts, panels) are left *)
(* out.                                                                    *)
(***************************************************************************)
EXTENDS PaneLayout, SequencesExt

CONSTANTS
  MaxSessions,     \* layout.max_sessions
  MaxPanesPerTab,  \* MAX_PANES_PER_TAB
  Presets,         \* values of layout.preset a start may find
  Files,           \* layout files a start may find
  MaxPaneId        \* bound: pane identifiers of a tab

ASSUME WorkspaceAssumption ==
  /\ MaxSessions \in 1..8 /\ MaxPanesPerTab \in Nat \ {0, 1}
  /\ Presets \subseteq {"focus", "split"} /\ Presets # {}
  /\ MaxPaneId \in Nat

(* What a layout file can hold at all: a list of trees, however large.     *)
LayoutFile(file) ==
  /\ file \in [active : Nat \ {0}, tabs : Seq(SUBSET Seq({0, 1}))]
  /\ \A i \in DOMAIN file.tabs : IsFiniteSet(file.tabs[i]) /\ IsTree(file.tabs[i])

ASSUME FilesAssumption == \A file \in Files : LayoutFile(file)

NoSession == 0  \* a pane that shows why its session did not start
NoDialog == [kind |-> "none"]

VARIABLES
  tabs, active,
  live,
  confirm,   \* the dialog and the pane it names; auxiliary: the session asked about
  palette, settings,
  phase,     \* off, running, exited or killed
  saved      \* the layout file

overlays == <<palette, settings>>
process == <<phase, saved>>
vars == <<tabs, active, live, confirm, overlays, process>>

Tab == tabs[active]
Focused == Tab.slot[Tab.focus]
Count == PaneTotal([i \in DOMAIN tabs |-> Panes(tabs[i])])
Open(ts) ==
  (UNION {{ts[i].slot[p] : p \in Panes(ts[i])} : i \in DOMAIN ts}) \ {NoSession}
Shapes(ts) == [i \in DOMAIN ts |-> Shape(ts[i])]

Running == phase = "running"

(***************************************************************************)
(* Who gets a message                                                      *)
(***************************************************************************)
(* The dialog, the settings and the palette cover the window and take its  *)
(* clicks.  A button released late still reaches what it was pressed on.   *)
ClicksAnywhere == TRUE
Uncovered == confirm = NoDialog /\ ~palette /\ ~settings

(* Where keys go, and what is drawn on top: two orders.                    *)
KeysGoTo ==
  IF confirm # NoDialog THEN "confirm"
  ELSE IF palette THEN "palette" ELSE IF settings THEN "settings" ELSE "terminal"
Drawn ==
  IF confirm # NoDialog THEN "confirm"
  ELSE IF settings THEN "settings" ELSE IF palette THEN "palette" ELSE "terminal"

(***************************************************************************)
(* Starting and leaving                                                    *)
(***************************************************************************)
ValidLayout(file) ==
  /\ file.tabs # <<>>
  /\ PaneTotal(file.tabs) <= MaxSessions
  /\ \A i \in DOMAIN file.tabs :
       /\ Cardinality(file.tabs[i]) <= MaxPanesPerTab
       /\ \A p \in file.tabs[i] : Len(p) + 1 <= MaxPanesPerTab

PresetLayout(preset) ==
  [active |-> 1,
   tabs |-> <<IF preset = "focus" THEN {<<>>} ELSE {<<0>>, <<1>>}>>]

(* Sessions are started in the order of the file; one may fail.            *)
Restored(file, failed) ==
  [i \in DOMAIN file.tabs |->
     LET before == PaneTotal(SubSeq(file.tabs, 1, i - 1))
         n == Cardinality(file.tabs[i])
     IN TabOf(file.tabs[i],
              [k \in 1..n |-> IF before + k = failed THEN NoSession ELSE before + k])]

(* restore_layout: an unreadable or invalid file gives the preset.         *)
Restore ==
  \E preset \in Presets, readable \in BOOLEAN, failed \in {NoSession, 1} :
    LET file == IF readable /\ ValidLayout(saved) THEN saved ELSE PresetLayout(preset)
    IN /\ tabs' = Restored(file, failed)
       /\ active' = IF file.active <= Len(file.tabs) THEN file.active ELSE Len(file.tabs)
       /\ live' = (1..PaneTotal(file.tabs)) \ {failed}

Boot ==
  /\ phase = "off" /\ phase' = "running"
  /\ Restore
  /\ UNCHANGED <<saved, confirm, overlays>>

(* save_layout, which may fail.                                            *)
SaveLayout(ts, at) ==
  \/ saved' = IF ts = <<>> THEN saved ELSE [active |-> at, tabs |-> Shapes(ts)]
  \/ UNCHANGED saved

ProcessGone ==
  /\ tabs' = <<>> /\ active' = 0 /\ live' = {}
  /\ confirm' = NoDialog /\ palette' = FALSE /\ settings' = FALSE

(* exit: the handles are dropped, and the process ends.                    *)
Exit(ts) == SaveLayout(ts, active) /\ phase' = "exited" /\ ProcessGone

Killed == Running /\ phase' = "killed" /\ UNCHANGED saved /\ ProcessGone

(***************************************************************************)
(* Closing                                                                 *)
(***************************************************************************)
(* Dropping the handle of a session tears it down (Session), and its wakes *)
(* find no pane any more.                                                  *)
Drop(ts) ==
  /\ tabs' = ts
  /\ live' = live \intersect Open(ts)

(* close_tab: the active index is only kept within the tabs.               *)
Unclamped(n) == active
Clamped(n) == IF active <= n THEN active ELSE n

CloseTabAt(i) ==
  LET rest == RemoveAt(tabs, i)
  IN IF rest = <<>> THEN Exit(<<>>)
     ELSE /\ active' = Clamped(Len(rest))
          /\ Drop(rest)
          /\ UNCHANGED process

(* close_pane in the active tab, whatever tab the pane is of.              *)
ClosePaneNow(p) ==
  IF Cardinality(Panes(Tab)) = 1 THEN CloseTabAt(active)
  ELSE /\ Drop([tabs EXCEPT ![active] =
                  IF p \in Panes(@) THEN ClosePaneOf(@, p) ELSE @])
       /\ UNCHANGED <<active, process>>

Dialog(kind) ==
  IF kind = "close_window" THEN [kind |-> kind]
  ELSE [kind |-> kind, pane |-> Tab.focus, of |-> Focused]

Ask(kind) ==
  /\ confirm' = Dialog(kind)
  /\ UNCHANGED <<tabs, active, live, process>>

LiveIfAlone(s) == s \in live /\ Cardinality(Panes(Tab)) = 1
IsLive(s) == s \in live

RequestCloseFocused ==
  IF IsLive(Focused)
  THEN Ask("close_pane")
  ELSE ClosePaneNow(Tab.focus) /\ (Running' => UNCHANGED confirm)

RequestWindowClose ==
  IF \E s \in Open(tabs) : IsLive(s)
  THEN Ask("close_window")
  ELSE Exit(tabs)

(***************************************************************************)
(* Commands: from a shortcut, a button or the palette                      *)
(***************************************************************************)
CanAddOneMore == Count <= MaxSessions
CanAddByTab == Cardinality(Panes(Tab)) < MaxSessions
CanAddSession == Count < MaxSessions

Nothing ==
  UNCHANGED <<tabs, active, live, confirm, process>>

(* spawn_pane: the pane is made even when its session does not start.      *)
Spawned == {NoSession} \union {CHOOSE s \in 1..(Count + 1) : s \notin Open(tabs)}

NewTab ==
  IF ~CanAddSession THEN Nothing
  ELSE \E s \in Spawned :
         /\ live' = live \union ({s} \ {NoSession})
         /\ tabs' = Append(tabs, NewTabOf(s))
         /\ active' = Len(tabs) + 1
         /\ UNCHANGED <<confirm, process>>

Split ==
  IF Cardinality(Panes(Tab)) >= MaxPanesPerTab \/ ~CanAddSession THEN Nothing
  ELSE \E s \in Spawned :
         /\ Tab.last < MaxPaneId
         /\ live' = live \union ({s} \ {NoSession})
         /\ tabs' = [tabs EXCEPT ![active] = SplitFocus(@, s)]
         /\ UNCHANGED <<active, confirm, process>>

Change(t) ==
  /\ tabs' = [tabs EXCEPT ![active] = t]
  /\ UNCHANGED <<active, live, confirm, process>>

SelectTab(i) ==
  /\ active' = i
  /\ UNCHANGED <<tabs, live, confirm, process>>

(* App::run, but for the palette and the settings.                         *)
Command ==
  \/ NewTab
  \/ RequestCloseFocused
  \/ Split
  \/ \E step \in {1, -1} : Change(CycleFocus(Tab, step))
  \/ SelectTab((active % Len(tabs)) + 1)
  \/ SelectTab(((active + Len(tabs) - 2) % Len(tabs)) + 1)

(* A shortcut that no modal consumes, or a button of the tab bar.          *)
Shortcut ==
  /\ Running /\ KeysGoTo = "terminal"
  /\ \/ Command /\ (Running' => UNCHANGED overlays)
     \/ palette' = ~palette /\ UNCHANGED settings /\ Nothing
     \/ settings' = TRUE /\ UNCHANGED palette /\ Nothing

(* on_palette closes the palette, then runs what was picked.               *)
StaysOpen(open) == open
AfterPick(open) == FALSE

PickFromPalette ==
  /\ Running /\ palette /\ Drawn = "palette"
  /\ \/ Command /\ (Running' => palette' = AfterPick(palette) /\ UNCHANGED settings)
     \/ palette' = ~AfterPick(palette) /\ UNCHANGED settings /\ Nothing
     \/ palette' = AfterPick(palette) /\ settings' = TRUE /\ Nothing
     \/ palette' = AfterPick(palette) /\ UNCHANGED settings /\ Nothing

EscapeOverlay ==
  /\ Running /\ KeysGoTo \in {"palette", "settings"}
  /\ palette' = (palette /\ KeysGoTo # "palette")
  /\ settings' = (settings /\ KeysGoTo # "settings")
  /\ Nothing

(* Cancel, or Apply of a draft that is valid.                              *)
LeaveSettings ==
  /\ Running /\ settings /\ Drawn = "settings"
  /\ settings' = FALSE /\ UNCHANGED palette
  /\ Nothing

(***************************************************************************)
(* The pointer                                                             *)
(***************************************************************************)
ClickTab(i) ==
  /\ Running /\ Uncovered
  /\ SelectTab(i) /\ UNCHANGED overlays

ClickCloseTab(i) ==
  /\ Running /\ Uncovered
  /\ CloseTabAt(i) /\ (Running' => UNCHANGED <<confirm, overlays>>)

(* PaneClicked, and any event of a terminal but a resize or the wheel: a   *)
(* late release arrives although something covers the window by then.      *)
TouchPane(p) ==
  /\ Running
  /\ Change(FocusOn(Tab, p)) /\ UNCHANGED overlays

(* on_drag: a pane is dropped on another one, or on the edge of the grid,  *)
(* which cannot take the only pane of a tab out.                           *)
DropOnPane(p, q) ==
  /\ Running /\ p # q
  /\ \/ Change(SwapPanes(Tab, p, q))
     \/ \E first \in {0, 1} : Change(MovePane(Tab, p, q, first))
  /\ UNCHANGED overlays

DropOnEdge(p) ==
  /\ Running /\ Panes(Tab) # {p}
  /\ \E first \in {0, 1} : Change(MoveToEdge(Tab, p, first))
  /\ UNCHANGED overlays

(***************************************************************************)
(* Answers                                                                 *)
(***************************************************************************)
(* on_clipboard: text that is sent, or text to ask about, which replaces   *)
(* any dialog that is open.  A read that a paste started earlier may still *)
(* be under way in any state.                                              *)
ClipboardArrives ==
  /\ Running
  /\ confirm' \in {confirm, Dialog("paste")}
  /\ UNCHANGED <<tabs, active, live, process, overlays>>

(* The session of a pane of the active tab, if there is one.               *)
SessionOf(p) == IF p \in Panes(Tab) THEN Tab.slot[p] ELSE NoSession

(* on_close_decision and on_paste_decision, by key or by button.           *)
Accept ==
  CASE confirm.kind = "close_pane" ->
         ClosePaneNow(confirm.pane) /\ (Running' => confirm' = NoDialog /\ UNCHANGED overlays)
    [] confirm.kind = "close_window" -> Exit(tabs)
    [] OTHER -> confirm' = NoDialog /\ UNCHANGED <<tabs, active, live, process, overlays>>

Decide(accept) ==
  /\ Running /\ confirm # NoDialog
  /\ IF accept THEN Accept
     ELSE confirm' = NoDialog /\ UNCHANGED <<tabs, active, live, process, overlays>>

CloseRequested ==
  /\ Running
  /\ RequestWindowClose
  /\ (Running' => UNCHANGED overlays)

(* on_wake of a session that ended or failed.                              *)
WakeOfEnd(s) ==
  /\ Running /\ s \in live
  /\ live' = live \ {s}
  /\ UNCHANGED <<tabs, active, confirm, overlays, process>>

Init ==
  /\ tabs = <<>> /\ active = 0
  /\ live = {}
  /\ confirm = NoDialog /\ palette = FALSE /\ settings = FALSE
  /\ phase = "off" /\ saved \in Files

Next ==
  \/ Boot \/ Killed
  \/ Shortcut \/ PickFromPalette \/ EscapeOverlay \/ LeaveSettings
  \/ \E i \in DOMAIN tabs : ClickTab(i) \/ ClickCloseTab(i)
  \/ \E p \in 0..MaxPaneId : Running /\ p \in Panes(Tab) /\ TouchPane(p)
  \/ \E p \in 0..MaxPaneId, q \in 0..MaxPaneId :
       Running /\ {p, q} \subseteq Panes(Tab) /\ DropOnPane(p, q)
  \/ \E p \in 0..MaxPaneId : Running /\ p \in Panes(Tab) /\ DropOnEdge(p)
  \/ CloseRequested
  \/ \E s \in 1..MaxSessions : WakeOfEnd(s)
  \/ ClipboardArrives
  \/ \E accept \in BOOLEAN : Decide(accept)

Spec == Init /\ [][Next]_vars

(***************************************************************************)
(* Properties                                                              *)
(***************************************************************************)
(* Every tab is a tree of panes and keeps its focus in it, the active      *)
(* index names a tab, and a window without tabs does not stay open.        *)
TabOK(t) ==
  /\ t.at \in [Panes(t) -> Paths(MaxPanesPerTab)]
  /\ Cardinality(Shape(t)) = Cardinality(Panes(t)) /\ IsTree(Shape(t))
  /\ t.slot \in [Panes(t) -> 0..MaxSessions + 1]
  /\ t.focus \in Panes(t)
  /\ Panes(t) \subseteq 0..t.last

TypeOK ==
  /\ \A i \in DOMAIN tabs : TabOK(tabs[i])
  /\ IF Running THEN active \in DOMAIN tabs ELSE tabs = <<>>
  /\ live \subseteq Open(tabs)
  /\ phase \in {"off", "running", "exited", "killed"}

(* The panes never exceed the session limit, by whatever mix of new tabs,  *)
(* splits, restored layouts and failed starts; a limit of one gives way to *)
(* the split preset, which is not checked against it.                      *)
LimitKept == Count <= IF MaxSessions > 1 THEN MaxSessions ELSE 2

(* What is saved when the window closes is accepted by the next start,     *)
(* after any splits, closings and drags (save_layout, validate).           *)
SavedRestorable == saved \notin Files /\ MaxSessions > 1 => ValidLayout(saved)

(* The modal that takes the keys is the one that is drawn on top: the      *)
(* orders of route_modal_key and modal_view differ.                        *)
KeysGoToDrawn == KeysGoTo = Drawn

Gone == IF tabs = tabs' THEN {} ELSE (Open(tabs) \ Open(tabs')) \intersect live

(* The answer to a dialog goes to the session it was opened for, or to     *)
(* none: the dialog keeps the number of a pane, every tab has a pane 0, and*)
(* the answer looks for the number in the tab that is active by then.      *)
DecisionHonoured ==
  confirm.kind \in {"close_pane", "paste"} =>
    SessionOf(confirm.pane) \in {confirm.of, NoSession}

(* A session the UI knows to be live is closed by the answer to its own    *)
(* dialog or to that of the window, and by nothing else but the x of its   *)
(* tab, which asks nothing: there the code is short of docs/TERMINAL.md,   *)
(* which wants a warning on every close of a live session.                 *)
UnaskedOnlyByTabX ==
  [][Running /\ phase' # "killed" /\ Gone # {} =>
       \/ confirm # NoDialog /\ confirm.kind = "close_window"
       \/ confirm # NoDialog /\ confirm.kind = "close_pane" /\ Gone = {confirm.of}
       \/ Uncovered /\ \E i \in DOMAIN tabs : tabs' = RemoveAt(tabs, i)]_vars
=============================================================================
