# Verification of sci-fi-terminal

TLA+ models of sci-fi-terminal (a Rust terminal emulator): its threads, channels
and deadlines, its window, panels, settings and input, with TLC runs on small
instances and TLAPS proofs for every value of the constants. Paths below are relative to
the repository; `session/` stands for `crates/app/src/session/`, `ui/` for
`crates/app/src/ui/`, and so on.

## 1. Inventory

### The system

A window (iced, one UI thread) holds tabs, a tab holds panes, and a pane owns
the handle of one *session*: a shell on a PTY with four threads of its own.

```
 UI thread --commands (bounded)--> owner --replies--> write queue --> writer --> PTY
    |  ^ --input (bounded bytes)----------------------^   |
    |  |                             ^  ^  ^               | write error, doorbell
    |  +-- one event per session ----+  |  +---------------+
    |        (pending flag)             |
    +-- published state (mutex)         +-- output (bounded) -- reader <-- PTY
                                        +-- exit ------------- waiter <-- child
```

All producers of work for the owner ring one doorbell, a channel of capacity 1.

Beside the sessions the UI thread owns three helpers: the monitor's worker (one
control channel down, samples as events up, joined when it is stopped), the
preview loader (requests down, previews as events up, never joined) and one
thread per opened sound device (ends when its sender is dropped). Configuration
files and the layout file are read and written on the UI thread.

| Component | State | Operations | Talks to |
|---|---|---|---|
| Write queue, `session/write_queue.rs` | two byte-bounded queues, a `u8` of replies since the last input, `closed`, a mutex and a condition variable | `push_reply`, `push_input`, `close`, `next` | owner and UI push, writer takes |
| Owner and workers, `session/owner.rs`, `spawn.rs` | phase and shutdown deadlines, recorded exit, `reader_done`, `dirty`, the terminal model; the channels | rounds of `step`, `wait_for_work`, `finish`; reader, writer, waiter loops | everything in a session |
| Handle and wakeups, `session/mod.rs` | `Published` behind a mutex, `wake_pending`, `close_requested` | `send`, `write`, `published`, `take_copied`, `close`, drop | UI and owner |
| UI loop and panes, `ui/app.rs`, `state.rs`, `events.rs` | the event channel, per pane a clone of `Published` | `on_wake`, `refresh`, key, mouse and clipboard events | handles |
| UI commands, `ui/commands.rs`, `layout.rs` | tabs, active tab, focus, confirm dialog, search bar | new, split, close, window close, decisions, settings, search | handles, files, monitor |
| Input, `ui/input.rs`, `actions.rs`, `terminal-core/src/input.rs`, `render/terminal_view.rs` | the key map; pointer, buttons, modifiers, clicks and fingers of a widget | key map, byte encoding of keys, mouse, paste, wheel; drags and taps | UI |
| Settings, palette, view, style | the dialog's draft and key edits, live preview | edit, reset, apply, cancel | configuration files, UI |
| Terminal model, `terminal-core/src/adapter.rs`, `snapshot.rs`, `ids.rs` | the engine's grid, version, epoch, size, damage | `advance`, `resize`, `snapshot`, selection | owner |
| Search and policy, `terminal-core/src/search.rs`, `policy.rs` | none | `search_literal`, `effective_scrollback`, `sanitize_title` | owner |
| Platform, `platform/src` | PTY handles, child handle | open, read, write, resize, wait, terminate; shell and directory lookup | session |
| Configuration files, `config/load.rs` | files: config, overrides, backup, temporary | load, merge, `write_atomic`, `save_overrides` | UI |
| Configuration schema, themes, validation | none | parse, validate | pure |
| Monitor and files worker, `panels/worker.rs` | plan, samplers, caches, control channel | plan, stop, sample; join on drop | UI, OS, network |
| Monitor samplers, `monitor/` | last counters | reads of the OS and the network | worker |
| Preview loader, `panels/preview.rs` | the newest request | debounce, load | UI |
| Panel views, rendering | none | drawing | UI |
| Sound, `sound/player.rs`, `synth.rs` | output device state, rate limiter, count of playing sounds | `play`, `configure` | UI |
| On-screen keyboard, `osk/` | sticky modifiers, caps lock, layout | press, toggle, label | UI |
| Entry, vendored crate, scripts, assets | | | |

### What is hard, and what makes each component correct

* **Write queue.** Three threads, a counter that survives idle periods,
  notifications sent after the lock is released. Correct means: no lost wakeup,
  counters equal to contents, limits kept, FIFO per class, nothing accepted
  lost while the queue is open, nothing accepted or handed over after close,
  input overtaken by at most four replies.
* **Owner and workers.** One doorbell slot for five producers; a child that
  exits before, with or after the end of its output; a descendant that keeps the
  terminal; a child that ignores termination; failures and a close request at
  any point. Correct means: never asleep over work, no output cut off, the end
  always reached, the child asked to end before it is left, the lifecycle kept.
* **Wakeups.** Flag, event, published state and copied text are four places
  touched in different orders by two threads. Correct means: no update and no
  copy is lost, and one event per session at most.
* **Commands.** A bounded channel with a doorbell behind it; resizes are held
  back and coalesced; searches and selections refer to snapshots that age.
* **UI commands.** Dialogs and the clipboard answer later, when the pane, tab or
  focus they were about may have changed. Correct means: a decision closes what
  it was asked about, indices name existing tabs and panes, the session limit
  holds.
* **Settings and configuration files.** Crashes between write, copy and rename,
  edits from outside, three layers and the difference that is saved, a preview
  that is not yet a choice. Correct means: the overrides are always an old or a
  new whole file, what was applied is what the next start reads, and the look is
  the configuration's or the open dialog's.
* **Key map and input.** Some fifty actions, four places, overrides of both.
  Correct means: a chord does one thing, typing is never taken, what a program
  decodes is what was pressed, and so for the pointer, whose press, motion and
  release are decided one by one.
* **Monitor, preview, sound.** Messages against a timeout, a join on the UI
  thread, samples and previews that arrive late, devices that open after they
  were switched off. Correct means: the worker follows what is visible, what is
  shown is what is asked for, and what is off is let go.
* **Collectors and views.** Filters, orders and limits one after the other.
  Correct means: what is cut off is counted, only public addresses are looked
  up, and what is marked is what was found or selected.

The full list of hazards, each with its line and the properties that cover it,
is in `PROJECT.json`; those without a property carry a note.

## 2. Plan

| Order | Modules | Composes / refines | State |
|---|---|---|---|
| 1 | `WriteChannels`, `WriteQueue` | `WriteQueue` refines `WriteChannels` | done, proved |
| 2 | `SessionWake`, `SessionCommands` | UI and owner around `Shared` and around the command channel; checked together | done, proved |
| 3 | `SessionLifecycle`, `Session` | owner, workers, handle, child; refines `SessionLifecycle` | done, safety proved |
| 4 | `PaneLayout`, `Workspace` | tabs, pane trees, dialogs, session limit, layout file | done, proved |
| 5 | `MonitorPanels`, `FilePreview`, `Samplers`, `TerminalView` | worker, loader, and the data both show | done; worker, preview window, public addresses and what the panels show of a list proved |
| 6 | `ConfigFiles`, `Keymap`, `Settings` | `Settings` over the layers and the key map | done; files, preview, what is read back, the key map and the dialog proved |
| 7 | `TerminalInput`, `OnScreenKeyboard`, `Pointer`, `Sound` | input over the key map's chords | done; what input sends and the bound on cues proved |
| 8 | more proofs | the lists of `Samplers` and their limits | done |
| 9 | more proofs | search, clipping and titles of `TerminalView`, the dialog's shortcuts read back | done |

## 3. The models

### WriteQueue (`session/write_queue.rs`)

A critical section of the mutex is one action (`PushReply`, `PushInput`,
`Close`, and of the writer `TakeReply`, `TakeInput`, `Wait`, `WriterExits`).
Producers notify after unlocking, so notifying is a separate action
(`OwnerNotifies`, `UiNotifies`) and the writer can run in between; `Wait`
releases the mutex and sleeps atomically, as a condition variable does, and
`SpuriousWakeup` is allowed. A chunk is its length; an input is cut into chunks
of `INPUT_CHUNK_BYTES`. `replies_since_input` keeps its width: `CounterSize`
(256) values, and `Incremented` wraps or, with `OverflowChecks`, panics the
writer. `overtaken` is an auxiliary count of the replies handed out while input
waits. `AddsUp` says what a queue holds in bytes: there are partial sums from 0
to the count, one step per chunk. `WriteChannels` is the abstract view: two FIFO channels that may be
closed, with liveness for input.

### SessionWake (`session/mod.rs`, `ui/events.rs`, `ui/state.rs`)

The owner's round is what it does to `Published`. Some changes are announced at
once: the answer of a search, the error of a resize, a copied text (`Answer`,
`CopySelection`). Titles, bells and the status are not (`ChangeModel`,
`BeginToClose`): they set `changed` (the code's `dirty`) and are announced by the
publish at the end of the round, after which the owner goes round again, waits or
ends. A failure of a session that closes already (`FailLate`) sets nothing and is
announced by the end of the session at the latest (`PublishEnd`). `Shared::wake`
swaps the pending flag (`Swap`), then sends the event if the flag was clear
(`Notify`). The UI takes the event, clears the flag, clones the state, takes the
copied text, each an action; `ClosePane` may drop the pane between two refreshes,
after which events are discarded. Published state is its version number.

### Session (`session/owner.rs`, `spawn.rs`, `mod.rs`)

Every access of a channel or of shared state by a thread is an action. The
owner's `pc` is the part of `Owner::step` it is about to do: `CheckClose`,
`Parse` and the four ends of an output batch, `HandleWriteErrors`, `HandleExit`,
`AdvanceShutdown`, `Publish`, then `Rung`, `TimedOut` or `Disconnected`, and
`Finish`. `pc = "wait_reap"` is a wait whose deadline was computed when the drain
window was over already: `wait_for_work` fixes its deadline before it sleeps.
The reader, writer and waiter are loops of one action per call that blocks or
sends. `begin_close` is not one step, as the UI may look in between: `CloseQueue`
closes the write queue, `EnterClosing` publishes Closing under the lock, and what
follows is the owner's own; `Fail` has published Failed before the first of them.
`closing` says how far it has come. The child is external: it writes, exits and
lets go of the terminal when it likes, so that the end of output may come before
the exit. `Faults` are operations that may fail, `Missing` workers whose thread
may not have been created. Output is counted in chunks; a chunk may hold a query whose
reply takes a place of the write queue, here just a count (`ReplyReserve`). Time
is a tick of both deadlines; a batch may end after any chunk, for its 2 ms are
not related to anything else. `SessionLifecycle` is what the handle's owner may
rely on.

### SessionCommands (`session/mod.rs`, `owner.rs`, `ui/events.rs`)

The command channel at its real granularity: `Send` and `Ring` are two steps of
the UI, `Drain` receives one command per step, `Apply` applies one, resizes wait
in `pending` and `Resize` does the last one, which the PTY may refuse. The
terminal is the pair of resize epoch and parsed chunks; `snapshots` remembers
every published one. Commands that change the view alike are one kind.

### Workspace, PaneLayout (`ui/app.rs`, `commands.rs`, `events.rs`, `layout.rs`, `state.rs`)

One message of the update loop is one action, with everything its handler calls.
A tab is a set of paths of a binary tree (iced's pane grid, external), the
session and the number of each pane, the focus and the next number; pane numbers
repeat between tabs, as in the code. A dialog keeps what the code keeps, a pane's
number; `confirm.of` remembers which session the question was about. A drag ends
on another pane (`DropOnPane`: the two change places, or the one becomes a part of
the other) or on the edge of the grid (`DropOnEdge`: the pane becomes half of the
tab, and all others move one level down). The grid numbers its splits and its panes with
one counter; here the numbers of splits are left out, so that `MaxPaneId` bounds the
panes a tab has ever had and no drag. The clipboard is a
message that may arrive under any modal. `saved` is the layout file: written on
exit, not when the program is killed, and read back with the validation of the
code, from a set of files a user may have. Messages are those the drawn window
can produce: what lies under a modal cannot be clicked.

### MonitorPanels (`panels/worker.rs`, `ui/commands.rs`, `ui/app.rs`)

The UI's part is `sync_metrics_worker` after every message that may change the
plan, starting, stopping and dropping (a join: `ui` is then held in it) the
worker. The worker is `TakePlan`, `TakeStop`, `IntervalOver`, then `Tick`, which
reads nothing that another thread writes and is one step; the clocks of the
network and of the public address are flags that come due. A sample is what it was asked
for. `PanelView` is what the panels draw of it; of the home address there is the
line that says whether it is off, failed or known, and where an address is placed
is `LocateHome` of `Samplers`. `asked` and `hasty` are auxiliary.

### FilePreview (`panels/preview.rs`, `ui/commands.rs`)

The loader: a request, a debounce that newer requests restart, one file read at a
time, its result sent back; the UI's `hover_file`, and results that arrive after
the pointer has moved on or the window has closed.

### Samplers, TerminalView (`panels/`, `monitor/`, `render/globe.rs`; `terminal-core/src/search.rs`, `snapshot.rs`, `policy.rs`, `adapter.rs`)

Operators without state. `Samplers`: listing a directory, rows and what they
leave out, head of a text (which may end within a character: `cut`), connections and their owners, top processes, busiest interfaces,
which addresses are public, looking up and believing an answer, markers of the
globe. A list that is filtered or sorted is given by positions: `Nth(I, R, k)` is
the k-th of the positions `I` in the order `R`, `Kept` a list at some positions,
`Sorted` a stable sort, as `sort_by` is. `TerminalView`: `row_text` with lower-casing that may lengthen a
character and with the spacers of wide ones, `find_all`, steps between
results, highlights, clipping of selections, cursor, history limit by memory,
titles. The engine's scrolling is external and modelled as the least scroll that
shows the line.

### ConfigFiles, Settings (`config/`, `ui/settings.rs`, `ui/commands.rs`, `ui/app.rs`)

`ConfigFiles` has every field with its default, its range and the row that offers
it, reads and merges the layers with their errors, and computes the difference
that is saved. A profile is a table: it is merged and compared key by key, so that
what an override does not say of it (a `cwd` that was cleared, a variable that was
taken out of `env`) is what `config.toml` says. `Over` lays one table over another: it is how layers merge, and
how the schema and the ranges are put together from their parts. `Settings` has the process (`phase`: down, normal, safe mode, no
paths), the configuration in force, the look, the dialog, and `write_atomic` as the
steps create, write, backup, copy and rename, each of which may fail and between which the process may be
killed and the files edited from outside (`EditOutside`); a new start reads what
is left. Nothing else of the UI runs between those steps, for they are one
handler. `saved` is auxiliary: the last configuration written, and whether an outside edit
has disturbed it. `ResetSection` takes its section nondeterministically. Keys of
the dialog are a draft of edits; the key map in force is `Build` of the
configuration's keys.

### Keymap, TerminalInput (`ui/actions.rs`, `ui/input.rs`, `terminal-core/src/input.rs`, `ui/events.rs`)

The whole registry of actions with contexts and defaults, chords and their
parsing and display (`+` is a key under a modifier only, since a bare `+` is split
into two empty parts and refused), overrides, conflicts, resolution, and the list of overrides the dialog
writes. The loops of the code over overrides and shortcuts (`Chosen`,
`KeybindingOverrides`, `MergeKeybindings`) are functions of the number of turns.
`TerminalInput` is the encoding: named keys with modifiers and modes,
text with Ctrl and Alt, AltGr, paste with its risks and terminator, mouse reports
in both formats, and the wheel with its fraction of a line. Bytes are numbers,
for what is asked is whether a program can tell them apart.

### OnScreenKeyboard, Pointer, Sound (`osk/state.rs`; `render/terminal_view.rs`, `ui/events.rs`; `sound/player.rs`)

The keyboard's sticky modifiers and caps lock, with what each key sends. The
pointer over one row of cells: buttons, motion, modifiers, modes that change
during a drag, two fingers of which one is tracked, taps against scrolling. A
command of the pointer is applied at once here (`SessionCommands` has the delay).
Sound: an output that opens on a thread of its own, may fail, and is dropped
while it opens; a limiter with an interval and a count of cues that their
threads lower.

### MC modules

`MCPanels` and `MCSettings` put components that share no state side by side, one
of them moving at a time (`Scenes`), and add pure inputs: an initial state per
input, about which an invariant compares the operators with a reference
definition of its own. `MCSessionHandle` runs the two directions of a session's
handle. `MCWorkspace` and `MCWriteQueue` only give constants their values.

## 4. Runs

| Run | Question | Outcome |
|---|---|---|
| `write_queue` | accounting, wakeups, fairness bound, refinement of `WriteChannels`, service of input, in a release build | holds |
| `write_queue_debug` | service of input with overflow checks | violated: see findings |
| `session` | doorbell, output, child, lifecycle, with failing writes, a failing wait and a waiter that may be missing | holds |
| `session_teardown` | a session that must end does end | holds under fairness |
| `session_missing_worker` | a session without its waiter fails | violated: see findings |
| `session_handle` | down: no command slept over, newest size wins, search labelled rightly; up: one event, no lost update or copy, updates seen | holds |
| `session_stale_hit` | selection points of an older epoch are rejected | violated: see findings |
| `workspace` | session limit, layout file, modal that takes the keys, decisions about what was asked, no live session closed unasked but by the × of its tab | holds |
| `panels` | worker follows the plan, joins end, panels and hover come to show what is asked for; lists, addresses and highlights are honest | holds |
| `public_ip` | while lookups stay on they keep their distance | violated: see findings |
| `settings` | whole files, applied is reloaded, look follows configuration, unambiguous key map, every field read back and reset, input arrives, device let go | holds |
| `pointer_shift` | Shift at the press makes a local selection | violated: see findings |

**Bounds.**

* `WriteQueue.cfg`: limits 3, 2 and 3 bytes, chunks of 2, replies of 1
  or 2 and inputs of 0, 1 or 3, so that an input is split, is empty, is refused
  as typed and accepted as paste, and both classes fill up; the counter has its
  real 256 values, so the wrap happens.
* `Session.cfg`: channels of one slot (every send can block, every ring can be
  dropped) and deadlines of one tick, which lets each deadline pass before,
  between and after every other event, as `DRAIN_GRACE <= REAP_GRACE` is all the
  code fixes (500 ms and 2 s). `SessionTeardown.cfg` uses `ReplyReserve = 0`,
  where a query fails the session at once and the writer idles: the writer
  matters for no deadline, and reading may fail instead.
* `SessionHandle.cfg`: a channel of two, two sizes, four commands, one chunk:
  enough for a full channel, two batches and a resize out of the way of every
  other command; three things in the owner's rounds (`MaxWork`), which is a change
without a wake, one with a wake and a failure of the teardown in any order, around
any number of publishes.
* `Workspace.cfg`: three sessions and three panes in a tab: several tabs, trees
  of depth three, a full window, a pane at the edge over a split; `MaxPaneId` 2 bounds
  a counter of the code that only grows with splits, and every tab reuses its numbers.
* `Panels.cfg`: two plans and one sample waiting, two requests, two files (the
  one before and the one now), two panels with different data; the system panel,
  which has no cadence of its own, is left out for size. Every kind of list is tried
  with one entry more than its limit, sockets with four of three kinds; rows have up to four cells, so a wide, a
  lengthening and a plain character meet.
* `Settings.cfg`: six steps in a life of the dialog, enough for edit, reset,
  apply and a second dialog; four fields, one of each kind (choice, stepped
  number, typed number, switch), while properties of single fields range over all of
  them; numbers at both sides of every range; overrides of two entries; two
  columns, two fingers and heights on both sides of the tap slop; two cues at a
  time on two openings of the device.

`CHECK_DEADLOCK FALSE` stands where the system may stop: a session ends, a
bounded counter is used up, the window is left, or a pure input has no steps.

**Fairness.** `WriteQueue`: the writer thread, a producer that has begun a
push and has yet to notify, and a PTY that takes what it is given; never a push
itself. `SessionWake`: the owner once it has work, the UI loop, and that the rounds of a
session that closes come to an end, which `Teardown` shows of `Session`; a running
session may do nothing for ever. `Session`: the spawning thread, the owner, the waiter, the UI between a
send and its ring, the clock, and the end of a batch (a batch has a byte and a
time limit, so it cannot go on forever); for `session_missing_worker`, `AttentiveSpec`
says besides that a batch has time for a chunk time and again (`TakeOutput`), so that
the violation does not come from a batch that never looks at its channel. No fairness is assumed of the child, of
the terminal, of the reader or of the writer, which sit in system calls that may
never return, and nobody is made to close a session. `MonitorPanels`: the worker's
thread (its requests carry timeouts), its clocks, the UI taking an event or going
on with a shutdown it has begun; never an input. `FilePreview`: the loader's
thread and the delivery of what it sends. `Sound`: the thread that owns a device;
no fairness is assumed of a cue, which ends with its device at the latest.

## 5. Proofs

The theorems hold for every value of the constants that the named assumptions
of the modules allow, and for behaviours of any length. They are proved in eight
modules; each keeps the same order: what the invariant says, the lemmas about
operators, one lemma per action (or group of actions) that keeps it, the theorems.

### Write queue and sessions

* `WriteQueueProofs`: `TypeCorrect`, `NoWakeupLost`, `InputBounded`,
  `BytesCounted`, `BytesBounded`, `RefinesFifo`. `NoLostWakeup` is inductive
  together with the types. `InputNotOvertaken` is not: it needs the relation of
  `overtaken` to the counter (`Overtaking`), which wraps while no input waits.
  `BytesInv` is `BytesMatchContents` with the limits; it rests on four lemmas about
  `AddsUp` (empty, append, tail, concatenation) and one on the chunks a paste is
  cut into. `BytesBounded` says besides that the subtractions of `take_next` do
  not underflow. `RefinesFifo` shows the steps of a build without overflow checks
  to be steps or stutters of `WriteChannels`.
* `SessionHandleProofs`, commands: `CommandNeverLost`, `NewestSizeInForce`,
  `SearchDescribesSnapshot`. The invariant follows the last resize from the
  channel to the batch to `pending` to the model (`Newest`), and says when the last
  snapshot still is the model (`Shown`): always while commands are applied.
  Wakeups: `TypeCorrect`, `WakesCoalesce`, `UpdateNeverLost`, `CopyNeverLost`.
  One inductive part is `OneToken`: the set flag, seen as a token, is in one place
  at a time (the owner about to notify, the event queue, or the UI about to clear
  it). `UpdateNeverLost` says of a change that is not seen that its wake is on its
  way, that the round it was made in ends with one, or that it is a failure of the
  teardown and the session has not ended; an owner asleep in a running session has
  none of these, so it owes nothing.
* `SessionProofs`: `TypeCorrect`, `DoorbellNeverLost`, `RefinesLifecycle`,
  `ChildAskedToEnd`, `OutputNeverCut`. The inductive invariant of the first three is `TypeOK /\ LastMessageLast /\ Noticed /\ StatusInv`.
  `LastMessageLast`: nothing follows an end of file or an error in the output
  channel, since the reader stops there. `Noticed` extends `NoLostDoorbell` to
  every point of the owner's round: what a producer has queued is either still
  ahead in this round, or the doorbell is on, or the producer is about to ring.
  `StatusInv` ties the status to phase, exit, input and the steps of `begin_close`:
  `RefinesLifecycle` says that Failed may be known while input is still taken, that
  Closing is not, and that neither a failure nor a closed queue is ever undone. What is claimed of the
  last state of a session (`ChildAskedToEnd`, `OutputNeverCut`) needs to know why
  the owner got there: `EndInv` adds that a reported exit is true (`ExitTrue`),
  that a close request of a closing session leads to termination in this round or
  rings (`CloseHeard`), why the phase is Done or the loop was left (`DoneReason`,
  `LeftReason`), that the drain deadline is never behind the reap deadline
  (`Deadlines`, from `DRAIN_GRACE <= REAP_GRACE`), that what is parsed is shown or
  about to be (`Fresh`), and that an end of file is believed only when nothing can
  follow (`ReaderTruth`, for a session that has its reader).

### Window

* `WorkspaceProofs`: `Inductive` and its consequences `TreesStay`, `LimitStays`,
  `SavedIsRestorable`, `KeysFollowDrawing`, `DecisionsHonoured`, `OnlyTabXUnasked`.
  The invariant `IInv` has four parts. `TabsInv`: every tab is a tree of no
  more panes than a tab may have, its focus in it, live sessions are open, and
  the panes of all tabs are within the session limit. `OverlaysInv`: palette and settings are never
  open together, and without a window there is neither. `DialogFor`: a dialog
  about a pane names a pane of the *active* tab and its session; this is why an
  answer that looks the number up in the active tab finds the right session,
  for no message that is let through under a dialog changes the active tab or
  the pane. `Restorable`: what is saved passes the validation. TLC has checked
  `IInv` on the instance of the run. `OnlyTabXUnasked` is an action property: each
  of the action lemmas shows its step to be `Asked` as well.
  Assumed: `MaxPanesPerTab` is at least 2, so that the split preset is a layout
  (the code has 4), and `FilesAssumption`: a layout file holds
  finitely many tabs that are binary trees, since serde refuses anything else.

* The first part of the module is about the tree of panes: splitting (`SplitLeaves`), closing
  (`CloseLeaves`), swapping, moving a pane to another (`MoveLeaves`) and to the edge of
  the grid (`EdgeLeaves`, from `Deeper`: a tree put one level down is one) keep a tree a tree;
  a tree is no deeper than the panes it has (`DepthBound`); numbering the leaves
  of a layout from left to right gives a tab with that layout (`RestoredTab`);
  reading order is a total order, so the next and the previous pane are panes of
  the tab (`PanesInOrder`, `FocusStays`).

### Panels

* `PanelsProofs`: `WorkerFollowsUi`, `PreviewOfItsRow`, `PublicIsRoutable`,
  `OnlyPublic`. `WorkerInv` says what the control channel holds in every state of
  the UI: plans only, the last of them (or the worker's own) the wanted one, while
  the UI takes messages; and while it is held in a join, one Stop at the end of
  the channel and no plan after it, unless the worker has gone. `PublicIsRoutable`
  compares `is_public` with the blocks its comment lists for all 2^32 IPv4 and
  all 2^128 IPv6 addresses, embedded IPv4 included; `OnlyPublic` is the run's
  property and uses it, with lemmas about lookups and answers for any address.
  `HonestSamples` is `SamplesHonest`, and consists of a theorem for each collector
  that holds of any list and any limit: `RowsHonest`, `PreviewComplete`,
  `ConnectionsKept`, `BusiestListed`, `BusiestInterfaces`, `MarkersCount`. Two
  facts carry them. Counting the members before each gives every finite set that
  is strictly ordered its numbers from 1 on (`Ranks`, `Enumerated`), so that what
  `Arranged` returns is a list with each position once, in order (`ArrangedLists`);
  and a stable sort by a weak order is such an order (`StableOrder`, `SortedLists`).
  What is counted twice, before and after a filter, a sort or a cut, is compared by
  pairing (`Paired`). The comparisons the code sorts by are shown to be weak orders
  one by one, which `sort_by` demands.
* `ViewIsHonest` is `ViewHonest`, from five theorems of any input. `SearchFinds`
  takes the search apart as the code does. Joined lists keep their entries, the i-th
  list's after those before it (`FlatIs`, from the loop that `FlattenSeq` is), so a
  row's text has its characters where its cells are (`RowTextIs`, `Columns`) and the
  characters of some cells are a part of it (`PartIs`). `FindAll` finds every place
  but those that overlap one it has found (`FindAllFinds`, turn by turn with
  `Scanned`); a place found is a match of which no fewer cells spell the query
  (`PlaceMarks`). That last step needs a fact of the data: a character has at most
  two in lower case, and those two differ. `StepsReach` adds the steps through the
  matches and the scrolling to each; its rows are at most the 4 cells wide that the
  property looks for a mark in. `SelectionShows` is about any two points, any
  scrolling and any window with a cell; `HistoryFits` about any limits, where the
  division is compared with the product (`Quotient`, `NoLess`); `TitleFits` about any
  title: what is kept is a beginning of its printable characters (`Titled`, kept by
  every character in `PushStep`) and the next one would not have fitted.
  Assumed: `SamplersAssumption`, that every limit is positive.

### Settings, key map, sound

* `ConfigProofs` is about operators. A loop of the code is a recursive function
  here, and what every turn keeps is kept by all of them (`Turns`, from the least
  number principle `LeastNat`; `LoopRuns` shows that such a function exists, which
  the definition by `CHOOSE` needs). From this: `KeymapUnambiguous` for any list
  of overrides and both platforms, with what `Keymap::build` chose and what it
  bound (`ChosenSlots`, `BindAllSound`); a merged list has every entry of the
  overlay, in its last form, and the others of the base (`MergeReads`); the
  dialog writes at most one entry per action (`DialogWrites`). `DefaultsValid`
  goes through the schema table by table. `ReadsBack` puts them together: what
  `overrides_toml` writes over a configuration is read back over it as it was, every
  field and every key of every profile; a profile, a key of its table or a shortcut
  that only the configuration below has comes back, and nothing else does.
  `FieldReadsBack` says the same of a single field, whatever `config.toml` says of
  it; with the tables of the widgets against the ranges of `validate`
  (`OfferedValid`) and the sections against the rows (`RowsReset`, `SectionsApart`)
  it gives the dialog's part.
* `KeysReopen` is about a dialog that is opened and applied. `ShownIsRead` says that
  `Display` and `Chord::parse` are inverse on both platforms for every chord that `parse` can
  give, which the `+` key without a modifier is not; a
  concatenation of labels is taken apart piece by piece for it (`PieceRange`,
  `LastPiece`). A table of the 25 shortcuts by the kind of their modifiers
  (`DefaultsTable`) shows the defaults of each platform to be pairwise different and
  bindable (`DefaultsSeparate`), so they are all bound and none is written
  (`DefaultsReopen`). For overrides that name each action in its own context, what is
  bound has one chord for each action and each chord one action (`OwnKeymap`,
  `Separate`); what the dialog then writes keeps that (`AgainOwn`, `AgainKept`), and a
  key map of which it is true binds exactly what is chosen (`SeparateKeymap`). Hence
  the same bindings (`ReopensSame`). Its hypothesis `TextsAllowed` is what
  `validate_keybinding` has checked of every file that was loaded.
* `SettingsProofs`: `OverridesNeverTorn`, `PreviewNeverOutlives` with the invariant
  `Inv`, which adds to the two properties that nothing is saved while a dialog is
  open or nothing runs (`Saving`) and that the temporary file is complete before
  the backup and the rename depend on it (`TempReady`). `SavedIsReadBack` (for profiles
  in the sense of `ReadsBack`) and
  `RunningConfigValid` have `ConfigInv`: the configuration in force, and the one
  being written, are valid and have every field (`Usable`); the draft has every
  field but need not be valid (`WellFormed`); and what is being written, or was
  saved, is the difference against the `config.toml` that is there now, unless
  somebody has written the files since (`Remembered`). `CuesStayLimited` counts
  the cues on all devices as a finite set of pairs (`Sources`), never more than
  the counter says.
  Assumed: `OverridesWholeOutside`, that others who edit the overrides leave a whole
  file or none; `FilesAssumption`, that a file which parses has no field the schema
  has not (`deny_unknown_fields` in `config/schema.rs`) and lists its shortcuts;
  `FieldsAssumption`, that a run looks at fields the schema has.

### Keys, mouse, pastes and the on-screen keyboard

* `InputProofs`: `InputArrives`, `SettingsTypes`, `DialogIsHonest`, `PasteArrives`,
  `WheelArrives`, `MouseArrives`, `PressArrives`. `KeysReach` has a case for every kind of input.
  `PressArrives` says of Alt what the code does: Escape and the key by itself, without
  its Shift.
  Most are statements about operators and hold for inputs the run does not have:
  any text of a paste, any sequence of wheel turns, any key press, any cell.
  What a program reads is defined by loops over bytes; `LoopRuns` gives their
  values, `NumberRun` and `Segment` say that the digits written for a cell are
  read as that cell, `Concat` that an encoding consists of the parts it was made of.
  `MouseArrives` stops at 999 columns and rows, as its proof goes through a number
  digit by digit; the code's type is `u16`. The named keys are all told apart by what they send (`NamedArrives`,
  by the length and three positions of the sequence).
  The pointer and the on-screen keyboard keep state, and their part is inductive:
  `PointerInv` ties a drag to the button and to a selection that ends under the
  pointer, and a tracked finger to where it was put down until it has moved further
  than the slop, and to the lines scrolled from then on. `OskInv` says with which key,
  modifiers and caps lock the last press was made, so that `OskArrives` compares what was sent with what the
  label showed. `SettingsTypes` adds the types of the dialog and of the sound player
  to `ConfigInv` of `SettingsProofs`. `DialogIsHonest` applies `KeymapUnambiguous`,
  `KeysReopen` and `RowsBehave` (from `FieldReadsBack`), which hold of any overrides,
  any field and whatever the files say, to the inputs of the run.
  Assumed: `KeysAssumption`, that the layout of the on-screen keyboard has passed
  `validate_text` and `named_from_str`; `TapSlop` is positive (the code has 8.0);
  `FilesAssumption` and `StepsAssumption`, that a file is one of the four kinds and
  the bound a number.

### Only model-checked

* Everything temporal but `ImplementsLifecycle` and `UnaskedOnlyByTabX`:
  `InputServed`, `UpdatesSeen`, `Teardown`, `UiResumes`, `FilesFollow`,
  `RestingShows`, `HoverShowsItsFile`, the liveness of `DeviceReleased` (its safety
  part is `CuesLimited`, proved) and of `ImplementsChannels`. Liveness under
  fairness is out of the prover's reach.
* Every invariant that a passing run checks is proved. Two of the theorems under them
  stop at a range, as there is no induction over data: `MouseArrives` at 999 columns
  and rows, `StepsReach` at rows of four cells, which are all the property looks at.

## 6. Findings

* `write_queue_debug`: the counter of replies since the last input is raised for
  every reply, input or not, and is a `u8`. After 256 replies without input a
  build with overflow checks panics its writer thread; input accepted afterwards
  is never written (`session/write_queue.rs:131` against `:71`). A release build
  wraps, and `write_queue` shows that the fairness bound holds in spite of it.
* `session_missing_worker`: the comment in `session/spawn.rs:99-100` says the owner
  fails a session one of whose workers could not be created. `handle_exit` treats
  a disconnected exit channel like an empty one, so without its waiter a session
  runs on after its child has exited.
* `session_stale_hit`: `terminal-core/src/ids.rs:40` says hit tests of an older
  resize epoch are rejected. `SelectStart` and `SelectUpdate` carry no epoch and
  are applied to whatever size the terminal has by then.
* `public_ip`: `docs/DECISIONS.md:107` and `panels/worker.rs:231` say the public
  address is asked for at most every 30 minutes, 5 after a failure. The record of
  the last request lives in the worker, which is dropped when its plan becomes
  idle (`ui/commands.rs:461`): hiding and showing the panel asks again at once.
* `pointer_shift`: `ui/events.rs:238-239` says Shift bypasses reporting, so that
  local selection always works. Motion and release are reported with
  `shift = false` (`:169`): the selection begins, never extends and is never
  copied, and the program gets a release without a press.

## 7. Observations

Behaviours met while modelling that no document contradicts, or that no run is
spent on. Each is in the models as the code has it.

* Window: closing a tab before the active one makes the active index name the
  next tab (`ui/commands.rs:340`). The × of a tab closes live sessions without a
  dialog (`ui/commands.rs:331`), while `docs/TERMINAL.md:19` says to warn on close if a live
  session will be terminated; `UnaskedOnlyByTabX` says that it is the only way past the
  dialogs. A paste that was asked for in one tab arrives in the one that is active when the
  clipboard answers. The clipboard's answer replaces a
  close dialog that is open by then (`ui/events.rs:194`). Moving the focus while
  one pane is shown alone can focus a hidden pane. The limit counts panes, not the sessions
  of closed panes that are still ending; with a limit of one, the split preset
  still starts two.
* Session: the error of a failed resize stays after a later one succeeds
  (`session/owner.rs:201`). A session that is shown as failed still takes input until its
  queue is closed (`:285` before `:293`). A failure while the session closes is published
  without a wake and shown with the next one, at the end of the session at the latest.
* Preview: a character that is cut off by the end of a file is left out without the mark
  that the text goes on (`panels/preview.rs:150`).
* Monitor: leaving the window stops the worker, the update that follows starts it
  again, and dropping the application joins it (`ui/commands.rs:399`, while
  `docs/TECHNICAL_SPEC.md:66` says a blocked worker is never joined on the GUI
  thread); plans that keep the files restart the
  interval, plans that change them tick at once; an old worker's sample may still be shown
  after a reset, until the next one. A hover stays at "Loading" if the loader's
  thread cannot be created.
* Search: results of other panes stay when the focus moves, a new search reveals
  no match and its first forward step goes to the second newest; lines of results
  shift with new output; a match that ends in a wide character leaves its spacer
  column plain.
* Settings: a shortcut that `config.toml` binds cannot be reset through the
  overrides, and neither can a `cwd` or a variable that it gives a profile
  (`ui/settings.rs:335`): it is back at the next start; an `Apply` after an outside edit
  pins the old values; an edit between copy and rename is lost, though
  `docs/CONFIGURATION.md:9` wants no silent overwrite of external changes; resets do not refresh the live preview; `Ctrl++` is
  parsed as a chord but refused by the validation, a bare `+` by both; an empty list of keys, which
  the key map takes for "unbound", is refused by it too (`config/validate.rs:270`
  against `ui/actions.rs:472`); `config/schema.rs:243` says an empty GeoIP path
  disables the lookup, the code takes the bundled database.
* Input: Alt+Shift+letter sends ESC and the unshifted letter, though `ui/input.rs:128`
  says that text keys carry Shift in their characters; Ctrl+Alt+Space on
  the on-screen keyboard loses both modifiers (`osk/state.rs:131`). Releasing
  another button ends a drag; any button counts for double clicks; lifting a
  second finger drops the tracked one; horizontal movement counts as a tap.
* Sound: closing a device while cues sound may leave their count raised; after
  as many as the limit no cue plays.

## 8. Not modelled

* Errors of `spawn_session` itself (the handle is never returned) and a failure to
  create the owner's thread; the poisoning of mutexes, which the code ignores
  everywhere; the bytes of terminal output, the grid and its damage, which are the
  engine's (`alacritty_terminal`).
* Drawing, layout of widgets, wording, colours and themes' contents, animation,
  full screen, toasts, the palette's filter: no property is about them, and their
  arithmetic is in floating point. Sound synthesis likewise.
* Reading the operating system (`/proc`, `sysinfo`, shells and directories), the
  format of the address database, decoding of images: pure I/O or parsing, of
  which the models take the results as input.
* The program's entry and command line, the vendored `block` crate, scripts,
  packaging and assets.
* In `Session` the write queue is a count and in `SessionCommands` the rest of the
  owner's round is nondeterministic: `WriteQueue` and `Session` cover them. In
  `Workspace` a session is only live or not: `Session` says when.
