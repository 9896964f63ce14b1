---------------------------- MODULE MonitorPanels ----------------------------
(***************************************************************************)
(* The panels of the window and the worker that samples for them           *)
(* (ui/commands.rs, ui/app.rs, panels/worker.rs).                          *)
(*                                                                         *)
(* The UI sends the worker a plan of what is visible and takes its samples *)
(* as events; stopping the worker joins its thread, which holds the UI.  A *)
(* tick reads nothing that another thread writes, so it is one step.  What *)
(* a collector measured is abstracted to what it was asked for: the shell  *)
(* whose directory is listed, the endpoint that was queried.               *)
(***************************************************************************)
EXTENDS Integers, Sequences

CONSTANTS
  Panels,     \* BuiltinPanel::ALL, of which some may be left out
  Pids,       \* shells that may be focused
  Configs,    \* values of the `panels` section that may be applied
  MaxPlans,   \* bound: plans the worker has not read
  MaxEvents   \* bound: samples the UI has not taken

None == "none"

ASSUME PanelsAssumption ==
  /\ Panels \subseteq {"system", "network", "directory"}
  /\ None \notin Pids
  /\ MaxPlans \in Nat \ {0} /\ MaxEvents \in Nat \ {0}

VARIABLES
  shown, windowFocused, panels, pid,  \* what a plan is made of
  followed,                           \* followed_pid
  worker,                             \* monitor_worker is Some
  monitor,                            \* the sample the panels show
  ui,                                 \* ready, or inside a join
  control, events,                    \* the two channels
  at, plan, sample, publicIp,         \* the worker thread
  networkDue, retryDue,               \* the two clocks it compares with
  asked, hasty                        \* auxiliary: requests of the program

wanted == <<shown, windowFocused, panels, pid>>
clocks == <<networkDue, retryDue>>
thread == <<at, plan, sample, publicIp>>
monitorVars ==
  <<wanted, followed, worker, monitor, ui, control, events, thread, clocks, asked, hasty>>

Plan(q) == [stop |-> FALSE, plan |-> q]
Stop == [stop |-> TRUE]

NoAnswer == [of |-> None, ok |-> FALSE]
NoSample ==
  [system |-> FALSE, processes |-> FALSE, interfaces |-> FALSE, connections |-> FALSE,
   geoip |-> None, home |-> NoAnswer, files |-> None]

(***************************************************************************)
(* The plan                                                                *)
(***************************************************************************)
(* `slow` stands for the background interval.                              *)
MonitorPlan(sh, focused, cfg, p) ==
  [slow |-> ~focused,
   system |-> "system" \in sh,
   processes |-> "system" \in sh /\ cfg.processes,
   network |-> "network" \in sh,
   connections |-> cfg.connections,
   geoip |-> cfg.geoip,
   endpoint |-> IF "network" \in sh THEN cfg.endpoint ELSE None,
   files |-> IF "directory" \in sh THEN p ELSE None,
   hidden |-> cfg.hidden]

IsIdle(q) == ~q.system /\ ~q.processes /\ ~q.network /\ q.files = None

PlanNow == MonitorPlan(shown, windowFocused, panels, pid)

(* MonitorWorker::start: the thread may not start.                         *)
StartWorker(q) ==
  \/ /\ worker' = TRUE
     /\ control' = <<>>
     /\ at' = "tick" /\ plan' = q /\ sample' = NoSample /\ publicIp' = NoAnswer
     /\ networkDue' = TRUE
     /\ UNCHANGED <<retryDue, monitor>>
  \/ UNCHANGED <<worker, control, thread, clocks, monitor>>

(* Drop: Stop is sent and the thread joined.                               *)
StopWorker(where) ==
  /\ control' = Append(control, Stop) /\ ui' = where
  /\ UNCHANGED <<worker, thread, clocks, monitor>>

(* sync_metrics_worker.                                                    *)
SyncMetricsWorker(q) ==
  CASE IsIdle(q) /\ worker -> StopWorker("joining")
    [] IsIdle(q) /\ ~worker ->
         monitor' = NoSample /\ UNCHANGED <<worker, control, thread, clocks, ui>>
    [] ~IsIdle(q) /\ worker ->
         control' = Append(control, Plan(q)) /\ UNCHANGED <<worker, thread, clocks, monitor, ui>>
    [] OTHER -> StartWorker(q) /\ UNCHANGED ui

(* The initial plan is sent with the focused shell already known.          *)
MonitorInit ==
  /\ panels \in Configs /\ pid \in Pids \cup {None}
  /\ shown = panels.enabled \cap Panels /\ windowFocused = TRUE
  /\ followed = None /\ monitor = NoSample /\ ui = "ready"
  /\ worker \in {~IsIdle(PlanNow), FALSE}
  /\ control = <<>> /\ events = <<>>
  /\ at = (IF worker THEN "tick" ELSE "gone") /\ plan = PlanNow
  /\ sample = NoSample /\ publicIp = NoAnswer
  /\ networkDue = TRUE /\ retryDue = TRUE /\ asked = None /\ hasty = FALSE

(***************************************************************************)
(* The UI: one message each                                                *)
(***************************************************************************)
Ready ==
  /\ ui = "ready"
  /\ Len(control) < MaxPlans /\ Len(events) < MaxEvents

(* update: whatever the message did, the plan follows the focused shell.   *)
Answer(sh, focused, cfg, p, syncs) ==
  /\ shown' = sh /\ windowFocused' = focused /\ panels' = cfg /\ pid' = p
  /\ followed' = p
  /\ IF syncs \/ p # followed THEN SyncMetricsWorker(MonitorPlan(sh, focused, cfg, p))
     ELSE UNCHANGED <<worker, monitor, ui, control, thread, clocks>>
  /\ UNCHANGED <<events, asked, hasty>>

TogglePanel(panel) ==
  /\ Ready
  /\ Answer(IF panel \in shown THEN shown \ {panel} ELSE shown \cup {panel},
            windowFocused, panels, pid, TRUE)

WindowFocus(focused) == Ready /\ Answer(shown, focused, panels, pid, TRUE)

(* Tabs and panes come and go; a session's process never changes.  The     *)
(* first message after the start is never this one: widgets report their   *)
(* sizes before the user can click.                                        *)
FocusShell(p) == Ready /\ followed = pid /\ Answer(shown, windowFocused, panels, p, FALSE)

(* apply_config: only panels whose `enabled` changed follow it.            *)
AppliedShown(cfg) ==
  ((shown \cup (cfg.enabled \ panels.enabled)) \ (panels.enabled \ cfg.enabled)) \cap Panels
ApplyConfigOnly(cfg) == Ready /\ Answer(AppliedShown(cfg), windowFocused, cfg, pid, FALSE)
ApplyConfig(cfg) == Ready /\ Answer(AppliedShown(cfg), windowFocused, cfg, pid, TRUE)

(* A sample arrives, also one sent before the worker was stopped.  As the  *)
(* first message after the start it sends the plan again.                  *)
TakeSample ==
  /\ ui = "ready" /\ events # <<>>
  /\ monitor' = Head(events) /\ events' = Tail(events)
  /\ control' = IF pid # followed THEN Append(control, Plan(PlanNow)) ELSE control
  /\ followed' = pid
  /\ UNCHANGED <<wanted, worker, ui, thread, clocks, asked, hasty>>

(* exit: the worker is joined.                                             *)
Exit ==
  /\ Ready
  /\ IF worker THEN StopWorker("exiting")
     ELSE ui' = "exited" /\ UNCHANGED <<worker, monitor, control, thread, clocks>>
  /\ UNCHANGED <<wanted, followed, events, asked, hasty>>

(* Its end: the tabs are gone, update sees no shell any more, and may      *)
(* start a worker again.                                                   *)
TabsGone ==
  LET q == MonitorPlan(shown, windowFocused, panels, None)
  IN /\ ui = "exited" /\ ui' = "closing"
     /\ pid' = None /\ followed' = None
     /\ IF followed # None /\ ~IsIdle(q) THEN StartWorker(q)
        ELSE UNCHANGED <<worker, monitor, control, thread, clocks>>
     /\ UNCHANGED <<shown, windowFocused, panels, events, asked, hasty>>

(* The window is dropped, and joins that worker too.                       *)
DropApp ==
  /\ ui = "closing"
  /\ IF worker THEN StopWorker("dropping")
     ELSE ui' = "left" /\ UNCHANGED <<worker, monitor, control, thread, clocks>>
  /\ UNCHANGED <<wanted, followed, events, asked, hasty>>

(* The join returns: the handle is gone, and what waited for it goes on.   *)
AfterJoin == [joining |-> "ready", exiting |-> "exited", dropping |-> "left"]
Joined ==
  /\ ui \in DOMAIN AfterJoin /\ at = "gone"
  /\ ui' = AfterJoin[ui] /\ worker' = FALSE
  /\ monitor' = IF ui = "joining" THEN NoSample ELSE monitor
  /\ UNCHANGED <<wanted, followed, control, events, thread, clocks, asked, hasty>>

(***************************************************************************)
(* The worker                                                              *)
(***************************************************************************)
(* The channel of samples has no bound: a tick never waits for the UI.     *)
SinkBounded == Len(events) < MaxEvents
SinkAccepts == TRUE

(* tick_home: when the endpoint is asked, and what that leaves.            *)
Due ==
  \/ publicIp = NoAnswer
  \/ publicIp.of # plan.endpoint
  \/ retryDue

Asks == plan.network /\ networkDue /\ plan.endpoint # None /\ Due

TickHomeFresh(ok) ==
  IF plan.endpoint # None /\ Due THEN [of |-> plan.endpoint, ok |-> ok] ELSE NoAnswer
TickHome(ok) ==
  CASE plan.endpoint = None -> NoAnswer
    [] plan.endpoint # None /\ Due -> [of |-> plan.endpoint, ok |-> ok]
    [] OTHER -> publicIp

(* tick_network.  `geoip` is the database that was opened last, whether or *)
(* not it could be read; where the answer or a lookup in it puts an        *)
(* address is a matter of one sample (Samplers.LocateHome).                *)
TickNetwork(s, ok) ==
  IF ~(plan.network /\ networkDue) THEN s
  ELSE [s EXCEPT !.interfaces = TRUE,
                 !.geoip = plan.geoip,
                 !.home = TickHome(ok),
                 !.connections = plan.connections]

(* tick: what the plan leaves out keeps its last value.                    *)
Sampled(ok) ==
  [TickNetwork(sample, ok) EXCEPT
     !.system = @ \/ plan.system,
     !.processes = @ \/ plan.processes,
     !.files = plan.files]

Tick ==
  /\ at = "tick" /\ SinkAccepts
  /\ \E ok \in BOOLEAN :
       /\ Asks \/ ok
       /\ sample' = Sampled(ok)
       /\ publicIp' = IF plan.network /\ networkDue THEN TickHome(ok) ELSE publicIp
       /\ events' = Append(events, sample')
  /\ networkDue' = (networkDue /\ ~plan.network)
  /\ retryDue' = (retryDue /\ ~Asks)
  /\ asked' = IF plan.network /\ networkDue THEN plan.endpoint ELSE asked
  /\ hasty' = (hasty \/ (Asks /\ asked = plan.endpoint /\ ~retryDue))
  /\ at' = "wait"
  /\ UNCHANGED <<wanted, followed, worker, monitor, ui, control, plan>>

FilesNeverChange(q) == FALSE
FilesChanged(q) == q.files # plan.files \/ q.hidden # plan.hidden

(* recv_timeout: a plan that changes the files is sampled at once, every   *)
(* other one starts the interval again.                                    *)
TakePlan ==
  /\ at = "wait" /\ control # <<>> /\ ~Head(control).stop
  /\ control' = Tail(control)
  /\ plan' = Head(control).plan
  /\ at' = IF FilesChanged(plan') THEN "tick" ELSE "wait"
  /\ UNCHANGED <<wanted, followed, worker, monitor, ui, events, sample, publicIp, clocks,
                 asked, hasty>>

TakeStop ==
  /\ at = "wait" /\ control # <<>> /\ Head(control).stop
  /\ control' = <<>> /\ at' = "gone"
  /\ UNCHANGED <<wanted, followed, worker, monitor, ui, events, plan, sample, publicIp,
                 clocks, asked, hasty>>

IntervalOver ==
  /\ at = "wait" /\ control = <<>> /\ Len(events) < MaxEvents
  /\ at' = "tick"
  /\ UNCHANGED <<wanted, followed, worker, monitor, ui, control, events, plan, sample,
                 publicIp, clocks, asked, hasty>>

(* Time passes: the network cadence, and the wait after a request.         *)
NetworkComesDue ==
  /\ ~networkDue /\ networkDue' = TRUE
  /\ UNCHANGED <<wanted, followed, worker, monitor, ui, control, events, thread, retryDue,
                 asked, hasty>>
RetryComesDue ==
  /\ ~retryDue /\ retryDue' = TRUE
  /\ UNCHANGED <<wanted, followed, worker, monitor, ui, control, events, thread, networkDue,
                 asked, hasty>>

(***************************************************************************)
(* Specification                                                           *)
(***************************************************************************)
Input ==
  \/ \E panel \in Panels : TogglePanel(panel)
  \/ \E focused \in BOOLEAN : WindowFocus(focused)
  \/ \E p \in Pids \cup {None} : FocusShell(p)
  \/ \E cfg \in Configs : ApplyConfig(cfg)
  \/ Exit

Closing == TabsGone \/ DropApp \/ Joined
Worker == Tick \/ TakePlan \/ TakeStop

MonitorNext ==
  \/ Input \/ TakeSample \/ Closing
  \/ Worker \/ IntervalOver \/ NetworkComesDue \/ RetryComesDue

(* The runtime delivers queued messages, the worker's thread runs, and its *)
(* timeouts and the network cadence come.                                  *)
MonitorFairness ==
  /\ WF_monitorVars(TakeSample) /\ WF_monitorVars(Closing)
  /\ WF_monitorVars(Worker) /\ WF_monitorVars(IntervalOver)
  /\ WF_monitorVars(NetworkComesDue)

(***************************************************************************)
(* What is drawn                                                           *)
(***************************************************************************)
HomeLine(s) ==
  CASE s.home.of = None -> "off"
    [] s.home.of # None /\ ~s.home.ok -> "failed"
    [] OTHER -> "address"

PanelView(panel, s, cfg) ==
  CASE panel = "system" -> [usage |-> s.system, processes |-> cfg.processes /\ s.processes]
    [] panel = "network" -> [home |-> HomeLine(s), peers |-> s.connections, geoip |-> s.geoip]
    [] panel = "directory" -> [files |-> s.files]

(***************************************************************************)
(* Properties                                                              *)
(***************************************************************************)
(* The plan the worker has been told last, whether or not it has read it.  *)
Sent == IF control = <<>> THEN plan ELSE control[Len(control)].plan

(* Whenever the UI takes messages, a worker it holds is alive and was told *)
(* what is visible now, it holds none when nothing has to be sampled, and  *)
(* no thread outlives the window (sync_metrics_worker, update, exit).      *)
WorkerFollows ==
  /\ ui = "ready" /\ worker => at # "gone" /\ Sent = PlanNow
  /\ ui = "ready" /\ IsIdle(PlanNow) => ~worker
  /\ ui = "left" => at = "gone"

(* A join holds the UI only for a while, although the worker may be in the *)
(* middle of a sample that the UI cannot take: leaving always ends.        *)
UiResumes == ui # "ready" ~> ui \in {"ready", "left"}

(* A shell that keeps the focus has its directory listed, however often    *)
(* other settings send new plans meanwhile (run: files_changed).           *)
FilesFollow ==
  \A p \in Pids :
    <>[]("directory" \in shown /\ pid = p /\ worker) => <>[](monitor.files = p)

(* When the user pauses, what the panels show becomes what is asked for,   *)
(* samples that an earlier worker left in the channel notwithstanding; an  *)
(* address looked up earlier disappears when lookups are switched off.     *)
Asked(panel, view) ==
  CASE panel = "system" -> view.usage /\ view.processes = panels.processes
    [] panel = "network" -> /\ (view.home = "off") = (panels.endpoint = None)
                            /\ view.peers = panels.connections /\ view.geoip = panels.geoip
    [] panel = "directory" -> view.files = pid
RestingShows ==
  (<>[]worker /\ <>[][~Input]_monitorVars) =>
    <>[](\A panel \in shown : Asked(panel, PanelView(panel, monitor, panels)))

(* worker.rs and docs/DECISIONS.md: while lookups stay on, an endpoint is  *)
(* asked again only after the wait that its last request started.          *)
SpacedLookups == ~hasty
=============================================================================
