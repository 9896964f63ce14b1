----------------------------- MODULE PanelsProofs -----------------------------
(***************************************************************************)
(* The parts behind the panels: the worker and the plan it was given, the  *)
(* preview under the pointer, and what the collectors and the terminal's   *)
(* view make of any input.                                                 *)
(***************************************************************************)
EXTENDS MCPanels, FiniteSetTheorems, SequenceTheorems, TLAPS

(***************************************************************************)
(* The sampling worker                                                     *)
(***************************************************************************)
Messages ==
  {Plan(MonitorPlan(sh, focused, cfg, p)) :
     sh \in SUBSET Panels, focused \in BOOLEAN, cfg \in Configs, p \in Pids \cup {None}}
  \cup {Stop}

WantedOK ==
  /\ shown \in SUBSET Panels /\ windowFocused \in BOOLEAN
  /\ panels \in Configs /\ pid \in Pids \cup {None}
  /\ worker \in BOOLEAN /\ at \in {"tick", "wait", "gone"}
  /\ control \in Seq(Messages)

OnlyPlans(s) == \A i \in 1..Len(s) : ~s[i].stop
StopLast(s) == s # <<>> /\ s[Len(s)].stop /\ \A i \in 1..(Len(s) - 1) : ~s[i].stop

(* The one Stop is what the UI waits for, and it is the last message: the  *)
(* worker reads every plan before it and none after it.                    *)
WorkerInv ==
  /\ WantedOK
  /\ ~worker => at = "gone"
  /\ CASE ui = "ready" ->
            /\ OnlyPlans(control)
            /\ worker => at # "gone" /\ Sent = PlanNow
            /\ IsIdle(PlanNow) => ~worker
       [] ui \in {"joining", "exiting", "dropping"} ->
            worker /\ IF at = "gone" THEN control = <<>> ELSE StopLast(control)
       [] ui = "exited" -> ~worker /\ OnlyPlans(control)
       [] ui = "closing" -> OnlyPlans(control) /\ (worker => at # "gone")
       [] ui = "left" -> ~worker
       [] OTHER -> FALSE

LEMMA PlanMessage ==
  ASSUME NEW sh \in SUBSET Panels, NEW focused \in BOOLEAN, NEW cfg \in Configs,
         NEW p \in Pids \cup {None}
  PROVE  LET q == MonitorPlan(sh, focused, cfg, p)
         IN  Plan(q) \in Messages /\ ~Plan(q).stop /\ Plan(q).plan = q
<1>1. Plan(MonitorPlan(sh, focused, cfg, p)) \in Messages
  BY DEF Messages
<1>2. \A q : ~Plan(q).stop /\ Plan(q).plan = q
  BY DEF Plan
<1> QED
  BY <1>1, <1>2

LEMMA StopMessage == Stop \in Messages /\ Stop.stop
  BY DEF Messages, Stop

LEMMA Told ==
  ASSUME NEW s \in Seq(Messages), OnlyPlans(s), NEW m \in Messages
  PROVE  /\ Append(s, m) \in Seq(Messages) /\ Append(s, m) # <<>>
         /\ Len(Append(s, m)) = Len(s) + 1 /\ Append(s, m)[Len(s) + 1] = m
         /\ ~m.stop => OnlyPlans(Append(s, m))
         /\ m.stop => StopLast(Append(s, m))
<1>1. /\ Append(s, m) \in Seq(Messages) /\ Append(s, m) # <<>>
      /\ Len(Append(s, m)) = Len(s) + 1 /\ Append(s, m)[Len(s) + 1] = m
      /\ \A i \in 1..Len(s) : Append(s, m)[i] = s[i]
      /\ Len(s) \in Nat
  OBVIOUS
<1> DEFINE t == Append(s, m)
<1> HIDE DEF t
<1> QED
  BY <1>1 DEF OnlyPlans, StopLast, t

(* What sync_metrics_worker leaves behind, in a state where the UI is free.*)
LEMMA Synced ==
  ASSUME WorkerInv, ui = "ready",
         NEW sh \in SUBSET Panels, NEW focused \in BOOLEAN, NEW cfg \in Configs,
         NEW p \in Pids \cup {None},
         shown' = sh, windowFocused' = focused, panels' = cfg, pid' = p,
         SyncMetricsWorker(MonitorPlan(sh, focused, cfg, p))
  PROVE  WorkerInv'
<1> DEFINE q == MonitorPlan(sh, focused, cfg, p)
<1>1. PlanNow' = q /\ Plan(q) \in Messages /\ ~Plan(q).stop /\ Plan(q).plan = q
  BY PlanMessage DEF PlanNow
<1>2. WantedOK /\ OnlyPlans(control) /\ (~worker => at = "gone") /\ (worker => at # "gone")
  BY DEF WorkerInv
<1>3. IsIdle(PlanNow)' = IsIdle(q)
  BY <1>1 DEF IsIdle
<1>4. SyncMetricsWorker(q)
  OBVIOUS
<1> HIDE DEF q
<1>5. CASE IsIdle(q) /\ worker
  <2>1. control' = Append(control, Stop) /\ ui' = "joining" /\ UNCHANGED <<worker, at>>
    BY <1>4, <1>5 DEF SyncMetricsWorker, StopWorker, thread
  <2>2. control' \in Seq(Messages) /\ StopLast(control')
    BY <2>1, <1>2, Told, StopMessage DEF WantedOK
  <2> QED
    BY <2>1, <2>2, <1>2, <1>5 DEF WorkerInv, WantedOK
<1>6. CASE IsIdle(q) /\ ~worker
  <2>1. UNCHANGED <<worker, control, at, plan, ui>>
    BY <1>4, <1>6 DEF SyncMetricsWorker, thread
  <2> QED
    BY <2>1, <1>2, <1>6 DEF WorkerInv, WantedOK
<1>7. CASE ~IsIdle(q) /\ worker
  <2>1. control' = Append(control, Plan(q)) /\ UNCHANGED <<worker, at, plan, ui>>
    BY <1>4, <1>7 DEF SyncMetricsWorker, thread
  <2>2. /\ control' \in Seq(Messages) /\ OnlyPlans(control') /\ control' # <<>>
        /\ control'[Len(control')] = Plan(q)
    BY <2>1, <1>1, <1>2, Told DEF WantedOK
  <2>3. Sent' = q
    BY <2>2, <1>1 DEF Sent
  <2> QED
    BY <2>1, <2>2, <2>3, <1>1, <1>2, <1>3, <1>7 DEF WorkerInv, WantedOK
<1>8. CASE ~IsIdle(q) /\ ~worker
  <2>1. StartWorker(q) /\ UNCHANGED ui
    BY <1>4, <1>8 DEF SyncMetricsWorker
  <2>2. CASE worker' = TRUE /\ control' = <<>> /\ at' = "tick" /\ plan' = q
    <3>1. Sent' = q /\ OnlyPlans(control') /\ control' \in Seq(Messages)
      BY <2>2 DEF Sent, OnlyPlans
    <3> QED
      BY <2>1, <2>2, <3>1, <1>1, <1>2, <1>3, <1>8 DEF WorkerInv, WantedOK
  <2>3. CASE UNCHANGED <<worker, control, at, plan>>
    BY <2>1, <2>3, <1>2, <1>8 DEF WorkerInv, WantedOK
  <2> QED
    BY <2>1, <2>2, <2>3 DEF StartWorker, thread
<1> QED
  BY <1>5, <1>6, <1>7, <1>8

LEMMA Unmoved ==
  ASSUME WorkerInv, UNCHANGED <<wanted, worker, ui, control, at, plan>>
  PROVE  WorkerInv'
BY DEF WorkerInv, WantedOK, wanted, Sent, PlanNow

LEMMA AnswerStep ==
  ASSUME WorkerInv, Ready, NEW sh \in SUBSET Panels, NEW focused \in BOOLEAN, NEW cfg \in Configs,
         NEW p \in Pids \cup {None}, NEW syncs \in BOOLEAN, Answer(sh, focused, cfg, p, syncs),
         ~syncs => /\ sh = shown /\ focused = windowFocused /\ cfg = panels
                   /\ followed = pid
  PROVE  WorkerInv'
<1>1. ui = "ready" /\ shown' = sh /\ windowFocused' = focused /\ panels' = cfg /\ pid' = p
  BY DEF Answer, Ready
<1>2. CASE syncs \/ p # followed
  <2>1. SyncMetricsWorker(MonitorPlan(sh, focused, cfg, p))
    BY <1>2 DEF Answer
  <2> QED
    BY <1>1, <2>1, Synced
<1>3. CASE ~(syncs \/ p # followed)
  <2>1. UNCHANGED <<worker, monitor, ui, control, thread, clocks>>
    BY <1>3 DEF Answer
  <2> QED
    BY <1>1, <1>3, <2>1, Unmoved DEF wanted, thread
<1> QED
  BY <1>2, <1>3

LEMMA TakeSampleStep ==
  ASSUME WorkerInv, TakeSample
  PROVE  WorkerInv'
<1>1. /\ ui = "ready" /\ UNCHANGED <<shown, windowFocused, panels, pid, worker, ui, at, plan>>
      /\ control' = IF pid # followed THEN Append(control, Plan(PlanNow)) ELSE control
      /\ PlanNow' = PlanNow
  BY DEF TakeSample, wanted, thread, PlanNow
<1>2. CASE pid # followed
  <2>1. Plan(PlanNow) \in Messages /\ ~Plan(PlanNow).stop /\ Plan(PlanNow).plan = PlanNow
    BY PlanMessage DEF PlanNow, WorkerInv, WantedOK
  <2>2. OnlyPlans(control) /\ control \in Seq(Messages)
    BY <1>1 DEF WorkerInv, WantedOK
  <2>3. /\ control' \in Seq(Messages) /\ OnlyPlans(control') /\ control' # <<>>
        /\ control'[Len(control')] = Plan(PlanNow)
    BY <2>1, <2>2, <1>1, <1>2, Told
  <2>4. Sent' = PlanNow
    BY <2>1, <2>3 DEF Sent
  <2>5. WantedOK'
    BY <2>3, <1>1 DEF WorkerInv, WantedOK
  <2> QED
    BY <1>1, <2>3, <2>4, <2>5 DEF WorkerInv
<1>3. CASE pid = followed
  BY <1>1, <1>3, Unmoved DEF wanted
<1> QED
  BY <1>2, <1>3

(* Waiting for the worker: Stop is the last message and the worker lives.  *)
LEMMA Stopping ==
  ASSUME WorkerInv, ui \in {"ready", "closing"}, worker,
         NEW where \in {"exiting", "dropping"}, StopWorker(where), UNCHANGED wanted
  PROVE  WorkerInv'
<1>1. control' = Append(control, Stop) /\ ui' = where /\ UNCHANGED <<worker, at>>
  BY DEF StopWorker, thread
<1>2. control' \in Seq(Messages) /\ StopLast(control')
  BY <1>1, Told, StopMessage DEF WorkerInv, WantedOK
<1> QED
  BY <1>1, <1>2 DEF WorkerInv, WantedOK, wanted

LEMMA ExitStep ==
  ASSUME WorkerInv, Exit
  PROVE  WorkerInv'
<1>1. ui = "ready" /\ UNCHANGED wanted
  BY DEF Exit, Ready
<1>2. CASE worker
  BY <1>1, <1>2, Stopping DEF Exit
<1>3. CASE ~worker
  BY <1>1, <1>3 DEF Exit, WorkerInv, WantedOK, wanted, thread
<1> QED
  BY <1>2, <1>3

LEMMA TabsGoneStep ==
  ASSUME WorkerInv, TabsGone
  PROVE  WorkerInv'
<1> DEFINE q == MonitorPlan(shown, windowFocused, panels, None)
<1>1. /\ ui = "exited" /\ ui' = "closing" /\ pid' = None /\ ~worker
      /\ UNCHANGED <<shown, windowFocused, panels>>
      /\ (StartWorker(q) \/ UNCHANGED <<worker, monitor, control, thread, clocks>>)
  BY DEF TabsGone, WorkerInv
<1> HIDE DEF q
<1>2. (worker' = TRUE /\ control' = <<>> /\ at' = "tick") \/ UNCHANGED <<worker, control, at>>
  BY <1>1 DEF StartWorker, thread
<1>3. WantedOK /\ OnlyPlans(control) /\ at = "gone"
  BY <1>1 DEF WorkerInv
<1>4. control' \in Seq(Messages) /\ OnlyPlans(control')
  <2>1. <<>> \in Seq(Messages) /\ OnlyPlans(<<>>)
    BY DEF OnlyPlans
  <2> QED
    BY <2>1, <1>2, <1>3 DEF WantedOK
<1>5. (worker' = TRUE /\ at' = "tick") \/ (worker' = FALSE /\ at' = "gone")
  <2>1. worker = FALSE
    BY <1>1, <1>3 DEF WantedOK
  <2> QED
    BY <2>1, <1>2, <1>3
<1> QED
  BY <1>1, <1>3, <1>4, <1>5 DEF WorkerInv, WantedOK

LEMMA DropAppStep ==
  ASSUME WorkerInv, DropApp
  PROVE  WorkerInv'
<1>1. ui = "closing" /\ UNCHANGED wanted
  BY DEF DropApp
<1>2. CASE worker
  BY <1>1, <1>2, Stopping DEF DropApp
<1>3. CASE ~worker
  BY <1>1, <1>3 DEF DropApp, WorkerInv, WantedOK, wanted, thread
<1> QED
  BY <1>2, <1>3

(* The join returns only when the thread is gone.                          *)
LEMMA JoinedStep ==
  ASSUME WorkerInv, Joined
  PROVE  WorkerInv'
<1>1. /\ ui \in {"joining", "exiting", "dropping"} /\ at = "gone" /\ worker' = FALSE
      /\ ui' = IF ui = "joining" THEN "ready" ELSE IF ui = "exiting" THEN "exited" ELSE "left"
      /\ UNCHANGED <<shown, windowFocused, panels, pid, control, at, plan>>
  BY DEF Joined, AfterJoin, wanted, thread
<1>2. control = <<>>
  BY <1>1 DEF WorkerInv
<1>3. OnlyPlans(control')
  BY <1>1, <1>2 DEF OnlyPlans
<1> QED
  BY <1>1, <1>3 DEF WorkerInv, WantedOK

LEMMA TailPlans ==
  ASSUME NEW s \in Seq(Messages), s # <<>>, ~Head(s).stop
  PROVE  /\ Tail(s) \in Seq(Messages)
         /\ OnlyPlans(s) => OnlyPlans(Tail(s))
         /\ StopLast(s) => StopLast(Tail(s))
         /\ Tail(s) = <<>> => s[Len(s)] = Head(s)
         /\ Tail(s) # <<>> => Tail(s)[Len(Tail(s))] = s[Len(s)]
<1>1. /\ Tail(s) \in Seq(Messages) /\ Len(Tail(s)) = Len(s) - 1 /\ Len(s) \in Nat \ {0}
      /\ \A i \in 1..(Len(s) - 1) : Tail(s)[i] = s[i + 1]
      /\ Head(s) = s[1]
  OBVIOUS
<1>2. Tail(s) = <<>> <=> Len(s) = 1
  BY <1>1
<1> DEFINE t == Tail(s)
<1> HIDE DEF t
<1>3. OnlyPlans(s) => OnlyPlans(t)
  BY <1>1 DEF OnlyPlans, t
<1>4. StopLast(s) => StopLast(t)
  <2> SUFFICES ASSUME StopLast(s) PROVE StopLast(t)
    OBVIOUS
  <2>1. Len(s) # 1
    BY <1>1 DEF StopLast
  <2>2. t[Len(t)] = s[Len(s)] /\ t # <<>>
    BY <2>1, <1>1, <1>2 DEF t
  <2>3. \A i \in 1..(Len(t) - 1) : ~t[i].stop
    BY <1>1 DEF StopLast, t
  <2> QED
    BY <2>2, <2>3 DEF StopLast
<1> QED
  BY <1>1, <1>2, <1>3, <1>4 DEF t

LEMMA TakePlanStep ==
  ASSUME WorkerInv, TakePlan
  PROVE  WorkerInv'
<1>1. /\ at = "wait" /\ control # <<>> /\ ~Head(control).stop
      /\ control' = Tail(control) /\ plan' = Head(control).plan
      /\ at' \in {"tick", "wait"}
      /\ UNCHANGED <<shown, windowFocused, panels, pid, worker, ui>>
      /\ PlanNow' = PlanNow
  BY DEF TakePlan, wanted, PlanNow
<1>2. control \in Seq(Messages)
  BY DEF WorkerInv, WantedOK
<1>3. /\ control' \in Seq(Messages)
      /\ OnlyPlans(control) => OnlyPlans(control')
      /\ StopLast(control) => StopLast(control')
      /\ Sent' = Sent
  BY <1>1, <1>2, TailPlans DEF Sent
<1> QED
  BY <1>1, <1>3 DEF WorkerInv, WantedOK

LEMMA TakeStopStep ==
  ASSUME WorkerInv, TakeStop
  PROVE  WorkerInv'
<1>1. /\ at = "wait" /\ control # <<>> /\ Head(control).stop
      /\ control' = <<>> /\ at' = "gone"
      /\ UNCHANGED <<shown, windowFocused, panels, pid, worker, ui>>
  BY DEF TakeStop, wanted
<1>2. worker /\ ~OnlyPlans(control)
  BY <1>1 DEF WorkerInv, WantedOK, OnlyPlans
<1> QED
  BY <1>1, <1>2 DEF WorkerInv, WantedOK

LEMMA WorkerStep ==
  ASSUME WorkerInv, Tick \/ IntervalOver
  PROVE  WorkerInv'
<1>1. /\ at \in {"tick", "wait"} /\ at' \in {"tick", "wait"}
      /\ UNCHANGED <<shown, windowFocused, panels, pid, worker, ui, control, plan>>
      /\ PlanNow' = PlanNow /\ Sent' = Sent
  BY DEF Tick, IntervalOver, wanted, PlanNow, Sent
<1> QED
  BY <1>1 DEF WorkerInv, WantedOK

LEMMA InputStep ==
  ASSUME WorkerInv, Input
  PROVE  WorkerInv'
<1>1. shown \in SUBSET Panels /\ windowFocused \in BOOLEAN /\ panels \in Configs
      /\ pid \in Pids \cup {None}
  BY DEF WorkerInv, WantedOK
<1>2. ASSUME NEW panel \in Panels, TogglePanel(panel)
      PROVE  WorkerInv'
  <2>1. (IF panel \in shown THEN shown \ {panel} ELSE shown \cup {panel}) \in SUBSET Panels
    BY <1>1
  <2> QED
    BY <1>1, <1>2, <2>1, AnswerStep DEF TogglePanel
<1>3. ASSUME NEW focused \in BOOLEAN, WindowFocus(focused)
      PROVE  WorkerInv'
  BY <1>1, <1>3, AnswerStep DEF WindowFocus
<1>4. ASSUME NEW p \in Pids \cup {None}, FocusShell(p)
      PROVE  WorkerInv'
  BY <1>1, <1>4, AnswerStep DEF FocusShell
<1>5. ASSUME NEW cfg \in Configs, ApplyConfig(cfg)
      PROVE  WorkerInv'
  <2>1. AppliedShown(cfg) \in SUBSET Panels
    BY DEF AppliedShown
  <2> QED
    BY <1>1, <1>5, <2>1, AnswerStep DEF ApplyConfig
<1> QED
  BY <1>2, <1>3, <1>4, <1>5, ExitStep DEF Input

LEMMA MonitorStep ==
  ASSUME WorkerInv, MonitorNext
  PROVE  WorkerInv'
<1>1. ASSUME NetworkComesDue \/ RetryComesDue
      PROVE  WorkerInv'
  BY <1>1, Unmoved DEF NetworkComesDue, RetryComesDue, thread
<1> QED
  BY <1>1, InputStep, TakeSampleStep, TabsGoneStep, DropAppStep, JoinedStep, WorkerStep,
     TakePlanStep, TakeStopStep
  DEF MonitorNext, Closing, Worker

LEMMA WorkerInit == MonitorInit => WorkerInv
<1> SUFFICES ASSUME MonitorInit PROVE WorkerInv
  OBVIOUS
<1>1. /\ panels \in Configs /\ pid \in Pids \cup {None} /\ windowFocused = TRUE
      /\ shown = panels.enabled \cap Panels /\ ui = "ready" /\ control = <<>>
      /\ worker \in {~IsIdle(PlanNow), FALSE}
      /\ at = (IF worker THEN "tick" ELSE "gone") /\ plan = PlanNow
  BY DEF MonitorInit
<1>2. worker \in BOOLEAN /\ (IsIdle(PlanNow) => ~worker)
  BY <1>1 DEF IsIdle
<1>3. OnlyPlans(control) /\ Sent = PlanNow /\ control \in Seq(Messages)
  BY <1>1 DEF OnlyPlans, Sent
<1> QED
  BY <1>1, <1>2, <1>3 DEF WorkerInv, WantedOK

LEMMA WorkerInductive == Spec => []WorkerInv
<1>1. Init => WorkerInv
  BY WorkerInit DEF Init
<1>2. WorkerInv /\ [Next]_vars => WorkerInv'
  <2> SUFFICES ASSUME WorkerInv, [Next]_vars PROVE WorkerInv'
    OBVIOUS
  <2>1. CASE MonitorNext
    BY <2>1, MonitorStep
  <2>2. CASE UNCHANGED monitorVars
    BY <2>2, Unmoved DEF monitorVars, thread
  <2> QED
    BY <2>1, <2>2 DEF Next, vars
<1> QED
  BY <1>1, <1>2, PTL DEF Spec

(* Whenever the UI takes messages, the worker it holds is alive and was    *)
(* told what is visible now, whatever sections, panels, shells and samples *)
(* changed in whatever order; no thread outlives the window                *)
(* (sync_metrics_worker, update, exit, MonitorWorker::drop).               *)
THEOREM WorkerFollowsUi == Spec => []WorkerFollows
<1>1. WorkerInv => WorkerFollows
  BY DEF WorkerInv, WorkerFollows
<1> QED
  BY <1>1, WorkerInductive, PTL

(***************************************************************************)
(* The preview under the pointer                                           *)
(***************************************************************************)
PreviewInv == hover = [path |-> hover.path, content |-> hover.content]
              /\ hover.content \in {NoPath, hover.path}

LEMMA PreviewInductive == Spec => []PreviewInv
<1>1. Init => PreviewInv
  BY DEF Init, PreviewInit, PreviewInv, NoHover
<1>2. PreviewInv /\ [Next]_vars => PreviewInv'
  <2> SUFFICES ASSUME PreviewInv, [Next]_vars PROVE PreviewInv'
    OBVIOUS
  <2>1. CASE UNCHANGED hover
    BY <2>1 DEF PreviewInv
  <2>2. ASSUME NEW path \in Paths, Hover(path) \/ Unhover(path)
        PROVE  PreviewInv'
    BY <2>2 DEF PreviewInv, Hover, Unhover, NoHover
  <2>3. CASE PreviewArrives
    BY <2>3 DEF PreviewInv, PreviewArrives, Accepts
  <2>4. PreviewNext \/ UNCHANGED hover
    BY DEF Next, vars, monitorVars, previewVars
  <2> QED
    BY <2>1, <2>2, <2>3, <2>4
    DEF PreviewNext, SetPreview, StopPreviews, LoaderStep, TakeRequest, Settle, Load, LoaderEnds
<1> QED
  BY <1>1, <1>2, PTL DEF Spec

(* What floats over a row is that row's file, whatever previews are still  *)
(* on their way for rows the pointer has left (Preview in update).         *)
THEOREM PreviewOfItsRow == Spec => [](\A path \in Paths : Window(path) \in {"loading", path})
<1>1. PreviewInv => \A path \in Paths : Window(path) \in {"loading", path}
  BY DEF PreviewInv, Window
<1> QED
  BY <1>1, PreviewInductive, PTL

(***************************************************************************)
(* Addresses                                                               *)
(***************************************************************************)
Octet == 0..255
AllV4 == [v6 : {FALSE}, at : [1..4 -> Octet]]
Segment == {n \in Nat : n < 65536}
AllV6 == [v6 : {TRUE}, at : [1..8 -> Segment]]

(* The blocks, octet by octet and prefix by prefix.                        *)
ReservedV4(a, b, c) ==
  \/ a = 0 \/ (a = 100 /\ b \in 64..127) \/ (a = 192 /\ b = 0 /\ c = 0)
  \/ (a = 198 /\ b \in {18, 19}) \/ a >= 240 \/ a = 127
  \/ a = 10 \/ (a = 172 /\ b \in 16..31) \/ (a = 192 /\ b = 168)
  \/ (a = 169 /\ b = 254) \/ a \in 224..239
  \/ (a = 192 /\ b = 0 /\ c = 2) \/ (a = 198 /\ b = 51 /\ c = 100)
  \/ (a = 203 /\ b = 0 /\ c = 113)
PrefixV6(x) == x \div 256 = 255 \/ x \div 512 = 126 \/ x \div 64 = 1018 \/ x \div 64 = 1019
BlockV6(x) == Between(x, 65280, 65535) \/ Between(x, 64512, 65023) \/ Between(x, 65152, 65279)

LEMMA PublicV4 ==
  ASSUME NEW o, o[1] \in Octet, o[2] \in Octet, o[3] \in Octet
  PROVE  IsPublicV4(o) = \A block \in NotRoutable : ~InBlock(o, block)
<1> DEFINE a == o[1]
           b == o[2]
           c == o[3]
           n == a * 65536 + b * 256 + c
           In(base, size) == n \div size = base \div size
<1>1. \A block : InBlock(o, block) = In(block.base, block.size)
  BY SMT DEF InBlock
<1>2. (\E block \in NotRoutable : InBlock(o, block)) <=>
        \/ In(0, 65536) \/ In(655360, 65536) \/ In(6569984, 16384) \/ In(8323072, 65536)
        \/ In(11140608, 256) \/ In(11276288, 4096) \/ In(12582912, 1) \/ In(12582914, 1)
        \/ In(12625920, 256) \/ In(12980736, 512) \/ In(12989284, 1) \/ In(13303921, 1)
        \/ In(14680064, 1048576) \/ In(15728640, 1048576)
  <2> HIDE DEF n, In
  <2> QED
    BY <1>1, SMT DEF NotRoutable, Block
<1>3. /\ In(0, 65536) <=> a = 0
      /\ In(655360, 65536) <=> a = 10
      /\ In(6569984, 16384) <=> a = 100 /\ b \in 64..127
      /\ In(8323072, 65536) <=> a = 127
      /\ In(11140608, 256) <=> a = 169 /\ b = 254
      /\ In(11276288, 4096) <=> a = 172 /\ b \in 16..31
      /\ In(12582912, 1) <=> a = 192 /\ b = 0 /\ c = 0
      /\ In(12582914, 1) <=> a = 192 /\ b = 0 /\ c = 2
      /\ In(12625920, 256) <=> a = 192 /\ b = 168
      /\ In(12980736, 512) <=> a = 198 /\ b \in {18, 19}
      /\ In(12989284, 1) <=> a = 198 /\ b = 51 /\ c = 100
      /\ In(13303921, 1) <=> a = 203 /\ b = 0 /\ c = 113
      /\ In(14680064, 1048576) <=> a \in 224..239
      /\ In(15728640, 1048576) <=> a >= 240
  <2> HIDE DEF a, b, c
  <2>1. a \in 0..255 /\ b \in 0..255 /\ c \in 0..255
    BY SMT DEF a, b, c, Octet
  <2> QED
    BY <2>1, SMT
<1> HIDE DEF In, a, b, c
<1>4. (\E block \in NotRoutable : InBlock(o, block)) <=> ReservedV4(a, b, c)
  BY <1>2, <1>3, SMT DEF ReservedV4
<1>5. IsPublicV4(o) <=> ~ReservedV4(a, b, c)
  BY SMT DEF IsPublicV4, ReservedV4, a, b, c
<1>6. IsPublicV4(o) \in BOOLEAN
  BY SMT DEF IsPublicV4
<1> QED
  BY <1>4, <1>5, <1>6

LEMMA PrefixIsBlock ==
  ASSUME NEW x \in Segment
  PROVE  PrefixV6(x) <=> BlockV6(x)
<1>1. x \in Nat /\ x < 65536
  BY SMT DEF Segment
<1> QED
  BY <1>1, SMT DEF PrefixV6, BlockV6, Between

LEMMA PublicV6 ==
  ASSUME NEW s \in [1..8 -> Segment]
  PROVE  IsPublicV6(s) = RoutableV6(s)
<1> DEFINE x == s[1]
           loop == (\A i \in 1..7 : s[i] = 0) /\ s[8] \in {0, 1}
           discard == x = 256 /\ \A i \in 2..4 : s[i] = 0
           doc == x = 8193 /\ s[2] = 3512
<1>1. PrefixV6(x) <=> BlockV6(x)
  BY PrefixIsBlock, SMT
<1>2. IsPublicV6(s) <=> ~(loop \/ PrefixV6(x) \/ doc \/ discard)
  BY SMT DEF IsPublicV6, PrefixV6
<1>3. RoutableV6(s) <=> ~(loop \/ BlockV6(x) \/ doc \/ discard)
  BY SMT DEF RoutableV6, BlockV6
<1>4. IsPublicV6(s) \in BOOLEAN /\ RoutableV6(s) \in BOOLEAN
  BY SMT DEF IsPublicV6, RoutableV6
<1> HIDE DEF x, loop, discard, doc
<1> QED
  BY <1>1, <1>2, <1>3, <1>4

LEMMA MappedHolds == \A s : Mapped(s) <=> HoldsV4(s)
  BY SMT DEF Mapped, HoldsV4

LEMMA Unmapped ==
  ASSUME NEW ip, ip.v6 = TRUE, ~Mapped(ip.at)
  PROVE  IsPublic(ip) = IsPublicV6(ip.at) /\ Routable(ip) = RoutableV6(ip.at)
<1>1. IsPublic(ip) = IsPublicV6(ip.at)
  BY Zenon DEF IsPublic
<1>2. ~HoldsV4(ip.at)
  BY MappedHolds
<1>3. Routable(ip) = RoutableV6(ip.at)
  BY <1>2, Zenon DEF Routable
<1> QED
  BY <1>1, <1>3

LEMMA MappedV4 ==
  ASSUME NEW ip, ip.v6 = TRUE, Mapped(ip.at)
  PROVE  /\ IsPublic(ip) = IsPublicV4(Embedded(ip.at))
         /\ Routable(ip) = \A block \in NotRoutable : ~InBlock(Embedded(ip.at), block)
<1>1. IsPublic(ip) = IsPublicV4(Embedded(ip.at))
  BY Zenon DEF IsPublic
<1>2. HoldsV4(ip.at)
  BY MappedHolds
<1>3. Routable(ip) = \A block \in NotRoutable : ~InBlock(Embedded(ip.at), block)
  BY <1>2, Zenon DEF Routable
<1> QED
  BY <1>1, <1>3

LEMMA PlainV4 ==
  ASSUME NEW ip, ip.v6 = FALSE
  PROVE  /\ IsPublic(ip) = IsPublicV4(ip.at)
         /\ Routable(ip) = \A block \in NotRoutable : ~InBlock(ip.at, block)
<1>1. IsPublic(ip) = IsPublicV4(ip.at)
  BY Zenon DEF IsPublic
<1>3. Routable(ip) = \A block \in NotRoutable : ~InBlock(ip.at, block)
  BY Zenon DEF Routable
<1> QED
  BY <1>1, <1>3

(* is_public is true of exactly the addresses outside the blocks its       *)
(* comment lists, for every IPv4 and every IPv6 address.                   *)
THEOREM PublicIsRoutable == \A ip \in AllV4 \cup AllV6 : IsPublic(ip) = Routable(ip)
<1>1. ASSUME NEW ip \in AllV4 PROVE IsPublic(ip) = Routable(ip)
  <2>0. ip.v6 = FALSE /\ ip.at \in [1..4 -> Octet]
    BY Zenon DEF AllV4
  <2>1. ip.v6 = FALSE /\ ip.at[1] \in Octet /\ ip.at[2] \in Octet /\ ip.at[3] \in Octet
    BY <2>0, SMT
  <2> QED
    BY <2>1, PlainV4, PublicV4
<1>2. ASSUME NEW ip \in AllV6 PROVE IsPublic(ip) = Routable(ip)
  <2>1. ip.v6 = TRUE /\ ip.at \in [1..8 -> Segment]
    BY Zenon DEF AllV6
  <2>2. CASE Mapped(ip.at)
    <3>1. ip.at[7] \in Segment /\ ip.at[8] \in Segment
      BY <2>1, SMT
    <3>2. ASSUME NEW x \in Segment PROVE x \div 256 \in Octet /\ x % 256 \in Octet
      <4> DEFINE q == x \div 256
                 r == x % 256
      <4>1. x \in Nat /\ x < 65536
        BY DEF Segment
      <4>2. q \in Int /\ r \in 0..255 /\ x = 256 * q + r
        BY <4>1
      <4> HIDE DEF q, r
      <4>3. q \in 0..255
        BY <4>1, <4>2
      <4> QED
        BY <4>2, <4>3, Zenon DEF q, r, Octet
    <3>4. /\ Embedded(ip.at)[1] \in Octet /\ Embedded(ip.at)[2] \in Octet
          /\ Embedded(ip.at)[3] \in Octet
      <4>1. /\ Embedded(ip.at)[1] = ip.at[7] \div 256 /\ Embedded(ip.at)[2] = ip.at[7] % 256
            /\ Embedded(ip.at)[3] = ip.at[8] \div 256
        BY SMT DEF Embedded
      <4>2. ip.at[7] \div 256 \in Octet /\ ip.at[7] % 256 \in Octet /\ ip.at[8] \div 256 \in Octet
        BY <3>1, <3>2
      <4> QED
        BY <4>1, <4>2
    <3> QED
      BY <2>1, <2>2, <3>4, MappedV4, PublicV4
  <2>3. CASE ~Mapped(ip.at)
    BY <2>1, <2>3, Unmapped, PublicV6
  <2> QED
    BY <2>2, <2>3
<1> QED
  BY <1>1, <1>2

(* No address is looked up in a database, and none believed of an endpoint, *)
(* that is not routable, whatever the database and the answer say.         *)
LEMMA LookupRoutable ==
  ASSUME NEW ip \in AllV4 \cup AllV6, NEW database, Lookup(ip, database) # Absent
  PROVE  Routable(ip)
<1>1. IsPublic(ip)
  BY Zenon DEF Lookup
<1> QED
  BY <1>1, PublicIsRoutable, Zenon

LEMMA FetchRoutable ==
  ASSUME NEW endpoint, NEW body, body.ip \in AllV4 \cup AllV6,
         NEW info \in Fetch(endpoint, body)
  PROVE  /\ endpoint.https /\ Routable(info.ip)
         /\ info.place => body.city \/ "valid" \in {body.pair, body.loc}
<1>1. EndpointValid(endpoint) /\ info \in ParseBody(body)
  BY Zenon DEF Fetch
<1>2. body.parses /\ IsPublic(body.ip)
  BY <1>1, Zenon DEF ParseBody
<1>3. info = [ip |-> body.ip, place |-> body.json /\ (body.city \/ Coordinates(body))]
  BY <1>1, <1>2, Zenon DEF ParseBody
<1>4. info.ip = body.ip /\ info.place = (body.json /\ (body.city \/ Coordinates(body)))
  BY <1>3, Zenon
<1>5. Routable(info.ip)
  BY <1>2, <1>4, PublicIsRoutable, Zenon
<1>6. info.place => body.city \/ "valid" \in {body.pair, body.loc}
  BY <1>4, Zenon DEF Coordinates
<1>7. endpoint.https
  BY <1>1, Zenon DEF EndpointValid
<1> QED
  BY <1>5, <1>6, <1>7

(* What the collectors are told in a run, as far as it is about addresses. *)
InputOK ==
  \/ input.what \notin {"address", "answer"}
  \/ input.what = "address" /\ input.ip \in AllV4 \cup AllV6
  \/ input.what = "answer" /\ input.body.ip \in AllV4 \cup AllV6

LEMMA FourOctets ==
  ASSUME NEW a \in Octet, NEW b \in Octet, NEW c \in Octet, NEW d \in Octet
  PROVE  [v6 |-> FALSE, at |-> <<a, b, c, d>>] \in AllV4
<1>1. <<a, b, c, d>> \in [1..4 -> Octet]
  BY SMT
<1> QED
  BY <1>1, Zenon DEF AllV4

LEMMA EightSegments ==
  ASSUME NEW s \in [1..8 -> Segment]
  PROVE  [v6 |-> TRUE, at |-> s] \in AllV6
  BY Zenon DEF AllV6

LEMMA RunAddresses == V4 \cup V4Mapped \cup V6 \subseteq AllV4 \cup AllV6
<1>1. V4 \subseteq AllV4
  <2> SUFFICES ASSUME NEW ip \in V4 PROVE ip \in AllV4
    OBVIOUS
  <2>0. FirstOctets \subseteq Octet /\ SecondOctets \subseteq Octet /\ {0, 1, 2, 100, 113} \subseteq Octet
    BY SMT DEF FirstOctets, SecondOctets, Octet
  <2>1. \E a, b, c \in Octet : ip = [v6 |-> FALSE, at |-> <<a, b, c, 1>>]
    BY <2>0, SMT DEF V4
  <2>2. 1 \in Octet
    BY SMT DEF Octet
  <2> QED
    BY <2>1, <2>2, FourOctets, Zenon
<1>2. V4Mapped \subseteq AllV6
  <2> SUFFICES ASSUME NEW ip \in V4 
               PROVE  [v6 |-> TRUE, at |-> <<0, 0, 0, 0, 0, 65535, ip.at[1] * 256 + ip.at[2],
                                            ip.at[3] * 256 + 1>>] \in AllV6
    BY SMT DEF V4Mapped
  <2>1. ip.at \in [1..4 -> Octet]
    BY <1>1, Zenon DEF AllV4
  <2>2. ip.at[1] \in Octet /\ ip.at[2] \in Octet /\ ip.at[3] \in Octet
    BY <2>1, SMT
  <2> DEFINE g == ip.at[1] * 256 + ip.at[2]
             h == ip.at[3] * 256 + 1
  <2>3. g \in Segment /\ h \in Segment
    <3>1. \A x, y \in Octet : x * 256 + y \in Segment
      BY SMT DEF Octet, Segment
    <3>2. 1 \in Octet
      BY SMT DEF Octet
    <3> QED
      BY <2>2, <3>1, <3>2, SMT
  <2>4. 0 \in Segment /\ 65535 \in Segment
    BY SMT DEF Segment
  <2>5. <<0, 0, 0, 0, 0, 65535, g, h>> \in [1..8 -> Segment]
    <3> HIDE DEF g, h
    <3> QED
      BY <2>3, <2>4, SMT
  <2> QED
    BY <2>5, EightSegments, SMT
<1>3. V6 \subseteq AllV6
  <2> SUFFICES ASSUME NEW ip \in V6 PROVE ip \in AllV6
    OBVIOUS
  <2>0. FirstSegments \subseteq Segment /\ {0, 1, 3512} \subseteq Segment /\ {0, 1, 2} \subseteq Segment
    BY SMT DEF FirstSegments, Segment
  <2>1. \E a, b, c, z \in Segment : ip = [v6 |-> TRUE, at |-> <<a, b, c, 0, 0, 0, 0, z>>]
    BY <2>0, SMT DEF V6
  <2>2. 0 \in Segment
    BY SMT DEF Segment
  <2>3. \A a, b, c, z \in Segment : <<a, b, c, 0, 0, 0, 0, z>> \in [1..8 -> Segment]
    BY <2>2, SMT
  <2> QED
    BY <2>1, <2>3, EightSegments, SMT
<1> QED
  BY <1>1, <1>2, <1>3, Zenon

LEMMA InputsOK == ASSUME input \in Inputs \cup {NoInput} PROVE InputOK
<1>1. CASE input \in Addresses
  <2>1. input.what = "address" /\ input.ip \in V4 \cup V4Mapped \cup V6
    BY <1>1, SMT DEF Addresses
  <2> QED
    BY <2>1, RunAddresses, Zenon DEF InputOK
<1>2. CASE input \in Answers
  <2>1. input.what = "answer"
        /\ input.body.ip \in {[v6 |-> FALSE, at |-> <<a, 0, 0, 1>>] : a \in {8, 10}}
    BY <1>2, SMT DEF Answers
  <2>2. 0 \in Octet /\ 1 \in Octet /\ 8 \in Octet /\ 10 \in Octet
    BY SMT DEF Octet
  <2>3. input.body.ip \in AllV4
    BY <2>1, <2>2, FourOctets, SMT
  <2> QED
    BY <2>1, <2>3, Zenon DEF InputOK
<1>3. CASE input \notin Addresses \cup Answers
  <2>1. \/ input \in Directories \/ input \in Texts \/ input \in Sockets
        \/ input \in Processes \/ input \in InterfaceLists \/ input \in Peers
        \/ input \in Searches \/ input \in Selections \/ input \in Titles
        \/ input \in Histories \/ input = NoInput
    BY <1>3, Zenon DEF Inputs
  <2>2. input.what \in {"directory", "text", "sockets", "processes", "interfaces", "peers",
                        "search", "selection", "title", "history", "nothing"}
    <3>1. input \in Directories => input.what = "directory"
      BY SMT DEF Directories
    <3>2. input \in Texts => input.what = "text"
      BY SMT DEF Texts
    <3>3. input \in Sockets => input.what = "sockets"
      BY SMT DEF Sockets
    <3>4. input \in Processes => input.what = "processes"
      BY SMT DEF Processes
    <3>5. input \in InterfaceLists => input.what = "interfaces"
      BY SMT DEF InterfaceLists
    <3>6. input \in Peers => input.what = "peers"
      BY SMT DEF Peers
    <3>7. input \in Searches => input.what = "search"
      BY SMT DEF Searches
    <3>8. input \in Selections => input.what = "selection"
      BY SMT DEF Selections
    <3>9. input \in Titles => input.what = "title"
      BY SMT DEF Titles
    <3>10. input \in Histories => input.what = "history"
      BY SMT DEF Histories
    <3>11. input = NoInput => input.what = "nothing"
      BY SMT DEF NoInput
    <3> QED
      BY <2>1, <3>1, <3>2, <3>3, <3>4, <3>5, <3>6, <3>7, <3>8, <3>9, <3>10, <3>11, Zenon
  <2>3. input.what \notin {"address", "answer"}
    BY <2>2, SMT
  <2> QED
    BY <2>3, Zenon DEF InputOK
<1> QED
  BY <1>1, <1>2, <1>3

(* PublicOnly of every input of the run; the lemmas above are not about    *)
(* that run's addresses but about all of them.                             *)
THEOREM OnlyPublic == Spec => []PublicOnly
<1>1. Init => input \in Inputs \cup {NoInput}
  <2> HIDE DEF Inputs
  <2> QED
    BY Zenon DEF Init
<1>2. input \in Inputs \cup {NoInput} /\ [Next]_vars => (input \in Inputs \cup {NoInput})'
  <2>1. [Next]_vars => UNCHANGED input
    BY Zenon DEF Next, vars
  <2>2. Inputs' = Inputs /\ NoInput' = NoInput
    BY DEF NoInput
  <2> QED
    BY <2>1, Zenon
<1>3. input \in Inputs \cup {NoInput} => PublicOnly
  <2> SUFFICES ASSUME InputOK PROVE PublicOnly
    BY InputsOK, Zenon
  <2>1. CASE input.what = "address" /\ input.ip \in AllV4 \cup AllV6
    <3>1. IsPublic(input.ip) = Routable(input.ip)
      BY <2>1, PublicIsRoutable, Zenon
    <3>2. Lookup(input.ip, [ip \in {input.ip} |-> "place"]) # Absent => Routable(input.ip)
      BY <2>1, LookupRoutable, Zenon
    <3> QED
      BY <2>1, <3>1, <3>2, Zenon DEF PublicOnly
  <2>2. CASE input.what = "answer" /\ input.body.ip \in AllV4 \cup AllV6
    <3>1. \A info \in Fetch(input.endpoint, input.body) :
            /\ input.endpoint.https /\ Routable(info.ip)
            /\ info.place => input.body.city \/ "valid" \in {input.body.pair, input.body.loc}
      BY <2>2, FetchRoutable, Zenon
    <3>2. input.what # "address"
      BY <2>2, SMT
    <3> QED
      BY <2>2, <3>1, <3>2, Zenon DEF PublicOnly
  <2>3. CASE input.what \notin {"address", "answer"}
    <3>1. input.what # "address" /\ input.what # "answer"
      BY <2>3, Zenon
    <3> QED
      BY <3>1, Zenon DEF PublicOnly
  <2> QED
    BY <2>1, <2>2, <2>3, Zenon DEF InputOK
<1> QED
  BY <1>1, <1>2, <1>3, PTL DEF Spec

(***************************************************************************)
(* Lists that are filtered and sorted                                      *)
(***************************************************************************)
StrictOrder(I, R) ==
  /\ \A i \in I : <<i, i>> \notin R
  /\ \A i, j, k \in I : <<i, j>> \in R /\ <<j, k>> \in R => <<i, k>> \in R
  /\ \A i, j \in I : i # j => <<i, j>> \in R \/ <<j, i>> \in R

Below(I, R, i) == {j \in I : <<j, i>> \in R}

(* Nth counts the members of a finite set, in their order.                 *)
LEMMA Ranks ==
  ASSUME NEW I, NEW R, IsFiniteSet(I), StrictOrder(I, R)
  PROVE  /\ Cardinality(I) \in Nat
         /\ \A i \in I : Cardinality(Below(I, R, i)) \in 0..(Cardinality(I) - 1)
         /\ \A i, j \in I : <<i, j>> \in R <=>
              Cardinality(Below(I, R, i)) < Cardinality(Below(I, R, j))
         /\ \A i, j \in I : Cardinality(Below(I, R, i)) = Cardinality(Below(I, R, j)) => i = j
         /\ \A k \in 1..Cardinality(I) : \E i \in I : Cardinality(Below(I, R, i)) = k - 1
<1> DEFINE n == Cardinality(I)
           rank == [i \in I |-> Cardinality(Below(I, R, i))]
<1>1. n \in Nat
  BY FS_CardinalityType
<1>2. ASSUME NEW i \in I
      PROVE  /\ IsFiniteSet(Below(I, R, i)) /\ rank[i] \in Nat /\ rank[i] < n
  <2>1. Below(I, R, i) \in SUBSET I /\ i \notin Below(I, R, i)
    BY DEF Below, StrictOrder
  <2>2. /\ IsFiniteSet(Below(I, R, i)) /\ Cardinality(Below(I, R, i)) <= n
        /\ n = Cardinality(Below(I, R, i)) => I = Below(I, R, i)
    BY <2>1, FS_Subset
  <2>3. Cardinality(Below(I, R, i)) \in Nat
    BY <2>2, FS_CardinalityType
  <2> QED
    BY <2>1, <2>2, <2>3, <1>1
<1>3. ASSUME NEW i \in I, NEW j \in I, <<i, j>> \in R
      PROVE  rank[i] < rank[j]
  <2>1. Below(I, R, i) \in SUBSET Below(I, R, j) /\ i \in Below(I, R, j) /\ i \notin Below(I, R, i)
    BY <1>3 DEF Below, StrictOrder
  <2>2. /\ Cardinality(Below(I, R, i)) <= Cardinality(Below(I, R, j))
        /\ Cardinality(Below(I, R, j)) = Cardinality(Below(I, R, i)) =>
             Below(I, R, j) = Below(I, R, i)
    BY <2>1, <1>2, FS_Subset
  <2> QED
    BY <2>1, <2>2, <1>2
<1>4. \A i, j \in I : <<i, j>> \in R <=> rank[i] < rank[j]
  <2>1. \A i, j \in I : rank[i] \in Nat /\ rank[j] \in Nat
    BY <1>2
  <2>2. \A i, j \in I : i # j => <<i, j>> \in R \/ <<j, i>> \in R
    BY DEF StrictOrder
  <2> TAKE i, j \in I
  <2>3. rank[i] \in Nat /\ rank[j] \in Nat
    BY <2>1
  <2>4. <<i, j>> \in R => rank[i] < rank[j]
    BY <1>3
  <2>5. <<j, i>> \in R => rank[j] < rank[i]
    BY <1>3
  <2>6. i # j => <<i, j>> \in R \/ <<j, i>> \in R
    BY <2>2
  <2> HIDE DEF rank
  <2> QED
    BY <2>3, <2>4, <2>5, <2>6
<1>5. \A i, j \in I : rank[i] = rank[j] => i = j
  <2>1. \A i, j \in I : i # j => <<i, j>> \in R \/ <<j, i>> \in R
    BY DEF StrictOrder
  <2> TAKE i, j \in I
  <2>2. rank[i] \in Nat /\ rank[j] \in Nat
    BY <1>2
  <2>3. /\ <<i, j>> \in R => rank[i] < rank[j]
        /\ <<j, i>> \in R => rank[j] < rank[i]
    BY <1>4
  <2>4. i # j => <<i, j>> \in R \/ <<j, i>> \in R
    BY <2>1
  <2> HIDE DEF rank
  <2> QED
    BY <2>2, <2>3, <2>4
<1>6. \A k \in 0..(n - 1) : \E i \in I : rank[i] = k
  <2> DEFINE T == 0..(n - 1)
  <2>1. IsFiniteSet(T) /\ Cardinality(T) = n
    <3>1. 0 \in Int /\ n - 1 \in Int /\ (0 > n - 1 => n = 0) /\ (n - 1) - 0 + 1 = n
      BY <1>1
    <3>2. IsFiniteSet(T) /\ Cardinality(T) = IF 0 > n - 1 THEN 0 ELSE (n - 1) - 0 + 1
      BY <3>1, FS_Interval
    <3> QED
      BY <3>1, <3>2
  <2>2. rank \in [I -> T]
    <3>1. \A i \in I : rank[i] \in T
      BY <1>1, <1>2
    <3> QED
      BY <3>1
  <2>3. rank \in Injection(I, T)
    BY <2>2, <1>5 DEF Injection, IsInjective
  <2>4. rank \in Surjection(I, T)
    BY <2>1, <2>3, FS_Injection
  <2> QED
    BY <2>4 DEF Surjection
<1> QED
  <2>1. \A i \in I : rank[i] = Cardinality(Below(I, R, i))
    OBVIOUS
  <2>2. \A i \in I : rank[i] \in 0..(n - 1)
    BY <1>1, <1>2
  <2>3. \A k \in 1..n : k - 1 \in 0..(n - 1)
    BY <1>1
  <2> HIDE DEF rank
  <2>4. \A k \in 1..n : \E i \in I : rank[i] = k - 1
    BY <1>6, <2>3
  <2> QED
    BY <1>1, <1>4, <1>5, <2>1, <2>2, <2>4

LEMMA Enumerated ==
  ASSUME NEW I, NEW R, IsFiniteSet(I), StrictOrder(I, R)
  PROVE  /\ Cardinality(I) \in Nat
         /\ \A k \in 1..Cardinality(I) : Nth(I, R, k) \in I
         /\ \A k, l \in 1..Cardinality(I) : Nth(I, R, k) = Nth(I, R, l) => k = l
         /\ \A k, l \in 1..Cardinality(I) : <<Nth(I, R, k), Nth(I, R, l)>> \in R <=> k < l
         /\ \A k \in 1..Cardinality(I) : Cardinality(Below(I, R, Nth(I, R, k))) = k - 1
         /\ \A i \in I : \E k \in 1..Cardinality(I) : i = Nth(I, R, k)
<1> DEFINE n == Cardinality(I)
           rank(i) == Cardinality(Below(I, R, i))
<1>1. n \in Nat
  BY Ranks
<1>2. \A k \in 1..n : Nth(I, R, k) \in I /\ rank(Nth(I, R, k)) = k - 1
  <2> SUFFICES ASSUME NEW k \in 1..n PROVE Nth(I, R, k) \in I /\ rank(Nth(I, R, k)) = k - 1
    OBVIOUS
  <2>1. \E i \in I : Cardinality(Below(I, R, i)) = k - 1
    BY Ranks
  <2> QED
    BY <2>1 DEF Nth, Below
<1>3. \A i, j \in I : rank(i) = rank(j) => i = j
  BY Ranks
<1>4. \A i \in I : rank(i) \in 0..(n - 1)
  BY Ranks
<1>5. \A i, j \in I : <<i, j>> \in R <=> rank(i) < rank(j)
  BY Ranks
<1> HIDE DEF rank, n
<1>6. \A k, l \in 1..n : Nth(I, R, k) = Nth(I, R, l) => k = l
  <2> TAKE k, l \in 1..n
  <2> HAVE Nth(I, R, k) = Nth(I, R, l)
  <2>1. k - 1 = l - 1
    BY <1>2
  <2> QED
    BY <2>1, <1>1
<1>7. \A k, l \in 1..n : <<Nth(I, R, k), Nth(I, R, l)>> \in R <=> k < l
  <2> TAKE k, l \in 1..n
  <2>1. <<Nth(I, R, k), Nth(I, R, l)>> \in R <=> k - 1 < l - 1
    BY <1>2, <1>5, Zenon
  <2> QED
    BY <2>1, <1>1
<1>8. \A i \in I : \E k \in 1..n : i = Nth(I, R, k)
  <2> TAKE i \in I
  <2>1. rank(i) + 1 \in 1..n /\ (rank(i) + 1) - 1 = rank(i)
    BY <1>1, <1>4
  <2>2. Nth(I, R, rank(i) + 1) \in I /\ rank(Nth(I, R, rank(i) + 1)) = rank(i)
    BY <1>2, <2>1
  <2> QED
    BY <1>3, <2>1, <2>2
<1> QED
  BY <1>1, <1>2, <1>6, <1>7, <1>8 DEF n, rank

LEMMA NaturalOrder == \A I : I \subseteq Nat => StrictOrder(I, InOrder(I))
<1> TAKE I
<1> HAVE I \subseteq Nat
<1>1. \A i, j \in I : <<i, j>> \in InOrder(I) <=> i < j
  BY DEF InOrder
<1>2. \A i \in I : i \in Nat
  OBVIOUS
<1> QED
  BY <1>1, <1>2 DEF StrictOrder

WeakOrder(I, B) ==
  /\ \A i \in I : <<i, i>> \notin B
  /\ \A i, j, k \in I : <<i, j>> \in B /\ <<j, k>> \in B => <<i, k>> \in B
  /\ \A i, j, k \in I : <<i, k>> \in B => <<i, j>> \in B \/ <<j, k>> \in B

LEMMA StableOrder == \A I, B : I \subseteq Nat /\ WeakOrder(I, B) => StrictOrder(I, Stable(I, B))
<1> TAKE I, B
<1> HAVE I \subseteq Nat /\ WeakOrder(I, B)
<1>1. \A i, j \in I : <<i, j>> \in Stable(I, B) <=>
                        <<i, j>> \in B \/ (<<j, i>> \notin B /\ i < j)
  BY DEF Stable
<1>2. \A i \in I : i \in Nat
  OBVIOUS
<1>3. \A i \in I : <<i, i>> \notin Stable(I, B)
  <2> TAKE i \in I
  <2>1. ~(i < i) /\ <<i, i>> \notin B
    BY <1>2 DEF WeakOrder
  <2> QED
    BY <2>1, <1>1
<1>4. \A i, j \in I : i # j => <<i, j>> \in Stable(I, B) \/ <<j, i>> \in Stable(I, B)
  <2> TAKE i, j \in I
  <2>1. i # j => i < j \/ j < i
    BY <1>2
  <2>2. /\ <<i, j>> \in Stable(I, B) <=> <<i, j>> \in B \/ (<<j, i>> \notin B /\ i < j)
        /\ <<j, i>> \in Stable(I, B) <=> <<j, i>> \in B \/ (<<i, j>> \notin B /\ j < i)
    BY <1>1
  <2> QED
    BY <2>1, <2>2
<1>5. ASSUME NEW i \in I, NEW j \in I, NEW k \in I,
             <<i, j>> \in Stable(I, B), <<j, k>> \in Stable(I, B)
      PROVE  <<i, k>> \in Stable(I, B)
  <2>1. i < j /\ j < k => i < k
    BY <1>2
  <2>2. /\ <<i, j>> \in B \/ (<<j, i>> \notin B /\ i < j)
        /\ <<j, k>> \in B \/ (<<k, j>> \notin B /\ j < k)
    BY <1>1, <1>5
  <2>3. <<k, i>> \in B => <<k, j>> \in B \/ <<j, i>> \in B
    BY DEF WeakOrder
  <2>4. /\ <<k, i>> \in B /\ <<i, j>> \in B => <<k, j>> \in B
        /\ <<j, k>> \in B /\ <<k, i>> \in B => <<j, i>> \in B
        /\ <<i, j>> \in B /\ <<j, k>> \in B => <<i, k>> \in B
        /\ <<i, j>> \in B => <<i, k>> \in B \/ <<k, j>> \in B
        /\ <<j, k>> \in B => <<j, i>> \in B \/ <<i, k>> \in B
    BY DEF WeakOrder
  <2>5. <<i, k>> \in B \/ (<<k, i>> \notin B /\ i < k)
    <3>1. ~(<<j, k>> \in B /\ <<k, j>> \in B) /\ ~(<<i, j>> \in B /\ <<j, i>> \in B)
      BY DEF WeakOrder
    <3> QED
      BY <2>1, <2>2, <2>3, <2>4, <3>1
  <2> QED
    BY <2>5, <1>1
<1> QED
  BY <1>3, <1>4, <1>5 DEF StrictOrder

(* What Arranged returns: the elements at the positions, one each, in the  *)
(* order.                                                                  *)
Listing(s, I, R, a) ==
  /\ a = [k \in 1..Cardinality(I) |-> a[k]] /\ Len(a) = Cardinality(I) /\ Cardinality(I) \in Nat
  /\ DOMAIN a = 1..Cardinality(I)
  /\ \A k \in 1..Cardinality(I) : Nth(I, R, k) \in I /\ a[k] = s[Nth(I, R, k)]
  /\ \A k, l \in 1..Cardinality(I) : Nth(I, R, k) = Nth(I, R, l) => k = l
  /\ \A k, l \in 1..Cardinality(I) : <<Nth(I, R, k), Nth(I, R, l)>> \in R <=> k < l
  /\ \A i \in I : \E k \in 1..Cardinality(I) : i = Nth(I, R, k)

LEMMA ArrangedLists ==
  \A s, I, R : IsFiniteSet(I) /\ StrictOrder(I, R) => Listing(s, I, R, Arranged(s, I, R))
<1> TAKE s, I, R
<1> HAVE IsFiniteSet(I) /\ StrictOrder(I, R)
<1>1. /\ Cardinality(I) \in Nat
      /\ \A k \in 1..Cardinality(I) : Nth(I, R, k) \in I
      /\ \A k, l \in 1..Cardinality(I) : Nth(I, R, k) = Nth(I, R, l) => k = l
      /\ \A k, l \in 1..Cardinality(I) : <<Nth(I, R, k), Nth(I, R, l)>> \in R <=> k < l
      /\ \A i \in I : \E k \in 1..Cardinality(I) : i = Nth(I, R, k)
  BY Enumerated
<1> DEFINE a == Arranged(s, I, R)
           n == Cardinality(I)
<1>2. a = [k \in 1..n |-> s[Nth(I, R, k)]]
  BY Zenon DEF Arranged
<1> HIDE DEF a
<1>3. DOMAIN a = 1..n /\ \A k \in 1..n : a[k] = s[Nth(I, R, k)]
  BY <1>2
<1>4. a = [k \in 1..n |-> a[k]]
  BY <1>2
<1>5. Len(a) = n
  BY <1>1, <1>2
<1> QED
  BY <1>1, <1>3, <1>4, <1>5, Zenon DEF Listing, a, n

LEMMA Interval == \A n \in Nat : IsFiniteSet(1..n) /\ Cardinality(1..n) = n
<1> TAKE n \in Nat
<1>1. IsFiniteSet(1..n) /\ Cardinality(1..n) = IF 1 > n THEN 0 ELSE n - 1 + 1
  BY FS_Interval
<1> QED
  BY <1>1

LEMMA FiniteDomain ==
  \A n \in Nat : \A I : I \subseteq 1..n =>
    IsFiniteSet(I) /\ I \subseteq Nat /\ Cardinality(I) \in Nat /\ Cardinality(I) <= n
<1> TAKE n \in Nat
<1> TAKE I
<1> HAVE I \subseteq 1..n
<1>1. IsFiniteSet(1..n) /\ Cardinality(1..n) = n
  <2>1. IsFiniteSet(1..n) /\ Cardinality(1..n) = IF 1 > n THEN 0 ELSE n - 1 + 1
    BY FS_Interval
  <2> QED
    BY <2>1
<1>2. IsFiniteSet(I) /\ Cardinality(I) <= n
  BY <1>1, FS_Subset
<1>3. Cardinality(I) \in Nat
  BY <1>2, FS_CardinalityType
<1> QED
  BY <1>2, <1>3

LEMMA KeptLists ==
  \A n \in Nat : \A s, I : I \subseteq 1..n => Listing(s, I, InOrder(I), Kept(s, I))
<1> TAKE n \in Nat
<1> TAKE s, I
<1> HAVE I \subseteq 1..n
<1>1. IsFiniteSet(I) /\ StrictOrder(I, InOrder(I))
  BY FiniteDomain, NaturalOrder
<1> QED
  BY <1>1, ArrangedLists DEF Kept

(* The first n of a list.                                                  *)
IsList(s) == Len(s) \in Nat /\ DOMAIN s = 1..Len(s) /\ s = [i \in 1..Len(s) |-> s[i]]

LEMMA ListsAre == \A s, I, R, a : Listing(s, I, R, a) => IsList(a)
  BY DEF Listing, IsList

LEMMA SeqList == \A s : IsList(s) <=> s \in Seq({s[i] : i \in 1..Len(s)})
<1> TAKE s
<1>1. ASSUME IsList(s) PROVE s \in Seq({s[i] : i \in 1..Len(s)})
  <2> DEFINE n == Len(s)
             S == {s[i] : i \in 1..n}
  <2>1. n \in Nat /\ s = [i \in 1..n |-> s[i]]
    BY <1>1 DEF IsList
  <2>2. \A i \in 1..n : s[i] \in S
    OBVIOUS
  <2> HIDE DEF n, S
  <2>3. s \in [1..n -> S]
    BY <2>1, <2>2, Zenon
  <2>4. s \in Seq(S)
    BY <2>1, <2>3
  <2> QED
    BY <2>4 DEF n, S
<1>2. ASSUME s \in Seq({s[i] : i \in 1..Len(s)}) PROVE IsList(s)
  <2> DEFINE S == {s[i] : i \in 1..Len(s)}
  <2>1. s \in Seq(S)
    BY <1>2
  <2> HIDE DEF S
  <2>2. Len(s) \in Nat /\ DOMAIN s = 1..Len(s)
    BY <2>1, LenProperties
  <2>3. s = [i \in 1..Len(s) |-> s[i]]
    BY <2>1, <2>2
  <2> QED
    BY <2>2, <2>3 DEF IsList
<1> QED
  BY <1>1, <1>2

LEMMA TakeList ==
  \A s, n : IsList(s) /\ n \in Nat =>
    /\ IsList(Take(s, n)) /\ Len(Take(s, n)) = Least(n, Len(s)) /\ Least(n, Len(s)) \in Nat
    /\ Least(n, Len(s)) <= Len(s) /\ Least(n, Len(s)) <= n
    /\ (Least(n, Len(s)) < Len(s) => Least(n, Len(s)) = n)
    /\ \A i \in 1..Least(n, Len(s)) : i \in 1..Len(s) /\ Take(s, n)[i] = s[i]
<1> TAKE s, n
<1> HAVE IsList(s) /\ n \in Nat
<1> DEFINE m == Least(n, Len(s))
           t == Take(s, n)
<1>1. Len(s) \in Nat
  BY DEF IsList
<1>2. m \in Nat /\ m <= Len(s) /\ m <= n /\ (m < Len(s) => m = n)
  BY <1>1 DEF Least
<1>3. t = SubSeq(s, 1, m)
  BY DEF Take
<1> HIDE DEF m, t
<1>4. t = [i \in 1..m |-> s[i]]
  <2>1. SubSeq(s, 1, m) = [i \in 1..(1 + m - 1) |-> s[i + 1 - 1]]
    BY <1>2
  <2>2. \A i \in 1..m : i + 1 - 1 = i
    BY <1>2
  <2>3. 1 + m - 1 = m
    BY <1>2
  <2> QED
    BY <1>3, <2>1, <2>2, <2>3
<1>5. Len(t) = m /\ DOMAIN t = 1..m /\ \A i \in 1..m : t[i] = s[i]
  BY <1>4, <1>2
<1>6. IsList(t)
  BY <1>2, <1>4, <1>5 DEF IsList
<1>7. \A i \in 1..m : i \in 1..Len(s)
  BY <1>1, <1>2
<1> QED
  BY <1>2, <1>5, <1>6, <1>7 DEF m, t

(* A set has as many members as another one its members are paired with.   *)
LEMMA Paired ==
  ASSUME NEW A, NEW B, IsFiniteSet(A), NEW f \in [A -> B],
         \A x, y \in A : f[x] = f[y] => x = y,
         \A z \in B : \E x \in A : f[x] = z
  PROVE  IsFiniteSet(B) /\ Cardinality(B) = Cardinality(A)
<1>1. f \in Bijection(A, B)
  BY DEF Bijection, Injection, Surjection, IsInjective
<1>2. ExistsBijection(A, B)
  BY <1>1 DEF ExistsBijection
<1> QED
  BY <1>2, FS_Bijection

(* What is kept of a list has as many of a kind as there were.             *)
Matching(V, W) == {k \in 1..Cardinality(V) : Nth(V, InOrder(V), k) \in W}
LEMMA KeptCount ==
  \A n \in Nat : \A V, W : V \subseteq 1..n /\ W \subseteq V =>
    IsFiniteSet(Matching(V, W)) /\ Cardinality(Matching(V, W)) = Cardinality(W)
<1> TAKE n \in Nat
<1> TAKE V, W
<1> HAVE V \subseteq 1..n /\ W \subseteq V
<1> DEFINE m == Cardinality(V)
           nth(k) == Nth(V, InOrder(V), k)
           A == {k \in 1..m : nth(k) \in W}
           f == [k \in A |-> nth(k)]
<1>1. /\ m \in Nat
      /\ \A k, l \in 1..m : nth(k) = nth(l) => k = l
      /\ \A i \in V : \E k \in 1..m : i = nth(k)
  BY KeptLists DEF Listing
<1>2. IsFiniteSet(A)
  BY <1>1, FiniteDomain
<1> HIDE DEF nth, m
<1>3. f \in [A -> W]
  OBVIOUS
<1>4. \A x, y \in A : f[x] = f[y] => x = y
  BY <1>1
<1>5. \A z \in W : \E x \in A : f[x] = z
  <2> TAKE z \in W
  <2>1. PICK k \in 1..m : z = nth(k)
    BY <1>1
  <2>2. k \in A /\ f[k] = z
    BY <2>1
  <2> QED
    BY <2>2
<1> HIDE DEF f, A
<1>6. Cardinality(W) = Cardinality(A)
  BY <1>2, <1>3, <1>4, <1>5, Paired
<1>7. A = Matching(V, W)
  BY Zenon DEF A, nth, m, Matching
<1> QED
  BY <1>2, <1>6, <1>7

(* As many of a set of positions have fewer than M of them before.         *)
LEMMA CutCount ==
  \A n, M \in Nat : \A Q : Q \subseteq 1..n =>
    Cardinality({q \in Q : Cardinality(Below(Q, InOrder(Q), q)) < M}) = Least(M, Cardinality(Q))
<1> TAKE n, M \in Nat
<1> TAKE Q
<1> HAVE Q \subseteq 1..n
<1> DEFINE R == InOrder(Q)
           m == Cardinality(Q)
           c == Least(M, m)
           rank(q) == Cardinality(Below(Q, R, q))
           nth(k) == Nth(Q, R, k)
           T == {q \in Q : rank(q) < M}
           f == [k \in 1..c |-> nth(k)]
<1>1. IsFiniteSet(Q) /\ StrictOrder(Q, R) /\ m \in Nat
  BY FiniteDomain, NaturalOrder
<1>2. /\ \A k \in 1..m : nth(k) \in Q
      /\ \A k, l \in 1..m : nth(k) = nth(l) => k = l
      /\ \A k \in 1..m : rank(nth(k)) = k - 1
      /\ \A i \in Q : \E k \in 1..m : i = nth(k)
  BY <1>1, Enumerated
<1>3. c \in Nat /\ c <= m /\ c <= M /\ (c = m \/ c = M)
  BY <1>1 DEF Least
<1> HIDE DEF R, m, c, rank, nth
<1>4. \A k \in 1..c : k \in 1..m /\ k - 1 < M
  BY <1>1, <1>3
<1>5. f \in [1..c -> T]
  BY <1>2, <1>4
<1>6. \A x, y \in 1..c : f[x] = f[y] => x = y
  BY <1>2, <1>4
<1>7. \A z \in T : \E x \in 1..c : f[x] = z
  <2> TAKE z \in T
  <2>1. PICK k \in 1..m : z = nth(k)
    BY <1>2
  <2>2. k - 1 < M
    BY <1>2, <2>1
  <2>3. k \in 1..c
    BY <1>1, <1>3, <2>2
  <2> QED
    BY <2>1, <2>3
<1>8. IsFiniteSet(1..c) /\ Cardinality(1..c) = c
  <2>1. IsFiniteSet(1..c) /\ Cardinality(1..c) = IF 1 > c THEN 0 ELSE c - 1 + 1
    BY <1>3, FS_Interval
  <2> QED
    BY <2>1, <1>3
<1> HIDE DEF f, T
<1>9. Cardinality(T) = c
  BY <1>5, <1>6, <1>7, <1>8, Paired
<1> QED
  BY <1>9 DEF T, c, m, rank, R

(* Those at or after the limit and those before it are all there is.       *)
LEMMA CutSplits ==
  ASSUME NEW n \in Nat, NEW M \in Nat, NEW Q, Q \subseteq 1..n, NEW before,
         \A q \in Q : before[q] = Cardinality(Below(Q, InOrder(Q), q)),
         \A i \in 1..n : before[i] \in Nat
  PROVE  LET O == {i \in 1..n : before[i] >= M}
         IN /\ Cardinality(O) \in Nat
            /\ Cardinality(Q) <= Least(M, Cardinality(Q)) + Cardinality(O)
            /\ Least(M, Cardinality(Q)) + Cardinality(O) <= n
<1> DEFINE O == {i \in 1..n : before[i] >= M}
           C == {q \in Q : before[q] < M}
<1>1. Cardinality(C) = Least(M, Cardinality(Q))
  <2>1. C = {q \in Q : Cardinality(Below(Q, InOrder(Q), q)) < M}
    OBVIOUS
  <2> HIDE DEF C
  <2> QED
    BY <2>1, CutCount
<1>2. /\ IsFiniteSet(O) /\ Cardinality(O) \in Nat /\ IsFiniteSet(C) /\ Cardinality(C) \in Nat
      /\ IsFiniteSet(1..n)
  BY FiniteDomain
<1>3. C \cap O = {} /\ C \cup O \subseteq 1..n /\ Q \subseteq C \cup O
  <2>1. \A i \in 1..n : (before[i] < M) = ~(before[i] >= M)
    <3> TAKE i \in 1..n
    <3>1. before[i] \in Nat
      OBVIOUS
    <3> QED
      BY <3>1
  <2>2. C \cap O = {}
    BY <2>1
  <2>3. C \cup O \subseteq 1..n
    OBVIOUS
  <2>4. Q \subseteq C \cup O
    BY <2>1
  <2> QED
    BY <2>2, <2>3, <2>4
<1> HIDE DEF C, O
<1>4. IsFiniteSet(C \cup O) /\ Cardinality(C \cup O) = Cardinality(C) + Cardinality(O)
  <2>1. /\ IsFiniteSet(C \cup O)
        /\ Cardinality(C \cup O) = Cardinality(C) + Cardinality(O) - Cardinality(C \cap O)
    BY <1>2, FS_Union
  <2>2. Cardinality(C \cap O) = 0
    BY <1>3, FS_EmptySet
  <2> QED
    BY <1>2, <2>1, <2>2
<1>5. Cardinality(Q) <= Cardinality(C \cup O)
  BY <1>3, <1>4, FS_Subset
<1>6. Cardinality(C \cup O) <= n
  BY <1>3, FiniteDomain
<1> QED
  BY <1>1, <1>2, <1>4, <1>5, <1>6 DEF O

(* A list that is sorted: the same elements, none after a greater one.     *)
Permuted(T, E, f) ==
  /\ f \in [1..Len(T) -> 1..Len(T)] /\ \A k \in 1..Len(T) : E[k] = T[f[k]]
  /\ \A k, l \in 1..Len(T) : f[k] = f[l] => k = l
  /\ \A i \in 1..Len(T) : \E k \in 1..Len(T) : f[k] = i
SortedAs(T, B, E) ==
  /\ IsList(E) /\ Len(E) = Len(T)
  /\ \E f : Permuted(T, E, f) /\ \A k, l \in 1..Len(T) : k < l => <<f[l], f[k]>> \notin B

LEMMA SortedLists ==
  \A T, B : IsList(T) /\ WeakOrder(1..Len(T), B) =>
    SortedAs(T, B, Arranged(T, 1..Len(T), Stable(1..Len(T), B)))
<1> TAKE T, B
<1> HAVE IsList(T) /\ WeakOrder(1..Len(T), B)
<1> DEFINE n == Len(T)
           I == 1..n
           R == Stable(I, B)
           E == Arranged(T, I, R)
           f == [k \in I |-> Nth(I, R, k)]
<1>1. n \in Nat
  BY DEF IsList
<1>2. I \subseteq Nat /\ IsFiniteSet(I) /\ Cardinality(I) = n
  BY <1>1, Interval
<1>3. StrictOrder(I, R)
  BY <1>2, StableOrder
<1>4. Listing(T, I, R, E)
  BY <1>2, <1>3, ArrangedLists
<1>5. IsList(E)
  BY <1>4, ListsAre
<1> HIDE DEF R, E
<1>6. /\ Len(E) = n
      /\ \A k \in I : Nth(I, R, k) \in I /\ E[k] = T[Nth(I, R, k)]
      /\ \A k, l \in I : Nth(I, R, k) = Nth(I, R, l) => k = l
      /\ \A k, l \in I : <<Nth(I, R, k), Nth(I, R, l)>> \in R <=> k < l
      /\ \A i \in I : \E k \in I : i = Nth(I, R, k)
  BY <1>2, <1>4, Zenon DEF Listing
<1> HIDE DEF I
<1>7. /\ f \in [I -> I] /\ \A k \in I : E[k] = T[f[k]]
      /\ \A k, l \in I : f[k] = f[l] => k = l
      /\ \A i \in I : \E k \in I : f[k] = i
      /\ \A k, l \in I : k < l => <<f[k], f[l]>> \in R
  BY <1>6
<1> HIDE DEF f
<1>8. ASSUME NEW i \in I, NEW j \in I, <<i, j>> \in R PROVE <<j, i>> \notin B
  <2>1. <<i, j>> \in B \/ <<j, i>> \notin B
    BY <1>8 DEF R, Stable
  <2>2. \A x \in I : <<x, x>> \notin B
    BY DEF WeakOrder, I
  <2>3. \A x, y, z \in I : <<x, y>> \in B /\ <<y, z>> \in B => <<x, z>> \in B
    BY DEF WeakOrder, I
  <2> QED
    BY <2>1, <2>2, <2>3
<1>9. \A k, l \in I : k < l => <<f[l], f[k]>> \notin B
  BY <1>7, <1>8
<1>10. Permuted(T, E, f)
  BY <1>7 DEF Permuted, I
<1> QED
  BY <1>5, <1>6, <1>9, <1>10, Zenon DEF SortedAs, I, R, E

(***************************************************************************)
(* The directory panel                                                     *)
(***************************************************************************)
Entries == [name : Nat, hidden : BOOLEAN, dir : BOOLEAN, readable : BOOLEAN]

LEMMA FilesInOrder ==
  \A T : IsList(T) /\ (\A i \in 1..Len(T) : T[i] \in Entries) =>
    LET E == Sorted(T, FilesBefore)
    IN /\ IsList(E) /\ Len(E) = Len(T)
       /\ \A k \in 1..Len(T) : \E i \in 1..Len(T) : E[k] = T[i]
       /\ \A k, l \in 1..Len(T) : k < l => ~(E[l].dir /\ ~E[k].dir)
<1> TAKE T
<1> HAVE IsList(T) /\ \A i \in 1..Len(T) : T[i] \in Entries
<1> DEFINE I == 1..Len(T)
           B == {p \in I \X I : FilesBefore(T[p[1]], T[p[2]])}
           E == Sorted(T, FilesBefore)
<1>1. DOMAIN T = I
  BY DEF IsList
<1>2. E = Arranged(T, I, Stable(I, B))
  BY <1>1, Zenon DEF Sorted
<1>3. \A i, j \in I : <<i, j>> \in B <=>
        IF T[i].dir # T[j].dir THEN T[i].dir ELSE T[i].name < T[j].name
  BY DEF FilesBefore
<1>4. \A i \in I : T[i].dir \in BOOLEAN /\ T[i].name \in Nat
  BY DEF Entries
<1> HIDE DEF I, B, E
<1>5. \A i \in I : <<i, i>> \notin B
  BY <1>3, <1>4
<1>6. ASSUME NEW i \in I, NEW j \in I, NEW k \in I
      PROVE  /\ <<i, j>> \in B /\ <<j, k>> \in B => <<i, k>> \in B
             /\ <<i, k>> \in B => <<i, j>> \in B \/ <<j, k>> \in B
  <2>1. /\ T[i].dir \in BOOLEAN /\ T[i].name \in Nat
        /\ T[j].dir \in BOOLEAN /\ T[j].name \in Nat
        /\ T[k].dir \in BOOLEAN /\ T[k].name \in Nat
    BY <1>4
  <2>2. /\ <<i, j>> \in B <=> IF T[i].dir # T[j].dir THEN T[i].dir ELSE T[i].name < T[j].name
        /\ <<j, k>> \in B <=> IF T[j].dir # T[k].dir THEN T[j].dir ELSE T[j].name < T[k].name
        /\ <<i, k>> \in B <=> IF T[i].dir # T[k].dir THEN T[i].dir ELSE T[i].name < T[k].name
    BY <1>3
  <2> QED
    BY <2>1, <2>2
<1>7. WeakOrder(I, B)
  BY <1>5, <1>6 DEF WeakOrder
<1>8. SortedAs(T, B, E)
  BY <1>2, <1>7, SortedLists DEF I
<1>9. PICK f : Permuted(T, E, f) /\ \A k, l \in I : k < l => <<f[l], f[k]>> \notin B
  BY <1>8 DEF SortedAs, I
<1>10. \A k \in I : f[k] \in I /\ E[k] = T[f[k]]
  BY <1>9 DEF Permuted, I
<1>11. \A k, l \in I : k < l => ~(E[l].dir /\ ~E[k].dir)
  <2> TAKE k, l \in I
  <2> HAVE k < l
  <2>1. <<f[l], f[k]>> \notin B /\ f[k] \in I /\ f[l] \in I /\ E[k] = T[f[k]] /\ E[l] = T[f[l]]
    BY <1>9, <1>10
  <2>2. ~(T[f[l]].dir /\ ~T[f[k]].dir)
    BY <1>3, <1>4, <2>1
  <2> QED
    BY <2>1, <2>2
<1>12. \A k \in I : \E i \in I : E[k] = T[i]
  BY <1>10
<1> QED
  BY <1>8, <1>11, <1>12, Zenon DEF SortedAs, I, E

(* What is listed: its elements, and how many are left over.               *)
LEMMA ListedEntries ==
  ASSUME NEW read \in Seq(Entries), NEW showHidden
  PROVE  LET listing == ListDirectory(read, showHidden)
             E == listing.entries
             mayShow == {i \in DOMAIN read : Listable(showHidden, read[i])}
         IN /\ IsList(E) /\ listing.omitted \in Nat
            /\ \A k \in 1..Len(E) : E[k].readable /\ Listable(showHidden, E[k])
            /\ \A k, l \in 1..Len(E) : k < l => ~(E[l].dir /\ ~E[k].dir)
            /\ Cardinality({i \in mayShow : read[i].readable}) <= Len(E) + listing.omitted
            /\ Len(E) + listing.omitted <= Cardinality(mayShow)
            /\ Cardinality(mayShow) \in Nat
            /\ Cardinality({i \in mayShow : read[i].readable}) \in Nat
<1> DEFINE n == Len(read)
           V == {i \in DOMAIN read : Listable(showHidden, read[i])}
           W == {i \in V : read[i].readable}
           s == Visible(read, showHidden)
           Q == {i \in DOMAIN s : s[i].readable}
           L == Kept(s, Q)
           T == Take(L, MaxEntries)
           E == Sorted(T, FilesBefore)
           O == {i \in DOMAIN s : ReadableBefore(s, i) >= MaxEntries}
<1>0. n \in Nat /\ DOMAIN read = 1..n /\ MaxEntries \in Nat
  BY SamplersAssumption, LenProperties
<1>1. V \subseteq 1..n /\ W \subseteq V
  BY <1>0
<1>2. Listing(read, V, InOrder(V), s)
  BY <1>0, <1>1, KeptLists DEF Visible
<1> DEFINE nth(k) == Nth(V, InOrder(V), k)
<1>3. /\ Len(s) = Cardinality(V) /\ DOMAIN s = 1..Len(s) /\ Len(s) \in Nat
      /\ \A k \in 1..Len(s) : nth(k) \in V /\ s[k] = read[nth(k)]
  BY <1>2, Zenon DEF Listing
<1>4. Q = {k \in 1..Cardinality(V) : nth(k) \in W}
  <2> HIDE DEF s, V, nth
  <2> QED
    BY <1>3
<1>5. Cardinality(Q) = Cardinality(W)
  <2> HIDE DEF Q, V, W
  <2> HIDE DEF n, nth
  <2>1. Cardinality(Matching(V, W)) = Cardinality(W)
    <3>1. n \in Nat /\ V \subseteq 1..n /\ W \subseteq V
      BY <1>0, <1>1
    <3> QED
      BY <3>1, KeptCount, Zenon
  <2> QED
    BY <1>4, <2>1 DEF Matching, nth
<1>6. \A k \in 1..Len(s) : s[k] \in Entries /\ Listable(showHidden, s[k])
  <2>1. \A i \in V : read[i] \in Entries /\ Listable(showHidden, read[i])
    BY <1>0
  <2> HIDE DEF s, V, nth
  <2> QED
    BY <1>3, <2>1
<1> HIDE DEF s, V, W, nth
<1>7. Q \subseteq 1..Len(s)
  BY <1>3
<1>8. Listing(s, Q, InOrder(Q), L)
  <2> HIDE DEF Q
  <2> QED
    BY <1>3, <1>7, KeptLists
<1>9. IsList(L) /\ Len(L) = Cardinality(Q) /\ Cardinality(Q) \in Nat
      /\ \A k \in 1..Cardinality(Q) : L[k] \in Entries /\ L[k].readable /\ Listable(showHidden, L[k])
  <2>1. IsList(L) /\ Len(L) = Cardinality(Q) /\ Cardinality(Q) \in Nat
        /\ \A k \in 1..Cardinality(Q) : Nth(Q, InOrder(Q), k) \in Q /\ L[k] = s[Nth(Q, InOrder(Q), k)]
    <3> HIDE DEF Q, L
    <3>1. IsList(L)
      BY <1>8, ListsAre
    <3> QED
      BY <3>1, <1>8, Zenon DEF Listing
  <2>2. \A q \in Q : s[q] \in Entries /\ s[q].readable /\ Listable(showHidden, s[q])
    BY <1>3, <1>6
  <2> HIDE DEF Q, L
  <2> QED
    BY <2>1, <2>2
<1> HIDE DEF L, Q
<1>10. /\ IsList(T) /\ Len(T) = Least(MaxEntries, Cardinality(Q)) /\ Len(T) \in Nat
       /\ \A i \in 1..Len(T) : T[i] \in Entries /\ T[i].readable /\ Listable(showHidden, T[i])
  <2>1. /\ IsList(T) /\ Len(T) = Least(MaxEntries, Len(L)) /\ Len(T) \in Nat
        /\ \A i \in 1..Len(T) : i \in 1..Len(L) /\ T[i] = L[i]
    BY <1>0, <1>9, TakeList
  <2> HIDE DEF T
  <2> QED
    BY <2>1, <1>9
<1> HIDE DEF T
<1>11. /\ IsList(E) /\ Len(E) = Len(T)
       /\ \A k \in 1..Len(T) : \E i \in 1..Len(T) : E[k] = T[i]
       /\ \A k, l \in 1..Len(T) : k < l => ~(E[l].dir /\ ~E[k].dir)
  BY <1>10, FilesInOrder
<1> HIDE DEF E
<1>12. \A k \in 1..Len(E) : E[k].readable /\ Listable(showHidden, E[k])
  BY <1>10, <1>11
<1>13. /\ Cardinality(O) \in Nat
       /\ Cardinality(Q) <= Least(MaxEntries, Cardinality(Q)) + Cardinality(O)
       /\ Least(MaxEntries, Cardinality(Q)) + Cardinality(O) <= Len(s)
  <2> DEFINE before == [i \in 1..Len(s) |-> ReadableBefore(s, i)]
  <2>1. \A q \in Q : before[q] = Cardinality(Below(Q, InOrder(Q), q))
    <3> SUFFICES ASSUME NEW q \in Q PROVE before[q] = Cardinality(Below(Q, InOrder(Q), q))
      OBVIOUS
    <3>1. q \in 1..Len(s)
      BY <1>7
    <3>2. \A j : j \in 1..(q - 1) <=> j \in 1..Len(s) /\ j < q
      BY <1>3, <3>1
    <3>3. {j \in 1..(q - 1) : s[j].readable} = {j \in Q : j < q}
      BY <3>2, <1>3 DEF Q
    <3>4. Below(Q, InOrder(Q), q) = {j \in Q : j < q}
      BY DEF Below, InOrder
    <3> QED
      BY <3>1, <3>3, <3>4, Zenon DEF ReadableBefore
  <2>2. \A i \in 1..Len(s) : before[i] \in Nat
    <3> SUFFICES ASSUME NEW i \in 1..Len(s) PROVE Cardinality({j \in 1..(i - 1) : s[j].readable}) \in Nat
      BY DEF ReadableBefore
    <3>1. i - 1 \in Nat
      BY <1>3
    <3>2. {j \in 1..(i - 1) : s[j].readable} \subseteq 1..(i - 1)
      OBVIOUS
    <3> QED
      BY <3>1, <3>2, FiniteDomain
  <2>3. O = {i \in 1..Len(s) : before[i] >= MaxEntries}
    BY <1>3
  <2> HIDE DEF before
  <2> DEFINE P == {i \in 1..Len(s) : before[i] >= MaxEntries}
  <2>4. Len(s) \in Nat /\ MaxEntries \in Nat
    BY <1>0, <1>3
  <2>5. /\ Cardinality(P) \in Nat
        /\ Cardinality(Q) <= Least(MaxEntries, Cardinality(Q)) + Cardinality(P)
        /\ Least(MaxEntries, Cardinality(Q)) + Cardinality(P) <= Len(s)
    BY <1>7, <2>1, <2>2, <2>4, CutSplits, Zenon
  <2> HIDE DEF O, P
  <2> QED
    BY <2>3, <2>5 DEF P
<1>14. ListDirectory(read, showHidden) = [entries |-> E, omitted |-> Cardinality(O)]
  BY Zenon DEF ListDirectory, Omitted, E, T, L, Q, s, O
<1>15. Cardinality(W) \in Nat
  BY <1>5, <1>9
<1> HIDE DEF O
<1>16. /\ IsList(E) /\ Cardinality(O) \in Nat
       /\ \A k \in 1..Len(E) : E[k].readable /\ Listable(showHidden, E[k])
       /\ \A k, l \in 1..Len(E) : k < l => ~(E[l].dir /\ ~E[k].dir)
       /\ Cardinality(W) <= Len(E) + Cardinality(O)
       /\ Len(E) + Cardinality(O) <= Cardinality(V)
       /\ Cardinality(V) \in Nat /\ Cardinality(W) \in Nat
  BY <1>3, <1>5, <1>10, <1>11, <1>12, <1>13, <1>15
<1>17. /\ ListDirectory(read, showHidden).entries = E
       /\ ListDirectory(read, showHidden).omitted = Cardinality(O)
  BY <1>14
<1> QED
  BY <1>16, <1>17, Zenon DEF V, W

(* Rows and the number after them account for every entry that could be    *)
(* read, nothing hidden is shown and directories come first, for any       *)
(* directory (list_directory, view).                                       *)
THEOREM RowsHonest ==
  ASSUME NEW read \in Seq(Entries), NEW showHidden
  PROVE  DirectoryHonest(read, showHidden)
<1> DEFINE listing == ListDirectory(read, showHidden)
           E == listing.entries
           rows == FileRows(listing)
           mayShow == {i \in DOMAIN read : Listable(showHidden, read[i])}
           most == Cardinality(mayShow)
           least == Cardinality({i \in mayShow : read[i].readable})
<1>1. /\ IsList(E) /\ listing.omitted \in Nat
      /\ \A k \in 1..Len(E) : E[k].readable /\ Listable(showHidden, E[k])
      /\ \A k, l \in 1..Len(E) : k < l => ~(E[l].dir /\ ~E[k].dir)
      /\ least <= Len(E) + listing.omitted
      /\ Len(E) + listing.omitted <= most
      /\ most \in Nat /\ least \in Nat
  BY ListedEntries, Zenon
<1>2. ShownEntries \in Nat
  BY SamplersAssumption
<1> DEFINE c == Least(ShownEntries, Len(E))
<1>3. /\ IsList(rows) /\ Len(rows) = c /\ c \in Nat /\ c <= Len(E)
      /\ \A i \in 1..c : i \in 1..Len(E) /\ rows[i] = E[i]
  BY <1>1, <1>2, TakeList, Zenon DEF FileRows
<1>4. NotShown(listing) = Len(E) - Len(rows) + listing.omitted
  BY Zenon DEF NotShown
<1>5. Len(E) \in Nat
  BY <1>1 DEF IsList
<1>6. Elements(rows) = {rows[i] : i \in 1..c} /\ Elements(E) = {E[i] : i \in 1..Len(E)}
  BY <1>1, <1>3, Zenon DEF Elements, IsList
<1> HIDE DEF E, rows, listing, c, most, least
<1>7. \A e \in Elements(rows) : e.readable /\ Listable(showHidden, e)
  BY <1>1, <1>3, <1>6
<1>8. Len(rows) + NotShown(listing) \in least..most
  BY <1>1, <1>3, <1>4, <1>5
<1>9. ASSUME NEW a \in Elements(rows), ~a.dir, NEW e \in Elements(E), e.dir
      PROVE  e \in Elements(rows)
  <2>1. PICK k \in 1..c : a = E[k]
    BY <1>3, <1>6
  <2>2. PICK l \in 1..Len(E) : e = E[l]
    BY <1>6
  <2>3. ~(k < l)
    BY <1>1, <1>3, <1>9, <2>1, <2>2
  <2>4. l \in 1..c
    BY <1>3, <1>5, <2>3
  <2> QED
    BY <1>3, <1>6, <2>2, <2>4
<1>10. /\ \A e \in Elements(rows) : e.readable /\ Listable(showHidden, e)
       /\ Len(rows) + NotShown(listing) \in least..most
       /\ (\E e \in Elements(rows) : ~e.dir) =>
            \A e \in Elements(E) : e.dir => e \in Elements(rows)
  BY <1>7, <1>8, <1>9
<1> QED
  BY <1>10, Zenon DEF DirectoryHonest, Listable, E, rows, listing, most, least

(* A set of positions with every position before is the first so many.     *)
LEMMA Downward ==
  \A n \in Nat : \A D :
    D \subseteq 1..n /\ (\A i \in D : \A j \in 1..i : j \in D) =>
      D = 1..Cardinality(D) /\ Cardinality(D) \in Nat /\ Cardinality(D) <= n
<1> TAKE n \in Nat
<1> TAKE D
<1> HAVE D \subseteq 1..n /\ \A i \in D : \A j \in 1..i : j \in D
<1> DEFINE c == Cardinality(D)
<1>1. IsFiniteSet(D) /\ StrictOrder(D, InOrder(D)) /\ c \in Nat /\ c <= n
  BY FiniteDomain, NaturalOrder
<1>2. ASSUME NEW q \in D PROVE q <= c
  <2>1. Cardinality(Below(D, InOrder(D), q)) \in 0..(c - 1)
    BY <1>1, Ranks
  <2>2. \A j : j \in 1..(q - 1) <=> j \in 1..q /\ j < q
    OBVIOUS
  <2>3. \A j \in D : j \in Nat /\ j >= 1
    OBVIOUS
  <2>4. {j \in D : j < q} = 1..(q - 1)
    <3>1. \A j \in 1..q : j \in D
      OBVIOUS
    <3>2. \A j \in D : j < q => j \in 1..(q - 1)
      BY <2>3
    <3>3. \A j \in 1..(q - 1) : j \in D /\ j < q
      BY <2>2, <3>1
    <3> QED
      BY <3>2, <3>3
  <2>5. Below(D, InOrder(D), q) = {j \in D : j < q}
    BY DEF Below, InOrder
  <2>6. q \in Nat /\ q >= 1
    BY <2>3
  <2>7. Cardinality(1..(q - 1)) = q - 1
    <3>1. Cardinality(1..(q - 1)) = IF 1 > q - 1 THEN 0 ELSE (q - 1) - 1 + 1
      BY <2>6, FS_Interval
    <3> QED
      BY <3>1, <2>6
  <2>8. q - 1 \in 0..(c - 1)
    BY <2>1, <2>4, <2>5, <2>7
  <2> QED
    BY <1>1, <2>6, <2>8
<1>3. D \subseteq 1..c
  BY <1>1, <1>2
<1>4. IsFiniteSet(1..c) /\ Cardinality(1..c) = c
  BY <1>1, Interval
<1>5. D = 1..c
  BY <1>3, <1>4, FS_Subset
<1> QED
  BY <1>1, <1>5

(* A text is shown, also one whose bytes end within a character, and       *)
(* without the mark that it goes on every whole word of it is, for any     *)
(* lines and any limit (text_preview).                                     *)
THEOREM PreviewComplete ==
  ASSUME NEW head, IsList(head.lines)
  PROVE  TextHonest(head)
<1> DEFINE lines == head.lines
           n == Len(lines)
           kept == Take(lines, MaxLines)
           m == Len(kept)
           D == {i \in DOMAIN kept : \E j \in i..m : kept[j] # Blank}
           c == LastFilled(kept)
           part == SubSeq(kept, 1, c)
           p == TextPreview(head)
           words(s) == Cardinality({i \in DOMAIN s : s[i] # Blank})
<1>1. n \in Nat /\ DOMAIN lines = 1..n /\ MaxLines \in Nat
  BY SamplersAssumption DEF IsList
<1>2. /\ IsList(kept) /\ m = Least(MaxLines, n) /\ m \in Nat /\ m <= n /\ (m < n => m = MaxLines)
      /\ \A i \in 1..m : i \in 1..n /\ kept[i] = lines[i]
  BY <1>1, TakeList
<1>3. DOMAIN kept = 1..m
  BY <1>2 DEF IsList
<1> HIDE DEF kept
<1>4. c = Cardinality(D)
  BY Zenon DEF LastFilled
<1>5. D = 1..c /\ c \in Nat /\ c <= m
  <2>1. D \subseteq 1..m
    BY <1>3
  <2>2. \A i \in D : \A j \in 1..i : j \in D
    <3> SUFFICES ASSUME NEW i \in D, NEW j \in 1..i PROVE j \in D
      OBVIOUS
    <3>1. i \in 1..m /\ \E k \in i..m : kept[k] # Blank
      BY <1>3
    <3>2. PICK k \in i..m : kept[k] # Blank
      BY <3>1
    <3>3. j \in 1..m /\ k \in j..m
      BY <1>2, <3>1, <3>2
    <3> QED
      BY <1>3, <3>2, <3>3
  <2> HIDE DEF D, c
  <2>3. D = 1..Cardinality(D) /\ Cardinality(D) \in Nat /\ Cardinality(D) <= m
    BY <1>2, <2>1, <2>2, Downward
  <2> QED
    BY <1>4, <2>3
<1>6. \A i \in 1..m : kept[i] # Blank => i \in 1..c
  <2> SUFFICES ASSUME NEW i \in 1..m, kept[i] # Blank PROVE i \in D
    BY <1>5
  <2>1. i \in i..m
    BY <1>2
  <2> QED
    BY <1>3, <2>1
<1> HIDE DEF D, c
<1>7. part = [i \in 1..c |-> lines[i]]
  <2>1. part = [i \in 1..(1 + c - 1) |-> kept[i + 1 - 1]]
    BY <1>5
  <2>2. 1 + c - 1 = c /\ \A i \in 1..c : i + 1 - 1 = i /\ i \in 1..m
    BY <1>2, <1>5
  <2>3. \A i \in 1..c : kept[i + 1 - 1] = lines[i]
    BY <2>2, <1>2
  <2> QED
    BY <2>1, <2>2, <2>3
<1> HIDE DEF part
<1>8. DOMAIN part = 1..c /\ Len(part) = c /\ \A i \in 1..c : part[i] = lines[i]
  BY <1>5, <1>7
<1>9. IsPrefix(part, lines)
  <2>1. SubSeq(lines, 1, c) = [i \in 1..(1 + c - 1) |-> lines[i + 1 - 1]]
    BY <1>5
  <2>2. 1 + c - 1 = c /\ \A i \in 1..c : i + 1 - 1 = i
    BY <1>5
  <2>3. SubSeq(lines, 1, c) = part
    BY <2>1, <2>2, <1>7
  <2>4. SubSeq(part, 1, c) = part
    <3>1. SubSeq(part, 1, c) = [i \in 1..(1 + c - 1) |-> part[i + 1 - 1]]
      BY <1>5
    <3>2. SubSeq(part, 1, c) = [i \in 1..c |-> part[i]]
      BY <3>1, <2>2
    <3> QED
      BY <3>2, <1>7, <1>8
  <2>5. c <= n
    BY <1>1, <1>2, <1>5
  <2> QED
    BY <1>8, <2>3, <2>4, <2>5 DEF IsPrefix
<1>10. IsPrefix(<<>>, lines)
  <2>1. SubSeq(lines, 1, 0) = <<>> /\ 0 <= n
    BY <1>1
  <2> QED
    BY <2>1 DEF IsPrefix
<1>11. CASE NoText(head)
  <2>1. p = [note |-> TRUE, lines |-> <<>>, truncated |-> FALSE]
    BY <1>11 DEF TextPreview
  <2> QED
    BY <1>10, <1>11, <2>1 DEF TextHonest, NoText
<1>12. CASE ~NoText(head)
  <2>1. p = [note |-> FALSE, lines |-> part, truncated |-> head.more \/ n > MaxLines]
    BY <1>12, Zenon DEF TextPreview, part, c, kept
  <2>2. p.lines = part /\ p.note = FALSE /\ p.truncated = (head.more \/ n > MaxLines)
    BY <2>1
  <2>3. ASSUME ~p.truncated PROVE ~head.more /\ words(part) = words(lines)
    <3>1. ~head.more /\ ~(n > MaxLines)
      BY <2>2, <2>3
    <3>2. m = n
      BY <1>1, <1>2, <3>1
    <3>3. \A i \in 1..n : lines[i] # Blank => i \in 1..c
      BY <1>2, <1>6, <3>2
    <3>4. \A i \in 1..c : i \in 1..n
      BY <1>5, <3>2
    <3>5. {i \in DOMAIN part : part[i] # Blank} = {i \in DOMAIN lines : lines[i] # Blank}
      BY <1>1, <1>8, <3>3, <3>4
    <3> QED
      BY <3>1, <3>5
  <2> HIDE DEF p, words
  <2> QED
    BY <1>9, <2>2, <2>3, Zenon DEF TextHonest, p, words
<1> QED
  BY <1>11, <1>12

(***************************************************************************)
(* Connections                                                             *)
(***************************************************************************)
LEMMA RankIs == \A c : StateRank(c) \in {0, 1, 2}
  BY DEF StateRank

LEMMA RanksInOrder ==
  \A T : IsList(T) =>
    LET S == Sorted(T, LowerRank)
    IN /\ IsList(S) /\ Len(S) = Len(T)
       /\ \E f : Permuted(T, S, f)
       /\ \A k, l \in 1..Len(T) : k < l => StateRank(S[k]) <= StateRank(S[l])
<1> TAKE T
<1> HAVE IsList(T)
<1> DEFINE I == 1..Len(T)
           B == {p \in I \X I : LowerRank(T[p[1]], T[p[2]])}
           S == Sorted(T, LowerRank)
<1>1. DOMAIN T = I
  BY DEF IsList
<1>2. S = Arranged(T, I, Stable(I, B))
  BY <1>1, Zenon DEF Sorted
<1>3. \A i, j \in I : <<i, j>> \in B <=> StateRank(T[i]) < StateRank(T[j])
  BY DEF LowerRank
<1>4. \A i \in I : StateRank(T[i]) \in Nat
  BY RankIs
<1> HIDE DEF I, B, S
<1>5. WeakOrder(I, B)
  <2>1. ASSUME NEW i \in I, NEW j \in I, NEW k \in I
        PROVE  /\ <<i, i>> \notin B
               /\ <<i, j>> \in B /\ <<j, k>> \in B => <<i, k>> \in B
               /\ <<i, k>> \in B => <<i, j>> \in B \/ <<j, k>> \in B
    <3>1. StateRank(T[i]) \in Nat /\ StateRank(T[j]) \in Nat /\ StateRank(T[k]) \in Nat
      BY <1>4
    <3>2. /\ <<i, i>> \in B <=> StateRank(T[i]) < StateRank(T[i])
          /\ <<i, j>> \in B <=> StateRank(T[i]) < StateRank(T[j])
          /\ <<j, k>> \in B <=> StateRank(T[j]) < StateRank(T[k])
          /\ <<i, k>> \in B <=> StateRank(T[i]) < StateRank(T[k])
      BY <1>3
    <3> QED
      BY <3>1, <3>2
  <2> QED
    BY <2>1 DEF WeakOrder
<1>6. SortedAs(T, B, S)
  BY <1>2, <1>5, SortedLists DEF I
<1>7. PICK f : Permuted(T, S, f) /\ \A k, l \in I : k < l => <<f[l], f[k]>> \notin B
  BY <1>6 DEF SortedAs, I
<1>8. \A k \in I : f[k] \in I /\ S[k] = T[f[k]]
  BY <1>7 DEF Permuted, I
<1>9. \A k, l \in I : k < l => StateRank(S[k]) <= StateRank(S[l])
  <2> TAKE k, l \in I
  <2> HAVE k < l
  <2>1. <<f[l], f[k]>> \notin B /\ f[k] \in I /\ f[l] \in I /\ S[k] = T[f[k]] /\ S[l] = T[f[l]]
    BY <1>7, <1>8
  <2>2. ~(StateRank(T[f[l]]) < StateRank(T[f[k]]))
    BY <1>3, <2>1
  <2>3. StateRank(T[f[l]]) \in Nat /\ StateRank(T[f[k]]) \in Nat
    BY <1>4, <2>1
  <2> QED
    BY <2>1, <2>2, <2>3
<1> QED
  BY <1>6, <1>7, <1>9, Zenon DEF SortedAs, I, S

OfRank(s, r) == {i \in 1..Len(s) : StateRank(s[i]) = r}

(* A sorted list has as many of a rank as the list had.                    *)
LEMMA SameOfRank ==
  ASSUME NEW T, NEW S, NEW f, Permuted(T, S, f), IsList(T), NEW r
  PROVE  Len(S) = Len(T) => IsFiniteSet(OfRank(S, r)) /\ Cardinality(OfRank(S, r)) = Cardinality(OfRank(T, r))
<1> DEFINE I == 1..Len(T)
           A == {k \in I : StateRank(S[k]) = r}
           C == {k \in I : StateRank(T[k]) = r}
           g == [k \in A |-> f[k]]
<1>1. /\ \A k \in I : f[k] \in I /\ S[k] = T[f[k]]
      /\ \A k, l \in I : f[k] = f[l] => k = l
      /\ \A i \in I : \E k \in I : f[k] = i
  BY DEF Permuted
<1>2. IsFiniteSet(A)
  <2>1. Len(T) \in Nat /\ A \subseteq 1..Len(T)
    BY DEF IsList
  <2> QED
    BY <2>1, FiniteDomain
<1> HIDE DEF I
<1>3. g \in [A -> C]
  BY <1>1
<1>4. \A x, y \in A : g[x] = g[y] => x = y
  BY <1>1
<1>5. \A z \in C : \E x \in A : g[x] = z
  <2> TAKE z \in C
  <2>1. PICK k \in I : f[k] = z
    BY <1>1
  <2>2. k \in A
    BY <1>1, <2>1
  <2> QED
    BY <2>1, <2>2
<1> HIDE DEF g, A, C
<1>6. Cardinality(C) = Cardinality(A)
  BY <1>2, <1>3, <1>4, <1>5, Paired
<1>7. C = OfRank(T, r) /\ (Len(S) = Len(T) => A = OfRank(S, r))
  BY DEF A, C, I, OfRank
<1> QED
  BY <1>2, <1>6, <1>7

(* The ranks share a list out.                                             *)
LEMMA RanksShare ==
  ASSUME NEW T, IsList(T)
  PROVE  LET C(r) == {k \in 1..Len(T) : StateRank(T[k]) = r}
         IN /\ \A r \in 0..2 : IsFiniteSet(C(r)) /\ Cardinality(C(r)) \in Nat
            /\ Cardinality(C(0)) + Cardinality(C(1)) + Cardinality(C(2)) = Len(T)
<1> DEFINE I == 1..Len(T)
           X == {k \in I : StateRank(T[k]) = 0}
           Y == {k \in I : StateRank(T[k]) = 1}
           Z == {k \in I : StateRank(T[k]) = 2}
<1>1. Len(T) \in Nat
  BY DEF IsList
<1>2. IsFiniteSet(X) /\ IsFiniteSet(Y) /\ IsFiniteSet(Z) /\ Cardinality(X) \in Nat
      /\ Cardinality(Y) \in Nat /\ Cardinality(Z) \in Nat
  <2>1. X \subseteq I /\ Y \subseteq I /\ Z \subseteq I
    OBVIOUS
  <2> HIDE DEF X, Y, Z
  <2> QED
    BY <1>1, <2>1, FiniteDomain
<1>3. X \cap Y = {} /\ (X \cup Y) \cap Z = {}
  OBVIOUS
<1>4. X \cup Y \cup Z = I
  BY RankIs
<1>5. Cardinality(I) = Len(T)
  BY <1>1, Interval
<1> HIDE DEF X, Y, Z, I
<1>6. IsFiniteSet(X \cup Y) /\ Cardinality(X \cup Y) = Cardinality(X) + Cardinality(Y)
  <2>1. /\ IsFiniteSet(X \cup Y)
        /\ Cardinality(X \cup Y) = Cardinality(X) + Cardinality(Y) - Cardinality(X \cap Y)
    BY <1>2, FS_Union
  <2>2. Cardinality(X \cap Y) = 0
    BY <1>3, FS_EmptySet
  <2> QED
    BY <1>2, <2>1, <2>2
<1>7. Cardinality(X \cup Y \cup Z) = Cardinality(X) + Cardinality(Y) + Cardinality(Z)
  <2>1. Cardinality((X \cup Y) \cup Z) =
          Cardinality(X \cup Y) + Cardinality(Z) - Cardinality((X \cup Y) \cap Z)
    BY <1>2, <1>6, FS_Union
  <2>2. Cardinality((X \cup Y) \cap Z) = 0
    BY <1>3, FS_EmptySet
  <2> QED
    BY <1>2, <1>6, <2>1, <2>2
<1>8. Cardinality(X) + Cardinality(Y) + Cardinality(Z) = Len(T)
  BY <1>4, <1>5, <1>7
<1> DEFINE C(r) == {k \in 1..Len(T) : StateRank(T[k]) = r}
<1>9. C(0) = X /\ C(1) = Y /\ C(2) = Z
  BY Zenon DEF X, Y, Z, I
<1> HIDE DEF C
<1>10. \A r \in 0..2 : r = 0 \/ r = 1 \/ r = 2
  OBVIOUS
<1>11. /\ \A r \in 0..2 : IsFiniteSet(C(r)) /\ Cardinality(C(r)) \in Nat
       /\ Cardinality(C(0)) + Cardinality(C(1)) + Cardinality(C(2)) = Len(T)
  BY <1>2, <1>8, <1>9, <1>10
<1> QED
  BY <1>11 DEF C

HadOf(scanned, r) == {i \in DOMAIN scanned : scanned[i].ok /\ StateRank(ToConnection(scanned[i])) = r}
Read(scanned) == Kept(scanned, {i \in DOMAIN scanned : scanned[i].ok})
All(scanned) == [i \in DOMAIN Read(scanned) |-> ToConnection(Read(scanned)[i])]
ARow(c) == c.remote # Absent => c.state # "listen"

LEMMA ScannedRanks ==
  ASSUME NEW scanned, IsList(scanned)
  PROVE  /\ IsList(All(scanned))
         /\ \A k \in 1..Len(All(scanned)) : ARow(All(scanned)[k])
         /\ \A r : Cardinality(HadOf(scanned, r)) = Cardinality(OfRank(All(scanned), r))
<1> DEFINE n == Len(scanned)
           K == {i \in DOMAIN scanned : scanned[i].ok}
           read == Read(scanned)
           all == All(scanned)
           nth(k) == Nth(K, InOrder(K), k)
<1>1. n \in Nat /\ DOMAIN scanned = 1..n
  BY DEF IsList
<1>2. K \subseteq 1..n
  BY <1>1
<1>3. Listing(scanned, K, InOrder(K), read)
  <2>1. read = Kept(scanned, K)
    BY Zenon DEF Read
  <2> HIDE DEF K, read
  <2> QED
    BY <1>1, <1>2, <2>1, KeptLists
<1> HIDE DEF read, K
<1>4. /\ Cardinality(K) \in Nat /\ DOMAIN read = 1..Cardinality(K)
      /\ \A k \in 1..Cardinality(K) : nth(k) \in K /\ read[k] = scanned[nth(k)]
  BY <1>3, Zenon DEF Listing
<1>5. all = [i \in DOMAIN read |-> ToConnection(read[i])]
  BY Zenon DEF All, read
<1> HIDE DEF all, nth
<1>6. /\ DOMAIN all = 1..Cardinality(K) /\ Len(all) = Cardinality(K)
      /\ \A k \in 1..Cardinality(K) : all[k] = ToConnection(scanned[nth(k)]) /\ nth(k) \in K
  BY <1>4, <1>5
<1>7. IsList(all)
  <2>1. all = [i \in 1..Cardinality(K) |-> all[i]]
    BY <1>4, <1>5
  <2> QED
    BY <1>4, <1>6, <2>1 DEF IsList
<1>8. ASSUME NEW k \in 1..Len(all) PROVE ARow(all[k])
  <2>1. all[k] = ToConnection(scanned[nth(k)])
    BY <1>6
  <2>2. \A socket : ARow(ToConnection(socket))
    BY DEF ToConnection, ARow
  <2> QED
    BY <2>1, <2>2
<1>9. ASSUME NEW r PROVE Cardinality(HadOf(scanned, r)) = Cardinality(OfRank(all, r))
  <2> DEFINE W == HadOf(scanned, r)
  <2>1. W = {i \in K : StateRank(ToConnection(scanned[i])) = r}
    BY DEF HadOf, K
  <2>2. Matching(K, W) = {k \in 1..Cardinality(K) : nth(k) \in W}
    BY DEF Matching, nth
  <2>3. \A k \in 1..Cardinality(K) : nth(k) \in W <=> StateRank(all[k]) = r
    <3> HIDE DEF W
    <3> QED
      BY <1>6, <2>1
  <2>4. OfRank(all, r) = Matching(K, W)
    <3> HIDE DEF W
    <3> QED
      BY <2>2, <2>3, <1>6 DEF OfRank
  <2>5. W \subseteq K
    BY <2>1
  <2> HIDE DEF W, n
  <2>6. Cardinality(Matching(K, W)) = Cardinality(W)
    BY <1>1, <1>2, <2>5, KeptCount, Zenon
  <2> QED
    BY <2>4, <2>6 DEF W
<1> QED
  BY <1>7, <1>8, <1>9 DEF all

LEMMA ConnectionsListed ==
  ASSUME NEW read, IsList(read)
  PROVE  LET list == ListConnections(read)
             scanned == Take(read, MaxSockets)
             had(r) == Cardinality(HadOf(scanned, r))
             kept(r) == Cardinality(OfRank(list, r))
         IN /\ IsList(list)
            /\ \A k \in 1..Len(list) : ARow(list[k])
            /\ \A r, q \in 0..2 : r < q /\ kept(q) > 0 => kept(r) = had(r)
            /\ Len(list) = Least(had(0) + had(1) + had(2), MaxConnections)
<1> DEFINE scanned == Take(read, MaxSockets)
           all == All(scanned)
           N == Len(all)
           S == Sorted(all, LowerRank)
           list == Take(S, MaxConnections)
           c == Len(list)
           had(r) == Cardinality(HadOf(scanned, r))
           kept(r) == Cardinality(OfRank(list, r))
<1>1. MaxSockets \in Nat /\ MaxConnections \in Nat
  BY SamplersAssumption
<1>2. IsList(scanned)
  BY <1>1, TakeList
<1>3. ListConnections(read) = list
  BY Zenon DEF ListConnections, All, Read
<1> HIDE DEF scanned
<1>4. /\ IsList(all) /\ \A k \in 1..N : ARow(all[k])
      /\ \A r : had(r) = Cardinality(OfRank(all, r))
  BY <1>2, ScannedRanks
<1> HIDE DEF all, had
<1>5. /\ IsList(S) /\ Len(S) = N
      /\ \A k, l \in 1..N : k < l => StateRank(S[k]) <= StateRank(S[l])
  BY <1>4, RanksInOrder
<1>6. PICK f : Permuted(all, S, f)
  BY <1>4, RanksInOrder
<1>7. \A r : IsFiniteSet(OfRank(S, r)) /\ Cardinality(OfRank(S, r)) = had(r)
  <2> TAKE r
  <2>1. IsFiniteSet(OfRank(S, r)) /\ Cardinality(OfRank(S, r)) = Cardinality(OfRank(all, r))
    BY <1>4, <1>5, <1>6, SameOfRank
  <2> QED
    BY <1>4, <2>1
<1>8. \A k \in 1..N : ARow(S[k])
  <2>1. \A k \in 1..N : f[k] \in 1..N /\ S[k] = all[f[k]]
    BY <1>6 DEF Permuted
  <2> HIDE DEF S
  <2> QED
    BY <1>4, <2>1
<1> HIDE DEF S, N
<1>9. /\ IsList(list) /\ c = Least(MaxConnections, N) /\ c \in Nat /\ c <= N
      /\ \A i \in 1..c : i \in 1..N /\ list[i] = S[i]
  BY <1>1, <1>5, TakeList
<1>10. N \in Nat
  BY <1>4 DEF IsList, N
<1> HIDE DEF list, c
<1>11. \A k \in 1..c : ARow(list[k])
  BY <1>8, <1>9
<1>12. ASSUME NEW r \in 0..2, NEW q \in 0..2, r < q, kept(q) > 0
       PROVE  kept(r) = had(r)
  <2>1. OfRank(list, q) # {}
    <3>1. CASE OfRank(list, q) = {}
      <4>1. kept(q) = 0
        BY <3>1, FS_EmptySet
      <4> QED
        BY <4>1, <1>12
    <3> QED
      BY <3>1
  <2>2. PICK k \in 1..c : StateRank(list[k]) = q
    BY <2>1 DEF OfRank, c
  <2>3. k \in 1..N /\ StateRank(S[k]) = q
    BY <1>9, <2>2
  <2>4. \A l \in OfRank(S, r) : l \in 1..c
    <3> TAKE l \in OfRank(S, r)
    <3>1. l \in 1..N /\ StateRank(S[l]) = r
      BY <1>5 DEF OfRank
    <3>2. ~(k < l)
      <4>1. k < l => q <= r
        BY <1>5, <2>3, <3>1
      <4> QED
        BY <4>1, <1>12
    <3> QED
      BY <1>9, <1>10, <2>2, <3>1, <3>2
  <2>5. OfRank(list, r) = OfRank(S, r)
    <3>1. \A l \in 1..c : l \in 1..N /\ list[l] = S[l]
      BY <1>9
    <3> QED
      BY <2>4, <3>1, <1>5 DEF OfRank, c
  <2> QED
    BY <2>5, <1>7
<1>13. had(0) + had(1) + had(2) = N
  <2> DEFINE D(r) == {k \in 1..Len(S) : StateRank(S[k]) = r}
  <2>1. Cardinality(D(0)) + Cardinality(D(1)) + Cardinality(D(2)) = Len(S)
    BY <1>5, RanksShare
  <2>2. D(0) = OfRank(S, 0) /\ D(1) = OfRank(S, 1) /\ D(2) = OfRank(S, 2)
    BY DEF OfRank
  <2> HIDE DEF D
  <2> QED
    BY <1>5, <1>7, <2>1, <2>2
<1>14. c = Least(had(0) + had(1) + had(2), MaxConnections)
  <2>1. Least(MaxConnections, N) = Least(N, MaxConnections)
    BY <1>1, <1>10 DEF Least
  <2> QED
    BY <1>9, <1>13, <2>1
<1>15. /\ IsList(list) /\ \A k \in 1..Len(list) : ARow(list[k])
       /\ \A r, q \in 0..2 : r < q /\ kept(q) > 0 => kept(r) = had(r)
       /\ Len(list) = Least(had(0) + had(1) + had(2), MaxConnections)
  BY <1>9, <1>11, <1>12, <1>14 DEF c
<1> QED
  BY <1>3, <1>15, Zenon DEF had, scanned

(* No connection is dropped for one of a lower rank, and a row has a peer, *)
(* named where the system names its process, for any list of sockets       *)
(* (list_connections, name_owners, view).                                  *)
THEOREM ConnectionsKept ==
  ASSUME NEW read, IsList(read)
  PROVE  ConnectionsHonest(read)
<1> DEFINE list == ListConnections(read)
           scanned == Take(read, MaxSockets)
           had(r) == Cardinality(HadOf(scanned, r))
           kept(r) == Cardinality(OfRank(list, r))
           names == [p \in Owners(list) |-> "curl"]
           K == {i \in DOMAIN list : list[i].remote # Absent}
           rows == ConnectionRows(list)
           n == Len(list)
<1>1. /\ IsList(list) /\ \A k \in 1..Len(list) : ARow(list[k])
      /\ \A r, q \in 0..2 : r < q /\ kept(q) > 0 => kept(r) = had(r)
      /\ Len(list) = Least(had(0) + had(1) + had(2), MaxConnections)
  BY ConnectionsListed, Zenon
<1> HIDE DEF list, scanned
<1>2. n \in Nat /\ DOMAIN list = 1..n
  BY <1>1 DEF IsList
<1>3. \A c \in Elements(rows) : \E i \in K : c = list[i]
  <2> DEFINE L == Kept(list, K)
  <2>1. K \subseteq 1..n
    BY <1>2
  <2>2. Listing(list, K, InOrder(K), L)
    <3> HIDE DEF K
    <3> QED
      BY <1>2, <2>1, KeptLists
  <2>3. rows = Take(L, ShownConnections)
    BY Zenon DEF ConnectionRows
  <2> HIDE DEF K, L
  <2>4. /\ IsList(L) /\ Len(L) = Cardinality(K)
        /\ \A k \in 1..Cardinality(K) : Nth(K, InOrder(K), k) \in K /\ L[k] = list[Nth(K, InOrder(K), k)]
    <3>1. IsList(L)
      BY <2>2, ListsAre
    <3> QED
      BY <2>2, <3>1, Zenon DEF Listing
  <2>5. ShownConnections \in Nat
    BY SamplersAssumption
  <2> DEFINE m == Least(ShownConnections, Len(L))
  <2>6. DOMAIN rows = 1..m /\ \A i \in 1..m : i \in 1..Len(L) /\ rows[i] = L[i]
    <3>1. IsList(rows) /\ Len(rows) = m /\ \A i \in 1..m : i \in 1..Len(L) /\ rows[i] = L[i]
      BY <2>3, <2>4, <2>5, TakeList
    <3> QED
      BY <3>1 DEF IsList
  <2> HIDE DEF m, rows
  <2> QED
    BY <2>4, <2>6 DEF Elements
<1>4. ASSUME NEW c \in Elements(rows)
      PROVE  c.state # "listen" /\ (c.pids # <<>> => OwnerName(c, list, names) # Absent)
  <2>1. PICK i \in K : c = list[i]
    BY <1>3
  <2>2. i \in 1..n /\ list[i].remote # Absent /\ ARow(list[i])
    BY <1>1, <1>2
  <2>3. c.state # "listen"
    BY <2>1, <2>2 DEF ARow
  <2>4. ASSUME c.pids # <<>> PROVE OwnerName(c, list, names) # Absent
    <3>1. c.pids[1] \in Owners(list)
      BY <1>2, <2>1, <2>2, <2>4 DEF Owners
    <3>2. DOMAIN names = Owners(list) /\ names[c.pids[1]] = "curl"
      BY <3>1
    <3>3. c.pids[1] \in Owners(list) \cap DOMAIN names
      BY <3>1, <3>2
    <3>4. OwnerName(c, list, names) = names[c.pids[1]]
      BY <2>4, <3>3 DEF OwnerName
    <3> QED
      BY <3>2, <3>4 DEF Absent
  <2> QED
    BY <2>3, <2>4
<1>5. \A r : OfRank(list, r) = {i \in DOMAIN list : StateRank(list[i]) = r}
  BY <1>2 DEF OfRank
<1> DEFINE had0(r) == Cardinality({i \in DOMAIN scanned : scanned[i].ok
                                     /\ StateRank(ToConnection(scanned[i])) = r})
           kept0(r) == Cardinality({i \in DOMAIN list : StateRank(list[i]) = r})
<1>6. \A r : had(r) = had0(r) /\ kept(r) = kept0(r)
  BY <1>5, Zenon DEF HadOf
<1> HIDE DEF had, kept, had0, kept0, names, rows
<1>7. /\ \A r, q \in 0..2 : r < q /\ kept0(q) > 0 => kept0(r) = had0(r)
      /\ Len(list) = Least(had0(0) + had0(1) + had0(2), MaxConnections)
      /\ \A c \in Elements(rows) :
           c.state # "listen" /\ (c.pids # <<>> => OwnerName(c, list, names) # Absent)
  <2>1. \A r, q \in 0..2 : r < q /\ kept0(q) > 0 => kept0(r) = had0(r)
    BY <1>1, <1>6, Zenon
  <2>2. Len(list) = Least(had0(0) + had0(1) + had0(2), MaxConnections)
    BY <1>1, <1>6, Zenon
  <2> QED
    BY <2>1, <2>2, <1>4
<1> QED
  BY <1>7, Zenon DEF ConnectionsHonest, had0, kept0, names, rows, list, scanned

(***************************************************************************)
(* Processes and interfaces                                                *)
(***************************************************************************)
Ahead(T, B, x) == {i \in 1..Len(T) : <<i, x>> \in B}

(* Fewer come before an element of a sorted list than its place says.      *)
LEMMA Before ==
  ASSUME NEW T, NEW S, NEW B, NEW f, IsList(T), Permuted(T, S, f), WeakOrder(1..Len(T), B),
         \A k, l \in 1..Len(T) : k < l => <<f[l], f[k]>> \notin B,
         NEW k \in 1..Len(T)
  PROVE  Cardinality(Ahead(T, B, f[k])) \in Nat /\ Cardinality(Ahead(T, B, f[k])) < k
<1> DEFINE I == 1..Len(T)
           X == {i \in I : <<i, f[k]>> \in B}
           A == {j \in 1..(k - 1) : f[j] \in X}
           g == [j \in A |-> f[j]]
<1>1. Len(T) \in Nat /\ k \in Nat /\ k - 1 \in Nat
  BY DEF IsList
<1>2. /\ \A j \in I : f[j] \in I
      /\ \A j, l \in I : f[j] = f[l] => j = l
      /\ \A i \in I : \E j \in I : f[j] = i
  BY DEF Permuted
<1>3. \A j \in 1..(k - 1) : j \in I
  BY <1>1
<1>4. IsFiniteSet(A) /\ Cardinality(A) \in Nat /\ Cardinality(A) <= k - 1
  <2>1. A \subseteq 1..(k - 1)
    OBVIOUS
  <2> HIDE DEF A
  <2> QED
    BY <1>1, <2>1, FiniteDomain
<1>5. \A i \in I : <<i, i>> \notin B
  BY DEF WeakOrder
<1>6. \A j \in I : <<f[j], f[k]>> \in B => j \in 1..(k - 1)
  <2> SUFFICES ASSUME NEW j \in I, <<f[j], f[k]>> \in B PROVE j \in 1..(k - 1)
    OBVIOUS
  <2>1. ~(k < j)
    OBVIOUS
  <2>2. j # k
    BY <1>2, <1>5
  <2> QED
    BY <1>1, <2>1, <2>2
<1> HIDE DEF I
<1>7. g \in [A -> X]
  OBVIOUS
<1>8. \A x, y \in A : g[x] = g[y] => x = y
  BY <1>2, <1>3
<1>9. \A z \in X : \E x \in A : g[x] = z
  <2> TAKE z \in X
  <2>1. PICK j \in I : f[j] = z
    BY <1>2
  <2>2. j \in A
    BY <1>6, <2>1
  <2> QED
    BY <2>1, <2>2
<1> HIDE DEF g, A, X
<1>10. Cardinality(X) = Cardinality(A)
  BY <1>4, <1>7, <1>8, <1>9, Paired
<1>11. Cardinality(X) \in Nat /\ Cardinality(X) < k
  BY <1>1, <1>4, <1>10
<1> QED
  BY <1>11 DEF X, I, Ahead

Measured(s) == \A i \in 1..Len(s) : s[i].cpu \in Int /\ s[i].memory \in Int

(* The processes listed are the busiest, as many as asked for, of any that *)
(* run (top_n).                                                            *)
THEOREM BusiestListed ==
  ASSUME NEW read, IsList(read), Measured(read), NEW limit \in Nat
  PROVE  ProcessesHonest(read, limit)
<1> DEFINE I == 1..Len(read)
           B == {p \in I \X I : BusierProcess(read[p[1]], read[p[2]])}
           S == Sorted(read, BusierProcess)
           m == Least(limit, MaxProcesses)
           top == TopN(read, limit)
<1>1. DOMAIN read = I
  BY DEF IsList
<1>2. S = Arranged(read, I, Stable(I, B))
  BY <1>1, Zenon DEF Sorted
<1>3. \A i, j \in I : <<i, j>> \in B <=> BusierProcess(read[i], read[j])
  OBVIOUS
<1>4. \A i \in I : read[i].cpu \in Int /\ read[i].memory \in Int
  BY DEF Measured
<1> HIDE DEF I, B, S
<1>5. WeakOrder(I, B)
  <2>1. ASSUME NEW i \in I, NEW j \in I, NEW k \in I
        PROVE  /\ <<i, i>> \notin B
               /\ <<i, j>> \in B /\ <<j, k>> \in B => <<i, k>> \in B
               /\ <<i, k>> \in B => <<i, j>> \in B \/ <<j, k>> \in B
    <3>1. /\ read[i].cpu \in Int /\ read[i].memory \in Int
          /\ read[j].cpu \in Int /\ read[j].memory \in Int
          /\ read[k].cpu \in Int /\ read[k].memory \in Int
      BY <1>4
    <3>2. /\ <<i, i>> \in B <=> BusierProcess(read[i], read[i])
          /\ <<i, j>> \in B <=> BusierProcess(read[i], read[j])
          /\ <<j, k>> \in B <=> BusierProcess(read[j], read[k])
          /\ <<i, k>> \in B <=> BusierProcess(read[i], read[k])
      BY <1>3
    <3> QED
      BY <3>1, <3>2 DEF BusierProcess
  <2> QED
    BY <2>1 DEF WeakOrder
<1>6. SortedAs(read, B, S)
  BY <1>2, <1>5, SortedLists DEF I
<1>7. IsList(S) /\ Len(S) = Len(read)
  BY <1>6 DEF SortedAs
<1>8. PICK f : Permuted(read, S, f) /\ \A k, l \in I : k < l => <<f[l], f[k]>> \notin B
  BY <1>6 DEF SortedAs, I
<1>9. m \in Nat
  BY SamplersAssumption DEF Least
<1>10. top = Take(S, m)
  BY Zenon DEF TopN, S
<1> HIDE DEF m, top
<1>11. /\ IsList(top) /\ Len(top) = Least(m, Len(read)) /\ Len(top) \in Nat
       /\ \A k \in 1..Len(top) : k \in I /\ top[k] = S[k]
  BY <1>7, <1>9, <1>10, TakeList DEF I
<1>12. ASSUME NEW p \in Elements(top)
       PROVE  Cardinality({i \in DOMAIN read : BusierProcess(read[i], p)}) < Len(top)
  <2>1. PICK k \in 1..Len(top) : p = top[k]
    BY <1>11 DEF Elements, IsList
  <2>2. k \in I /\ f[k] \in I /\ p = read[f[k]]
    BY <1>8, <1>11, <2>1 DEF Permuted, I
  <2> DEFINE X == {i \in I : <<i, f[k]>> \in B}
  <2>3. Cardinality(X) \in Nat /\ Cardinality(X) < k
    <3>1. k \in 1..Len(read) /\ WeakOrder(1..Len(read), B)
      BY <1>5, <2>2 DEF I
    <3>2. \A j, l \in 1..Len(read) : j < l => <<f[l], f[j]>> \notin B
      BY <1>8 DEF I
    <3>3. X = Ahead(read, B, f[k])
      BY DEF I, Ahead
    <3> HIDE DEF X
    <3> QED
      BY <1>8, <3>1, <3>2, <3>3, Before
  <2>4. X = {i \in DOMAIN read : BusierProcess(read[i], p)}
    BY <1>1, <1>3, <2>2
  <2> HIDE DEF X
  <2>5. Cardinality(X) < Len(top)
    BY <1>11, <2>1, <2>3
  <2> QED
    BY <2>4, <2>5, Zenon
<1>13. /\ Len(top) = Least(m, Len(read))
       /\ \A p \in Elements(top) : Cardinality({i \in DOMAIN read : BusierProcess(read[i], p)}) < Len(top)
  BY <1>11, <1>12
<1> QED
  BY <1>13, Zenon DEF ProcessesHonest, top, m

Counting(s) == \A i \in 1..Len(s) : s[i].rx \in Int /\ s[i].tx \in Int /\ s[i].name \in Int

(* What is kept of a list, by its elements.                                *)
Keeps(s, I, a) ==
  /\ IsList(a) /\ Len(a) = Cardinality(I) /\ Cardinality(I) \in Nat
  /\ \A k \in 1..Len(a) : \E i \in I : a[k] = s[i]
  /\ \A i \in I : \E k \in 1..Len(a) : a[k] = s[i]

LEMMA KeptAll == \A s, I : IsList(s) /\ I \subseteq 1..Len(s) => Keeps(s, I, Kept(s, I))
<1> TAKE s, I
<1> HAVE IsList(s) /\ I \subseteq 1..Len(s)
<1> DEFINE a == Kept(s, I)
<1>1. Len(s) \in Nat
  BY DEF IsList
<1>2. Listing(s, I, InOrder(I), a)
  BY <1>1, KeptLists
<1> HIDE DEF a
<1>3. IsList(a)
  BY <1>2, ListsAre
<1>4. /\ Len(a) = Cardinality(I) /\ Cardinality(I) \in Nat
      /\ \A k \in 1..Len(a) : Nth(I, InOrder(I), k) \in I /\ a[k] = s[Nth(I, InOrder(I), k)]
      /\ \A i \in I : \E k \in 1..Len(a) : i = Nth(I, InOrder(I), k)
  BY <1>2, Zenon DEF Listing
<1>5. /\ IsList(a) /\ Len(a) = Cardinality(I) /\ Cardinality(I) \in Nat
      /\ \A k \in 1..Len(a) : \E i \in I : a[k] = s[i]
      /\ \A i \in I : \E k \in 1..Len(a) : a[k] = s[i]
  BY <1>3, <1>4
<1> QED
  BY <1>5 DEF a, Keeps

LEMMA InterfacesInOrder ==
  ASSUME NEW T, IsList(T), Counting(T)
  PROVE  LET S == Sorted(T, BusierInterface)
         IN /\ IsList(S) /\ Len(S) = Len(T)
            /\ \E f : Permuted(T, S, f)
            /\ \A k, l \in 1..Len(T) : k < l => S[l].rx + S[l].tx <= S[k].rx + S[k].tx
<1> DEFINE I == 1..Len(T)
           B == {p \in I \X I : BusierInterface(T[p[1]], T[p[2]])}
           S == Sorted(T, BusierInterface)
           w(i) == T[i].rx + T[i].tx
           z(i) == T[i].name
<1>1. DOMAIN T = I
  BY DEF IsList
<1>2. S = Arranged(T, I, Stable(I, B))
  BY <1>1, Zenon DEF Sorted
<1>3. \A i, j \in I : <<i, j>> \in B <=> IF w(i) # w(j) THEN w(i) > w(j) ELSE z(i) < z(j)
  BY DEF BusierInterface
<1>4. \A i \in I : w(i) \in Int /\ z(i) \in Int
  BY DEF Counting
<1> HIDE DEF I, B, S, w, z
<1>5. WeakOrder(I, B)
  <2>1. ASSUME NEW i \in I, NEW j \in I, NEW k \in I
        PROVE  /\ <<i, i>> \notin B
               /\ <<i, j>> \in B /\ <<j, k>> \in B => <<i, k>> \in B
               /\ <<i, k>> \in B => <<i, j>> \in B \/ <<j, k>> \in B
    <3>1. w(i) \in Int /\ z(i) \in Int /\ w(j) \in Int /\ z(j) \in Int /\ w(k) \in Int /\ z(k) \in Int
      BY <1>4
    <3>2. /\ <<i, i>> \in B <=> IF w(i) # w(i) THEN w(i) > w(i) ELSE z(i) < z(i)
          /\ <<i, j>> \in B <=> IF w(i) # w(j) THEN w(i) > w(j) ELSE z(i) < z(j)
          /\ <<j, k>> \in B <=> IF w(j) # w(k) THEN w(j) > w(k) ELSE z(j) < z(k)
          /\ <<i, k>> \in B <=> IF w(i) # w(k) THEN w(i) > w(k) ELSE z(i) < z(k)
      BY <1>3
    <3> QED
      BY <3>1, <3>2
  <2> QED
    BY <2>1 DEF WeakOrder
<1>6. SortedAs(T, B, S)
  BY <1>2, <1>5, SortedLists DEF I
<1>7. PICK f : Permuted(T, S, f) /\ \A k, l \in I : k < l => <<f[l], f[k]>> \notin B
  BY <1>6 DEF SortedAs, I
<1>8. \A k \in I : f[k] \in I /\ S[k] = T[f[k]]
  BY <1>7 DEF Permuted, I
<1>9. \A k, l \in I : k < l => S[l].rx + S[l].tx <= S[k].rx + S[k].tx
  <2> TAKE k, l \in I
  <2> HAVE k < l
  <2>1. <<f[l], f[k]>> \notin B /\ f[k] \in I /\ f[l] \in I /\ S[k] = T[f[k]] /\ S[l] = T[f[l]]
    BY <1>7, <1>8
  <2>2. ~(w(f[l]) > w(f[k])) /\ w(f[l]) \in Int /\ w(f[k]) \in Int
    BY <1>3, <1>4, <2>1
  <2>3. w(f[l]) <= w(f[k])
    BY <2>2
  <2> QED
    BY <2>1, <2>3 DEF w
<1> QED
  BY <1>6, <1>7, <1>9, Zenon DEF SortedAs, I, S

(* The interfaces listed are those that carried most, of any there are     *)
(* (sample of the network monitor).                                        *)
THEOREM BusiestInterfaces ==
  ASSUME NEW read, IsList(read), Counting(read)
  PROVE  InterfacesHonest(read)
<1> DEFINE n == Len(read)
           K == {i \in DOMAIN read : ~read[i].loopback /\ read[i].used}
           T == Kept(read, K)
           S == Sorted(T, BusierInterface)
           list == Interfaces(read)
           c == Len(list)
<1>1. n \in Nat /\ DOMAIN read = 1..n
  BY DEF IsList
<1>2. \A i : i \in K <=> i \in 1..n /\ ~read[i].loopback /\ read[i].used
  BY <1>1
<1>3. list = Take(S, MaxInterfaces)
  BY Zenon DEF Interfaces
<1>4. K \subseteq 1..n
  BY <1>2
<1> HIDE DEF K, S, list
<1>5. /\ IsList(T)
      /\ \A k \in 1..Len(T) : \E i \in K : T[k] = read[i]
      /\ \A i \in K : \E k \in 1..Len(T) : T[k] = read[i]
  <2>1. Keeps(read, K, T)
    BY <1>4, KeptAll
  <2> HIDE DEF T
  <2> QED
    BY <2>1, Zenon DEF Keeps
<1>6. \A k \in 1..Len(T) : \E i \in 1..n : T[k] = read[i] /\ ~read[i].loopback /\ read[i].used
  BY <1>2, <1>5
<1> HIDE DEF T, K
<1>7. Counting(T)
  BY <1>6 DEF Counting
<1>8. /\ IsList(S) /\ Len(S) = Len(T)
      /\ \E f : Permuted(T, S, f)
      /\ \A k, l \in 1..Len(T) : k < l => S[l].rx + S[l].tx <= S[k].rx + S[k].tx
  BY <1>5, <1>7, InterfacesInOrder DEF S
<1>9. PICK f : Permuted(T, S, f)
  BY <1>8
<1>10. /\ \A k \in 1..Len(T) : f[k] \in 1..Len(T) /\ S[k] = T[f[k]]
       /\ \A i \in 1..Len(T) : \E k \in 1..Len(T) : f[k] = i
  BY <1>9 DEF Permuted
<1>11. MaxInterfaces \in Nat
  BY SamplersAssumption
<1>12. /\ IsList(list) /\ c \in Nat /\ (c < Len(T) => c = MaxInterfaces)
       /\ \A k \in 1..c : k \in 1..Len(T) /\ list[k] = S[k]
  <2>1. /\ IsList(list) /\ c = Least(MaxInterfaces, Len(T)) /\ c \in Nat
        /\ (Least(MaxInterfaces, Len(T)) < Len(T) => Least(MaxInterfaces, Len(T)) = MaxInterfaces)
        /\ \A k \in 1..c : k \in 1..Len(T) /\ list[k] = S[k]
    BY <1>3, <1>8, <1>11, TakeList
  <2> QED
    BY <2>1
<1>13. /\ Elements(list) = {list[k] : k \in 1..c}
       /\ Elements(read) = {read[k] : k \in 1..n}
  BY <1>1, <1>12 DEF Elements, IsList
<1>14. Len(T) \in Nat
  BY <1>5 DEF IsList
<1> HIDE DEF c, n
<1>15. ASSUME NEW i \in Elements(list) PROVE i.used /\ ~i.loopback
  <2>1. PICK k \in 1..c : i = list[k]
    BY <1>13
  <2>2. k \in 1..Len(T) /\ i = T[f[k]] /\ f[k] \in 1..Len(T)
    BY <1>10, <1>12, <2>1
  <2> QED
    BY <1>6, <2>2
<1>16. ASSUME NEW i \in Elements(read), i.used, ~i.loopback, i \notin Elements(list),
              NEW k \in Elements(list)
       PROVE  i.rx + i.tx <= k.rx + k.tx
  <2>1. PICK l \in 1..Len(T) : S[l] = i /\ l \notin 1..c
    <3>1. PICK x \in 1..n : i = read[x]
      BY <1>13, <1>16
    <3>2. PICK j \in 1..Len(T) : T[j] = i
      BY <1>2, <1>5, <1>16, <3>1
    <3>3. PICK l \in 1..Len(T) : f[l] = j
      BY <1>10
    <3>4. S[l] = i
      BY <1>10, <3>2, <3>3
    <3>5. l \notin 1..c
      BY <1>12, <1>13, <1>16, <3>4
    <3> QED
      BY <3>4, <3>5
  <2>2. PICK q \in 1..c : k = list[q]
    BY <1>13
  <2>3. q \in 1..Len(T) /\ k = S[q] /\ q < l
    BY <1>12, <1>14, <2>1, <2>2
  <2> QED
    BY <1>8, <2>1, <2>3
<1>17. ASSUME NEW i \in Elements(read), i.used, ~i.loopback, i \notin Elements(list)
       PROVE  c = MaxInterfaces
  <2>1. PICK x \in 1..n : i = read[x]
    BY <1>13
  <2>2. PICK j \in 1..Len(T) : T[j] = i
    BY <1>2, <1>5, <1>17, <2>1
  <2>3. PICK l \in 1..Len(T) : f[l] = j
    BY <1>10
  <2>4. S[l] = i
    BY <1>10, <2>2, <2>3
  <2>5. l \notin 1..c
    BY <1>12, <1>13, <1>17, <2>4
  <2> QED
    BY <1>12, <1>14, <2>5
<1>18. \A i \in Elements(read) :
         /\ i \in Elements(list) => i.used /\ ~i.loopback
         /\ i.used /\ ~i.loopback /\ i \notin Elements(list) =>
              c = MaxInterfaces /\ \A k \in Elements(list) : i.rx + i.tx <= k.rx + k.tx
  BY <1>15, <1>16, <1>17
<1> QED
  BY <1>18, Zenon DEF InterfacesHonest, list, c

(***************************************************************************)
(* The globe                                                               *)
(***************************************************************************)
(* The first positions of what a list holds, and that each has one.        *)
Firsts(c, n) == {i \in 1..n : \A j \in 1..(i - 1) : c[j] # c[i]}

LEMMA FirstExists ==
  ASSUME NEW c, NEW n \in Nat, NEW i \in 1..n
  PROVE  \E j \in Firsts(c, n) : c[j] = c[i]
<1> DEFINE W == {j \in 1..n : c[j] = c[i]}
           R == InOrder(W)
           m == Cardinality(W)
           j == Nth(W, R, 1)
<1>1. W \subseteq 1..n /\ i \in W
  OBVIOUS
<1>2. \A x \in W : x \in 1..n /\ c[x] = c[i]
  OBVIOUS
<1>3. \A x \in 1..n : c[x] = c[i] => x \in W
  OBVIOUS
<1> HIDE DEF W
<1>4. IsFiniteSet(W) /\ W \subseteq Nat
  BY <1>1, FiniteDomain
<1>5. StrictOrder(W, R)
  BY <1>4, NaturalOrder
<1>6. /\ m \in Nat
      /\ \A k \in 1..m : Nth(W, R, k) \in W
      /\ \A k, l \in 1..m : <<Nth(W, R, k), Nth(W, R, l)>> \in R <=> k < l
      /\ \A x \in W : \E k \in 1..m : x = Nth(W, R, k)
  BY <1>4, <1>5, Enumerated
<1>7. 1 \in 1..m
  <2>1. PICK k \in 1..m : i = Nth(W, R, k)
    BY <1>1, <1>6
  <2> QED
    BY <1>6, <2>1
<1>8. j \in W /\ j \in 1..n /\ c[j] = c[i]
  BY <1>2, <1>6, <1>7
<1>9. ASSUME NEW x \in 1..(j - 1) PROVE c[x] # c[j]
  <2>1. x \in 1..n /\ x < j
    BY <1>8
  <2>2. ASSUME c[x] = c[j] PROVE FALSE
    <3>1. x \in W
      BY <1>3, <1>8, <2>1, <2>2
    <3>2. <<x, j>> \in R
      BY <1>8, <2>1, <3>1 DEF InOrder
    <3>3. PICK k \in 1..m : x = Nth(W, R, k)
      BY <1>6, <3>1
    <3>4. k < 1
      BY <1>6, <1>7, <3>2, <3>3
    <3> QED
      BY <1>6, <3>4
  <2> QED
    BY <2>2
<1> HIDE DEF j
<1>10. j \in Firsts(c, n)
  BY <1>8, <1>9 DEF Firsts
<1> QED
  BY <1>8, <1>10

(* The cells of the globe are the places of the peers, each once.          *)
LEMMA CellsOnce ==
  ASSUME NEW read, IsList(read)
  PROVE  LET cells == {p.cell : p \in Elements(read)} \ {Absent}
             s == Cells(read)
         IN /\ IsList(s) /\ Len(s) = Least(MaxMarkers, Cardinality(cells))
            /\ Cardinality(cells) \in Nat
            /\ \A k \in 1..Len(s) : s[k] \in cells
            /\ \A k, l \in 1..Len(s) : s[k] = s[l] => k = l
<1> DEFINE K == {i \in DOMAIN read : read[i].cell # Absent}
           placed == Kept(read, K)
           n == Len(placed)
           c == [i \in 1..n |-> placed[i].cell]
           J == {i \in DOMAIN placed : \A j \in 1..(i - 1) : placed[j].cell # placed[i].cell}
           first == Kept(placed, J)
           m == Cardinality(J)
           F == [k \in DOMAIN first |-> first[k].cell]
           cells == {p.cell : p \in Elements(read)} \ {Absent}
           s == Cells(read)
<1>1. MaxMarkers \in Nat
  BY SamplersAssumption
<1>2. Len(read) \in Nat /\ DOMAIN read = 1..Len(read)
  BY DEF IsList
<1>3. \A i : i \in K <=> i \in 1..Len(read) /\ read[i].cell # Absent
  BY <1>2
<1>4. s = Take(F, MaxMarkers)
  BY Zenon DEF Cells
<1>5. \A x : x \in cells <=> \E i \in K : x = read[i].cell
  BY <1>2 DEF Elements
<1> HIDE DEF K, s, cells
<1>6. /\ IsList(placed)
      /\ \A k \in 1..n : \E i \in K : placed[k] = read[i]
      /\ \A i \in K : \E k \in 1..n : placed[k] = read[i]
  <2>1. Keeps(read, K, placed)
    <3>1. K \subseteq 1..Len(read)
      BY <1>3
    <3> QED
      BY <3>1, KeptAll
  <2> HIDE DEF placed
  <2> QED
    BY <2>1, Zenon DEF Keeps
<1> HIDE DEF placed, first
<1>7. n \in Nat /\ DOMAIN placed = 1..n
  BY <1>6 DEF IsList
<1>8. \A i \in 1..n : c[i] = placed[i].cell
  OBVIOUS
<1>9. J = Firsts(c, n)
  <2>1. \A i \in 1..n : \A j \in 1..(i - 1) : j \in 1..n
    BY <1>7
  <2>2. \A i \in 1..n : (\A j \in 1..(i - 1) : placed[j].cell # placed[i].cell)
                         <=> (\A j \in 1..(i - 1) : c[j] # c[i])
    BY <2>1
  <2> HIDE DEF c
  <2> QED
    BY <1>7, <2>2 DEF Firsts
<1> HIDE DEF n, c
<1>10. J \subseteq 1..n
  BY <1>9 DEF Firsts
<1> DEFINE nth(k) == Nth(J, InOrder(J), k)
<1>11. Listing(placed, J, InOrder(J), first)
  <2> HIDE DEF J
  <2> QED
    BY <1>7, <1>10, KeptLists DEF first
<1> HIDE DEF J
<1>12. /\ m \in Nat /\ DOMAIN first = 1..m /\ Len(first) = m
       /\ \A k \in 1..m : nth(k) \in J /\ first[k] = placed[nth(k)]
       /\ \A k, l \in 1..m : nth(k) = nth(l) => k = l
       /\ \A i \in J : \E k \in 1..m : i = nth(k)
  BY <1>11, Zenon DEF Listing
<1> HIDE DEF nth, m
<1>13. /\ IsList(F) /\ Len(F) = m /\ DOMAIN F = 1..m
       /\ \A k \in 1..m : F[k] = placed[nth(k)].cell
  <2>1. F = [k \in 1..m |-> first[k].cell]
    BY <1>12
  <2> HIDE DEF F
  <2>2. Len(F) = m /\ DOMAIN F = 1..m /\ \A k \in 1..m : F[k] = first[k].cell
    BY <1>12, <2>1
  <2>3. F = [k \in 1..m |-> F[k]]
    BY <2>1
  <2>4. IsList(F)
    BY <1>12, <2>2, <2>3 DEF IsList
  <2>5. \A k \in 1..m : F[k] = placed[nth(k)].cell
    BY <1>12, <2>2
  <2> QED
    BY <2>2, <2>4, <2>5
<1> HIDE DEF F
<1>14. \A k \in 1..m : nth(k) \in J /\ nth(k) \in 1..n /\ F[k] = c[nth(k)]
  BY <1>8, <1>10, <1>12, <1>13
<1>15. \A k \in 1..m : F[k] \in cells
  <2> TAKE k \in 1..m
  <2>1. nth(k) \in 1..n /\ F[k] = placed[nth(k)].cell
    BY <1>13, <1>14
  <2>2. PICK i \in K : placed[nth(k)] = read[i]
    BY <1>6, <2>1 DEF n
  <2> QED
    BY <1>5, <2>1, <2>2
<1>16. \A i, j \in J : c[i] = c[j] => i = j
  <2>1. \A i \in J : i \in 1..n /\ \A j \in 1..(i - 1) : c[j] # c[i]
    BY <1>9 DEF Firsts
  <2> TAKE i, j \in J
  <2>2. i \in 1..n /\ j \in 1..n /\ (j \in 1..(i - 1) => c[j] # c[i]) /\ (i \in 1..(j - 1) => c[i] # c[j])
    BY <2>1
  <2>3. j \in 1..(i - 1) \/ i \in 1..(j - 1) \/ i = j
    BY <1>7, <2>2
  <2> QED
    BY <2>2, <2>3
<1>17. \A k, l \in 1..m : F[k] = F[l] => k = l
  BY <1>12, <1>14, <1>16
<1>18. \A x \in cells : \E k \in 1..m : F[k] = x
  <2> TAKE x \in cells
  <2>1. PICK i \in K : x = read[i].cell
    BY <1>5
  <2>2. PICK k \in 1..n : placed[k] = read[i]
    BY <1>6 DEF n
  <2>3. c[k] = x
    BY <1>8, <2>1, <2>2
  <2>4. PICK j \in J : c[j] = x
    BY <1>7, <1>9, <2>2, <2>3, FirstExists
  <2>5. PICK l \in 1..m : j = nth(l)
    BY <1>12
  <2> QED
    BY <1>14, <2>4, <2>5
<1>19. Cardinality(cells) = m
  <2>1. IsFiniteSet(1..m) /\ Cardinality(1..m) = m
    BY <1>12, Interval
  <2>2. F \in [1..m -> cells]
    <3>1. F = [k \in 1..m |-> F[k]]
      BY <1>13 DEF IsList
    <3> QED
      BY <1>15, <3>1
  <2>3. Cardinality(cells) = Cardinality(1..m)
    BY <1>17, <1>18, <2>1, <2>2, Paired
  <2> QED
    BY <2>1, <2>3
<1>20. /\ IsList(s) /\ Len(s) = Least(MaxMarkers, m)
       /\ \A k \in 1..Len(s) : k \in 1..m /\ s[k] = F[k]
  BY <1>1, <1>4, <1>13, TakeList
<1>21. /\ IsList(s) /\ Len(s) = Least(MaxMarkers, Cardinality(cells)) /\ Cardinality(cells) \in Nat
       /\ \A k \in 1..Len(s) : s[k] \in cells
       /\ \A k, l \in 1..Len(s) : s[k] = s[l] => k = l
  BY <1>12, <1>15, <1>17, <1>19, <1>20
<1> QED
  BY <1>21, Zenon DEF cells, s

LEMMA NamesFinite ==
  ASSUME NEW read, IsList(read), NEW cell
  PROVE  Cardinality(NamesAt(read, cell)) \in Nat
<1> DEFINE A == {j \in DOMAIN read : read[j].cell = cell}
           N == {read[i].name : i \in A}
           f == [i \in A |-> read[i].name]
<1>1. Len(read) \in Nat /\ A \subseteq 1..Len(read)
  BY DEF IsList
<1>2. NamesAt(read, cell) = N \ {Absent}
  BY Zenon DEF NamesAt
<1> HIDE DEF A
<1>3. IsFiniteSet(A)
  BY <1>1, FiniteDomain
<1>4. f \in Surjection(A, N)
  BY DEF Surjection
<1> HIDE DEF f, N
<1>5. IsFiniteSet(N)
  BY <1>3, <1>4, FS_Surjection
<1>6. IsFiniteSet(N \ {Absent})
  BY <1>5, FS_Difference
<1> QED
  BY <1>2, <1>6, FS_CardinalityType

(* One marker for a place, no place of a peer without one while there is   *)
(* room, and every process of a place counted in its label, for any peers  *)
(* (markers_from).                                                         *)
THEOREM MarkersCount ==
  ASSUME NEW read, IsList(read)
  PROVE  MarkersHonest(read)
<1> DEFINE s == Cells(read)
           n == Len(s)
           M == MarkersFrom(read)
           cells == {p.cell : p \in Elements(read)} \ {Absent}
           Label(x) == [spelled |-> Least(x, NamesPerLabel), rest |-> x - Least(x, NamesPerLabel)]
           named(k) == Cardinality(NamesAt(read, s[k]))
           G == {k.cell : k \in Elements(M)}
<1>1. /\ IsList(s) /\ n = Least(MaxMarkers, Cardinality(cells))
      /\ \A k \in 1..n : s[k] \in cells
      /\ \A k, l \in 1..n : s[k] = s[l] => k = l
  BY CellsOnce, Zenon
<1>2. M = [k \in DOMAIN s |-> [cell |-> s[k], label |-> Label(named(k))]]
  BY Zenon DEF MarkersFrom
<1> HIDE DEF s, cells, M
<1>3. n \in Nat /\ DOMAIN s = 1..n
  BY <1>1 DEF IsList
<1>4. NamesPerLabel \in Nat
  BY SamplersAssumption
<1>5. \A k \in 1..n : named(k) = Cardinality(NamesAt(read, s[k])) /\ named(k) \in Nat
  BY NamesFinite
<1> HIDE DEF named, n, Label
<1>6. /\ Len(M) = n /\ DOMAIN M = 1..n
      /\ \A k \in 1..n : M[k].cell = s[k] /\ M[k].label = Label(named(k))
  BY <1>2, <1>3
<1>7. Elements(M) = {M[k] : k \in 1..n}
  BY <1>6 DEF Elements
<1>8. ASSUME NEW k \in Elements(M)
      PROVE  /\ k.cell \in cells
             /\ k.label.spelled + k.label.rest = Cardinality(NamesAt(read, k.cell))
  <2>1. PICK i \in 1..n : k = M[i]
    BY <1>7
  <2>2. k.cell = s[i] /\ k.label = Label(named(i))
    BY <1>6, <2>1
  <2>3. \A x \in Nat : Label(x).spelled + Label(x).rest = x
    BY <1>4 DEF Label, Least
  <2>4. k.label.spelled + k.label.rest = named(i)
    BY <1>5, <2>2, <2>3
  <2> QED
    BY <1>1, <1>5, <2>2, <2>4
<1>9. Cardinality(G) = n
  <2> DEFINE f == [k \in 1..n |-> s[k]]
  <2>1. \A x : x \in G <=> \E k \in 1..n : x = s[k]
    BY <1>6, <1>7
  <2> HIDE DEF G
  <2>2. f \in [1..n -> G]
    BY <2>1
  <2>3. /\ \A x, y \in 1..n : f[x] = f[y] => x = y
        /\ \A z \in G : \E x \in 1..n : f[x] = z
    BY <1>1, <2>1
  <2>4. IsFiniteSet(1..n) /\ Cardinality(1..n) = n
    BY <1>3, Interval
  <2> HIDE DEF f
  <2>5. Cardinality(G) = Cardinality(1..n)
    BY <2>2, <2>3, <2>4, Paired
  <2> QED
    BY <2>4, <2>5
<1>10. /\ Cardinality(G) = Len(M) /\ Len(M) = Least(MaxMarkers, Cardinality(cells))
       /\ \A k \in Elements(M) : k.cell \in cells /\
            k.label.spelled + k.label.rest = Cardinality(NamesAt(read, k.cell))
  BY <1>1, <1>6, <1>8, <1>9
<1> QED
  BY <1>10, Zenon DEF MarkersHonest, cells, M

(***************************************************************************)
(* The inputs of the run                                                   *)
(***************************************************************************)
LEMMA ShortLists ==
  \A S : \A n \in Nat : \A s \in UpTo(S, n) :
    IsList(s) /\ Len(s) <= n /\ s \in Seq(S) /\ \A i \in 1..Len(s) : s[i] \in S
<1> TAKE S
<1> TAKE n \in Nat
<1> TAKE s \in UpTo(S, n)
<1>1. PICK k \in 0..n : s \in [1..k -> S]
  BY DEF UpTo
<1>2. k \in Nat /\ k <= n
  OBVIOUS
<1>3. Len(s) = k /\ DOMAIN s = 1..k /\ s \in Seq(S) /\ s = [i \in 1..k |-> s[i]]
  BY <1>1, <1>2
<1> QED
  BY <1>1, <1>2, <1>3 DEF IsList

LEMMA DirectoryInputs ==
  ASSUME NEW in \in Directories
  PROVE  in.what = "directory" /\ in.read \in Seq(Entries)
<1> DEFINE Three == BOOLEAN \X BOOLEAN \X BOOLEAN
           entry(s, i) == [name |-> 9 - i, hidden |-> s[i][1], dir |-> s[i][2], readable |-> s[i][3]]
           read(s) == [i \in DOMAIN s |-> entry(s, i)]
           made(s, h) == [what |-> "directory", showHidden |-> h, read |-> read(s)]
<1>1. \E s \in UpTo(Three, 4), h \in BOOLEAN : in = made(s, h)
  BY DEF Directories
<1>2. \A s, h : made(s, h).what = "directory" /\ made(s, h).read = read(s)
  OBVIOUS
<1>3. \A s, i : s[i] \in Three /\ i \in 1..4 => entry(s, i) \in Entries
  BY DEF Entries
<1> HIDE DEF Three, made, entry
<1>4. PICK s \in UpTo(Three, 4), h \in BOOLEAN : in = made(s, h)
  BY <1>1
<1>5. Len(s) \in Nat /\ Len(s) <= 4 /\ DOMAIN s = 1..Len(s) /\ \A i \in 1..Len(s) : s[i] \in Three
  BY <1>4, ShortLists DEF IsList
<1>6. \A i \in 1..Len(s) : entry(s, i) \in Entries
  <2>1. \A i \in 1..Len(s) : i \in 1..4
    BY <1>5
  <2> QED
    BY <2>1, <1>3, <1>5
<1>7. read(s) = [i \in 1..Len(s) |-> entry(s, i)]
  BY <1>5
<1> HIDE DEF read
<1>8. read(s) \in [1..Len(s) -> Entries]
  BY <1>6, <1>7
<1>9. read(s) \in Seq(Entries)
  BY <1>5, <1>8
<1> QED
  BY <1>2, <1>4, <1>9

LEMMA TextInputs ==
  ASSUME NEW in \in Texts
  PROVE  in.what = "text" /\ IsList(in.lines)
<1>1. PICK lines \in UpTo({Blank, "words"}, 4) : in.what = "text" /\ in.lines = lines
  BY DEF Texts
<1> QED
  BY <1>1, ShortLists

LEMMA SocketInputs ==
  ASSUME NEW in \in Sockets
  PROVE  in.what = "sockets" /\ IsList(in.read)
<1> DEFINE S == [ok : {TRUE}, tcp : {TRUE}, state : {"established", "listen", "closing"},
                 remote : {"peer"}, pids : {<<>>, <<7, 8>>}]
                \cup [ok : {TRUE}, tcp : BOOLEAN, state : {"established"}, remote : {Absent},
                      pids : {<<8>>}]
                \cup [ok : {FALSE}, tcp : {TRUE}, state : {"established"}, remote : {"peer"},
                      pids : {<<7, 8>>}]
           made(s) == [what |-> "sockets", read |-> s]
<1>1. Sockets = {made(s) : s \in UpTo(S, 4)}
  BY Zenon DEF Sockets
<1>2. \A s : made(s).what = "sockets" /\ made(s).read = s
  OBVIOUS
<1> HIDE DEF S, made
<1>3. PICK s \in UpTo(S, 4) : in = made(s)
  BY <1>1
<1> QED
  BY <1>2, <1>3, ShortLists

LEMMA ProcessInputs ==
  ASSUME NEW in \in Processes
  PROVE  in.what = "processes" /\ IsList(in.read) /\ Measured(in.read) /\ in.limit \in Nat
<1> DEFINE S == [cpu : 0..1, memory : 0..2]
           made(s, n) == [what |-> "processes", read |-> s, limit |-> n]
<1>1. \E s \in UpTo(S, 3), n \in 1..3 : in = made(s, n)
  BY DEF Processes
<1>2. \A s, n : made(s, n).what = "processes" /\ made(s, n).read = s /\ made(s, n).limit = n
  OBVIOUS
<1>3. \A e \in S : e.cpu \in Int /\ e.memory \in Int
  OBVIOUS
<1> HIDE DEF S, made
<1>4. PICK s \in UpTo(S, 3), n \in 1..3 : in = made(s, n)
  BY <1>1
<1>5. IsList(s) /\ \A i \in 1..Len(s) : s[i] \in S
  BY ShortLists
<1>6. Measured(s)
  BY <1>3, <1>5 DEF Measured
<1> QED
  BY <1>2, <1>4, <1>5, <1>6

LEMMA InterfaceInputs ==
  ASSUME NEW in \in InterfaceLists
  PROVE  in.what = "interfaces" /\ IsList(in.read) /\ Counting(in.read)
<1> DEFINE S == [rx : 0..1, tx : 0..1, loopback : BOOLEAN, used : BOOLEAN]
           entry(s, i) == [rx |-> s[i].rx, tx |-> s[i].tx, loopback |-> s[i].loopback,
                           used |-> s[i].used, name |-> i]
           read(s) == [i \in DOMAIN s |-> entry(s, i)]
           made(s) == [what |-> "interfaces", read |-> read(s)]
<1>1. InterfaceLists = {made(s) : s \in UpTo(S, 3)}
  BY Zenon DEF InterfaceLists
<1>2. \A s : made(s).what = "interfaces" /\ made(s).read = read(s)
  OBVIOUS
<1>3. \A s, i : s[i] \in S /\ i \in Int =>
        entry(s, i).rx \in Int /\ entry(s, i).tx \in Int /\ entry(s, i).name \in Int
  OBVIOUS
<1> HIDE DEF S, made, entry
<1>4. PICK s \in UpTo(S, 3) : in = made(s)
  BY <1>1
<1>5. Len(s) \in Nat /\ DOMAIN s = 1..Len(s) /\ \A i \in 1..Len(s) : s[i] \in S
  BY <1>4, ShortLists DEF IsList
<1>6. read(s) = [i \in 1..Len(s) |-> entry(s, i)]
  BY <1>5
<1> HIDE DEF read
<1>7. /\ Len(read(s)) = Len(s) /\ DOMAIN read(s) = 1..Len(s)
      /\ \A i \in 1..Len(s) : read(s)[i] = entry(s, i)
  BY <1>5, <1>6
<1>8. IsList(read(s))
  <2>1. read(s) = [i \in 1..Len(s) |-> read(s)[i]]
    BY <1>6
  <2> QED
    BY <1>5, <1>7, <2>1 DEF IsList
<1>9. Counting(read(s))
  <2> SUFFICES ASSUME NEW i \in 1..Len(s)
               PROVE  entry(s, i).rx \in Int /\ entry(s, i).tx \in Int /\ entry(s, i).name \in Int
    BY <1>7 DEF Counting
  <2>1. i \in Int /\ s[i] \in S
    BY <1>5
  <2> QED
    BY <2>1, <1>3
<1> QED
  BY <1>2, <1>4, <1>8, <1>9

LEMMA PeerInputs ==
  ASSUME NEW in \in Peers
  PROVE  in.what = "peers" /\ IsList(in.read)
<1> DEFINE S == [cell : {Absent, "here", "there", "beyond"}, name : {Absent, "sh", "curl"}]
           made(s) == [what |-> "peers", read |-> s]
<1>1. Peers = {made(s) : s \in UpTo(S, 3)}
  BY Zenon DEF Peers
<1>2. \A s : made(s).what = "peers" /\ made(s).read = s
  OBVIOUS
<1> HIDE DEF S, made
<1>3. PICK s \in UpTo(S, 3) : in = made(s)
  BY <1>1
<1> QED
  BY <1>2, <1>3, ShortLists

(* What the collectors make of an input is honest.                         *)
LEMMA InputsHonest == ASSUME input \in Inputs \cup {NoInput} PROVE SamplesHonest
<1>1. CASE input \in Directories
  <2>1. input.what = "directory" /\ DirectoryHonest(input.read, input.showHidden)
    BY <1>1, DirectoryInputs, RowsHonest, Zenon
  <2> QED
    BY <2>1 DEF SamplesHonest
<1>2. CASE input \in Texts
  <2>1. input.what = "text" /\ TextHonest(input)
    BY <1>2, TextInputs, PreviewComplete, Zenon
  <2> QED
    BY <2>1 DEF SamplesHonest
<1>3. CASE input \in Sockets
  <2>1. input.what = "sockets" /\ ConnectionsHonest(input.read)
    BY <1>3, SocketInputs, ConnectionsKept, Zenon
  <2> QED
    BY <2>1 DEF SamplesHonest
<1>4. CASE input \in Processes
  <2>1. input.what = "processes" /\ ProcessesHonest(input.read, input.limit)
    BY <1>4, ProcessInputs, BusiestListed, Zenon
  <2> QED
    BY <2>1 DEF SamplesHonest
<1>5. CASE input \in InterfaceLists
  <2>1. input.what = "interfaces" /\ InterfacesHonest(input.read)
    BY <1>5, InterfaceInputs, BusiestInterfaces, Zenon
  <2> QED
    BY <2>1 DEF SamplesHonest
<1>6. CASE input \in Peers
  <2>1. input.what = "peers" /\ MarkersHonest(input.read)
    BY <1>6, PeerInputs, MarkersCount, Zenon
  <2> QED
    BY <2>1 DEF SamplesHonest
<1>7. CASE \/ input \in Addresses \/ input \in Answers \/ input \in Searches
           \/ input \in Selections \/ input \in Titles \/ input \in Histories \/ input = NoInput
  <2>1. input.what \in {"address", "answer", "search", "selection", "title", "history", "nothing"}
    <3>1. input \in Addresses => input.what = "address"
      BY DEF Addresses
    <3>2. input \in Answers => input.what = "answer"
      BY DEF Answers
    <3>3. input \in Searches => input.what = "search"
      BY DEF Searches
    <3>4. input \in Selections => input.what = "selection"
      BY DEF Selections
    <3>5. input \in Titles => input.what = "title"
      BY DEF Titles
    <3>6. input \in Histories => input.what = "history"
      BY DEF Histories
    <3>7. input = NoInput => input.what = "nothing"
      BY DEF NoInput
    <3> QED
      BY <1>7, <3>1, <3>2, <3>3, <3>4, <3>5, <3>6, <3>7
  <2> QED
    BY <2>1 DEF SamplesHonest
<1> QED
  BY <1>1, <1>2, <1>3, <1>4, <1>5, <1>6, <1>7, Zenon DEF Inputs

(* What a panel shows of a list that was filtered, sorted and cut is what  *)
(* it claims to be, for every limit.                                       *)
THEOREM HonestSamples == Spec => []SamplesHonest
<1>1. Init => input \in Inputs \cup {NoInput}
  BY Zenon DEF Init
<1>2. input \in Inputs \cup {NoInput} /\ [Next]_vars => (input \in Inputs \cup {NoInput})'
  BY Zenon DEF Next, vars
<1>3. input \in Inputs \cup {NoInput} => SamplesHonest
  BY InputsHonest, Zenon
<1> QED
  BY <1>1, <1>2, <1>3, PTL DEF Spec

(***************************************************************************)
(* Loops and joined lists                                                  *)
(***************************************************************************)
(* A loop of the code is a recursive function of the number of its turns.  *)
(* What holds at the start of it and is kept by every turn holds at its    *)
(* end.                                                                    *)
LEMMA Turns ==
  ASSUME NEW k \in Nat, NEW G, 0 \in G, \A n \in 1..k : n - 1 \in G => n \in G
  PROVE  \A n \in 0..k : n \in G
<1> DEFINE c == [n \in 1..k |-> IF n \in G THEN 1 ELSE 0]
<1>1. SUFFICES ASSUME NEW i \in 0..k, i \notin G PROVE FALSE
  OBVIOUS
<1>2. i \in 1..k /\ c[i] = 0
  BY <1>1
<1>3. PICK j \in Firsts(c, k) : c[j] = c[i]
  BY <1>2, FirstExists
<1>4. j \in 1..k /\ c[j] = 0 /\ \A x \in 1..(j - 1) : c[x] # c[j]
  BY <1>2, <1>3 DEF Firsts
<1>5. j \notin G
  BY <1>4
<1>6. j - 1 \in 0..k /\ j - 1 \notin G
  BY <1>4, <1>5
<1>7. j - 1 # 0
  BY <1>6
<1>8. j - 1 \in 1..(j - 1) /\ j - 1 \in 1..k
  BY <1>4, <1>7
<1>9. c[j - 1] = 0
  BY <1>6, <1>8
<1> QED
  BY <1>4, <1>8, <1>9

(* A loop over k entries that stays within S has a run, which is what a    *)
(* recursive function denotes.                                             *)
LoopRun(f, k, S, start, turn) ==
  /\ f \in [0..k -> S] /\ f[0] = start
  /\ \A n \in 1..k : f[n] = turn[n][f[n - 1]]

LEMMA LoopRuns ==
  ASSUME NEW k \in Nat, NEW S, NEW start \in S, NEW turn, turn \in [1..k -> [S -> S]]
  PROVE  \E f : LoopRun(f, k, S, start, turn)
<1> DEFINE Run(f, m) == /\ f \in [0..m -> S] /\ f[0] = start
                        /\ \A n \in 1..m : f[n] = turn[n][f[n - 1]]
           G == {m \in 0..k : \E f \in [0..m -> S] : Run(f, m)}
<1>1. 0 \in G
  <2> DEFINE f == [n \in 0..0 |-> start]
  <2>1. f \in [0..0 -> S] /\ f[0] = start
    OBVIOUS
  <2>2. \A n \in 1..0 : FALSE
    OBVIOUS
  <2> HIDE DEF f
  <2>3. Run(f, 0)
    BY <2>1, <2>2
  <2> QED
    BY <2>1, <2>3
<1>2. ASSUME NEW m \in 1..k, m - 1 \in G PROVE m \in G
  <2>1. PICK f \in [0..(m - 1) -> S] : Run(f, m - 1)
    BY <1>2
  <2> DEFINE g == [n \in 0..m |-> IF n = m THEN turn[m][f[m - 1]] ELSE f[n]]
  <2>2. m \in Nat /\ m - 1 \in 0..(m - 1) /\ (\A n \in 0..m : n # m => n \in 0..(m - 1))
    BY <1>2
  <2>3. f[m - 1] \in S /\ turn[m] \in [S -> S] /\ turn[m][f[m - 1]] \in S
    BY <2>2
  <2>4. g \in [0..m -> S]
    BY <2>2, <2>3
  <2>5. g[0] = start
    BY <2>1, <2>2
  <2>6. ASSUME NEW n \in 1..m PROVE g[n] = turn[n][g[n - 1]]
    <3>1. n - 1 \in 0..m /\ n \in 0..m /\ n - 1 # m
      BY <2>2
    <3>2. g[n - 1] = f[n - 1]
      BY <3>1
    <3>3. CASE n = m
      BY <3>1, <3>2, <3>3
    <3>4. CASE n # m
      <4>1. n \in 1..(m - 1)
        BY <2>2, <3>4
      <4>2. f[n] = turn[n][f[n - 1]]
        BY <2>1, <4>1
      <4>3. g[n] = f[n]
        BY <3>1, <3>4
      <4> HIDE DEF g
      <4> QED
        BY <3>2, <4>2, <4>3
    <3> QED
      BY <3>3, <3>4
  <2> HIDE DEF g
  <2>7. Run(g, m)
    BY <2>4, <2>5, <2>6
  <2>8. m \in 0..k
    BY <2>2
  <2> QED
    BY <2>4, <2>7, <2>8
<1>3. k \in G
  <2> HIDE DEF G
  <2>1. \A n \in 0..k : n \in G
    BY <1>1, <1>2, Turns
  <2> QED
    BY <2>1
<1>4. \E f \in [0..k -> S] : Run(f, k)
  BY <1>3
<1> QED
  BY <1>4 DEF LoopRun

(* What FlattenSeq returns: the lists one after another, the i-th after    *)
(* the S[i - 1] entries of those before it.                                *)
Joins(seqs, S, F) ==
  /\ S \in [0..Len(seqs) -> Nat] /\ S[0] = 0
  /\ \A i \in 1..Len(seqs) : S[i] = S[i - 1] + Len(seqs[i])
  /\ IsList(F) /\ Len(F) = S[Len(seqs)]
  /\ \A i \in 1..Len(seqs) : \A t \in 1..Len(seqs[i]) : F[S[i - 1] + t] = seqs[i][t]

Lists(seqs) == IsList(seqs) /\ \A i \in 1..Len(seqs) : IsList(seqs[i])

LEMMA EndToEnd ==
  \A X : \A u, v \in Seq(X) :
    /\ u \o v \in Seq(X) /\ Len(u \o v) = Len(u) + Len(v)
    /\ \A i \in 1..Len(u) : (u \o v)[i] = u[i]
    /\ \A i \in 1..Len(v) : (u \o v)[Len(u) + i] = v[i]
  OBVIOUS

(* FlattenSeq is the loop that puts the next list behind those before.     *)
LEMMA FlattenRuns ==
  ASSUME NEW seqs, NEW X, IsList(seqs), NEW f,
         f \in [0..Len(seqs) -> Seq(X)], f[0] = <<>>,
         \A i \in 1..Len(seqs) : f[i] = f[i - 1] \o seqs[i] /\ seqs[i] \in Seq(X)
  PROVE  FlattenSeq(seqs) = f[Len(seqs)]
<1> DEFINE N == Len(seqs)
           flatten[i \in 1..Len(seqs)] == IF i = 1 THEN seqs[i] ELSE flatten[i - 1] \o seqs[i]
           Run(g) == g = [i \in 1..Len(seqs) |-> IF i = 1 THEN seqs[i] ELSE g[i - 1] \o seqs[i]]
           g == [i \in 1..N |-> f[i]]
<1>1. N \in Nat
  BY DEF IsList
<1>2. CASE N = 0
  <2>1. FlattenSeq(seqs) = seqs
    BY <1>2, Zenon DEF FlattenSeq
  <2>2. seqs = <<>>
    BY <1>2 DEF IsList
  <2> QED
    BY <1>2, <2>1, <2>2
<1>3. CASE N # 0
  <2>1. FlattenSeq(seqs) = flatten[N]
    <3>1. FlattenSeq(seqs) = IF Len(seqs) = 0 THEN seqs ELSE flatten[Len(seqs)]
      BY DEF FlattenSeq
    <3> HIDE DEF flatten
    <3> QED
      BY <1>3, <3>1, Zenon DEF N
  <2>2. \A i \in 1..N : g[i] = IF i = 1 THEN seqs[i] ELSE g[i - 1] \o seqs[i]
    <3> TAKE i \in 1..N
    <3>1. g[i] = f[i - 1] \o seqs[i] /\ seqs[i] \in Seq(X)
      OBVIOUS
    <3>2. CASE i = 1
      <4>1. f[i - 1] = <<>>
        BY <3>2
      <4>2. <<>> \o seqs[i] = seqs[i]
        BY <3>1
      <4> HIDE DEF g
      <4> QED
        BY <3>1, <3>2, <4>1, <4>2, Zenon
    <3>3. CASE i # 1
      <4>1. i - 1 \in 1..N
        BY <1>1, <3>3
      <4>2. g[i - 1] = f[i - 1]
        BY <4>1
      <4> HIDE DEF g
      <4> QED
        BY <3>1, <3>3, <4>2, Zenon
    <3> QED
      BY <3>2, <3>3
  <2>3. Run(g)
    <3>1. g = [i \in 1..N |-> g[i]]
      OBVIOUS
    <3> HIDE DEF g
    <3>2. [i \in 1..N |-> g[i]] = [i \in 1..N |-> IF i = 1 THEN seqs[i] ELSE g[i - 1] \o seqs[i]]
      BY <2>2, Zenon
    <3> QED
      BY <3>1, <3>2, Zenon DEF N
  <2>4. flatten = CHOOSE h : Run(h)
    OBVIOUS
  <2>5. Run(flatten)
    <3> HIDE DEF Run, flatten, g
    <3> QED
      BY <2>3, <2>4
  <2>6. \A i \in 1..N : flatten[i] = IF i = 1 THEN seqs[i] ELSE flatten[i - 1] \o seqs[i]
    <3> HIDE DEF flatten
    <3> QED
      BY <2>5, Zenon DEF Run
  <2> DEFINE G == {n \in 0..N : n = 0 \/ flatten[n] = g[n]}
  <2>7. 0 \in G
    BY <1>1
  <2>8. ASSUME NEW n \in 1..N, n - 1 \in G PROVE n \in G
    <3>1. n \in 0..N
      BY <1>1
    <3>2. n # 1 => flatten[n - 1] = g[n - 1]
      <4> HIDE DEF flatten, g
      <4>1. n - 1 = 0 \/ flatten[n - 1] = g[n - 1]
        BY <2>8
      <4> QED
        BY <4>1
    <3> HIDE DEF flatten, g
    <3>3. /\ g[n] = IF n = 1 THEN seqs[n] ELSE g[n - 1] \o seqs[n]
          /\ flatten[n] = IF n = 1 THEN seqs[n] ELSE flatten[n - 1] \o seqs[n]
      BY <2>2, <2>6, Zenon
    <3>4. flatten[n] = g[n]
      <4>1. CASE n = 1
        BY <3>3, <4>1, Zenon
      <4>2. CASE n # 1
        <5>1. flatten[n - 1] = g[n - 1]
          BY <3>2, <4>2, Zenon
        <5> QED
          BY <3>3, <4>2, <5>1, Zenon
      <4> QED
        BY <4>1, <4>2, Zenon
    <3> QED
      BY <3>1, <3>4
  <2>9. \A n \in 0..N : n \in G
    <3> HIDE DEF G, flatten, g
    <3> QED
      BY <1>1, <2>7, <2>8, Turns
  <2>10. N \in 0..N
    BY <1>1
  <2>11. flatten[N] = g[N]
    <3> HIDE DEF flatten, g
    <3> QED
      BY <1>3, <2>9, <2>10, Zenon
  <2>12. g[N] = f[N]
    BY <1>1, <1>3
  <2> HIDE DEF flatten, g
  <2> QED
    BY <2>1, <2>11, <2>12, Zenon
<1> QED
  BY <1>2, <1>3

(* FlattenSeq joins lists.                                                 *)
LEMMA FlatIs == \A seqs : Lists(seqs) => \E S : Joins(seqs, S, FlattenSeq(seqs))
<1> TAKE seqs
<1> HAVE Lists(seqs)
<1> DEFINE N == Len(seqs)
           E(i) == {seqs[i][t] : t \in 1..Len(seqs[i])}
           X == UNION {E(i) : i \in 1..N}
           turn == [n \in 1..N |-> [s \in Seq(X) |-> s \o seqs[n]]]
<1>1. N \in Nat /\ IsList(seqs) /\ \A i \in 1..N : IsList(seqs[i])
  BY DEF Lists, IsList
<1>2. \A i \in 1..N : seqs[i] \in Seq(X)
  <2> TAKE i \in 1..N
  <2>1. seqs[i] \in Seq(E(i))
    BY <1>1, SeqList, Zenon
  <2>2. E(i) \subseteq X
    OBVIOUS
  <2> HIDE DEF E, X
  <2> QED
    BY <2>1, <2>2
<1> HIDE DEF X
<1>3. \E f : LoopRun(f, N, Seq(X), <<>>, turn)
  <2>1. turn \in [1..N -> [Seq(X) -> Seq(X)]]
    <3>1. \A n \in 1..N : \A s \in Seq(X) : s \o seqs[n] \in Seq(X)
      BY <1>2, EndToEnd
    <3> QED
      BY <3>1
  <2>2. <<>> \in Seq(X)
    OBVIOUS
  <2> HIDE DEF turn, N
  <2> QED
    BY <1>1, <2>1, <2>2, LoopRuns
<1>4. PICK f : LoopRun(f, N, Seq(X), <<>>, turn)
  BY <1>3
<1>5. /\ f \in [0..N -> Seq(X)] /\ f[0] = <<>>
      /\ \A i \in 1..N : i - 1 \in 0..N /\ f[i] = f[i - 1] \o seqs[i]
  <2>1. /\ f \in [0..N -> Seq(X)] /\ f[0] = <<>>
        /\ \A i \in 1..N : f[i] = turn[i][f[i - 1]]
    <3> HIDE DEF turn
    <3> QED
      BY <1>4 DEF LoopRun
  <2>2. \A i \in 1..N : i - 1 \in 0..N
    BY <1>1
  <2>3. \A i \in 1..N : f[i - 1] \in Seq(X)
    BY <2>1, <2>2
  <2>4. \A i \in 1..N : turn[i][f[i - 1]] = f[i - 1] \o seqs[i]
    BY <2>3
  <2> HIDE DEF turn
  <2> QED
    BY <2>1, <2>2, <2>4
<1> HIDE DEF turn
<1>6. FlattenSeq(seqs) = f[N]
  BY <1>1, <1>2, <1>5, FlattenRuns
<1> DEFINE S == [n \in 0..N |-> Len(f[n])]
<1>7. S \in [0..N -> Nat] /\ S[0] = 0
  BY <1>1, <1>5
<1>8. \A i \in 1..N : S[i] = S[i - 1] + Len(seqs[i]) /\ i \in 0..N
  <2> TAKE i \in 1..N
  <2>1. i - 1 \in 0..N /\ i \in 0..N
    BY <1>1
  <2>2. f[i - 1] \in Seq(X) /\ seqs[i] \in Seq(X)
    BY <1>2, <1>5, <2>1
  <2>3. Len(f[i - 1] \o seqs[i]) = Len(f[i - 1]) + Len(seqs[i])
    BY <2>2, EndToEnd
  <2> QED
    BY <1>5, <2>1, <2>3
<1>9. \A n \in 0..N : S[n] = Len(f[n])
  OBVIOUS
<1> HIDE DEF S
<1>10. IsList(f[N]) /\ Len(f[N]) = S[N]
  <2>1. N \in 0..N /\ f[N] \in Seq(X)
    BY <1>1, <1>5
  <2>2. IsList(f[N])
    BY <2>1 DEF IsList
  <2> QED
    BY <1>9, <2>1, <2>2
<1> DEFINE Placed(n, i) == \A t \in 1..Len(seqs[i]) :
                             S[i - 1] + t \in 1..S[n] /\ f[n][S[i - 1] + t] = seqs[i][t]
           G == {n \in 0..N : \A i \in 1..n : Placed(n, i)}
<1>11. 0 \in G
  BY <1>1
<1>12. ASSUME NEW n \in 1..N, n - 1 \in G PROVE n \in G
  <2>1. n \in 0..N /\ n - 1 \in 0..N
    BY <1>1
  <2>2. f[n - 1] \in Seq(X) /\ seqs[n] \in Seq(X) /\ f[n] = f[n - 1] \o seqs[n]
    BY <1>2, <1>5, <2>1
  <2>3. /\ \A x \in 1..S[n - 1] : f[n][x] = f[n - 1][x]
        /\ \A x \in 1..Len(seqs[n]) : f[n][S[n - 1] + x] = seqs[n][x]
    <3>1. S[n - 1] = Len(f[n - 1])
      BY <1>9, <2>1
    <3> DEFINE u == f[n - 1]
               v == seqs[n]
    <3>2. u \in Seq(X) /\ v \in Seq(X) /\ f[n] = u \o v
      BY <2>2
    <3> HIDE DEF u, v
    <3>3. /\ \A x \in 1..Len(u) : (u \o v)[x] = u[x]
          /\ \A x \in 1..Len(v) : (u \o v)[Len(u) + x] = v[x]
      BY <3>2, EndToEnd
    <3> QED
      BY <3>1, <3>2, <3>3, Zenon DEF u, v
  <2>4. S[n - 1] \in Nat /\ Len(seqs[n]) \in Nat /\ S[n] = S[n - 1] + Len(seqs[n])
    <3>1. Len(seqs[n]) \in Nat
      BY <2>2
    <3> HIDE DEF Placed, G, N
    <3> QED
      BY <1>7, <1>8, <2>1, <3>1
  <2>5. \A i \in 1..(n - 1) : Placed(n - 1, i)
    BY <1>12
  <2>6. ASSUME NEW i \in 1..n PROVE Placed(n, i)
    <3>1. CASE i = n
      <4>1. \A t \in 1..Len(seqs[n]) : S[n - 1] + t \in 1..S[n]
        BY <2>4
      <4> QED
        BY <2>3, <3>1, <4>1
    <3>2. CASE i # n
      <4>1. i \in 1..(n - 1)
        BY <2>1, <3>2
      <4>2. Placed(n - 1, i)
        BY <2>5, <4>1
      <4>3. \A x \in 1..S[n - 1] : x \in 1..S[n]
        BY <2>4
      <4> QED
        BY <2>3, <4>2, <4>3
    <3> QED
      BY <3>1, <3>2
  <2> HIDE DEF Placed
  <2> QED
    BY <2>1, <2>6
<1>13. \A i \in 1..N : Placed(N, i)
  <2>1. \A n \in 0..N : n \in G
    <3> HIDE DEF G, N
    <3> QED
      BY <1>1, <1>11, <1>12, Turns
  <2>2. N \in G
    BY <1>1, <2>1
  <2> HIDE DEF Placed
  <2> QED
    BY <2>2
<1>14. Joins(seqs, S, f[N])
  <2>1. \A i \in 1..N : \A t \in 1..Len(seqs[i]) : f[N][S[i - 1] + t] = seqs[i][t]
    BY <1>13
  <2>2. \A i \in 1..N : S[i] = S[i - 1] + Len(seqs[i])
    BY <1>8
  <2> QED
    BY <1>7, <1>10, <2>1, <2>2, Zenon DEF Joins, N
<1> QED
  BY <1>6, <1>14

(* Where the parts of what was joined begin rises, and every entry is in   *)
(* one of them.                                                            *)
Starts(S, N) == /\ N \in Nat /\ S \in [0..N -> Nat] /\ S[0] = 0
                /\ \A i \in 1..N : S[i - 1] <= S[i]

LEMMA Rising == \A S, N : Starts(S, N) => \A i, j \in 0..N : i <= j => S[i] <= S[j]
<1> TAKE S, N
<1> HAVE Starts(S, N)
<1> DEFINE G == {n \in 0..N : \A i \in 0..n : S[i] <= S[n]}
<1>1. N \in Nat /\ S \in [0..N -> Nat] /\ \A i \in 1..N : S[i - 1] <= S[i]
  BY DEF Starts
<1>2. 0 \in G
  BY <1>1
<1>3. ASSUME NEW n \in 1..N, n - 1 \in G PROVE n \in G
  <2>1. n \in 0..N /\ n - 1 \in 0..N /\ S[n] \in Nat /\ S[n - 1] \in Nat /\ S[n - 1] <= S[n]
    BY <1>1
  <2>2. ASSUME NEW i \in 0..n PROVE S[i] <= S[n]
    <3>1. i \in 0..N /\ S[i] \in Nat
      BY <1>1
    <3>2. CASE i = n
      BY <3>1, <3>2
    <3>3. CASE i # n
      <4>1. i \in 0..(n - 1)
        BY <1>1, <3>3
      <4>2. S[i] <= S[n - 1]
        BY <1>3, <4>1
      <4> HIDE DEF G
      <4> QED
        BY <2>1, <3>1, <4>2
    <3> QED
      BY <3>2, <3>3
  <2> QED
    BY <2>1, <2>2
<1>4. \A n \in 0..N : n \in G
  <2> HIDE DEF G
  <2> QED
    BY <1>1, <1>2, <1>3, Turns
<1> TAKE i, j \in 0..N
<1> HAVE i <= j
<1>5. i \in 0..j
  OBVIOUS
<1> QED
  BY <1>4, <1>5

(* Every place of the joined list is in one of its parts.                  *)
LEMMA InAPart ==
  \A S, N : Starts(S, N) => \A k \in 1..S[N] : \E i \in 1..N : S[i - 1] < k /\ k <= S[i]
<1> TAKE S, N
<1> HAVE Starts(S, N)
<1> TAKE k \in 1..S[N]
<1> DEFINE G == {n \in 0..N : S[n] < k}
<1>1. N \in Nat /\ S \in [0..N -> Nat] /\ S[0] = 0 /\ N \in 0..N /\ k \in Nat /\ k <= S[N] /\ k >= 1
  BY DEF Starts
<1>2. SUFFICES ASSUME \A i \in 1..N : ~ (S[i - 1] < k /\ k <= S[i]) PROVE FALSE
  OBVIOUS
<1>3. 0 \in G
  BY <1>1
<1>4. ASSUME NEW n \in 1..N, n - 1 \in G PROVE n \in G
  <2>1. n \in 0..N /\ S[n] \in Nat /\ S[n - 1] < k
    BY <1>1, <1>4
  <2>2. ~ (k <= S[n])
    BY <1>2, <2>1
  <2> QED
    BY <1>1, <2>1, <2>2
<1>5. \A n \in 0..N : n \in G
  <2> HIDE DEF G
  <2> QED
    BY <1>1, <1>3, <1>4, Turns
<1>6. S[N] < k /\ S[N] \in Nat
  BY <1>1, <1>5
<1> QED
  BY <1>1, <1>6

LEMMA JoinStarts == \A seqs, S, F : Lists(seqs) /\ Joins(seqs, S, F) => Starts(S, Len(seqs))
<1> TAKE seqs, S, F
<1> HAVE Lists(seqs) /\ Joins(seqs, S, F)
<1>1. Len(seqs) \in Nat /\ \A i \in 1..Len(seqs) : Len(seqs[i]) \in Nat
  BY DEF Lists, IsList
<1>2. /\ S \in [0..Len(seqs) -> Nat] /\ S[0] = 0
      /\ \A i \in 1..Len(seqs) : S[i] = S[i - 1] + Len(seqs[i])
  BY DEF Joins
<1>3. ASSUME NEW i \in 1..Len(seqs) PROVE S[i - 1] <= S[i]
  <2>1. i - 1 \in 0..Len(seqs)
    BY <1>1
  <2>2. S[i - 1] \in Nat /\ Len(seqs[i]) \in Nat /\ S[i] = S[i - 1] + Len(seqs[i])
    BY <1>1, <1>2, <2>1
  <2> QED
    BY <2>2
<1> QED
  BY <1>1, <1>2, <1>3 DEF Starts

(***************************************************************************)
(* Search: the text of a row                                               *)
(***************************************************************************)
(* A cell stands for no character, one, or two that differ.                *)
LEMMA CellTexts ==
  \A c : /\ IsList(CellText(c)) /\ Len(CellText(c)) \in 0..2
         /\ Len(CellText(c)) = 2 => CellText(c)[1] # CellText(c)[2]
<1> TAKE c
<1>1. CellText(c) \in {<<>>, <<"a">>, <<"i", ".">>, <<c>>}
  BY DEF CellText, ToLowercase
<1>2. \A s \in {<<>>, <<"a">>, <<"i", ".">>, <<c>>} :
        Len(s) \in 0..2 /\ IsList(s) /\ (Len(s) = 2 => s[1] = "i" /\ s[2] = ".")
  <2>1. Len(<<>>) \in 0..2 /\ IsList(<<>>) /\ Len(<<>>) # 2
    BY DEF IsList
  <2>2. \A x : Len(<<x>>) \in 0..2 /\ IsList(<<x>>) /\ Len(<<x>>) # 2
    BY DEF IsList
  <2>3. \A x, y : /\ Len(<<x, y>>) \in 0..2 /\ IsList(<<x, y>>)
                  /\ <<x, y>>[1] = x /\ <<x, y>>[2] = y
    BY DEF IsList
  <2> DEFINE Good(s) == Len(s) \in 0..2 /\ IsList(s) /\ (Len(s) = 2 => s[1] = "i" /\ s[2] = ".")
  <2>4. Good(<<>>) /\ Good(<<"a">>) /\ Good(<<c>>)
    BY <2>1, <2>2, Zenon
  <2>5. Good(<<"i", ".">>)
    BY <2>3, Zenon
  <2> HIDE DEF Good
  <2>6. \A s \in {<<>>, <<"a">>, <<"i", ".">>, <<c>>} : Good(s)
    BY <2>4, <2>5, Zenon
  <2> QED
    BY <2>6, Zenon DEF Good
<1>3. "i" # "."
  OBVIOUS
<1> QED
  BY <1>1, <1>2, <1>3

(* The text of a row, the cells before the i-th of which have S[i]         *)
(* characters.                                                             *)
RowIs(row, S, text) ==
  /\ IsList(row) /\ S \in [0..Len(row) -> Nat] /\ S[0] = 0
  /\ \A i \in 1..Len(row) : S[i] = S[i - 1] + Len(CellText(row[i]))
  /\ IsList(text) /\ Len(text) = S[Len(row)]
  /\ \A i \in 1..Len(row) : \A t \in 1..Len(CellText(row[i])) :
       text[S[i - 1] + t] = [char |-> CellText(row[i])[t], col |-> i - 1]

(* RowText is the text of a row.                                           *)
LEMMA RowTextIs == \A row : IsList(row) => \E S : RowIs(row, S, RowText(row))
<1> TAKE row
<1> HAVE IsList(row)
<1> DEFINE seqs == [i \in DOMAIN row |-> CellAt(row[i], i - 1)]
<1>1. Len(row) \in Nat /\ DOMAIN row = 1..Len(row)
  BY DEF IsList
<1>2. IsList(seqs) /\ Len(seqs) = Len(row)
  BY <1>1 DEF IsList
<1>3. ASSUME NEW i \in 1..Len(row)
      PROVE  /\ seqs[i] = CellAt(row[i], i - 1) /\ IsList(seqs[i])
             /\ Len(seqs[i]) = Len(CellText(row[i]))
             /\ \A t \in 1..Len(CellText(row[i])) :
                  seqs[i][t] = [char |-> CellText(row[i])[t], col |-> i - 1]
  <2> DEFINE text == CellText(row[i])
  <2>1. Len(text) \in Nat /\ DOMAIN text = 1..Len(text)
    BY CellTexts DEF IsList
  <2>2. seqs[i] = [k \in DOMAIN text |-> [char |-> text[k], col |-> i - 1]]
    BY <1>1, Zenon DEF CellAt
  <2>3. seqs[i] = CellAt(row[i], i - 1)
    BY <1>1
  <2> HIDE DEF seqs, text
  <2>4. IsList(seqs[i]) /\ Len(seqs[i]) = Len(text)
    BY <2>1, <2>2 DEF IsList
  <2>5. \A t \in 1..Len(text) : seqs[i][t] = [char |-> text[t], col |-> i - 1]
    BY <2>1, <2>2
  <2> QED
    BY <2>3, <2>4, <2>5 DEF text
<1>4. RowText(row) = FlattenSeq(seqs)
  BY DEF RowText
<1> HIDE DEF seqs
<1>5. Lists(seqs)
  BY <1>2, <1>3 DEF Lists
<1>6. PICK S : Joins(seqs, S, RowText(row))
  BY <1>4, <1>5, FlatIs
<1>7. /\ S \in [0..Len(row) -> Nat] /\ S[0] = 0
      /\ \A i \in 1..Len(row) : S[i] = S[i - 1] + Len(CellText(row[i]))
      /\ IsList(RowText(row)) /\ Len(RowText(row)) = S[Len(row)]
  BY <1>2, <1>3, <1>6 DEF Joins
<1>8. \A i \in 1..Len(row) : \A t \in 1..Len(CellText(row[i])) :
        RowText(row)[S[i - 1] + t] = [char |-> CellText(row[i])[t], col |-> i - 1]
  <2> TAKE i \in 1..Len(row)
  <2> TAKE t \in 1..Len(CellText(row[i]))
  <2>1. i \in 1..Len(seqs) /\ t \in 1..Len(seqs[i])
    BY <1>2, <1>3
  <2>2. RowText(row)[S[i - 1] + t] = seqs[i][t]
    BY <1>6, <2>1, Zenon DEF Joins
  <2>3. seqs[i][t] = [char |-> CellText(row[i])[t], col |-> i - 1]
    BY <1>3, Zenon
  <2> QED
    BY <2>2, <2>3
<1> QED
  BY <1>7, <1>8, Zenon DEF RowIs

LEMMA RowStarts == \A row, S, text : RowIs(row, S, text) => Starts(S, Len(row))
<1> TAKE row, S, text
<1> HAVE RowIs(row, S, text)
<1>1. /\ Len(row) \in Nat /\ S \in [0..Len(row) -> Nat] /\ S[0] = 0
      /\ \A i \in 1..Len(row) : S[i] = S[i - 1] + Len(CellText(row[i]))
  BY DEF RowIs, IsList
<1>2. \A i \in 1..Len(row) : Len(CellText(row[i])) \in Nat
  BY CellTexts
<1>3. ASSUME NEW i \in 1..Len(row) PROVE S[i - 1] <= S[i]
  <2>1. i - 1 \in 0..Len(row)
    BY <1>1
  <2>2. S[i - 1] \in Nat /\ Len(CellText(row[i])) \in Nat /\ S[i] = S[i - 1] + Len(CellText(row[i]))
    BY <1>1, <1>2, <2>1
  <2> QED
    BY <2>2
<1> QED
  BY <1>1, <1>3 DEF Starts

(* A character is of its column's cell, in which no two that follow each   *)
(* other are the same.                                                     *)
InColumn(row, S, text, k) ==
  LET col == text[k].col
  IN /\ col \in 0..(Len(row) - 1) /\ S[col] < k /\ k <= S[col + 1]
     /\ S[col] \in Nat /\ S[col + 1] \in Nat /\ S[col + 1] <= S[col] + 2
     /\ S[col + 1] = S[col] + Len(CellText(row[col + 1]))
     /\ k + 1 <= S[col + 1] => text[k].char # text[k + 1].char

(* Every character of the text is in the column it says.                   *)
LEMMA Columns ==
  \A row, S, text : RowIs(row, S, text) => \A k \in 1..Len(text) : InColumn(row, S, text, k)
<1> TAKE row, S, text
<1> HAVE RowIs(row, S, text)
<1> TAKE k \in 1..Len(text)
<1> DEFINE N == Len(row)
<1>1. /\ N \in Nat /\ S \in [0..N -> Nat] /\ Len(text) = S[N]
      /\ \A i \in 1..N : S[i] = S[i - 1] + Len(CellText(row[i]))
      /\ \A i \in 1..N : \A t \in 1..Len(CellText(row[i])) :
           text[S[i - 1] + t] = [char |-> CellText(row[i])[t], col |-> i - 1]
  BY DEF RowIs, IsList
<1>2. Starts(S, N)
  BY RowStarts
<1>3. PICK i \in 1..N : S[i - 1] < k /\ k <= S[i]
  BY <1>1, <1>2, InAPart
<1> DEFINE c == CellText(row[i])
           t == k - S[i - 1]
<1>4. Len(c) \in 0..2 /\ (Len(c) = 2 => c[1] # c[2])
  BY CellTexts
<1> HIDE DEF N, c
<1> DEFINE l == Len(c)
<1>13. l \in {0, 1, 2}
  BY <1>4
<1>5. i - 1 \in 0..(N - 1) /\ i \in 0..N /\ S[i - 1] \in Nat /\ S[i] \in Nat /\ k \in Nat /\ i - 1 + 1 = i
  BY <1>1
<1>6. S[i] = S[i - 1] + l
  BY <1>1 DEF c
<1> HIDE DEF l
<1>12. S[i] <= S[i - 1] + 2
  BY <1>5, <1>6, <1>13
<1>7. t \in 1..Len(c) /\ S[i - 1] + t = k
  BY <1>3, <1>5, <1>6 DEF l
<1>8. \A x \in 1..Len(c) : text[S[i - 1] + x] = [char |-> c[x], col |-> i - 1]
  BY <1>1 DEF c
<1>9. text[k] = [char |-> c[t], col |-> i - 1]
  BY <1>7, <1>8
<1>10. k + 1 <= S[i] => text[k].char # text[k + 1].char
  <2> HAVE k + 1 <= S[i]
  <2>1. t = 1 /\ Len(c) = 2 /\ 2 \in 1..Len(c) /\ S[i - 1] + 2 = k + 1
    <3>1. t \in 1..l /\ t = k - S[i - 1]
      BY <1>7 DEF l
    <3>2. S[i - 1] + 2 = k + 1 /\ l = 2 /\ t = 1
      BY <1>5, <1>6, <1>13, <3>1
    <3>3. 2 \in 1..2
      OBVIOUS
    <3> QED
      BY <3>2, <3>3 DEF l
  <2>2. text[k + 1] = [char |-> c[2], col |-> i - 1]
    BY <1>8, <2>1
  <2> HIDE DEF t
  <2> QED
    BY <1>4, <1>9, <2>1, <2>2
<1>11. text[k].col = i - 1
  BY <1>9
<1> QED
  BY <1>3, <1>5, <1>6, <1>10, <1>11, <1>12, Zenon DEF InColumn, N, l, c

(* Columns rise along the text.                                            *)
LEMMA ColumnsRise ==
  \A row, S, text : RowIs(row, S, text) =>
    \A k \in 1..Len(text) : \A a \in 0..(Len(row) - 1) :
      /\ S[a] < k <=> a <= text[k].col
      /\ k <= S[a + 1] <=> text[k].col <= a
<1> TAKE row, S, text
<1> HAVE RowIs(row, S, text)
<1> TAKE k \in 1..Len(text)
<1> TAKE a \in 0..(Len(row) - 1)
<1> DEFINE col == text[k].col
<1>1. Starts(S, Len(row)) /\ Len(row) \in Nat /\ S \in [0..Len(row) -> Nat]
  BY RowStarts DEF RowIs, IsList
<1>2. Len(text) \in Nat
  BY DEF RowIs, IsList
<1>3. col \in 0..(Len(row) - 1) /\ S[col] < k /\ k <= S[col + 1]
  BY Columns DEF InColumn
<1> HIDE DEF col
<1>4. /\ a \in 0..Len(row) /\ a + 1 \in 0..Len(row) /\ col \in 0..Len(row) /\ col + 1 \in 0..Len(row)
      /\ S[a] \in Nat /\ S[a + 1] \in Nat /\ S[col] \in Nat /\ S[col + 1] \in Nat /\ k \in Nat
  BY <1>1, <1>2, <1>3
<1>5. /\ a <= col => S[a] <= S[col]
      /\ col <= a => S[col + 1] <= S[a + 1]
      /\ col + 1 <= a => S[col + 1] <= S[a]
      /\ a + 1 <= col => S[a + 1] <= S[col]
  <2>1. \A i, j \in 0..Len(row) : i <= j => S[i] <= S[j]
    BY <1>1, Rising
  <2>2. col <= a => col + 1 <= a + 1
    BY <1>4
  <2> QED
    BY <1>4, <2>1, <2>2
<1>6. S[a] < k <=> a <= col
  BY <1>3, <1>4, <1>5
<1>7. k <= S[a + 1] <=> col <= a
  BY <1>3, <1>4, <1>5
<1> QED
  BY <1>6, <1>7 DEF col

(* The characters of some cells are those of the row's text that are in    *)
(* their columns.                                                          *)
LettersOf(row) == FlattenSeq([i \in DOMAIN row |-> CellText(row[i])])

LEMMA PartIs ==
  ASSUME NEW row, NEW S, NEW text, RowIs(row, S, text),
         NEW b \in 0..(Len(row) - 1), NEW a \in 0..b
  PROVE  LET F == LettersOf(SubSeq(row, a + 1, b + 1))
         IN /\ IsList(F) /\ Len(F) = S[b + 1] - S[a]
            /\ \A k \in 1..Len(F) : S[a] + k \in 1..Len(text) /\ F[k] = text[S[a] + k].char
<1> DEFINE N == Len(row)
           M == b - a + 1
           p == SubSeq(row, a + 1, b + 1)
           seqs == [i \in DOMAIN p |-> CellText(p[i])]
           F == FlattenSeq(seqs)
<1>1. /\ N \in Nat /\ S \in [0..N -> Nat] /\ Len(text) = S[N] /\ IsList(row)
      /\ \A i \in 1..N : S[i] = S[i - 1] + Len(CellText(row[i]))
      /\ \A i \in 1..N : \A t \in 1..Len(CellText(row[i])) :
           text[S[i - 1] + t] = [char |-> CellText(row[i])[t], col |-> i - 1]
  BY DEF RowIs, IsList
<1>2. a \in Nat /\ b \in Nat /\ a <= b /\ b < N /\ M \in Nat
  BY <1>1
<1>3. /\ \A i \in 0..M : a + i \in 0..N
      /\ \A i \in 1..M : a + i \in 1..N /\ a + i - 1 = a + (i - 1) /\ i - 1 \in 0..M
      /\ M \in 0..M /\ a + M = b + 1 /\ a \in 0..N /\ b + 1 \in 0..N
  BY <1>1, <1>2
<1>4. Len(p) = M /\ DOMAIN p = 1..M /\ \A i \in 1..M : p[i] = row[a + i]
  <2>1. row \in Seq({row[i] : i \in 1..N})
    BY <1>1, SeqList, Zenon
  <2>2. p = [i \in 1..(b + 1 - (a + 1) + 1) |-> row[i + (a + 1) - 1]]
    BY <1>2, <2>1
  <2>3. b + 1 - (a + 1) + 1 = M /\ \A i \in 1..M : i + (a + 1) - 1 = a + i
    BY <1>2
  <2>4. p = [i \in 1..M |-> row[a + i]]
    <3> HIDE DEF p, M
    <3> QED
      BY <2>2, <2>3
  <2> HIDE DEF p, M
  <2> QED
    BY <1>2, <2>4
<1> HIDE DEF p, M
<1>5. IsList(seqs) /\ Len(seqs) = M
  BY <1>2, <1>4 DEF IsList
<1>6. \A i \in 1..M : seqs[i] = CellText(row[a + i])
  BY <1>4
<1> HIDE DEF seqs
<1>7. Lists(seqs)
  <2>1. \A i \in 1..M : IsList(seqs[i])
    BY <1>6, CellTexts
  <2> QED
    BY <1>5, <2>1 DEF Lists
<1>8. PICK T : Joins(seqs, T, F)
  BY <1>7, FlatIs
<1>9. /\ T \in [0..M -> Nat] /\ T[0] = 0 /\ IsList(F) /\ Len(F) = T[M]
      /\ \A i \in 1..M : T[i] = T[i - 1] + Len(CellText(row[a + i]))
      /\ \A i \in 1..M : \A t \in 1..Len(CellText(row[a + i])) :
           F[T[i - 1] + t] = CellText(row[a + i])[t]
  <2>1. /\ T \in [0..M -> Nat] /\ T[0] = 0 /\ IsList(F) /\ Len(F) = T[M]
        /\ \A i \in 1..M : T[i] = T[i - 1] + Len(seqs[i])
        /\ \A i \in 1..M : \A t \in 1..Len(seqs[i]) : F[T[i - 1] + t] = seqs[i][t]
    BY <1>5, <1>8, Zenon DEF Joins
  <2> HIDE DEF F
  <2> QED
    BY <1>6, <2>1
<1>10. Starts(T, M)
  BY <1>5, <1>7, <1>8, JoinStarts
<1> HIDE DEF F
<1> DEFINE G == {n \in 0..M : T[n] = S[a + n] - S[a]}
<1>11. \A n \in 0..M : n \in G
  <2>1. 0 \in G
    <3>1. S[a] \in Nat /\ a + 0 = a /\ 0 \in 0..M
      <4>1. a \in 0..N /\ S \in [0..N -> Nat]
        BY <1>1, <1>3
      <4> QED
        BY <1>2, <4>1
    <3> QED
      BY <1>9, <3>1
  <2>2. ASSUME NEW n \in 1..M, n - 1 \in G PROVE n \in G
    <3> DEFINE l == Len(CellText(row[a + n]))
    <3>1. l \in Nat
      BY CellTexts
    <3>2. T[n] = T[n - 1] + l /\ S[a + n] = S[a + n - 1] + l
      <4> HIDE DEF G, F
      <4>1. T[n] = T[n - 1] + l
        BY <1>9
      <4> DEFINE j == a + n
      <4>2. j \in 1..N
        BY <1>3
      <4> HIDE DEF j, N
      <4>3. S[j] = S[j - 1] + Len(CellText(row[j]))
        BY <1>1, <4>2
      <4>4. j = a + n /\ j - 1 = a + n - 1 /\ row[j] = row[a + n]
        BY <1>2, <4>2 DEF j
      <4>5. S[a + n] = S[a + n - 1] + Len(CellText(row[a + n]))
        BY <4>3, <4>4, Zenon
      <4> QED
        BY <4>1, <4>5
    <3>3. n \in 0..M /\ n - 1 \in 0..M /\ a + n - 1 = a + (n - 1)
      BY <1>2, <1>3
    <3>4. /\ S[a] \in Nat /\ S[a + n] \in Nat /\ S[a + (n - 1)] \in Nat
          /\ T[n] \in Nat /\ T[n - 1] \in Nat
      BY <1>1, <1>3, <1>9, <3>3
    <3>5. T[n - 1] = S[a + (n - 1)] - S[a]
      BY <2>2
    <3> HIDE DEF l
    <3>6. T[n] = S[a + n] - S[a]
      <4> DEFINE u == S[a + n]  v == S[a + (n - 1)]  w == S[a]  x == T[n]  y == T[n - 1]
      <4>1. u \in Nat /\ v \in Nat /\ w \in Nat /\ x \in Nat /\ y \in Nat
        BY <3>4
      <4>2. x = y + l /\ u = v + l
        BY <3>2, <3>3, Zenon
      <4>3. y = v - w
        BY <3>5
      <4> HIDE DEF u, v, w, x, y
      <4>4. x = u - w
        BY <3>1, <4>1, <4>2, <4>3
      <4> QED
        BY <4>4, Zenon DEF u, w, x
    <3> QED
      BY <3>3, <3>6
  <2> HIDE DEF G
  <2> QED
    BY <1>2, <2>1, <2>2, Turns
<1>12. Len(F) = S[b + 1] - S[a]
  BY <1>3, <1>9, <1>11
<1>13. ASSUME NEW k \in 1..Len(F)
       PROVE  S[a] + k \in 1..Len(text) /\ F[k] = text[S[a] + k].char
  <2>1. k \in 1..T[M]
    BY <1>9
  <2>2. PICK i \in 1..M : T[i - 1] < k /\ k <= T[i]
    BY <1>10, <2>1, InAPart
  <2> DEFINE c == CellText(row[a + i])
             t == k - T[i - 1]
  <2>3. Len(c) \in Nat
    BY CellTexts
  <2>4. i - 1 \in 0..M /\ i \in 0..M /\ a + i \in 1..N /\ a + i - 1 = a + (i - 1) /\ a + i \in 0..N
    BY <1>2, <1>3
  <2>5. T[i] = T[i - 1] + Len(c) /\ T[i - 1] \in Nat /\ T[i] \in Nat
    BY <1>9, <2>4
  <2>6. k \in Nat /\ k >= 1
    OBVIOUS
  <2>7. /\ \A x \in 1..Len(c) : F[T[i - 1] + x] = c[x]
        /\ \A x \in 1..Len(c) : text[S[a + i - 1] + x] = [char |-> c[x], col |-> a + i - 1]
    <3>1. \A x \in 1..Len(c) : F[T[i - 1] + x] = c[x]
      BY <1>9
    <3> DEFINE j == a + i
    <3>2. j \in 1..N
      BY <2>4
    <3> HIDE DEF j, N
    <3>3. \A x \in 1..Len(CellText(row[j])) :
            text[S[j - 1] + x] = [char |-> CellText(row[j])[x], col |-> j - 1]
      BY <1>1, <3>2, Zenon
    <3>4. \A x \in 1..Len(c) : text[S[a + i - 1] + x] = [char |-> c[x], col |-> a + i - 1]
      BY <3>3 DEF j
    <3> QED
      BY <3>1, <3>4
  <2> HIDE DEF c
  <2>8. t \in 1..Len(c) /\ T[i - 1] + t = k
    BY <2>2, <2>3, <2>5, <2>6
  <2>9. T[i - 1] = S[a + (i - 1)] - S[a] /\ S[a] \in Nat /\ S[a + (i - 1)] \in Nat
    BY <1>1, <1>3, <1>11, <2>4
  <2>10. S[a + i - 1] + t = S[a] + k
    <3>1. S[a + i - 1] = S[a + (i - 1)]
      BY <2>4
    <3> DEFINE x == S[a + (i - 1)]
               y == S[a]
               z == T[i - 1]
    <3>2. x \in Nat /\ y \in Nat /\ z \in Nat /\ z = x - y /\ k \in Nat
      BY <2>5, <2>6, <2>9
    <3> HIDE DEF x, y, z
    <3>3. x + (k - z) = y + k
      BY <3>2
    <3> QED
      BY <3>1, <3>3, Zenon DEF x, y, z
  <2>11. F[k] = c[t] /\ text[S[a] + k] = [char |-> c[t], col |-> a + i - 1]
    <3>1. F[T[i - 1] + t] = c[t] /\ text[S[a + i - 1] + t] = [char |-> c[t], col |-> a + i - 1]
      BY <2>7, <2>8
    <3> HIDE DEF t
    <3> QED
      BY <2>8, <2>10, <3>1
  <2>12. S[a] + k \in 1..Len(text)
    <3>1. T[i] = S[a + i] - S[a] /\ S[a + i] \in Nat
      BY <1>1, <1>11, <2>4
    <3>2. S[a + i] <= S[N] /\ S[N] \in Nat
      <4>1. Starts(S, N) /\ N \in 0..N /\ a + i <= N
        BY <1>1, <2>4, RowStarts
      <4> QED
        BY <1>1, <2>4, <4>1, Rising
    <3> DEFINE x == S[a + i]
               y == S[a]
               z == T[i]
    <3>3. x \in Nat /\ y \in Nat /\ z \in Nat /\ z = x - y /\ k \in Nat /\ k >= 1 /\ k <= z
      BY <2>2, <2>5, <2>6, <2>9, <3>1
    <3>4. Len(text) = S[N]
      BY <1>1
    <3> HIDE DEF x, y, z
    <3>5. y + k \in 1..x
      BY <3>3
    <3>6. x <= S[N] /\ S[N] \in Nat
      BY <3>2 DEF x
    <3>7. y + k \in 1..S[N]
      BY <3>3, <3>5, <3>6
    <3> QED
      BY <3>4, <3>7, Zenon DEF y
  <2> QED
    BY <2>11, <2>12
<1>14. F = LettersOf(SubSeq(row, a + 1, b + 1))
  BY DEF LettersOf, F, seqs, p
<1> QED
  BY <1>9, <1>12, <1>13, <1>14

(***************************************************************************)
(* Search: where a needle is found                                         *)
(***************************************************************************)
LEMMA OccursIs ==
  \A h, s : IsList(h) /\ IsList(s) => \A i \in 1..Len(h) :
    OccursAt(h, s, i) <=>
      i + Len(s) - 1 <= Len(h) /\ \A t \in 1..Len(s) : h[i + t - 1] = s[t]
<1> TAKE h, s
<1> HAVE IsList(h) /\ IsList(s)
<1> TAKE i \in 1..Len(h)
<1> DEFINE n == Len(s)
           p == SubSeq(h, i, i + n - 1)
<1>1. /\ Len(h) \in Nat /\ n \in Nat /\ i \in Nat /\ i >= 1
      /\ h \in Seq({h[x] : x \in 1..Len(h)}) /\ s = [x \in 1..n |-> s[x]]
  <2>1. h \in Seq({h[x] : x \in 1..Len(h)})
    BY SeqList, Zenon
  <2> QED
    BY <2>1 DEF IsList
<1>2. ASSUME i + n - 1 <= Len(h) PROVE p = s <=> \A t \in 1..n : h[i + t - 1] = s[t]
  <2>1. p = [x \in 1..((i + n - 1) - i + 1) |-> h[x + i - 1]]
    <3>1. i \in Int /\ i + n - 1 \in Int /\ h \in Seq({h[x] : x \in 1..Len(h)})
      BY <1>1
    <3>2. \A X : \A q \in Seq(X) : \A l, m \in Int :
            SubSeq(q, l, m) = [x \in 1..(m - l + 1) |-> q[x + l - 1]]
      OBVIOUS
    <3> DEFINE X == {h[x] : x \in 1..Len(h)}
               e == i + n - 1
    <3> HIDE DEF X, e
    <3>3. h \in Seq(X) /\ e \in Int /\ i \in Int
      BY <3>1 DEF X, e
    <3>4. SubSeq(h, i, e) = [x \in 1..(e - i + 1) |-> h[x + i - 1]]
      BY <3>2, <3>3
    <3> QED
      BY <3>4, Zenon DEF e
  <2>2. (i + n - 1) - i + 1 = n /\ \A x \in 1..n : x + i - 1 = i + x - 1
    BY <1>1
  <2> HIDE DEF p, n
  <2>3. p = [x \in 1..n |-> h[i + x - 1]]
    BY <2>1, <2>2
  <2>4. ASSUME p = s, NEW t \in 1..n PROVE h[i + t - 1] = s[t]
    BY <2>3, <2>4
  <2>5. ASSUME \A t \in 1..n : h[i + t - 1] = s[t] PROVE p = s
    BY <1>1, <2>3, <2>5
  <2> QED
    BY <2>4, <2>5
<1> QED
  BY <1>2 DEF OccursAt

(* find_all: the needle is at each place found, no two of which overlap,   *)
(* and a place where the needle is overlaps one found.                     *)
Finds(h, s, F) ==
  /\ IsList(F)
  /\ \A k \in 1..Len(F) : F[k] \in 1..Len(h) /\ OccursAt(h, s, F[k])
  /\ \A k \in 2..Len(F) : F[k] >= F[k - 1] + Len(s)
  /\ \A j \in 1..Len(h) : OccursAt(h, s, j) =>
       \E k \in 1..Len(F) : F[k] <= j /\ j < F[k] + Len(s)

(* The places found among the first i.                                     *)
Scanned(h, s, i, F, index) ==
  /\ F \in Seq(Nat) /\ index \in Nat
  /\ index = IF Len(F) = 0 THEN 1 ELSE F[Len(F)] + Len(s)
  /\ \A k \in 1..Len(F) : F[k] \in 1..i /\ OccursAt(h, s, F[k])
  /\ \A k \in 2..Len(F) : F[k] >= F[k - 1] + Len(s)
  /\ \A j \in 1..i : OccursAt(h, s, j) => \E k \in 1..Len(F) : F[k] <= j /\ j < F[k] + Len(s)

LEMMA Longer ==
  \A X : \A u \in Seq(X) : \A x \in X :
    /\ Append(u, x) \in Seq(X) /\ Len(Append(u, x)) = Len(u) + 1
    /\ \A k \in 1..Len(u) : Append(u, x)[k] = u[k]
    /\ Append(u, x)[Len(u) + 1] = x
  OBVIOUS

(* One more place looked at.                                               *)
LEMMA ScanStep ==
  ASSUME NEW h, NEW s, IsList(s), Len(s) > 0, NEW i \in Nat, i > 0, NEW F, NEW index,
         Scanned(h, s, i - 1, F, index)
  PROVE  IF i >= index /\ OccursAt(h, s, i) THEN Scanned(h, s, i, Append(F, i), i + Len(s))
                                            ELSE Scanned(h, s, i, F, index)
<1> DEFINE n == Len(s)
           l == Len(F)
           O(j) == OccursAt(h, s, j)
<1>1. /\ F \in Seq(Nat) /\ index \in Nat /\ n \in Nat /\ n > 0 /\ l \in Nat
      /\ index = IF l = 0 THEN 1 ELSE F[l] + n
      /\ \A k \in 1..l : F[k] \in 1..(i - 1) /\ O(F[k])
      /\ \A k \in 2..l : F[k] >= F[k - 1] + n
      /\ \A j \in 1..(i - 1) : O(j) => \E k \in 1..l : F[k] <= j /\ j < F[k] + n
  BY DEF Scanned, IsList
<1>2. \A j \in 1..(i - 1) : j \in 1..i
  OBVIOUS
<1>3. \A j \in 1..i : j \in 1..(i - 1) \/ j = i
  OBVIOUS
<1>4. l # 0 => l \in 1..l
  BY <1>1
<1> HIDE DEF O
<1>5. CASE i >= index /\ O(i)
  <2> DEFINE A == Append(F, i)
  <2>1. A \in Seq(Nat) /\ Len(A) = l + 1 /\ (\A k \in 1..l : A[k] = F[k]) /\ A[l + 1] = i
    BY <1>1, Longer
  <2> HIDE DEF A, n, l
  <2>2. \A k \in 1..(l + 1) : k \in 1..l \/ k = l + 1
    BY <1>1
  <2>3. i + n \in Nat /\ i + n = IF Len(A) = 0 THEN 1 ELSE A[Len(A)] + n
    BY <1>1, <2>1
  <2>4. \A k \in 1..Len(A) : A[k] \in 1..i /\ O(A[k])
    <3> TAKE k \in 1..Len(A)
    <3>1. CASE k = l + 1
      <4>1. i \in 1..i
        OBVIOUS
      <4> QED
        BY <1>5, <2>1, <3>1, <4>1
    <3>2. CASE k # l + 1
      <4>1. k \in 1..l
        BY <2>1, <2>2, <3>2
      <4>2. A[k] = F[k] /\ F[k] \in 1..(i - 1) /\ O(F[k])
        BY <1>1, <2>1, <4>1
      <4> QED
        BY <1>2, <4>2
    <3> QED
      BY <3>1, <3>2
  <2>5. ASSUME NEW k \in 2..Len(A) PROVE A[k] >= A[k - 1] + n
    <3>1. CASE k = l + 1
      <4>1. k - 1 = l /\ l # 0 /\ l \in 1..l
        BY <1>1, <2>1, <3>1
      <4>2. A[k - 1] = F[l] /\ A[k] = i /\ index = F[l] + n
        BY <1>1, <2>1, <3>1, <4>1
      <4> QED
        BY <1>5, <4>2
    <3>2. CASE k # l + 1
      <4>1. k \in 2..l /\ k \in 1..l /\ k - 1 \in 1..l
        BY <1>1, <2>1, <3>2
      <4> QED
        BY <1>1, <2>1, <4>1
    <3> QED
      BY <3>1, <3>2
  <2>6. ASSUME NEW j \in 1..i, O(j) PROVE \E k \in 1..Len(A) : A[k] <= j /\ j < A[k] + n
    <3>1. CASE j = i
      <4>1. l + 1 \in 1..Len(A) /\ A[l + 1] = i
        BY <1>1, <2>1
      <4>2. i <= i /\ i < i + n
        BY <1>1
      <4> QED
        BY <3>1, <4>1, <4>2
    <3>2. CASE j # i
      <4>1. j \in 1..(i - 1)
        BY <1>3, <3>2
      <4>2. PICK k \in 1..l : F[k] <= j /\ j < F[k] + n
        BY <1>1, <2>6, <4>1
      <4>3. k \in 1..Len(A) /\ A[k] = F[k]
        BY <1>1, <2>1
      <4> QED
        BY <4>2, <4>3
    <3> QED
      BY <3>1, <3>2
  <2>7. Scanned(h, s, i, A, i + n)
    BY <2>1, <2>3, <2>4, <2>5, <2>6 DEF Scanned, n, O
  <2> QED
    BY <1>5, <2>7 DEF A, n, O
<1>6. CASE ~ (i >= index /\ O(i))
  <2>1. \A k \in 1..l : F[k] \in 1..i /\ O(F[k])
    BY <1>1, <1>2
  <2>2. ASSUME NEW j \in 1..i, O(j) PROVE \E k \in 1..l : F[k] <= j /\ j < F[k] + n
    <3>1. CASE j = i
      <4>1. ~ (i >= index)
        BY <1>6, <2>2, <3>1
      <4>2. l # 0
        BY <1>1, <4>1
      <4>3. l \in 1..l /\ F[l] \in 1..(i - 1) /\ i < F[l] + n
        BY <1>1, <1>4, <4>1, <4>2
      <4>4. F[l] <= i
        BY <4>3
      <4> QED
        BY <3>1, <4>3, <4>4
    <3>2. CASE j # i
      <4>1. j \in 1..(i - 1)
        BY <1>3, <3>2
      <4> QED
        BY <1>1, <2>2, <4>1
    <3> QED
      BY <3>1, <3>2
  <2>3. Scanned(h, s, i, F, index)
    BY <1>1, <2>1, <2>2 DEF Scanned, O
  <2> QED
    BY <1>6, <2>3 DEF O
<1> QED
  BY <1>5, <1>6

(* FindAll finds every place, but those that overlap one already found.    *)
LEMMA FindAllFinds ==
  \A h, s : IsList(h) /\ IsList(s) /\ Len(s) > 0 => Finds(h, s, FindAll(h, s))
<1> TAKE h, s
<1> HAVE IsList(h) /\ IsList(s) /\ Len(s) > 0
<1> DEFINE L == Len(h)
           R == [found : Seq(Nat), index : Nat]
           start == [found |-> <<>>, index |-> 1]
           Turn(i, r) == IF i >= r.index /\ OccursAt(h, s, i)
                           THEN [found |-> Append(r.found, i), index |-> i + Len(s)]
                           ELSE r
           turn == [i \in 1..L |-> [r \in R |-> Turn(i, r)]]
           scan[i \in 0..L] == IF i = 0 THEN start ELSE Turn(i, scan[i - 1])
           Run(g) == g = [i \in 0..L |-> IF i = 0 THEN start ELSE Turn(i, g[i - 1])]
<1>1. L \in Nat /\ Len(s) \in Nat
  BY DEF IsList
<1>2. start \in R
  OBVIOUS
<1>3. \A i \in 1..L : \A r \in R : Turn(i, r) \in R
  OBVIOUS
<1>4. turn \in [1..L -> [R -> R]]
  <2> HIDE DEF R, Turn
  <2> QED
    BY <1>3
<1>5. \E f : LoopRun(f, L, R, start, turn)
  <2> HIDE DEF R, turn, start
  <2> QED
    BY <1>1, <1>2, <1>4, LoopRuns
<1>6. PICK f : LoopRun(f, L, R, start, turn)
  BY <1>5
<1>7. Run(f)
  <2>1. f \in [0..L -> R] /\ f[0] = start /\ \A i \in 1..L : f[i] = turn[i][f[i - 1]]
    <3> HIDE DEF R, turn, start
    <3> QED
      BY <1>6, Zenon DEF LoopRun
  <2>2. \A i \in 1..L : i - 1 \in 0..L
    BY <1>1
  <2>3. \A i \in 1..L : \A r \in R : turn[i][r] = Turn(i, r)
    <3> HIDE DEF R, Turn
    <3> QED
      OBVIOUS
  <2> HIDE DEF turn, R, Turn, start
  <2>4. \A i \in 1..L : f[i] = Turn(i, f[i - 1])
    <3> TAKE i \in 1..L
    <3>1. f[i - 1] \in R
      BY <2>1, <2>2
    <3> QED
      BY <2>1, <2>3, <3>1
  <2>5. \A i \in 0..L : f[i] = IF i = 0 THEN start ELSE Turn(i, f[i - 1])
    <3> TAKE i \in 0..L
    <3>1. i # 0 => i \in 1..L
      BY <1>1
    <3> QED
      BY <2>1, <2>4, <3>1, Zenon
  <2>6. f = [i \in 0..L |-> f[i]]
    BY <2>1
  <2>7. [i \in 0..L |-> f[i]] = [i \in 0..L |-> IF i = 0 THEN start ELSE Turn(i, f[i - 1])]
    BY <2>5, Zenon
  <2> QED
    BY <2>6, <2>7, Zenon
<1>8. scan = CHOOSE g : Run(g)
  OBVIOUS
<1>9. Run(scan)
  <2> HIDE DEF Run, scan
  <2> QED
    BY <1>7, <1>8
<1>10. FindAll(h, s) = scan[L].found
  BY Zenon DEF FindAll
<1> HIDE DEF scan
<1>11. \A i \in 0..L : scan[i] = IF i = 0 THEN start ELSE Turn(i, scan[i - 1])
  <2> HIDE DEF Turn, start
  <2> QED
    BY <1>9, Zenon
<1> DEFINE Good(i) == Scanned(h, s, i, scan[i].found, scan[i].index)
           G == {i \in 0..L : Good(i)}
<1>12. 0 \in G
  <2>1. 0 \in 0..L
    BY <1>1
  <2>2. scan[0] = start
    BY <1>11, <2>1
  <2>3. Scanned(h, s, 0, <<>>, 1)
    BY DEF Scanned
  <2>4. Good(0)
    BY <2>2, <2>3
  <2> QED
    BY <2>1, <2>4
<1>13. ASSUME NEW i \in 1..L, i - 1 \in G PROVE i \in G
  <2>1. i \in 0..L /\ i \in Nat /\ i > 0 /\ i # 0
    BY <1>1
  <2>2. Scanned(h, s, i - 1, scan[i - 1].found, scan[i - 1].index)
    BY <1>13
  <2> HIDE DEF Turn
  <2>3. scan[i] = Turn(i, scan[i - 1])
    BY <1>11, <2>1, Zenon
  <2> USE DEF Turn
  <2> DEFINE F == scan[i - 1].found
             x == scan[i - 1].index
  <2>4. IF i >= x /\ OccursAt(h, s, i) THEN Scanned(h, s, i, Append(F, i), i + Len(s))
                                       ELSE Scanned(h, s, i, F, x)
    <3> HIDE DEF F, x
    <3> QED
      BY <2>1, <2>2, ScanStep DEF F, x
  <2>5. Good(i)
    BY <2>3, <2>4
  <2> HIDE DEF Good
  <2> QED
    BY <2>1, <2>5
<1>14. Good(L)
  <2> HIDE DEF G
  <2>1. \A i \in 0..L : i \in G
    BY <1>1, <1>12, <1>13, Turns
  <2>2. L \in G
    BY <1>1, <2>1
  <2> HIDE DEF Good
  <2> QED
    BY <2>2 DEF G
<1> DEFINE F == FindAll(h, s)
<1>15. Scanned(h, s, L, F, scan[L].index)
  BY <1>10, <1>14
<1> HIDE DEF F
<1>16. IsList(F)
  BY <1>15 DEF Scanned, IsList
<1> QED
  BY <1>15, <1>16 DEF Scanned, Finds, F

(***************************************************************************)
(* Search: the matches of a row                                            *)
(***************************************************************************)
(* The characters of a text, and whether cells a to b spell s.             *)
CharsOf(text) == [k \in DOMAIN text |-> text[k].char]

SpellsIn(row, s, a, b) ==
  LET text == LettersOf(SubSeq(row, a + 1, b + 1))
  IN \E k \in 1..(Len(text) - Len(s) + 1) : SubSeq(text, k, k + Len(s) - 1) = s

LEMMA CharsList ==
  \A text : IsList(text) =>
    /\ IsList(CharsOf(text)) /\ Len(CharsOf(text)) = Len(text)
    /\ \A k \in 1..Len(text) : CharsOf(text)[k] = text[k].char
<1> TAKE text
<1> HAVE IsList(text)
<1>1. Len(text) \in Nat /\ DOMAIN text = 1..Len(text)
  BY DEF IsList
<1>2. CharsOf(text) = [k \in 1..Len(text) |-> text[k].char]
  BY <1>1 DEF CharsOf
<1>3. Len(CharsOf(text)) = Len(text) /\ DOMAIN CharsOf(text) = 1..Len(text)
  BY <1>1, <1>2
<1> QED
  BY <1>1, <1>2, <1>3 DEF IsList

(* Some cells spell the needle where the text has it in their columns.     *)
LEMMA SpellsIs ==
  ASSUME NEW row, NEW S, NEW text, RowIs(row, S, text), NEW s, IsList(s), Len(s) > 0,
         NEW b \in 0..(Len(row) - 1), NEW a \in 0..b
  PROVE  SpellsIn(row, s, a, b) <=>
           \E j \in 1..Len(text) :
             S[a] < j /\ j + Len(s) - 1 <= S[b + 1] /\ OccursAt(CharsOf(text), s, j)
<1> DEFINE n == Len(s)
           h == CharsOf(text)
           F == LettersOf(SubSeq(row, a + 1, b + 1))
           x == S[a]
           y == S[b + 1]
           l == Len(F)
           m == Len(text)
<1>1. /\ IsList(F) /\ l = y - x
      /\ \A k \in 1..l : x + k \in 1..m /\ F[k] = text[x + k].char
  BY PartIs
<1>2. IsList(h) /\ Len(h) = m /\ \A k \in 1..m : h[k] = text[k].char
  BY CharsList DEF RowIs
<1>3. \A k \in 1..l : x + k \in 1..m /\ F[k] = h[x + k]
  BY <1>1, <1>2
<1>4. n \in Nat /\ n > 0 /\ m \in Nat /\ l \in Nat
  BY <1>1 DEF RowIs, IsList
<1>5. x \in Nat /\ y \in Nat /\ y <= m
  <2>1. Starts(S, Len(row)) /\ Len(row) \in Nat /\ S \in [0..Len(row) -> Nat] /\ m = S[Len(row)]
    BY RowStarts DEF RowIs, IsList
  <2>2. a \in 0..Len(row) /\ b + 1 \in 0..Len(row) /\ Len(row) \in 0..Len(row) /\ b + 1 <= Len(row)
    BY <2>1
  <2> QED
    BY <2>1, <2>2, Rising
<1>6. SpellsIn(row, s, a, b) <=> \E k \in 1..(l - n + 1) : SubSeq(F, k, k + n - 1) = s
  BY DEF SpellsIn
<1>7. \A k \in 1..l : OccursAt(F, s, k) <=> k + n - 1 <= l /\ \A t \in 1..n : F[k + t - 1] = s[t]
  <2>1. IsList(F) /\ IsList(s)
    BY <1>1
  <2> HIDE DEF F
  <2> QED
    BY <2>1, OccursIs
<1>8. \A j \in 1..m : OccursAt(h, s, j) <=> j + n - 1 <= m /\ \A t \in 1..n : h[j + t - 1] = s[t]
  BY <1>2, OccursIs
<1> HIDE DEF n, h, F, x, y, l, m
<1>9. \A k : k \in 1..(l - n + 1) <=> k \in 1..l /\ k + n - 1 <= l
  BY <1>4
<1>10. ASSUME NEW k \in 1..(l - n + 1), SubSeq(F, k, k + n - 1) = s
       PROVE  \E j \in 1..m : x < j /\ j + n - 1 <= y /\ OccursAt(h, s, j)
  <2>1. k \in 1..l /\ k + n - 1 <= l
    BY <1>9
  <2>2. OccursAt(F, s, k)
    BY <1>10, <2>1 DEF OccursAt, n, l
  <2>3. \A t \in 1..n : F[k + t - 1] = s[t]
    BY <1>7, <2>1, <2>2
  <2>4. x + k \in 1..m /\ x < x + k /\ x + k + n - 1 <= y
    BY <1>1, <1>3, <1>4, <1>5, <2>1
  <2>5. ASSUME NEW t \in 1..n PROVE h[x + k + t - 1] = s[t]
    <3>1. k + t - 1 \in 1..l /\ x + (k + t - 1) = x + k + t - 1
      BY <1>4, <1>5, <2>1
    <3>2. F[k + t - 1] = h[x + (k + t - 1)]
      BY <1>3, <3>1
    <3> QED
      BY <2>3, <3>1, <3>2
  <2>6. x + k + n - 1 <= m
    BY <1>4, <1>5, <2>1, <2>4
  <2>7. OccursAt(h, s, x + k)
    BY <1>8, <2>4, <2>5, <2>6
  <2> QED
    BY <2>4, <2>7
<1>11. ASSUME NEW j \in 1..m, x < j, j + n - 1 <= y, OccursAt(h, s, j)
       PROVE  \E k \in 1..(l - n + 1) : SubSeq(F, k, k + n - 1) = s
  <2> DEFINE k == j - x
  <2>1. k \in 1..l /\ k + n - 1 <= l /\ x + k = j
    BY <1>1, <1>4, <1>5, <1>11
  <2> HIDE DEF k
  <2>2. \A t \in 1..n : h[j + t - 1] = s[t]
    BY <1>8, <1>11
  <2>3. ASSUME NEW t \in 1..n PROVE F[k + t - 1] = s[t]
    <3>1. k + t - 1 \in 1..l /\ x + (k + t - 1) = j + t - 1
      BY <1>4, <1>5, <2>1
    <3>2. F[k + t - 1] = h[x + (k + t - 1)]
      BY <1>3, <3>1
    <3> QED
      BY <2>2, <3>1, <3>2
  <2>4. OccursAt(F, s, k)
    BY <1>7, <2>1, <2>3
  <2>5. k \in 1..(l - n + 1) /\ SubSeq(F, k, k + n - 1) = s
    BY <1>9, <2>1, <2>4 DEF OccursAt, n, l
  <2> QED
    BY <2>5
<1>12. SpellsIn(row, s, a, b) <=> \E j \in 1..m : x < j /\ j + n - 1 <= y /\ OccursAt(h, s, j)
  BY <1>6, <1>10, <1>11
<1> QED
  BY <1>12 DEF n, h, x, y, m

(* A match marks cells of its row that spell the needle, and no fewer do.  *)
Marks(row, s, line, found) ==
  /\ found.line = line
  /\ found.end_col \in 0..(Len(row) - 1) /\ found.start_col \in 0..found.end_col
  /\ SpellsIn(row, s, found.start_col, found.end_col)
  /\ found.start_col < found.end_col =>
       /\ ~SpellsIn(row, s, found.start_col + 1, found.end_col)
       /\ ~SpellsIn(row, s, found.start_col, found.end_col - 1)

(* A match comes after another in its row.                                 *)
Follows(row, before, found) ==
  \/ found.start_col > before.end_col
  \/ found.start_col = before.end_col /\ Len(CellText(row[found.start_col + 1])) > 1

MatchedIn(text, s, line, p) ==
  [line |-> line, start_col |-> text[p].col, end_col |-> text[p + Len(s) - 1].col]

(* A place found is a match: its cells spell the query, no fewer do.       *)
LEMMA PlaceMarks ==
  ASSUME NEW row, NEW S, NEW text, RowIs(row, S, text), NEW s, IsList(s), Len(s) > 0,
         NEW line, NEW p \in 1..Len(text), OccursAt(CharsOf(text), s, p)
  PROVE  Marks(row, s, line, MatchedIn(text, s, line, p))
<1> DEFINE n == Len(s)
           h == CharsOf(text)
           N == Len(row)
           m == Len(text)
           q == p + n - 1
           c == text[p].col
           d == text[q].col
<1>1. /\ n \in Nat /\ n > 0 /\ m \in Nat /\ p \in Nat /\ p >= 1 /\ IsList(h) /\ Len(h) = m /\ N \in Nat
      /\ \A k \in 1..m : h[k] = text[k].char
  BY CharsList DEF RowIs, IsList
<1>2. \A j \in 1..m : OccursAt(h, s, j) <=> j + n - 1 <= m /\ \A t \in 1..n : h[j + t - 1] = s[t]
  BY <1>1, OccursIs
<1>3. q \in 1..m /\ p <= q
  <2>1. p + n - 1 <= m
    BY <1>2
  <2> QED
    BY <1>1, <2>1
<1>4. InColumn(row, S, text, p) /\ InColumn(row, S, text, q)
  BY <1>3, Columns
<1>5. \A k \in 1..m : \A a \in 0..(N - 1) :
        (S[a] < k <=> a <= text[k].col) /\ (k <= S[a + 1] <=> text[k].col <= a)
  BY ColumnsRise
<1>6. /\ c \in 0..(N - 1) /\ S[c] < p /\ p <= S[c + 1] /\ S[c] \in Nat /\ S[c + 1] \in Nat
      /\ S[c + 1] <= S[c] + 2
      /\ p + 1 <= S[c + 1] => text[p].char # text[p + 1].char
  BY <1>4, Zenon DEF InColumn
<1>7. /\ d \in 0..(N - 1) /\ S[d] < q /\ q <= S[d + 1] /\ S[d] \in Nat /\ S[d + 1] \in Nat
      /\ S[d + 1] <= S[d] + 2
      /\ q + 1 <= S[d + 1] => text[q].char # text[q + 1].char
  BY <1>4, Zenon DEF InColumn
<1>8. c <= d
  <2>1. p <= S[d + 1]
    <3> DEFINE e == S[d + 1]
    <3>1. e \in Nat /\ q <= e
      BY <1>7
    <3>2. p \in Nat /\ q \in Nat /\ p <= q
      BY <1>1, <1>3
    <3> HIDE DEF e, q
    <3>3. p <= e
      BY <3>1, <3>2
    <3> QED
      BY <3>3, Zenon DEF e
  <2> QED
    BY <1>5, <1>7, <2>1
<1> HIDE DEF c, d
<1>9. \A b \in 0..(N - 1) : \A a \in 0..b :
        SpellsIn(row, s, a, b) <=>
          \E j \in 1..m : S[a] < j /\ j + n - 1 <= S[b + 1] /\ OccursAt(h, s, j)
  BY SpellsIs
<1> HIDE DEF n, h, N, m
<1>10. SpellsIn(row, s, c, d)
  <2>1. c \in 0..d
    BY <1>6, <1>7, <1>8
  <2>2. OccursAt(h, s, p)
    BY DEF h
  <2>3. S[c] < p /\ p + n - 1 <= S[d + 1]
    BY <1>6, <1>7
  <2> QED
    BY <1>7, <1>9, <2>1, <2>2, <2>3 DEF m
<1>11. \A t \in 1..n : h[p + t - 1] = s[t]
  BY <1>2 DEF h, m
<1>16. N \in Nat /\ c \in 0..(N - 1) /\ d \in 0..(N - 1)
  BY <1>1, <1>6, <1>7
<1>12. ASSUME c < d PROVE ~SpellsIn(row, s, c + 1, d)
  <2>1. c + 1 \in 0..d /\ c + 1 \in 0..(N - 1) /\ d \in 0..(N - 1)
    BY <1>12, <1>16
  <2>2. SUFFICES ASSUME NEW j \in 1..m, S[c + 1] < j, j + n - 1 <= S[d + 1], OccursAt(h, s, j)
                 PROVE  FALSE
    BY <1>9, <2>1
  <2>3. p < j
    BY <1>1, <1>6, <2>2
  <2>4. j = p + 1 /\ q + 1 <= S[d + 1]
    <3>1. j \in Nat
      BY <1>1
    <3>2. S[d + 1] <= S[d] + 2 /\ S[d] < p + n - 1
      BY <1>7
    <3> DEFINE u == S[d]  v == S[d + 1]
    <3>3. /\ u \in Nat /\ v \in Nat /\ v <= u + 2 /\ u < p + n - 1 /\ j + n - 1 <= v
          /\ q = p + n - 1 /\ p < j /\ p \in Nat /\ n \in Nat
      BY <1>1, <1>7, <2>2, <2>3, <3>2
    <3> HIDE DEF u, v, q
    <3>4. j = p + 1 /\ q + 1 <= v
      BY <3>1, <3>3
    <3> QED
      BY <3>4, Zenon DEF v
  <2>5. text[q].char # text[q + 1].char
    BY <1>7, <2>4
  <2>6. h[j + n - 1] = s[n] /\ h[p + n - 1] = s[n] /\ j + n - 1 \in 1..m
    <3>1. n \in 1..n /\ j + n - 1 <= m /\ \A t \in 1..n : h[j + t - 1] = s[t]
      BY <1>1, <1>2, <2>2
    <3>2. j + n - 1 >= 1 /\ j + n - 1 \in Int
      BY <1>1
    <3> QED
      BY <1>1, <1>11, <3>1, <3>2
  <2>7. j + n - 1 = q + 1
    BY <1>1, <2>4
  <2>8. h[q] = text[q].char /\ h[q + 1] = text[q + 1].char /\ h[q] = h[q + 1]
    BY <1>1, <1>3, <2>6, <2>7
  <2> QED
    BY <2>5, <2>8
<1>13. ASSUME c < d PROVE ~SpellsIn(row, s, c, d - 1)
  <2>1. d - 1 \in 0..(N - 1) /\ c \in 0..(d - 1) /\ d - 1 + 1 = d
    BY <1>13, <1>16
  <2>2. SUFFICES ASSUME NEW j \in 1..m, S[c] < j, j + n - 1 <= S[d - 1 + 1], OccursAt(h, s, j)
                 PROVE  FALSE
    BY <1>9, <2>1
  <2>3. j + n - 1 <= S[d] /\ j \in Nat
    BY <1>1, <2>1, <2>2
  <2>4. j < p
    BY <1>1, <1>7, <2>3
  <2>5. p = j + 1 /\ j + 1 <= S[c + 1]
    <3> DEFINE u == S[c]  v == S[c + 1]
    <3>1. /\ u \in Nat /\ v \in Nat /\ v <= u + 2 /\ u < j /\ p <= v
          /\ j \in Nat /\ j < p /\ p \in Nat
      BY <1>1, <1>6, <2>2, <2>3, <2>4
    <3> HIDE DEF u, v
    <3>2. p = j + 1 /\ j + 1 <= v
      BY <3>1
    <3> QED
      BY <3>2, Zenon DEF v
  <2>6. text[j].col = c
    <3>1. S[c] < j /\ j <= S[c + 1]
      BY <1>6, <2>2, <2>3, <2>5
    <3>2. c <= text[j].col /\ text[j].col <= c
      BY <1>5, <1>6, <3>1
    <3>3. text[j].col \in 0..(N - 1)
      BY Columns DEF InColumn, m, N
    <3> QED
      BY <1>6, <3>2, <3>3
  <2>7. text[j].char # text[j + 1].char
    <3>1. InColumn(row, S, text, j)
      BY Columns DEF m
    <3>2. j + 1 <= S[text[j].col + 1] => text[j].char # text[j + 1].char
      BY <3>1 DEF InColumn
    <3> QED
      BY <2>5, <2>6, <3>2
  <2>8. h[j] = s[1] /\ h[p] = s[1]
    <3>1. 1 \in 1..n /\ \A t \in 1..n : h[j + t - 1] = s[t]
      BY <1>1, <1>2, <2>2
    <3>2. h[j + 1 - 1] = s[1] /\ h[p + 1 - 1] = s[1] /\ j + 1 - 1 = j /\ p + 1 - 1 = p
      BY <1>1, <1>11, <2>3, <3>1
    <3> QED
      BY <3>2
  <2>9. h[j] = text[j].char /\ h[j + 1] = text[j + 1].char
    BY <1>1, <2>5 DEF m
  <2> QED
    BY <2>5, <2>7, <2>8, <2>9
<1> DEFINE f == MatchedIn(text, s, line, p)
<1>14. f.line = line /\ f.start_col = c /\ f.end_col = d
  BY DEF MatchedIn, c, d, n
<1> HIDE DEF f
<1>15. c \in 0..d
  BY <1>6, <1>7, <1>8
<1> QED
  BY <1>7, <1>10, <1>12, <1>13, <1>14, <1>15 DEF Marks, f, N

(* Matches that do not overlap come one after another.                     *)
LEMMA PlacesFollow ==
  ASSUME NEW row, NEW S, NEW text, RowIs(row, S, text), NEW s, IsList(s), Len(s) > 0,
         NEW line, NEW o \in 1..Len(text), NEW p \in 1..Len(text), p >= o + Len(s)
  PROVE  Follows(row, MatchedIn(text, s, line, o), MatchedIn(text, s, line, p))
<1> DEFINE n == Len(s)
           N == Len(row)
           q == o + n - 1
           c == text[p].col
           d == text[q].col
           l == Len(CellText(row[c + 1]))
<1>1. n \in Nat /\ n > 0 /\ o \in Nat /\ o >= 1 /\ p \in Nat /\ N \in Nat /\ Len(text) \in Nat
  BY DEF RowIs, IsList
<1>2. q \in 1..Len(text) /\ q < p
  BY <1>1
<1>3. InColumn(row, S, text, p) /\ InColumn(row, S, text, q)
  BY <1>2, Columns
<1>4. c \in 0..(N - 1) /\ S[c] \in Nat /\ S[c + 1] \in Nat /\ p <= S[c + 1] /\ S[c + 1] = S[c] + l
  BY <1>3, Zenon DEF InColumn
<1>5. d \in 0..(N - 1) /\ S[d] < q /\ S[d] \in Nat /\ q <= S[d + 1]
  BY <1>3, Zenon DEF InColumn
<1>6. \A k \in 1..Len(text) : \A a \in 0..(N - 1) :
        (S[a] < k <=> a <= text[k].col) /\ (k <= S[a + 1] <=> text[k].col <= a)
  BY ColumnsRise
<1>7. d <= c
  <2>1. S[d] < p
    BY <1>1, <1>2, <1>5
  <2> QED
    BY <1>5, <1>6, <2>1
<1>8. l \in Nat
  BY CellTexts
<1> HIDE DEF c, d, l, N
<1>9. d = c => l > 1
  <2> HAVE d = c
  <2>1. S[c] < q
    BY <1>5
  <2> QED
    BY <1>1, <1>2, <1>4, <1>8, <2>1
<1>10. c > d \/ (c = d /\ l > 1)
  <2>1. c \in Int /\ d \in Int
    BY <1>4, <1>5
  <2> QED
    BY <1>7, <1>9, <2>1
<1> DEFINE f == MatchedIn(text, s, line, p)
           e == MatchedIn(text, s, line, o)
<1>11. f.start_col = c /\ e.end_col = d
  BY DEF MatchedIn, c, d, n
<1> HIDE DEF e, f
<1> QED
  BY <1>10, <1>11, Zenon DEF Follows, e, f, l

(* What MatchesIn finds in a row, and that it leaves nothing out.          *)
RowMatched(row, s, line, M) ==
  /\ IsList(M)
  /\ \A k \in 1..Len(M) : Marks(row, s, line, M[k])
  /\ \A k \in 2..Len(M) : Follows(row, M[k - 1], M[k])
  /\ \A b \in 0..(Len(row) - 1) : \A a \in 0..b : SpellsIn(row, s, a, b) =>
       \E k \in 1..Len(M) : M[k].start_col <= b /\ a <= M[k].end_col

LEMMA MatchesOfRow ==
  \A row, s, line : IsList(row) /\ IsList(s) /\ Len(s) > 0 =>
    RowMatched(row, s, line, MatchesIn(row, line, s))
<1> TAKE row, s, line
<1> HAVE IsList(row) /\ IsList(s) /\ Len(s) > 0
<1> DEFINE n == Len(s)
           text == RowText(row)
           h == CharsOf(text)
           F == FindAll(h, s)
           M == MatchesIn(row, line, s)
<1>1. PICK S : RowIs(row, S, text)
  BY RowTextIs
<1>2. IsList(h) /\ Len(h) = Len(text) /\ IsList(text)
  BY <1>1, CharsList DEF RowIs
<1>3. Finds(h, s, F)
  BY <1>2, FindAllFinds
<1>4. M = [k \in DOMAIN F |-> MatchedIn(text, s, line, F[k])]
  BY Zenon DEF MatchesIn, CharsOf, MatchedIn
<1>5. /\ n \in Nat /\ n > 0 /\ Len(text) \in Nat
  BY <1>2 DEF IsList
<1> HIDE DEF text, h, F, M
<1>6. /\ Len(F) \in Nat /\ DOMAIN F = 1..Len(F)
      /\ \A k \in 1..Len(F) : F[k] \in 1..Len(text) /\ OccursAt(h, s, F[k])
      /\ \A k \in 2..Len(F) : F[k] >= F[k - 1] + n
      /\ \A j \in 1..Len(text) : OccursAt(h, s, j) =>
           \E k \in 1..Len(F) : F[k] <= j /\ j < F[k] + n
  BY <1>2, <1>3 DEF Finds, IsList
<1>7. /\ IsList(M) /\ Len(M) = Len(F)
      /\ \A k \in 1..Len(F) : M[k] = MatchedIn(text, s, line, F[k])
  <2>1. \A k \in 1..Len(F) : M[k] = MatchedIn(text, s, line, F[k])
    BY <1>4, <1>6
  <2>2. Len(M) = Len(F) /\ DOMAIN M = 1..Len(F) /\ M = [k \in 1..Len(F) |-> M[k]]
    BY <1>4, <1>6
  <2> QED
    BY <1>6, <2>1, <2>2 DEF IsList
<1>8. ASSUME NEW k \in 1..Len(M) PROVE Marks(row, s, line, M[k])
  <2>1. F[k] \in 1..Len(text) /\ OccursAt(CharsOf(text), s, F[k]) /\ M[k] = MatchedIn(text, s, line, F[k])
    BY <1>6, <1>7 DEF h
  <2>2. Marks(row, s, line, MatchedIn(text, s, line, F[k]))
    BY <1>1, <2>1, PlaceMarks
  <2> QED
    BY <2>1, <2>2
<1>9. ASSUME NEW k \in 2..Len(M) PROVE Follows(row, M[k - 1], M[k])
  <2>1. k \in 1..Len(F) /\ k - 1 \in 1..Len(F) /\ k \in 2..Len(F)
    BY <1>6, <1>7
  <2>2. /\ F[k] \in 1..Len(text) /\ F[k - 1] \in 1..Len(text) /\ F[k] >= F[k - 1] + n
        /\ M[k] = MatchedIn(text, s, line, F[k]) /\ M[k - 1] = MatchedIn(text, s, line, F[k - 1])
    BY <1>6, <1>7, <2>1
  <2>3. Follows(row, MatchedIn(text, s, line, F[k - 1]), MatchedIn(text, s, line, F[k]))
    BY <1>1, <2>2, PlacesFollow
  <2> QED
    BY <2>2, <2>3
<1>10. ASSUME NEW b \in 0..(Len(row) - 1), NEW a \in 0..b, SpellsIn(row, s, a, b)
       PROVE  \E k \in 1..Len(M) : M[k].start_col <= b /\ a <= M[k].end_col
  <2>1. PICK j \in 1..Len(text) :
               S[a] < j /\ j + n - 1 <= S[b + 1] /\ OccursAt(h, s, j)
    BY <1>1, <1>10, SpellsIs DEF h
  <2>2. PICK k \in 1..Len(F) : F[k] <= j /\ j < F[k] + n
    BY <1>6, <2>1
  <2> DEFINE p == F[k]
             q == p + n - 1
  <2>3. p \in 1..Len(text) /\ OccursAt(h, s, p)
    BY <1>6
  <2>4. p + n - 1 <= Len(text)
    BY <1>2, <2>3 DEF OccursAt
  <2> HIDE DEF p
  <2>5. p <= j /\ j < p + n
    BY <2>2 DEF p
  <2>6. p \in Nat /\ p >= 1 /\ j \in Nat /\ j <= Len(text)
    BY <2>3
  <2>7. q \in 1..Len(text) /\ j <= q
    BY <1>5, <2>4, <2>5, <2>6
  <2>8. /\ a \in 0..(Len(row) - 1)
        /\ Starts(S, Len(row)) /\ Len(row) \in Nat /\ S \in [0..Len(row) -> Nat]
    <3>1. Starts(S, Len(row)) /\ Len(row) \in Nat /\ S \in [0..Len(row) -> Nat]
      BY <1>1, RowStarts DEF RowIs, IsList
    <3>2. a \in 0..(Len(row) - 1)
      BY <3>1
    <3> QED
      BY <3>1, <3>2
  <2>9. S[a] \in Nat /\ S[b + 1] \in Nat
    BY <2>8
  <2>10. S[a] < q /\ p <= S[b + 1]
    <3> DEFINE x == S[a]
               y == S[b + 1]
    <3>1. x \in Nat /\ y \in Nat /\ x < j /\ j + n - 1 <= y
      BY <2>1, <2>9
    <3>2. q \in Int /\ j <= q
      BY <2>7
    <3> HIDE DEF x, y, q
    <3>3. x < q /\ p <= y
      BY <1>5, <2>5, <2>6, <3>1, <3>2
    <3> QED
      BY <3>3 DEF x, y
  <2>11. a <= text[q].col /\ text[p].col <= b
    <3>1. \A i \in 1..Len(text) : \A x \in 0..(Len(row) - 1) :
            (S[x] < i <=> x <= text[i].col) /\ (i <= S[x + 1] <=> text[i].col <= x)
      BY <1>1, ColumnsRise
    <3> QED
      BY <2>3, <2>7, <2>8, <2>10, <3>1
  <2>12. M[k].start_col = text[p].col /\ M[k].end_col = text[q].col /\ k \in 1..Len(M)
    <3>1. M[k] = MatchedIn(text, s, line, p)
      BY <1>7 DEF p
    <3> QED
      BY <1>7, <3>1 DEF MatchedIn
  <2> QED
    BY <2>11, <2>12
<1> QED
  BY <1>7, <1>8, <1>9, <1>10 DEF RowMatched, M

(***************************************************************************)
(* Search: the matches of all rows                                         *)
(***************************************************************************)
Comes(rows, history, before, found) ==
  \/ found.line > before.line
  \/ \E i \in 1..Len(rows) :
       found.line = i - 1 - history /\ before.line = found.line /\ Follows(rows[i], before, found)

Searched(rows, history, s, M) ==
  /\ IsList(M)
  /\ \A k \in 1..Len(M) : \E i \in 1..Len(rows) : Marks(rows[i], s, i - 1 - history, M[k])
  /\ \A k \in 2..Len(M) : Comes(rows, history, M[k - 1], M[k])

Complete(rows, history, s, M) ==
  \A i \in 1..Len(rows) : \A b \in 0..(Len(rows[i]) - 1) : \A a \in 0..b :
    SpellsIn(rows[i], s, a, b) =>
      \E k \in 1..Len(M) : /\ M[k].line = i - 1 - history
                           /\ M[k].start_col <= b /\ a <= M[k].end_col

(* The matches of all rows, in order.                                      *)
LEMMA AllMatches ==
  ASSUME NEW rows, Lists(rows), NEW history \in Nat, NEW s, IsList(s), Len(s) > 0
  PROVE  LET M == FlattenSeq([i \in DOMAIN rows |-> MatchesIn(rows[i], i - 1 - history, s)])
         IN Searched(rows, history, s, M) /\ Complete(rows, history, s, M)
<1> DEFINE seqs == [i \in DOMAIN rows |-> MatchesIn(rows[i], i - 1 - history, s)]
           R == Len(rows)
           M == FlattenSeq(seqs)
           line(i) == i - 1 - history
<1>1. R \in Nat /\ DOMAIN rows = 1..R /\ \A i \in 1..R : IsList(rows[i])
  BY DEF Lists, IsList
<1>2. IsList(seqs) /\ Len(seqs) = R
  BY <1>1 DEF IsList
<1>3. \A i \in 1..R : RowMatched(rows[i], s, line(i), seqs[i])
  <2> TAKE i \in 1..R
  <2>1. seqs[i] = MatchesIn(rows[i], line(i), s)
    BY <1>1
  <2>2. RowMatched(rows[i], s, line(i), MatchesIn(rows[i], line(i), s))
    BY <1>1, MatchesOfRow
  <2> QED
    BY <2>1, <2>2
<1> HIDE DEF seqs
<1>4. \A i \in 1..R :
        /\ Len(seqs[i]) \in Nat /\ IsList(seqs[i])
        /\ \A k \in 1..Len(seqs[i]) : Marks(rows[i], s, line(i), seqs[i][k])
        /\ \A k \in 2..Len(seqs[i]) : Follows(rows[i], seqs[i][k - 1], seqs[i][k])
        /\ \A b \in 0..(Len(rows[i]) - 1) : \A a \in 0..b : SpellsIn(rows[i], s, a, b) =>
             \E k \in 1..Len(seqs[i]) : seqs[i][k].start_col <= b /\ a <= seqs[i][k].end_col
  BY <1>3 DEF RowMatched, IsList
<1>5. Lists(seqs)
  BY <1>2, <1>4 DEF Lists
<1>6. PICK T : Joins(seqs, T, M)
  BY <1>5, FlatIs
<1>7. /\ T \in [0..R -> Nat] /\ T[0] = 0 /\ IsList(M) /\ Len(M) = T[R] /\ Len(M) \in Nat
      /\ \A i \in 1..R : T[i] = T[i - 1] + Len(seqs[i])
      /\ \A i \in 1..R : \A t \in 1..Len(seqs[i]) : M[T[i - 1] + t] = seqs[i][t]
  BY <1>2, <1>6 DEF Joins, IsList
<1>8. Starts(T, R)
  BY <1>2, <1>5, <1>6, JoinStarts
<1> HIDE DEF M, R
<1>9. \A i \in 1..R : /\ i - 1 \in 0..R /\ i \in 0..R /\ i \in Nat
                      /\ T[i - 1] \in Nat /\ T[i] \in Nat
  BY <1>1, <1>7
<1> DEFINE In(k, i) == T[i - 1] < k /\ k <= T[i]
<1>10. \A k \in 1..Len(M) : \E i \in 1..R : In(k, i)
  BY <1>7, <1>8, InAPart
<1>11. ASSUME NEW k \in 1..Len(M), NEW i \in 1..R, In(k, i)
       PROVE  k - T[i - 1] \in 1..Len(seqs[i]) /\ M[k] = seqs[i][k - T[i - 1]]
  <2> DEFINE t == k - T[i - 1]
  <2>1. T[i - 1] \in Nat /\ T[i] = T[i - 1] + Len(seqs[i]) /\ Len(seqs[i]) \in Nat
    BY <1>4, <1>7, <1>9
  <2>2. k \in Nat
    BY <1>7
  <2>3. t \in 1..Len(seqs[i]) /\ T[i - 1] + t = k
    BY <1>11, <2>1, <2>2
  <2> HIDE DEF t
  <2>4. M[T[i - 1] + t] = seqs[i][t]
    BY <1>7, <2>3
  <2> QED
    BY <2>3, <2>4 DEF t
<1>12. ASSUME NEW k \in 1..Len(M), NEW i \in 1..R, In(k, i)
       PROVE  Marks(rows[i], s, line(i), M[k])
  <2>1. k - T[i - 1] \in 1..Len(seqs[i]) /\ M[k] = seqs[i][k - T[i - 1]]
    BY <1>11, <1>12
  <2>2. \A t \in 1..Len(seqs[i]) : Marks(rows[i], s, line(i), seqs[i][t])
    BY <1>4
  <2> HIDE DEF In, line
  <2> QED
    BY <2>1, <2>2
<1>13. \A k \in 1..Len(M) : \E i \in 1..R : Marks(rows[i], s, line(i), M[k])
  <2> HIDE DEF In, line
  <2> QED
    BY <1>10, <1>12
<1>14. ASSUME NEW k \in 2..Len(M) PROVE Comes(rows, history, M[k - 1], M[k])
  <2>1. k \in 1..Len(M) /\ k - 1 \in 1..Len(M) /\ k \in Nat
    BY <1>7
  <2>2. PICK i \in 1..R : In(k, i)
    BY <1>10, <2>1
  <2>3. PICK j \in 1..R : In(k - 1, j)
    BY <1>10, <2>1
  <2>4. M[k].line = line(i) /\ M[k - 1].line = line(j)
    <3> HIDE DEF In, line
    <3> QED
      BY <1>12, <2>1, <2>2, <2>3 DEF Marks
  <2>5. j <= i
    <3>1. SUFFICES ASSUME i < j PROVE FALSE
      BY <1>9
    <3>2. i \in 0..R /\ j - 1 \in 0..R /\ i <= j - 1
      BY <1>9, <3>1
    <3>3. T[i] <= T[j - 1]
      BY <1>8, <3>2, Rising
    <3>4. T[i] \in Nat /\ T[j - 1] \in Nat
      BY <1>9
    <3> QED
      BY <2>1, <2>2, <2>3, <3>3, <3>4
  <2>6. CASE j = i
    <3> DEFINE t == k - T[i - 1]
    <3>1. t \in 1..Len(seqs[i]) /\ M[k] = seqs[i][t]
      BY <1>11, <2>1, <2>2
    <3>2. k - 1 - T[i - 1] \in 1..Len(seqs[i]) /\ M[k - 1] = seqs[i][k - 1 - T[i - 1]]
      BY <1>11, <2>1, <2>3, <2>6
    <3>3. T[i - 1] \in Nat /\ Len(seqs[i]) \in Nat
      BY <1>4, <1>9
    <3>4. k - 1 - T[i - 1] = t - 1 /\ t \in 2..Len(seqs[i])
      <4> DEFINE x == T[i - 1]
                 l == Len(seqs[i])
      <4>1. x \in Nat /\ l \in Nat /\ k - x \in 1..l /\ k - 1 - x \in 1..l
        BY <3>1, <3>2, <3>3
      <4> HIDE DEF x, l
      <4>2. k - 1 - x = k - x - 1 /\ k - x \in 2..l
        BY <2>1, <4>1
      <4> QED
        BY <4>2 DEF x, l
    <3> HIDE DEF t
    <3>5. Follows(rows[i], seqs[i][t - 1], seqs[i][t])
      BY <1>4, <3>4
    <3>6. Follows(rows[i], M[k - 1], M[k])
      BY <3>1, <3>2, <3>4, <3>5
    <3> QED
      BY <2>4, <2>6, <3>6 DEF Comes, R
  <2>7. CASE j # i
    <3>1. line(i) > line(j)
      BY <1>9, <2>5, <2>7
    <3> HIDE DEF line
    <3> QED
      BY <2>4, <3>1 DEF Comes
  <2> QED
    BY <2>6, <2>7
<1>15. ASSUME NEW i \in 1..R, NEW b \in 0..(Len(rows[i]) - 1), NEW a \in 0..b, SpellsIn(rows[i], s, a, b)
       PROVE  \E k \in 1..Len(M) : M[k].line = line(i) /\ M[k].start_col <= b /\ a <= M[k].end_col
  <2>1. PICK t \in 1..Len(seqs[i]) : seqs[i][t].start_col <= b /\ a <= seqs[i][t].end_col
    BY <1>4, <1>15
  <2> DEFINE k == T[i - 1] + t
  <2>2. M[k] = seqs[i][t]
    BY <1>7
  <2>3. seqs[i][t].line = line(i)
    <3>1. Marks(rows[i], s, line(i), seqs[i][t])
      BY <1>4
    <3> HIDE DEF line
    <3> QED
      BY <3>1 DEF Marks
  <2>4. k \in 1..Len(M)
    <3>1. T[i] = T[i - 1] + Len(seqs[i]) /\ Len(seqs[i]) \in Nat /\ T[i - 1] \in Nat
      BY <1>4, <1>7, <1>9
    <3>2. T[i] <= T[R] /\ T[i] \in Nat /\ Len(M) = T[R]
      <4>1. i \in 0..R /\ R \in 0..R /\ i <= R
        BY <1>1, <1>9
      <4> QED
        BY <1>7, <1>8, <1>9, <4>1, Rising
    <3> DEFINE x == T[i - 1]
               y == T[i]
               l == Len(seqs[i])
    <3>3. y = x + l /\ l \in Nat /\ x \in Nat /\ y \in Nat /\ y <= Len(M) /\ Len(M) \in Nat /\ t \in 1..l
      BY <1>7, <3>1, <3>2
    <3> HIDE DEF x, y, l
    <3>4. x + t \in 1..Len(M)
      BY <3>3
    <3> QED
      BY <3>4 DEF x
  <2> HIDE DEF k, line
  <2> QED
    BY <2>1, <2>2, <2>3, <2>4
<1>16. Searched(rows, history, s, M)
  BY <1>7, <1>13, <1>14, Zenon DEF Searched, R
<1>17. Complete(rows, history, s, M)
  BY <1>15, Zenon DEF Complete, R
<1> QED
  BY <1>16, <1>17, Zenon DEF M, seqs

LEMMA LowerList ==
  \A c : IsList(ToLowercase(c))
<1> TAKE c
<1>1. ToLowercase(c) \in {<<"a">>, <<"i", ".">>, <<c>>}
  BY DEF ToLowercase
<1>2. \A x, y : IsList(<<x>>) /\ IsList(<<x, y>>)
  BY DEF IsList
<1> QED
  BY <1>1, <1>2, Zenon

LEMMA LoweredIs ==
  \A q : IsList(q) =>
    /\ IsList(Lowered(q))
    /\ Len(q) = 1 => Len(Lowered(q)) = Len(ToLowercase(q[1]))
<1> TAKE q
<1> HAVE IsList(q)
<1> DEFINE seqs == [i \in DOMAIN q |-> ToLowercase(q[i])]
<1>1. Len(q) \in Nat /\ DOMAIN q = 1..Len(q)
  BY DEF IsList
<1>2. IsList(seqs) /\ Len(seqs) = Len(q) /\ \A i \in 1..Len(q) : seqs[i] = ToLowercase(q[i])
  BY <1>1 DEF IsList
<1>3. Lowered(q) = FlattenSeq(seqs)
  BY DEF Lowered
<1> HIDE DEF seqs
<1>4. Lists(seqs)
  BY <1>2, LowerList DEF Lists
<1>5. PICK S : Joins(seqs, S, Lowered(q))
  BY <1>3, <1>4, FlatIs
<1>6. IsList(Lowered(q)) /\ Len(Lowered(q)) = S[Len(seqs)]
  BY <1>5 DEF Joins
<1>7. ASSUME Len(q) = 1 PROVE Len(Lowered(q)) = Len(ToLowercase(q[1]))
  <2>1. 1 \in 1..Len(seqs) /\ 1 - 1 = 0
    BY <1>2, <1>7
  <2>2. S[1] = S[0] + Len(seqs[1]) /\ S[0] = 0
    BY <1>5, <2>1 DEF Joins
  <2>3. Len(ToLowercase(q[1])) \in Nat
    BY LowerList DEF IsList
  <2> QED
    BY <1>2, <1>6, <1>7, <2>1, <2>2, <2>3
<1> QED
  BY <1>6, <1>7

(* What a search returns.                                                  *)
LEMMA ResultIs ==
  ASSUME NEW rows, Lists(rows), NEW history \in Nat, NEW query, IsList(query), NEW cap \in Nat
  PROVE  LET result == SearchLiteral(rows, history, query, cap)
             s == Lowered(query)
         IN /\ Searched(rows, history, s, result.matches) /\ Len(result.matches) <= cap
            /\ s # <<>> /\ ~result.truncated => Complete(rows, history, s, result.matches)
<1> DEFINE s == Lowered(query)
           joined == FlattenSeq([i \in DOMAIN rows |-> MatchesIn(rows[i], i - 1 - history, s)])
           all == IF s = <<>> THEN <<>> ELSE joined
           result == SearchLiteral(rows, history, query, cap)
           M == SubSeq(all, 1, IF Len(all) < cap THEN Len(all) ELSE cap)
<1>1. IsList(s)
  BY LoweredIs
<1>2. result = [matches |-> M, truncated |-> Len(all) > cap]
  BY Zenon DEF SearchLiteral
<1> HIDE DEF s
<1>3. CASE s = <<>>
  <2>1. M = <<>>
    <3>1. all = <<>>
      BY <1>3
    <3>2. SubSeq(<<>>, 1, IF Len(<<>>) < cap THEN Len(<<>>) ELSE cap) = <<>>
      OBVIOUS
    <3> HIDE DEF all
    <3> QED
      BY <3>1, <3>2
  <2>2. Searched(rows, history, s, <<>>) /\ Len(<<>>) <= cap
    BY DEF Searched, IsList
  <2>3. result.matches = <<>>
    <3> HIDE DEF M, result, all
    <3> QED
      BY <1>2, <2>1
  <2> HIDE DEF result
  <2> QED
    BY <1>3, <2>2, <2>3 DEF result, s
<1>4. CASE s # <<>>
  <2>1. all = joined
    BY <1>4
  <2>2. Len(s) > 0
    BY <1>1, <1>4 DEF IsList
  <2>3. Searched(rows, history, s, joined) /\ Complete(rows, history, s, joined)
    <3> HIDE DEF joined
    <3> QED
      BY <1>1, <2>2, AllMatches DEF joined
  <2> HIDE DEF joined, all
  <2>4. IsList(all) /\ Len(all) \in Nat
    BY <2>1, <2>3 DEF Searched, IsList
  <2>5. M = Take(all, cap) /\ Least(cap, Len(all)) = (IF Len(all) < cap THEN Len(all) ELSE cap)
    BY <2>4 DEF Take, Least
  <2>6. /\ IsList(M) /\ Len(M) = Least(cap, Len(all)) /\ Len(M) \in Nat /\ Len(M) <= cap
        /\ \A k \in 1..Len(M) : k \in 1..Len(all) /\ M[k] = all[k]
    <3> DEFINE a == Take(all, cap)
               l == Least(cap, Len(all))
    <3>1. /\ IsList(a) /\ Len(a) = l /\ l \in Nat /\ l <= cap
          /\ \A i \in 1..l : i \in 1..Len(all) /\ a[i] = all[i]
      BY <2>4, TakeList, Zenon
    <3> HIDE DEF M, a, l
    <3>2. M = a
      BY <2>5, Zenon DEF a
    <3> QED
      BY <3>1, <3>2, Zenon DEF l
  <2> HIDE DEF M
  <2>7. \A k \in 2..Len(M) : k \in 2..Len(all) /\ M[k] = all[k] /\ M[k - 1] = all[k - 1]
    <3> TAKE k \in 2..Len(M)
    <3>1. k \in 1..Len(M) /\ k - 1 \in 1..Len(M)
      BY <2>6
    <3>2. k \in 1..Len(all) /\ M[k] = all[k] /\ M[k - 1] = all[k - 1]
      BY <2>6, <3>1
    <3> QED
      BY <2>4, <3>2
  <2>8. Searched(rows, history, s, M)
    BY <2>1, <2>3, <2>6, <2>7 DEF Searched
  <2>9. ~ (Len(all) > cap) => M = all
    <3> HAVE ~ (Len(all) > cap)
    <3>1. Len(M) = Len(all)
      BY <2>4, <2>6 DEF Least
    <3> QED
      BY <2>4, <2>6, <3>1 DEF IsList
  <2>10. result.matches = M /\ result.truncated = (Len(all) > cap)
    BY <1>2
  <2>11. ~result.truncated => Complete(rows, history, s, result.matches)
    BY <2>1, <2>3, <2>9, <2>10
  <2> HIDE DEF result
  <2> QED
    BY <2>6, <2>8, <2>10, <2>11, Zenon DEF result, s
<1> QED
  BY <1>3, <1>4

(* The cells of a match spell the query, for any rows and any query: no    *)
(* fewer do, matches come in order, and none is left out but by the cap    *)
(* (search.rs).                                                            *)
THEOREM SearchFinds ==
  ASSUME NEW in, Lists(in.rows), in.history \in Nat, IsList(in.query), in.cap \in Nat
  PROVE  SearchHonest(in)
<1> DEFINE rows == in.rows
           history == in.history
           result == SearchLiteral(in.rows, in.history, in.query, in.cap)
           s == Lowered(in.query)
           M == result.matches
           matches == Elements(result.matches)
           row(line) == rows[line + history + 1]
           cells(line, a, b) == SubSeq(rows[line + history + 1], a + 1, b + 1)
           spells(line, a, b) ==
             LET marked == cells(line, a, b)
                 text == FlattenSeq([i \in DOMAIN marked |-> CellText(marked[i])])
             IN \E k \in 1..(Len(text) - Len(s) + 1) : SubSeq(text, k, k + Len(s) - 1) = s
           overlaps(m, line, a, b) == m.line = line /\ m.start_col <= b /\ a <= m.end_col
<1>1. /\ IsList(M) /\ Len(M) <= in.cap /\ Len(M) \in Nat
      /\ \A k \in 1..Len(M) : \E i \in 1..Len(rows) : Marks(rows[i], s, i - 1 - history, M[k])
      /\ \A k \in 2..Len(M) : Comes(rows, history, M[k - 1], M[k])
      /\ s # <<>> /\ ~result.truncated => Complete(rows, history, s, M)
  <2>1. /\ Searched(rows, history, s, M) /\ Len(M) <= in.cap
        /\ s # <<>> /\ ~result.truncated => Complete(rows, history, s, M)
    BY ResultIs, Zenon
  <2> HIDE DEF M, s, result, rows
  <2> QED
    BY <2>1 DEF Searched, IsList
<1>2. /\ Len(rows) \in Nat /\ DOMAIN rows = 1..Len(rows) /\ history \in Nat
      /\ \A i \in 1..Len(rows) : IsList(rows[i])
  BY DEF Lists, IsList
<1>3. DOMAIN M = 1..Len(M) /\ matches = {M[k] : k \in 1..Len(M)}
  BY <1>1 DEF IsList, Elements
<1>4. \A line, a, b : spells(line, a, b) <=> SpellsIn(row(line), s, a, b)
  BY DEF SpellsIn, LettersOf
<1> HIDE DEF spells, result, s, M, matches
<1>5. \A i \in 1..Len(rows) : row(i - 1 - history) = rows[i]
  <2> TAKE i \in 1..Len(rows)
  <2>1. (i - 1 - history) + history + 1 = i
    BY <1>2
  <2> QED
    BY <2>1, Zenon
<1>6. \A m \in matches : \E i \in 1..Len(rows) :
         row(m.line) = rows[i] /\ m.line = i - 1 - history /\ Marks(rows[i], s, m.line, m)
  <2> TAKE m \in matches
  <2>1. PICK k \in 1..Len(M) : m = M[k]
    BY <1>3
  <2>2. PICK i \in 1..Len(rows) : Marks(rows[i], s, i - 1 - history, m)
    BY <1>1, <2>1
  <2>3. m.line = i - 1 - history
    BY <2>2 DEF Marks
  <2> HIDE DEF row
  <2> QED
    BY <1>5, <2>2, <2>3
<1>7. \A m \in matches :
          /\ spells(m.line, m.start_col, m.end_col)
          /\ m.start_col < m.end_col => ~spells(m.line, m.start_col + 1, m.end_col)
                                        /\ ~spells(m.line, m.start_col, m.end_col - 1)
  <2> TAKE m \in matches
  <2>1. PICK i \in 1..Len(rows) : row(m.line) = rows[i] /\ Marks(rows[i], s, m.line, m)
    BY <1>6
  <2> HIDE DEF row
  <2> QED
    BY <1>4, <2>1 DEF Marks
<1>8. \A i \in 2..Len(M) :
          LET before == M[i - 1]  m == M[i]
          IN \/ m.line > before.line
             \/ m.line = before.line /\ m.start_col > before.end_col
             \/ m.line = before.line /\ m.start_col = before.end_col
                /\ Len(Lowered(cells(m.line, m.start_col, m.start_col))) > 1
  <2> TAKE k \in 2..Len(M)
  <2> DEFINE before == M[k - 1]
             m == M[k]
             c == m.start_col
  <2>1. Comes(rows, history, before, m)
    BY <1>1
  <2> HIDE DEF before
  <2>2. ASSUME NEW i \in 1..Len(rows), m.line = i - 1 - history, c = before.end_col,
               Len(CellText(rows[i][c + 1])) > 1
        PROVE  Len(Lowered(cells(m.line, c, c))) > 1
    <3> DEFINE x == rows[i][c + 1]
    <3>1. m \in matches
      <4>1. k \in 1..Len(M)
        BY <1>1
      <4> QED
        BY <1>3, <4>1
    <3>2. row(m.line) = rows[i]
      BY <1>5, <2>2
    <3>3. PICK j \in 1..Len(rows) : row(m.line) = rows[j] /\ Marks(rows[j], s, m.line, m)
      BY <1>6, <3>1
    <3>4. c \in Nat /\ c + 1 \in 1..Len(rows[i])
      <4>1. Len(rows[i]) \in Nat /\ rows[i] = rows[j]
        BY <1>2, <3>2, <3>3 DEF IsList
      <4>2. m.end_col \in 0..(Len(rows[i]) - 1) /\ c \in 0..m.end_col
        BY <3>3, <4>1 DEF Marks
      <4> DEFINE e == m.end_col
                 n == Len(rows[i])
      <4>3. n \in Nat /\ e \in 0..(n - 1) /\ c \in 0..e
        BY <4>1, <4>2
      <4> HIDE DEF c, e, n
      <4>4. c \in Nat /\ c + 1 \in 1..n
        BY <4>3
      <4> QED
        BY <4>4, Zenon DEF n
    <3> HIDE DEF c, m
    <3>5. SubSeq(rows[i], c + 1, c + 1) = <<x>>
      <4>1. rows[i] \in Seq({rows[i][y] : y \in 1..Len(rows[i])})
        BY <1>2, SeqList, Zenon
      <4> DEFINE X == {rows[i][y] : y \in 1..Len(rows[i])}
                 r == rows[i]
                 d == c + 1
      <4> HIDE DEF X, r, d
      <4>2. r \in Seq(X) /\ d \in 1..Len(r)
        BY <3>4, <4>1 DEF X, r, d
      <4>3. SubSeq(r, d, d) = [z \in 1..(d - d + 1) |-> r[z + d - 1]]
        BY <4>2
      <4>4. d - d + 1 = 1 /\ \A z \in 1..1 : z + d - 1 = d
        BY <4>2
      <4>5. SubSeq(r, d, d) = [z \in 1..1 |-> r[d]]
        BY <4>3, <4>4
      <4>6. [z \in 1..1 |-> r[d]] = <<r[d]>>
        OBVIOUS
      <4> QED
        BY <4>5, <4>6, Zenon DEF r, d
    <3>6. CellText(x) = ToLowercase(x)
      <4>1. Len(<<>>) = 0
        OBVIOUS
      <4> HIDE DEF x
      <4>2. Len(CellText(x)) > 1
        BY <2>2 DEF x
      <4> QED
        BY <4>1, <4>2 DEF CellText
    <3>7. Len(Lowered(<<x>>)) = Len(ToLowercase(x))
      <4>1. \A z : IsList(<<z>>) /\ Len(<<z>>) = 1 /\ <<z>>[1] = z
        BY DEF IsList
      <4> HIDE DEF x
      <4> QED
        BY <4>1, LoweredIs
    <3>8. cells(m.line, c, c) = <<x>>
      BY <3>2, <3>5
    <3> HIDE DEF x, cells
    <3> QED
      BY <2>2, <3>6, <3>7, <3>8 DEF x
  <2> HIDE DEF m, c, cells, row
  <2>3. \/ m.line > before.line
        \/ m.line = before.line /\ c > before.end_col
        \/ m.line = before.line /\ c = before.end_col /\ Len(Lowered(cells(m.line, c, c))) > 1
    BY <2>1, <2>2 DEF Comes, Follows, c
  <2> QED
    BY <2>3, Zenon DEF before, m, c
<1>9. s # <<>> /\ ~result.truncated =>
        \A i \in DOMAIN rows : \A b \in 0..(Len(rows[i]) - 1) : \A a \in 0..b :
            LET line == i - 1 - history
            IN spells(line, a, b) => \E m \in matches : overlaps(m, line, a, b)
  <2> HAVE s # <<>> /\ ~result.truncated
  <2>1. Complete(rows, history, s, M)
    BY <1>1
  <2>2. ASSUME NEW i \in 1..Len(rows), NEW b \in 0..(Len(rows[i]) - 1), NEW a \in 0..b,
               spells(i - 1 - history, a, b)
        PROVE  \E m \in matches : overlaps(m, i - 1 - history, a, b)
    <3>1. SpellsIn(rows[i], s, a, b)
      BY <1>4, <1>5, <2>2
    <3>2. PICK k \in 1..Len(M) : /\ M[k].line = i - 1 - history
                                 /\ M[k].start_col <= b /\ a <= M[k].end_col
      BY <2>1, <3>1 DEF Complete
    <3>3. M[k] \in matches
      BY <1>3
    <3> QED
      BY <3>2, <3>3
  <2> HIDE DEF overlaps, row
  <2> QED
    BY <1>2, <2>2
<1> QED
  BY <1>1, <1>7, <1>8, <1>9, Zenon
     DEF SearchHonest, rows, history, result, s, M, matches, cells, spells, overlaps

(***************************************************************************)
(* Steps from one match to the next                                        *)
(***************************************************************************)
LEMMA Remainder ==
  \A n \in Nat \ {0} : \A a \in 0..(n - 1) : a % n = a /\ (a + n) % n = a
  BY SMTT(20)

(* A step, without the remainder.                                          *)
LEMMA StepIs ==
  \A len \in Nat \ {0} : \A index \in 0..(len - 1) :
    /\ Stepped(index, TRUE, len) = IF index = len - 1 THEN 0 ELSE index + 1
    /\ Stepped(index, FALSE, len) = IF index = 0 THEN len - 1 ELSE index - 1
<1> TAKE len \in Nat \ {0}
<1> TAKE index \in 0..(len - 1)
<1>1. \A a \in 0..(len - 1) : a % len = a /\ (a + len) % len = a
  BY Remainder
<1>2. (index + 1) % len = IF index = len - 1 THEN 0 ELSE index + 1
  <2>1. CASE index = len - 1
    <3>1. index + 1 = 0 + len /\ 0 \in 0..(len - 1)
      BY <2>1
    <3> QED
      BY <1>1, <2>1, <3>1
  <2>2. CASE index # len - 1
    <3>1. index + 1 \in 0..(len - 1)
      BY <2>2
    <3> QED
      BY <1>1, <2>2, <3>1
  <2> QED
    BY <2>1, <2>2
<1>3. (index + len - 1) % len = IF index = 0 THEN len - 1 ELSE index - 1
  <2>1. CASE index = 0
    <3>1. index + len - 1 = len - 1 /\ len - 1 \in 0..(len - 1)
      BY <2>1
    <3> QED
      BY <1>1, <2>1, <3>1
  <2>2. CASE index # 0
    <3>1. index - 1 \in 0..(len - 1) /\ index + len - 1 = (index - 1) + len
      BY <2>2
    <3> QED
      BY <1>1, <2>2, <3>1
  <2> QED
    BY <2>1, <2>2
<1> QED
  BY <1>2, <1>3 DEF Stepped

(* The line a step goes to is scrolled into the window.                    *)
LEMMA ScrolledTo ==
  \A history \in Nat : \A screen \in Nat \ {0} : \A line \in (-history)..(screen - 1) :
    \A o \in 0..history :
      LET offset == ScrollToLine(line, o, screen)
      IN offset \in 0..history /\ line + offset \in 0..(screen - 1)
  BY DEF ScrollToLine

(* Steps go from newer to older lines and come to every match, the line    *)
(* stepped to is in the window with its match marked, for any rows no      *)
(* wider than the columns looked at and any query (commands.rs, search.rs).*)
THEOREM StepsReach ==
  ASSUME NEW in, Lists(in.rows), in.history \in Nat, IsList(in.query), in.cap \in Nat,
         in.history < Len(in.rows), \A i \in 1..Len(in.rows) : Len(in.rows[i]) <= 4
  PROVE  StepsHonest(in)
<1> DEFINE rows == in.rows
           history == in.history
           result == SearchLiteral(in.rows, in.history, in.query, in.cap)
           s == Lowered(in.query)
           M == result.matches
           len == Len(result.matches)
           screen == Len(in.rows) - in.history
<1>1. /\ Len(rows) \in Nat /\ history \in Nat /\ history < Len(rows)
      /\ \A i \in 1..Len(rows) : Len(rows[i]) \in Nat /\ Len(rows[i]) <= 4
  BY DEF Lists, IsList
<1>2. Searched(rows, history, s, M)
  BY ResultIs, Zenon
<1> HIDE DEF result, rows, s
<1>3. /\ len \in Nat /\ DOMAIN M = 1..len
      /\ \A k \in 1..len : \E i \in 1..Len(rows) : Marks(rows[i], s, i - 1 - history, M[k])
      /\ \A k \in 2..len : Comes(rows, history, M[k - 1], M[k])
  BY <1>2 DEF Searched, IsList
<1>4. screen \in Nat \ {0} /\ screen = Len(rows) - history
  BY <1>1 DEF rows
<1> HIDE DEF screen, history, len, M
<1>5. ASSUME NEW k \in 1..len
      PROVE  /\ M[k].line \in (-history)..(screen - 1)
             /\ M[k].start_col \in 0..3 /\ M[k].start_col \in M[k].start_col..M[k].end_col
  <2>1. PICK i \in 1..Len(rows) : Marks(rows[i], s, i - 1 - history, M[k])
    BY <1>3
  <2> DEFINE f == M[k]
  <2>2. /\ f.line = i - 1 - history
        /\ f.end_col \in 0..(Len(rows[i]) - 1) /\ f.start_col \in 0..f.end_col
    BY <2>1 DEF Marks
  <2>3. Len(rows[i]) \in Nat /\ Len(rows[i]) <= 4
    BY <1>1
  <2> HIDE DEF f
  <2>4. f.start_col \in 0..3 /\ f.start_col \in f.start_col..f.end_col
    <3> DEFINE x == f.start_col
               y == f.end_col
               n == Len(rows[i])
    <3>1. x \in 0..y /\ y \in 0..(n - 1) /\ n \in Nat /\ n <= 4
      BY <2>2, <2>3
    <3> HIDE DEF x, y, n
    <3>2. x \in 0..3 /\ x \in x..y
      BY <3>1
    <3> QED
      BY <3>2, Zenon DEF x, y
  <2>5. f.line \in (-history)..(screen - 1)
    BY <1>1, <1>4, <2>2
  <2> QED
    BY <2>4, <2>5 DEF f
<1>6. ASSUME NEW k \in 2..len PROVE M[k - 1].line <= M[k].line
  <2>1. M[k].line > M[k - 1].line \/ M[k - 1].line = M[k].line
    BY <1>3 DEF Comes
  <2>2. k \in 1..len /\ k - 1 \in 1..len
    BY <1>3
  <2>3. M[k].line \in Int /\ M[k - 1].line \in Int
    BY <1>1, <1>4, <1>5, <2>2
  <2> QED
    BY <2>1, <2>3
<1>7. ASSUME NEW index \in 0..(len - 1)
      PROVE  LET next == Stepped(index, TRUE, len)
             IN /\ Stepped(next, FALSE, len) = index
                /\ next # 0 => LineAt(result, next) <= LineAt(result, index)
                /\ index # 0 => \E k \in 0..(index - 1) : Stepped(k, TRUE, len) = index
                /\ \A o \in 0..history :
                     LET offset == ScrollToLine(LineAt(result, index), o, screen)
                         row == LineAt(result, index) + offset
                     IN /\ offset \in 0..history /\ row \in 0..(screen - 1)
                        /\ \E col \in 0..3 : IsSearchHit(result, offset, row, col)
  <2> DEFINE next == Stepped(index, TRUE, len)
             lineAt(i) == LineAt(result, i)
  <2>1. len \in Nat \ {0}
    BY <1>3
  <2>2. next = IF index = len - 1 THEN 0 ELSE index + 1
    BY <2>1, StepIs
  <2>3. next \in 0..(len - 1)
    <3> HIDE DEF next
    <3> QED
      BY <2>1, <2>2
  <2>4. Stepped(next, FALSE, len) = IF next = 0 THEN len - 1 ELSE next - 1
    BY <2>1, <2>3, StepIs
  <2>5. Stepped(next, FALSE, len) = index
    <3> HIDE DEF next
    <3>1. CASE index = len - 1
      BY <2>1, <2>2, <2>4, <3>1
    <3>2. CASE index # len - 1
      <4>1. next = index + 1 /\ next # 0 /\ next - 1 = index
        BY <2>1, <2>2, <3>2
      <4> QED
        BY <2>4, <4>1
    <3> QED
      BY <3>1, <3>2
  <2>6. \A i : lineAt(i) = M[len - i].line
    BY DEF LineAt, M, len
  <2> HIDE DEF lineAt, next
  <2>7. next # 0 => lineAt(next) <= lineAt(index)
    <3> HAVE next # 0
    <3>1. len - index \in 2..len /\ len - next = (len - index) - 1
      BY <2>1, <2>2
    <3> QED
      BY <1>6, <2>6, <3>1
  <2>8. index # 0 => \E k \in 0..(index - 1) : Stepped(k, TRUE, len) = index
    <3> HAVE index # 0
    <3>1. /\ index - 1 \in 0..(len - 1) /\ index - 1 # len - 1 /\ (index - 1) + 1 = index
          /\ index - 1 \in 0..(index - 1)
      BY <2>1
    <3>2. Stepped(index - 1, TRUE, len) = index
      BY <2>1, <3>1, StepIs
    <3> QED
      BY <3>1, <3>2
  <2>9. ASSUME NEW o \in 0..history
        PROVE  LET offset == ScrollToLine(lineAt(index), o, screen)
                   row == lineAt(index) + offset
               IN /\ offset \in 0..history /\ row \in 0..(screen - 1)
                  /\ \E col \in 0..3 : IsSearchHit(result, offset, row, col)
    <3> DEFINE j == len - index
               l == lineAt(index)
               offset == ScrollToLine(l, o, screen)
    <3>1. j \in 1..len
      BY <2>1
    <3>2. l = M[j].line
      BY <2>6
    <3>3. /\ l \in (-history)..(screen - 1)
          /\ M[j].start_col \in 0..3 /\ M[j].start_col \in M[j].start_col..M[j].end_col
      <4> HIDE DEF l, j
      <4> QED
        BY <1>5, <3>1, <3>2
    <3> HIDE DEF l
    <3>4. offset \in 0..history /\ l + offset \in 0..(screen - 1)
      BY <1>1, <1>4, <3>3, ScrolledTo
    <3> HIDE DEF offset, j
    <3>5. l = (l + offset) - offset
      BY <1>1, <1>4, <3>3, <3>4
    <3>6. j \in DOMAIN result.matches /\ result.matches[j] = M[j]
      BY <1>3, <3>1 DEF M
    <3>7. IsSearchHit(result, offset, l + offset, M[j].start_col)
      <4>1. M[j].line = (l + offset) - offset /\ M[j].start_col \in M[j].start_col..M[j].end_col
        BY <3>2, <3>3, <3>5
      <4> DEFINE line == (l + offset) - offset
                 c == M[j].start_col
      <4>2. result.matches[j].line = line /\ c \in result.matches[j].start_col..result.matches[j].end_col
        BY <3>6, <4>1
      <4> HIDE DEF c
      <4> QED
        BY <3>6, <4>2, Zenon DEF IsSearchHit, c
    <3> QED
      BY <3>3, <3>4, <3>7 DEF offset, l
  <2> QED
    BY <2>5, <2>7, <2>8, <2>9, Zenon DEF next, lineAt
<1> QED
  BY <1>7, Zenon DEF StepsHonest, result, M, len, screen, history

(***************************************************************************)
(* Selection and cursor                                                    *)
(***************************************************************************)
(* What a selection from one point to a later one holds.                   *)
Holds(start, end, block, line, col) ==
  /\ line \in start.line..end.line
  /\ IF block THEN col \in start.column..end.column \/ col \in end.column..start.column
     ELSE (line > start.line \/ col >= start.column) /\ (line < end.line \/ col <= end.column)

Point(p, size) == p.line \in Int /\ p.column \in 0..(size.columns - 1)
Sized(size) == size.columns \in Nat /\ size.rows \in Nat

(* The clipped span contains a cell of the window just when the selection  *)
(* holds it.                                                               *)
LEMMA ClipShows ==
  ASSUME NEW size, Sized(size), NEW start, NEW end, Point(start, size), Point(end, size),
         NEW block \in BOOLEAN, NEW offset \in Int,
         NEW row \in 0..(size.rows - 1), NEW col \in 0..(size.columns - 1)
  PROVE  LET span == ClipSelection(start, end, block, offset, size)
         IN span.is /\ SpanContains(span, row, col) <=> Holds(start, end, block, row - offset, col)
<1> DEFINE span == ClipSelection(start, end, block, offset, size)
           sl == start.line
           sc == start.column
           el == end.line
           ec == end.column
           first == sl + offset
           last == el + offset
           rows == size.rows
           cols == size.columns
           a == IF first < 0 THEN 0 ELSE first
           b == IF first < 0 THEN IF block THEN sc ELSE 0 ELSE sc
           c == IF last >= rows THEN rows - 1 ELSE last
           d == IF last >= rows THEN IF block THEN ec ELSE cols - 1 ELSE ec
<1>1. /\ sl \in Int /\ el \in Int /\ sc \in Int /\ 0 <= sc /\ sc < cols /\ ec \in Int /\ 0 <= ec
      /\ ec < cols /\ rows \in Nat /\ cols \in Nat
  BY DEF Point, Sized
<1>2. row \in Int /\ 0 <= row /\ row < rows /\ col \in Int /\ 0 <= col /\ col < cols
  BY <1>1
<1>3. Holds(start, end, block, row - offset, col) <=>
        /\ first <= row /\ row <= last
        /\ IF block THEN (sc <= col /\ col <= ec) \/ (ec <= col /\ col <= sc)
           ELSE (row > first \/ col >= sc) /\ (row < last \/ col <= ec)
  <2>1. row - offset \in sl..el <=> first <= row /\ row <= last
    BY <1>1, <1>2
  <2>2. (row - offset > sl <=> row > first) /\ (row - offset < el <=> row < last)
    BY <1>1, <1>2
  <2>3. (col \in sc..ec <=> sc <= col /\ col <= ec) /\ (col \in ec..sc <=> ec <= col /\ col <= sc)
    BY <1>1, <1>2
  <2> HIDE DEF first, last, sl, el, sc, ec
  <2> QED
    BY <2>1, <2>2, <2>3, Zenon DEF Holds, sl, el, sc, ec
<1>4. CASE last < 0 \/ first >= rows
  <2>1. span = NoSpan
    BY <1>4, Zenon DEF ClipSelection
  <2>2. ~span.is
    BY <2>1 DEF NoSpan
  <2>3. ~(first <= row /\ row <= last)
    <3> HIDE DEF first, last, rows
    <3>1. first \in Int /\ last \in Int
      BY <1>1 DEF first, last
    <3> QED
      BY <1>1, <1>2, <1>4, <3>1
  <2> HIDE DEF span, first, last
  <2> QED
    BY <1>3, <2>2, <2>3, Zenon DEF span
<1>5. CASE ~(last < 0 \/ first >= rows)
  <2>1. span = [is |-> TRUE, block |-> block, start |-> <<a, b>>, end |-> <<c, d>>]
    <3>1. span = [is |-> TRUE, block |-> block,
                  start |-> IF first < 0 THEN <<0, IF block THEN sc ELSE 0>> ELSE <<first, sc>>,
                  end |-> IF last >= rows THEN <<rows - 1, IF block THEN ec ELSE cols - 1>>
                          ELSE <<last, ec>>]
      BY <1>5, Zenon DEF ClipSelection
    <3>2. /\ (IF first < 0 THEN <<0, IF block THEN sc ELSE 0>> ELSE <<first, sc>>) = <<a, b>>
          /\ (IF last >= rows THEN <<rows - 1, IF block THEN ec ELSE cols - 1>> ELSE <<last, ec>>) = <<c, d>>
      OBVIOUS
    <3> HIDE DEF span, a, b, c, d, first, last, sc, ec, rows, cols
    <3> QED
      BY <3>1, <3>2, Zenon
  <2> HIDE DEF span, a, b, c, d
  <2>2. /\ span.is /\ span.block = block
        /\ span.start[1] = a /\ span.start[2] = b /\ span.end[1] = c /\ span.end[2] = d
    BY <2>1
  <2>3. SpanContains(span, row, col) <=>
          /\ row \in a..c
          /\ IF block THEN col \in b..d \/ col \in d..b
             ELSE (row > a \/ col >= b) /\ (row < c \/ col <= d)
    BY <2>2, Zenon DEF SpanContains
  <2> HIDE DEF first, last, sl, sc, el, ec, rows, cols
  <2>4. first \in Int /\ last \in Int
    BY <1>1 DEF first, last
  <2>5. a \in Int /\ c \in Int /\ b \in Int /\ d \in Int
    BY <1>1, <2>4 DEF a, b, c, d
  <2>6. row \in a..c <=> first <= row /\ row <= last
    BY <1>1, <1>2, <1>5, <2>4 DEF a, c
  <2>7. ASSUME block
        PROVE  span.is /\ SpanContains(span, row, col) <=> Holds(start, end, block, row - offset, col)
    <3>1. b = sc /\ d = ec
      BY <2>7 DEF b, d
    <3>2. (col \in sc..ec <=> sc <= col /\ col <= ec) /\ (col \in ec..sc <=> ec <= col /\ col <= sc)
      BY <1>1, <1>2
    <3>3. col \in b..d \/ col \in d..b <=> (sc <= col /\ col <= ec) \/ (ec <= col /\ col <= sc)
      BY <3>1, <3>2, Zenon
    <3>4. SpanContains(span, row, col) <=> row \in a..c /\ (col \in b..d \/ col \in d..b)
      BY <2>3, <2>7, Zenon
    <3>5. Holds(start, end, block, row - offset, col) <=>
            first <= row /\ row <= last /\ ((sc <= col /\ col <= ec) \/ (ec <= col /\ col <= sc))
      BY <1>3, <2>7, Zenon
    <3> QED
      BY <2>2, <2>6, <3>3, <3>4, <3>5, Zenon
  <2>8. ASSUME ~block
        PROVE  span.is /\ SpanContains(span, row, col) <=> Holds(start, end, block, row - offset, col)
    <3>1. first <= row => (row > a \/ col >= b <=> row > first \/ col >= sc)
      BY <1>1, <1>2, <1>5, <2>4, <2>8 DEF a, b
    <3>2. row <= last => (row < c \/ col <= d <=> row < last \/ col <= ec)
      BY <1>1, <1>2, <1>5, <2>4, <2>8 DEF c, d
    <3> QED
      BY <1>3, <2>2, <2>3, <2>6, <2>8, <3>1, <3>2, Zenon
  <2> QED
    BY <2>7, <2>8, Zenon DEF span
<1> QED
  BY <1>4, <1>5

At(p) == p.row \in Nat /\ p.col \in Nat

(* The window shows as selected the cells in it that are, and the cursor   *)
(* where it is, for any window, points and scrolling (adapter.rs,          *)
(* snapshot.rs).                                                           *)
THEOREM SelectionShows ==
  ASSUME NEW in, At(in.from), At(in.to), in.block \in BOOLEAN, in.offset \in Int, in.scrolled \in Int,
         Sized(in.size), in.size.columns > 0, in.size.rows > 0
  PROVE  SelectionHonest(in)
<1> DEFINE size == in.size
           p == ToEnginePoint(in.from, in.offset, in.size)
           q == ToEnginePoint(in.to, in.offset, in.size)
           ahead == p.line < q.line \/ (p.line = q.line /\ p.column <= q.column)
           start == IF ahead THEN p ELSE q
           end == IF ahead THEN q ELSE p
           low == Least(p.column, q.column)
           within(line, col) ==
             /\ line \in start.line..end.line
             /\ IF in.block
                  THEN col \in Least(p.column, q.column)..(p.column + q.column - Least(p.column, q.column))
                  ELSE (line > start.line \/ col >= start.column) /\ (line < end.line \/ col <= end.column)
           offset == in.offset + in.scrolled - 2
           span == ClipSelection(start, end, in.block, offset, in.size)
           cursor == ConvertCursor(FALSE, q, offset, in.size.rows)
<1>1. \A n \in Nat : \A limit \in Nat : limit > 0 => Clamped(n, limit) \in 0..(limit - 1)
  BY DEF Clamped
<1>2. Point(p, size) /\ Point(q, size)
  <2>1. \A a : At(a) => Point(ToEnginePoint(a, in.offset, in.size), size)
    <3> TAKE a
    <3> HAVE At(a)
    <3>1. Clamped(a.row, size.rows) \in Int /\ Clamped(a.col, size.columns) \in 0..(size.columns - 1)
      BY <1>1 DEF At, Sized
    <3> QED
      BY <3>1 DEF ToEnginePoint, Point
  <2> QED
    BY <2>1, Zenon
<1>3. q = [line |-> q.line, column |-> q.column]
  BY DEF ToEnginePoint
<1> HIDE DEF p, q
<1>4. /\ p.line \in Int /\ p.column \in Int /\ q.line \in Int /\ q.column \in Int
      /\ size.rows \in Nat /\ size.columns \in Nat /\ offset \in Int
  BY <1>2 DEF Point, Sized
<1>5. Point(start, size) /\ Point(end, size) /\ Sized(size)
  BY <1>2
<1>6. \A line \in Int : \A col \in Int : within(line, col) <=> Holds(start, end, in.block, line, col)
  <2>1. \A col \in Int : col \in low..(p.column + q.column - low) <=>
          col \in start.column..end.column \/ col \in end.column..start.column
    <3>1. \/ start.column = p.column /\ end.column = q.column
          \/ start.column = q.column /\ end.column = p.column
      BY Zenon
    <3> DEFINE x == p.column
               y == q.column
    <3>2. x \in Int /\ y \in Int
      BY <1>4
    <3> HIDE DEF start, end, x, y
    <3>3. \A col \in Int : col \in Least(x, y)..(x + y - Least(x, y)) <=> col \in x..y \/ col \in y..x
      BY <3>2 DEF Least
    <3>4. CASE start.column = x /\ end.column = y
      BY <3>3, <3>4, Zenon DEF x, y
    <3>5. CASE start.column = y /\ end.column = x
      BY <3>3, <3>5, Zenon DEF x, y
    <3> QED
      BY <3>1, <3>4, <3>5, Zenon DEF x, y
  <2> HIDE DEF start, end, low
  <2> TAKE line \in Int
  <2> TAKE col \in Int
  <2>2. col \in low..(p.column + q.column - low) <=>
          col \in start.column..end.column \/ col \in end.column..start.column
    BY <2>1
  <2> QED
    BY <2>2, Zenon DEF Holds, low
<1> HIDE DEF start, end, offset, within
<1>7. ASSUME NEW row \in 0..(size.rows - 1), NEW col \in 0..(size.columns - 1)
      PROVE  /\ (span.is /\ SpanContains(span, row, col)) = within(row - offset, col)
             /\ (cursor.is /\ cursor.row = row /\ cursor.col = col)
                  = (q = [line |-> row - offset, column |-> col])
  <2>1. row \in Int /\ col \in Int /\ row - offset \in Int
    BY <1>4
  <2>2. span.is /\ SpanContains(span, row, col) <=> Holds(start, end, in.block, row - offset, col)
    BY <1>4, <1>5, ClipShows
  <2>3. span.is /\ SpanContains(span, row, col) <=> within(row - offset, col)
    <3> HIDE DEF span
    <3> QED
      BY <1>6, <2>1, <2>2
  <2>4. cursor.is /\ cursor.row = row /\ cursor.col = col <=> q = [line |-> row - offset, column |-> col]
    <3>1. q = [line |-> row - offset, column |-> col] <=> q.line = row - offset /\ q.column = col
      <4> DEFINE l == row - offset
      <4> HIDE DEF l
      <4> QED
        BY <1>3 DEF l
    <3>2. q.line = row - offset <=> q.line + offset = row
      BY <1>4, <2>1
    <3>3. CASE q.line + offset \in 0..(size.rows - 1)
      <4>1. cursor = [is |-> TRUE, row |-> q.line + offset, col |-> q.column]
        BY <3>3 DEF ConvertCursor
      <4> HIDE DEF cursor
      <4>2. cursor.is /\ cursor.row = q.line + offset /\ cursor.col = q.column
        BY <4>1
      <4> QED
        BY <3>1, <3>2, <4>2
    <3>4. CASE q.line + offset \notin 0..(size.rows - 1)
      <4>1. ~cursor.is
        BY <3>4 DEF ConvertCursor, Hidden
      <4>2. q.line + offset # row
        BY <3>4
      <4> HIDE DEF cursor
      <4> QED
        BY <3>1, <3>2, <4>1, <4>2
    <3> QED
      BY <3>3, <3>4
  <2>5. within(row - offset, col) \in BOOLEAN
    BY DEF within
  <2> HIDE DEF cursor, span
  <2> QED
    BY <2>3, <2>4, <2>5
<1> QED
  BY <1>7, Zenon DEF SelectionHonest, size, p, q, start, end, offset, within

(***************************************************************************)
(* Limits                                                                  *)
(***************************************************************************)
LEMMA Quotient ==
  \A a \in Nat : \A d \in Nat \ {0} :
    a \div d \in Nat /\ (a \div d) * d <= a /\ a < (a \div d + 1) * d
  BY SMTT(20)

LEMMA NoLess == \A a, b, c \in Nat : a <= b => a * c <= b * c
<1> TAKE a, b, c \in Nat
<1> HAVE a <= b
<1>1. b - a \in Nat /\ b = a + (b - a)
  OBVIOUS
<1>2. PICK e \in Nat : b = a + e
  BY <1>1
<1>3. b * c = a * c + e * c /\ a * c \in Nat /\ e * c \in Nat
  BY <1>2
<1> QED
  BY <1>3

(* As much history is kept as both limits allow, and no more               *)
(* (effective_scrollback).                                                 *)
THEOREM HistoryFits ==
  ASSUME NEW in, in.what # "title", in.columns \in Nat,
         in.limits.scrollback_lines \in Nat, in.limits.history_bytes \in Nat
  PROVE  LimitsHonest(in)
<1> DEFINE cols == in.columns
           most == in.limits.scrollback_lines
           hb == in.limits.history_bytes
           w == IF cols > 1 THEN cols ELSE 1
           d == w * BytesPerCell
           q == hb \div d
           lines == EffectiveScrollback(in.limits, in.columns)
           bytes(n) == n * BytesPerCell * in.columns
<1>1. cols \in Nat /\ most \in Nat /\ hb \in Nat /\ w \in Nat \ {0} /\ cols <= w /\ (cols > 0 => cols = w)
  OBVIOUS
<1>2. d \in Nat \ {0} /\ BytesPerCell \in Nat /\ d = w * 32
  BY <1>1 DEF BytesPerCell
<1>3. lines = IF q < most THEN q ELSE most
  BY DEF EffectiveScrollback
<1> HIDE DEF cols, most, hb, w, q, lines
<1>4. q \in Nat /\ q * d <= hb /\ hb < (q + 1) * d
  <2> HIDE DEF d
  <2> QED
    BY <1>1, <1>2, Quotient DEF q
<1>5. lines \in Nat /\ lines <= q /\ lines <= most
  BY <1>1, <1>3, <1>4
<1>6. \A n \in Nat : n * 32 \in Nat /\ bytes(n) = (n * 32) * cols /\ n * d = (n * 32) * w
  <2> TAKE n \in Nat
  <2>1. bytes(n) = (n * 32) * cols
    BY DEF BytesPerCell, cols
  <2>2. n * (w * 32) = (n * 32) * w
    BY <1>1
  <2> QED
    BY <1>2, <2>1, <2>2
<1> HIDE DEF bytes, d
<1>7. bytes(lines) <= hb
  <2>1. (lines * 32) * cols <= (lines * 32) * w
    <3>1. \A a, b, c \in Nat : a <= b => c * a <= c * b
      BY NoLess
    <3> QED
      BY <1>1, <1>5, <1>6, <3>1
  <2>2. lines * d <= q * d
    BY <1>2, <1>4, <1>5, NoLess
  <2>3. bytes(lines) <= lines * d
    BY <1>5, <1>6, <2>1
  <2>4. \A a, b \in Nat : a * b \in Nat
    OBVIOUS
  <2>5. bytes(lines) \in Nat /\ lines * d \in Nat /\ q * d \in Nat
    BY <1>1, <1>2, <1>4, <1>5, <1>6, <2>4
  <2> QED
    BY <1>1, <1>4, <2>2, <2>3, <2>5
<1>8. ASSUME lines < most, cols > 0 PROVE bytes(lines + 1) > hb
  <2>1. lines = q
    BY <1>1, <1>3, <1>4, <1>8
  <2>2. lines + 1 \in Nat
    BY <1>5
  <2>3. bytes(lines + 1) = (q + 1) * d
    BY <1>1, <1>6, <1>8, <2>1, <2>2
  <2>4. (q + 1) * d \in Int
    BY <1>2, <1>4
  <2> QED
    BY <1>1, <1>4, <2>3, <2>4
<1> QED
  BY <1>5, <1>7, <1>8, Zenon DEF LimitsHonest, lines, bytes, cols, most, hb

(* Bytes adds up.                                                          *)
Weighed(s) == IsList(s) /\ \A i \in 1..Len(s) : s[i].bytes \in Nat

LEMMA BytesRun ==
  ASSUME NEW s, Weighed(s)
  PROVE  \E f : /\ f \in [0..Len(s) -> Nat] /\ f[0] = 0 /\ Bytes(s) = f[Len(s)]
                /\ \A n \in 1..Len(s) : f[n] = f[n - 1] + s[n].bytes
<1> DEFINE N == Len(s)
           total[n \in 0..N] == IF n = 0 THEN 0 ELSE total[n - 1] + s[n].bytes
           Run(g) == g = [n \in 0..N |-> IF n = 0 THEN 0 ELSE g[n - 1] + s[n].bytes]
           turn == [n \in 1..N |-> [x \in Nat |-> x + s[n].bytes]]
<1>1. N \in Nat /\ \A n \in 1..N : s[n].bytes \in Nat
  BY DEF Weighed, IsList
<1>2. Bytes(s) = total[N]
  BY Zenon DEF Bytes
<1> HIDE DEF N
<1>3. PICK f : LoopRun(f, N, Nat, 0, turn)
  <2>1. turn \in [1..N -> [Nat -> Nat]]
    BY <1>1
  <2> HIDE DEF turn
  <2> QED
    BY <1>1, <2>1, LoopRuns
<1>4. /\ f \in [0..N -> Nat] /\ f[0] = 0
      /\ \A n \in 1..N : n - 1 \in 0..N /\ n # 0 /\ f[n] = f[n - 1] + s[n].bytes
  <2>1. f \in [0..N -> Nat] /\ f[0] = 0 /\ \A n \in 1..N : f[n] = turn[n][f[n - 1]]
    <3> HIDE DEF turn
    <3> QED
      BY <1>3 DEF LoopRun
  <2>2. \A n \in 1..N : n - 1 \in 0..N /\ n # 0
    BY <1>1
  <2>3. \A n \in 1..N : f[n - 1] \in Nat
    BY <2>1, <2>2
  <2>4. \A n \in 1..N : turn[n][f[n - 1]] = f[n - 1] + s[n].bytes
    BY <2>3
  <2> HIDE DEF turn
  <2> QED
    BY <2>1, <2>2, <2>4
<1>5. Run(f)
  <2>1. \A n \in 0..N : f[n] = IF n = 0 THEN 0 ELSE f[n - 1] + s[n].bytes
    <3> TAKE n \in 0..N
    <3>1. n # 0 => n \in 1..N
      BY <1>1
    <3> QED
      BY <1>4, <3>1, Zenon
  <2>2. f = [n \in 0..N |-> f[n]]
    BY <1>4
  <2>3. [n \in 0..N |-> f[n]] = [n \in 0..N |-> IF n = 0 THEN 0 ELSE f[n - 1] + s[n].bytes]
    BY <2>1, Zenon
  <2> QED
    BY <2>2, <2>3, Zenon
<1>6. total = CHOOSE g : Run(g)
  OBVIOUS
<1>7. Run(total)
  <2> HIDE DEF Run, total
  <2> QED
    BY <1>5, <1>6
<1> DEFINE G == {n \in 0..N : total[n] = f[n]}
<1> HIDE DEF total
<1>8. \A n \in 0..N : total[n] = IF n = 0 THEN 0 ELSE total[n - 1] + s[n].bytes
  BY <1>7, Zenon
<1>9. 0 \in G
  <2>1. 0 \in 0..N
    BY <1>1
  <2> QED
    BY <1>4, <1>8, <2>1
<1>10. ASSUME NEW n \in 1..N, n - 1 \in G PROVE n \in G
  <2>1. n \in 0..N /\ n # 0 /\ total[n - 1] = f[n - 1]
    BY <1>1, <1>10
  <2>2. total[n] = total[n - 1] + s[n].bytes
    BY <1>8, <2>1, Zenon
  <2>3. f[n] = f[n - 1] + s[n].bytes
    BY <1>4
  <2> QED
    BY <2>1, <2>2, <2>3
<1>11. total[N] = f[N]
  <2> HIDE DEF G
  <2>1. \A n \in 0..N : n \in G
    BY <1>1, <1>9, <1>10, Turns
  <2>2. N \in G
    BY <1>1, <2>1
  <2> QED
    BY <2>2 DEF G
<1> QED
  BY <1>2, <1>4, <1>11 DEF N

(* One more character adds its bytes.                                      *)
LEMMA BytesAppend ==
  \A s, c : Weighed(s) /\ c.bytes \in Nat =>
    /\ Bytes(s) \in Nat /\ Weighed(Append(s, c)) /\ Bytes(Append(s, c)) = Bytes(s) + c.bytes
<1> TAKE s, c
<1> HAVE Weighed(s) /\ c.bytes \in Nat
<1> DEFINE N == Len(s)
           t == Append(s, c)
<1>1. N \in Nat /\ IsList(s) /\ \A i \in 1..N : s[i].bytes \in Nat
  BY DEF Weighed, IsList
<1>2. /\ IsList(t) /\ Len(t) = N + 1 /\ (\A i \in 1..N : t[i] = s[i]) /\ t[N + 1] = c
  <2> DEFINE X == {s[i] : i \in 1..N} \cup {c}
  <2>1. s \in Seq({s[i] : i \in 1..N})
    BY <1>1, SeqList, Zenon
  <2>2. s \in Seq(X) /\ c \in X
    BY <2>1
  <2> HIDE DEF X, t, N
  <2>3. t \in Seq(X) /\ Len(t) = N + 1 /\ (\A i \in 1..N : t[i] = s[i]) /\ t[N + 1] = c
    BY <2>2, Longer DEF t, N
  <2> QED
    BY <2>3 DEF IsList
<1> HIDE DEF t, N
<1>3. Weighed(t)
  <2>1. ASSUME NEW i \in 1..Len(t) PROVE t[i].bytes \in Nat
    <3>1. i \in 1..N \/ i = N + 1
      BY <1>1, <1>2
    <3> QED
      BY <1>1, <1>2, <3>1
  <2> QED
    BY <1>2, <2>1 DEF Weighed
<1>4. PICK f : /\ f \in [0..N -> Nat] /\ f[0] = 0 /\ Bytes(s) = f[N]
               /\ \A n \in 1..N : f[n] = f[n - 1] + s[n].bytes
  BY BytesRun DEF N
<1>5. PICK g : /\ g \in [0..Len(t) -> Nat] /\ g[0] = 0 /\ Bytes(t) = g[Len(t)]
               /\ \A n \in 1..Len(t) : g[n] = g[n - 1] + t[n].bytes
  BY <1>3, BytesRun
<1> DEFINE G == {n \in 0..N : g[n] = f[n]}
<1>6. 0 \in G
  BY <1>1, <1>4, <1>5
<1>7. ASSUME NEW n \in 1..N, n - 1 \in G PROVE n \in G
  <2>1. n \in 0..N /\ n \in 1..Len(t) /\ g[n - 1] = f[n - 1]
    BY <1>1, <1>2, <1>7
  <2>2. g[n] = g[n - 1] + t[n].bytes /\ f[n] = f[n - 1] + s[n].bytes /\ t[n] = s[n]
    BY <1>2, <1>4, <1>5, <2>1
  <2> QED
    BY <2>1, <2>2
<1>8. g[N] = f[N]
  <2> HIDE DEF G
  <2>1. \A n \in 0..N : n \in G
    BY <1>1, <1>6, <1>7, Turns
  <2>2. N \in G
    BY <1>1, <2>1
  <2> QED
    BY <2>2 DEF G
<1>9. g[N + 1] = g[N] + t[N + 1].bytes
  <2>1. N + 1 \in 1..Len(t) /\ N + 1 - 1 = N
    BY <1>1, <1>2
  <2> DEFINE m == N + 1
  <2> HIDE DEF G
  <2>2. m \in 1..Len(t) /\ m - 1 = N
    BY <1>1, <2>1
  <2> HIDE DEF m
  <2>3. g[m] = g[m - 1] + t[m].bytes
    BY <1>5, <2>2
  <2>4. g[m - 1] = g[N]
    BY <2>2
  <2> QED
    BY <2>3, <2>4, Zenon DEF m
<1>10. Bytes(t) = Bytes(s) + c.bytes
  BY <1>2, <1>4, <1>5, <1>8, <1>9
<1>11. Bytes(s) \in Nat
  BY <1>1, <1>4
<1> QED
  BY <1>3, <1>10, <1>11 DEF t

(* What a title is made of: the first characters that are not left out, as *)
(* many as the limit allows.                                               *)
Titled(raw, K, max, n, out) ==
  LET clean == Kept(raw, K)
      t == Len(out.title)
  IN /\ out.full \in BOOLEAN /\ Weighed(out.title) /\ t <= Len(clean)
     /\ \A k \in 1..t : out.title[k] = clean[k]
     /\ Bytes(out.title) <= max
     /\ IF out.full THEN t < Len(clean) /\ Bytes(out.title) + clean[t + 1].bytes > max
        ELSE \A k \in 1..Len(clean) : Nth(K, InOrder(K), k) <= n <=> k <= t

(* One more character of the raw title.                                    *)
LEMMA PushStep ==
  ASSUME NEW raw, Weighed(raw), NEW K, K = {i \in DOMAIN raw : ~raw[i].control},
         NEW max \in Nat, NEW n \in 1..Len(raw), NEW out, Titled(raw, K, max, n - 1, out),
         NEW title, NEW full, out = [title |-> title, full |-> full]
  PROVE  Titled(raw, K, max, n, Push(out, raw[n], max))
<1> DEFINE clean == Kept(raw, K)
           nth(k) == Nth(K, InOrder(K), k)
           m == Len(clean)
           t == Len(title)
           c == raw[n]
           next == Push(out, c, max)
<1>1. /\ Len(raw) \in Nat /\ DOMAIN raw = 1..Len(raw) /\ \A i \in 1..Len(raw) : raw[i].bytes \in Nat
  BY DEF Weighed, IsList
<1>2. K \subseteq 1..Len(raw) /\ (n \in K <=> ~c.control)
  BY <1>1
<1>3. Listing(raw, K, InOrder(K), clean)
  BY <1>1, <1>2, KeptLists
<1>4. /\ m \in Nat /\ m = Cardinality(K)
      /\ \A k \in 1..m : nth(k) \in K /\ clean[k] = raw[nth(k)]
      /\ \A k, l \in 1..m : <<nth(k), nth(l)>> \in InOrder(K) <=> k < l
      /\ \A i \in K : \E k \in 1..m : i = nth(k)
  <2>1. m = Cardinality(K) /\ Cardinality(K) \in Nat
    BY <1>3, Zenon DEF Listing
  <2>2. /\ \A k \in 1..Cardinality(K) : nth(k) \in K /\ clean[k] = raw[nth(k)]
        /\ \A k, l \in 1..Cardinality(K) : <<nth(k), nth(l)>> \in InOrder(K) <=> k < l
        /\ \A i \in K : \E k \in 1..Cardinality(K) : i = nth(k)
    BY <1>3, Zenon DEF Listing
  <2> HIDE DEF clean, nth, m
  <2> QED
    BY <2>1, <2>2
<1> HIDE DEF clean, nth, m
<1>5. \A k \in 1..m : nth(k) \in Nat
  BY <1>2, <1>4
<1>6. \A k, l \in 1..m : nth(k) < nth(l) <=> k < l
  <2>1. \A i, j \in K : <<i, j>> \in InOrder(K) <=> i < j
    BY DEF InOrder
  <2> TAKE k, l \in 1..m
  <2>2. nth(k) \in K /\ nth(l) \in K
    BY <1>4
  <2>3. <<nth(k), nth(l)>> \in InOrder(K) <=> k < l
    BY <1>4
  <2> QED
    BY <2>1, <2>2, <2>3, Zenon
<1>7. out.title = title /\ out.full = full
  BY Zenon
<1>8. /\ full \in BOOLEAN /\ Weighed(title) /\ t <= m /\ t \in Nat
      /\ \A k \in 1..t : title[k] = clean[k]
      /\ Bytes(title) <= max
      /\ IF full THEN t < m /\ Bytes(title) + clean[t + 1].bytes > max
         ELSE \A k \in 1..m : nth(k) <= n - 1 <=> k <= t
  <2>1. /\ full \in BOOLEAN /\ Weighed(title) /\ t <= m
        /\ \A k \in 1..t : title[k] = clean[k]
        /\ Bytes(title) <= max
        /\ IF full THEN t < m /\ Bytes(title) + clean[t + 1].bytes > max
           ELSE \A k \in 1..m : nth(k) <= n - 1 <=> k <= t
    BY <1>7, Zenon DEF Titled, clean, nth, m
  <2> QED
    BY <2>1 DEF Weighed, IsList
<1>9. n \in Nat /\ n >= 1 /\ c.bytes \in Nat
  BY <1>1
<1> HIDE DEF c
<1>10. CASE full
  <2>1. next = out
    BY <1>7, <1>10, Zenon DEF Push
  <2>2. out.full /\ out.full \in BOOLEAN
    BY <1>7, <1>8, <1>10
  <2>3. Titled(raw, K, max, n, out)
    <3>1. Titled(raw, K, max, n - 1, out)
      OBVIOUS
    <3> QED
      BY <2>2, <3>1, Zenon DEF Titled
  <2> QED
    BY <2>1, <2>3, Zenon DEF next, c
<1>11. CASE ~full /\ c.control
  <2>1. next = out
    BY <1>7, <1>11, Zenon DEF Push
  <2>2. \A k \in 1..m : nth(k) # n
    BY <1>2, <1>4, <1>11
  <2>3. \A k \in 1..m : nth(k) <= n - 1 <=> k <= t
    BY <1>8, <1>11
  <2>4. \A k \in 1..m : nth(k) <= n <=> k <= t
    BY <1>5, <1>9, <2>2, <2>3
  <2> QED
    BY <1>7, <1>8, <1>11, <2>1, <2>4, Zenon DEF Titled, clean, m, nth, c
<1>12. CASE ~full /\ ~c.control
  <2>1. PICK k \in 1..m : n = nth(k)
    BY <1>2, <1>4, <1>12
  <2>2. \A j \in 1..m : nth(j) <= n - 1 <=> j <= t
    BY <1>8, <1>12
  <2>3. k = t + 1
    <3>1. ~(k <= t)
      BY <1>9, <2>1, <2>2
    <3>2. ASSUME t + 1 < k PROVE FALSE
      <4>1. t + 1 \in 1..m
        BY <1>4, <1>8, <3>2
      <4>2. nth(t + 1) < n
        BY <1>6, <2>1, <3>2, <4>1
      <4>3. nth(t + 1) <= n - 1
        BY <1>5, <1>9, <4>1, <4>2
      <4>4. t + 1 <= t
        BY <2>2, <4>1, <4>3
      <4> QED
        BY <1>8, <4>4
    <3> QED
      BY <1>8, <3>1, <3>2
  <2>4. clean[t + 1] = c /\ t + 1 \in 1..m
    BY <1>4, <2>1, <2>3 DEF c
  <2>5. /\ Bytes(title) \in Nat /\ Weighed(Append(title, c))
        /\ Bytes(Append(title, c)) = Bytes(title) + c.bytes
    BY <1>8, <1>9, BytesAppend
  <2>6. CASE Bytes(title) + c.bytes > max
    <3>1. next = [title |-> title, full |-> TRUE]
      <4>1. next = [out EXCEPT !.full = TRUE]
        BY <1>7, <1>12, <2>6, Zenon DEF Push
      <4> HIDE DEF next
      <4> QED
        BY <4>1
    <3> HIDE DEF next
    <3>2. next.title = title /\ next.full = TRUE
      BY <3>1
    <3>3. t < m
      <4> HIDE DEF next
      <4>1. t \in Nat /\ m \in Nat
        BY <1>4, <1>8
      <4>2. t + 1 \in 1..m
        BY <2>4
      <4> HIDE DEF t
      <4> QED
        BY <4>1, <4>2
    <3> QED
      BY <1>8, <2>4, <2>6, <3>2, <3>3, Zenon DEF Titled, clean, m, nth, next, c
  <2>7. CASE ~(Bytes(title) + c.bytes > max)
    <3> DEFINE a == Append(title, c)
    <3>1. next = [title |-> a, full |-> FALSE]
      <4>1. next = [out EXCEPT !.title = a]
        BY <1>7, <1>12, <2>7, Zenon DEF Push
      <4> HIDE DEF next, a
      <4>2. full = FALSE
        BY <1>8, <1>12
      <4> QED
        BY <4>1, <4>2
    <3>2. Len(a) = t + 1 /\ (\A j \in 1..t : a[j] = title[j]) /\ a[t + 1] = c
      <4> DEFINE X == {title[j] : j \in 1..t} \cup {c}
      <4>1. title \in Seq({title[j] : j \in 1..t})
        BY <1>8, SeqList, Zenon DEF Weighed
      <4>2. title \in Seq(X) /\ c \in X
        BY <4>1
      <4> HIDE DEF X
      <4> QED
        BY <4>2, Longer
    <3> HIDE DEF next, a
    <3>3. next.title = a /\ next.full = FALSE
      BY <3>1
    <3>4. Len(a) <= m
      BY <2>4, <3>2
    <3>5. \A j \in 1..Len(a) : a[j] = clean[j]
      <4> TAKE j \in 1..Len(a)
      <4>1. j \in 1..t \/ j = t + 1
        BY <1>8, <3>2
      <4> QED
        BY <1>8, <2>4, <3>2, <4>1
    <3>6. Bytes(a) <= max
      <4>1. Bytes(a) = Bytes(title) + c.bytes
        BY <2>5 DEF a
      <4>2. Bytes(title) \in Nat
        BY <2>5
      <4> QED
        BY <1>9, <2>7, <4>1, <4>2
    <3>7. \A j \in 1..m : nth(j) <= n <=> j <= Len(a)
      <4> TAKE j \in 1..m
      <4>1. nth(j) < nth(k) <=> j < k
        BY <1>6, <2>1
      <4>2. nth(k) < nth(j) <=> k < j
        BY <1>6, <2>1
      <4>3. nth(j) \in Nat /\ k \in Nat /\ j \in Nat /\ k = Len(a) /\ nth(k) = n
        BY <1>5, <2>1, <2>3, <3>2
      <4>4. j <= k <=> ~(k < j)
        BY <4>3
      <4>5. nth(j) <= n <=> ~(n < nth(j))
        BY <1>9, <4>3
      <4> QED
        BY <4>2, <4>3, <4>4, <4>5
    <3>8. Weighed(a)
      BY <2>5 DEF a
    <3> QED
      BY <3>3, <3>4, <3>5, <3>6, <3>7, <3>8, Zenon DEF Titled, clean, m, nth, next, c
  <2> QED
    BY <2>6, <2>7
<1> QED
  BY <1>8, <1>10, <1>11, <1>12

LEMMA PrefixIs ==
  ASSUME NEW a, NEW b, IsList(a), IsList(b), Len(a) <= Len(b), \A k \in 1..Len(a) : a[k] = b[k]
  PROVE  IsPrefix(a, b)
<1> DEFINE n == Len(a)
<1>1. n \in Nat /\ Len(b) \in Nat /\ DOMAIN a = 1..n /\ a = [k \in 1..n |-> a[k]]
  BY DEF IsList
<1>2. 1 + n - 1 = n /\ \A k \in 1..n : k + 1 - 1 = k
  BY <1>1
<1>3. SubSeq(a, 1, n) = [k \in 1..(1 + n - 1) |-> a[k + 1 - 1]]
  BY <1>1
<1>4. SubSeq(b, 1, n) = [k \in 1..(1 + n - 1) |-> b[k + 1 - 1]]
  BY <1>1
<1> HIDE DEF n
<1>5. SubSeq(a, 1, n) = [k \in 1..n |-> a[k]]
  BY <1>2, <1>3
<1>6. SubSeq(b, 1, n) = [k \in 1..n |-> b[k]]
  BY <1>2, <1>4
<1>7. SubSeq(a, 1, n) = a /\ SubSeq(b, 1, n) = a
  BY <1>1, <1>5, <1>6 DEF n
<1> QED
  BY <1>7 DEF IsPrefix, n

(* sanitize_title gives the first characters that are not control, within  *)
(* the limit of bytes, and no more of them would have fitted (policy.rs).  *)
THEOREM TitleFits ==
  ASSUME NEW in, in.what = "title", Weighed(in.raw), in.max \in Nat
  PROVE  LimitsHonest(in)
<1> DEFINE raw == in.raw
           max == in.max
           K == {i \in DOMAIN in.raw : ~in.raw[i].control}
           clean == Kept(in.raw, {i \in DOMAIN in.raw : ~in.raw[i].control})
           N == Len(raw)
           X == {raw[i] : i \in 1..N}
           R == [title : Seq(X), full : BOOLEAN]
           start == [title |-> <<>>, full |-> FALSE]
           turn == [n \in 1..N |-> [r \in R |-> Push(r, raw[n], max)]]
           out[n \in 0..N] == IF n = 0 THEN start ELSE Push(out[n - 1], raw[n], max)
           Run(g) == g = [n \in 0..N |-> IF n = 0 THEN start ELSE Push(g[n - 1], raw[n], max)]
<1>1. N \in Nat /\ DOMAIN raw = 1..N /\ max \in Nat /\ Weighed(raw)
  BY DEF Weighed, IsList
<1>2. start \in R
  OBVIOUS
<1>3. \A n \in 1..N : \A r \in R : Push(r, raw[n], max) \in R
  <2> TAKE n \in 1..N
  <2> TAKE r \in R
  <2> DEFINE c == raw[n]
  <2>1. c \in X
    OBVIOUS
  <2> HIDE DEF X, c
  <2>2. Push(r, c, max) \in {r, [r EXCEPT !.full = TRUE], [r EXCEPT !.title = Append(r.title, c)]}
    <3> HIDE DEF R
    <3> QED
      BY DEF Push
  <2>3. r.title \in Seq(X) /\ Append(r.title, c) \in Seq(X)
    BY <2>1
  <2>4. [r EXCEPT !.full = TRUE] \in R /\ [r EXCEPT !.title = Append(r.title, c)] \in R
    BY <2>3
  <2>5. Push(r, c, max) \in R
    <3> HIDE DEF R
    <3> QED
      BY <2>2, <2>4
  <2> QED
    BY <2>5 DEF c
<1>4. turn \in [1..N -> [R -> R]]
  <2> HIDE DEF R
  <2> QED
    BY <1>3
<1>5. PICK f : LoopRun(f, N, R, start, turn)
  <2> HIDE DEF R, turn, start
  <2> QED
    BY <1>1, <1>2, <1>4, LoopRuns
<1>6. /\ f \in [0..N -> R] /\ f[0] = start
      /\ \A n \in 1..N : n - 1 \in 0..N /\ f[n] = Push(f[n - 1], raw[n], max)
  <2>1. f \in [0..N -> R] /\ f[0] = start /\ \A n \in 1..N : f[n] = turn[n][f[n - 1]]
    <3> HIDE DEF R, turn, start
    <3> QED
      BY <1>5, Zenon DEF LoopRun
  <2>2. \A n \in 1..N : n - 1 \in 0..N
    BY <1>1
  <2>3. \A n \in 1..N : \A r \in R : turn[n][r] = Push(r, raw[n], max)
    <3> HIDE DEF R
    <3> QED
      OBVIOUS
  <2> HIDE DEF turn, R, start
  <2>4. \A n \in 1..N : f[n - 1] \in R
    BY <2>1, <2>2
  <2> QED
    BY <2>1, <2>2, <2>3, <2>4, Zenon
<1>7. Run(f)
  <2> HIDE DEF R, start
  <2>1. \A n \in 0..N : f[n] = IF n = 0 THEN start ELSE Push(f[n - 1], raw[n], max)
    <3> TAKE n \in 0..N
    <3>1. n # 0 => n \in 1..N
      BY <1>1
    <3> QED
      BY <1>6, <3>1, Zenon
  <2>2. f = [n \in 0..N |-> f[n]]
    BY <1>6
  <2>3. [n \in 0..N |-> f[n]] = [n \in 0..N |-> IF n = 0 THEN start ELSE Push(f[n - 1], raw[n], max)]
    BY <2>1, Zenon
  <2> QED
    BY <2>2, <2>3, Zenon
<1>8. out = CHOOSE g : Run(g)
  OBVIOUS
<1>9. Run(out)
  <2> HIDE DEF Run, out
  <2> QED
    BY <1>7, <1>8
<1>10. SanitizeTitle(in.raw, in.max) = out[N].title
  BY Zenon DEF SanitizeTitle
<1> HIDE DEF out
<1>11. \A n \in 0..N : out[n] = IF n = 0 THEN start ELSE Push(out[n - 1], raw[n], max)
  <2> HIDE DEF start
  <2> QED
    BY <1>9, Zenon
<1> DEFINE Good(n) == out[n] = f[n] /\ Titled(raw, K, max, n, out[n])
           G == {n \in 0..N : Good(n)}
           nth(k) == Nth(K, InOrder(K), k)
           m == Len(clean)
<1>12. /\ IsList(clean) /\ m \in Nat
       /\ \A k \in 1..m : nth(k) \in K /\ clean[k] = raw[nth(k)]
  <2>1. Listing(raw, K, InOrder(K), clean)
    BY <1>1, KeptLists DEF Weighed
  <2> HIDE DEF clean, K
  <2>2. IsList(clean)
    BY <2>1, ListsAre
  <2>3. /\ m = Cardinality(K)
        /\ \A k \in 1..Cardinality(K) :
             Nth(K, InOrder(K), k) \in K /\ clean[k] = raw[Nth(K, InOrder(K), k)]
    BY <2>1, Zenon DEF Listing
  <2> QED
    BY <2>2, <2>3 DEF IsList
<1>13. \A k \in 1..m : nth(k) \in 1..N /\ clean[k].bytes \in Nat
  <2>1. K \subseteq 1..N
    BY <1>1
  <2> HIDE DEF K, clean
  <2> QED
    BY <1>1, <1>12, <2>1 DEF Weighed
<1> HIDE DEF nth
<1>14. 0 \in G
  <2>1. 0 \in 0..N /\ out[0] = start /\ f[0] = start
    BY <1>1, <1>6, <1>11
  <2>2. Weighed(<<>>) /\ Len(<<>>) = 0
    BY DEF Weighed, IsList
  <2>3. Bytes(<<>>) = 0
    BY <2>2, BytesRun
  <2>4. Titled(raw, K, max, 0, start)
    <3>1. start.title = <<>> /\ start.full = FALSE
      OBVIOUS
    <3> HIDE DEF start, clean
    <3>2. \A k \in 1..m : ~(nth(k) <= 0) /\ ~(k <= 0)
      BY <1>1, <1>12, <1>13
    <3>3. 0 <= m /\ 0 <= max
      BY <1>1, <1>12
    <3>4. 1..0 = {}
      OBVIOUS
    <3> QED
      BY <2>2, <2>3, <3>1, <3>2, <3>3, <3>4, Zenon DEF Titled, clean, nth
  <2> HIDE DEF start, K
  <2> QED
    BY <2>1, <2>4
<1>15. ASSUME NEW n \in 1..N, n - 1 \in G PROVE n \in G
  <2>1. n \in 0..N /\ n # 0 /\ out[n - 1] = f[n - 1] /\ Titled(raw, K, max, n - 1, out[n - 1])
    <3> HIDE DEF K
    <3> QED
      BY <1>1, <1>15
  <2>2. f[n - 1] \in R
    BY <1>6
  <2>3. out[n] = Push(out[n - 1], raw[n], max) /\ f[n] = Push(f[n - 1], raw[n], max)
    <3> HIDE DEF R, start
    <3> QED
      BY <1>6, <1>11, <2>1, Zenon
  <2> DEFINE o == out[n - 1]
  <2>4. o = [title |-> o.title, full |-> o.full]
    <3>1. o \in R
      BY <2>1, <2>2
    <3> QED
      BY <3>1
  <2>5. Titled(raw, K, max, n, Push(o, raw[n], max))
    <3> DEFINE title == o.title
               full == o.full
    <3>1. K = {i \in DOMAIN raw : ~raw[i].control} /\ n \in 1..Len(raw)
      OBVIOUS
    <3>2. o = [title |-> title, full |-> full] /\ Titled(raw, K, max, n - 1, o)
      BY <2>1, <2>4, Zenon
    <3> HIDE DEF K, o, title, full, raw, max
    <3> QED
      BY <1>1, <3>1, <3>2, PushStep
  <2> QED
    BY <2>1, <2>3, <2>5
<1>16. Titled(raw, K, max, N, out[N])
  <2> HIDE DEF G
  <2>1. \A n \in 0..N : n \in G
    BY <1>1, <1>14, <1>15, Turns
  <2>2. N \in G
    BY <1>1, <2>1
  <2> QED
    BY <2>2 DEF G
<1> DEFINE o == out[N]
           title == SanitizeTitle(in.raw, in.max)
           t == Len(title)
<1>17. o.title = title
  BY <1>10
<1> HIDE DEF clean, title, o
<1>18. /\ o.full \in BOOLEAN /\ Weighed(title) /\ t <= m
       /\ \A k \in 1..t : title[k] = clean[k]
       /\ Bytes(title) <= max
       /\ IF o.full THEN t < m /\ Bytes(title) + clean[t + 1].bytes > max
          ELSE \A k \in 1..m : nth(k) <= N <=> k <= t
  BY <1>16, <1>17, Zenon DEF Titled, clean, nth, o
<1>19. t \in Nat /\ DOMAIN title = 1..t /\ title = [k \in 1..t |-> title[k]]
  BY <1>18 DEF Weighed, IsList
<1>20. IsPrefix(title, clean)
  <2>1. DOMAIN clean = 1..m
    BY <1>12 DEF IsList
  <2> QED
    BY <1>12, <1>18, <1>19, <2>1, PrefixIs DEF Weighed
<1>21. title = clean \/ Bytes(title) + clean[t + 1].bytes > max
  <2>1. CASE o.full
    BY <1>18, <2>1
  <2>2. CASE ~o.full
    <3>1. \A k \in 1..m : k <= t
      <4>1. \A k \in 1..m : nth(k) <= N
        BY <1>1, <1>13
      <4> QED
        BY <1>18, <2>2, <4>1, Zenon
    <3>2. t = m
      BY <1>12, <1>18, <1>19, <3>1
    <3>3. clean = [k \in 1..m |-> clean[k]]
      BY <1>12 DEF IsList
    <3> QED
      BY <1>18, <1>19, <3>2, <3>3
  <2> QED
    BY <1>18, <2>1, <2>2
<1> QED
  BY <1>18, <1>20, <1>21, Zenon DEF LimitsHonest, title, clean

(* Short tuples are lists.                                                 *)
LEMMA Rows ==
  /\ IsList(<<>>) /\ Len(<<>>) = 0
  /\ \A a : IsList(<<a>>) /\ Len(<<a>>) = 1
  /\ \A a, b : IsList(<<a, b>>) /\ Len(<<a, b>>) = 2
  /\ \A a, b, c : IsList(<<a, b, c>>) /\ Len(<<a, b, c>>) = 3
  /\ \A a, b, c, d : IsList(<<a, b, c, d>>) /\ Len(<<a, b, c, d>>) = 4
<1>1. IsList(<<>>) /\ Len(<<>>) = 0
  BY DEF IsList
<1>2. \A a : IsList(<<a>>) /\ Len(<<a>>) = 1
  BY DEF IsList
<1>3. \A a, b : IsList(<<a, b>>) /\ Len(<<a, b>>) = 2
  BY DEF IsList
<1>4. \A a, b, c : IsList(<<a, b, c>>) /\ Len(<<a, b, c>>) = 3
  BY DEF IsList
<1>5. \A a, b, c, d : IsList(<<a, b, c, d>>) /\ Len(<<a, b, c, d>>) = 4
  BY DEF IsList
<1> QED
  BY <1>1, <1>2, <1>3, <1>4, <1>5, Zenon

(* The searches, selections, titles and histories of the runs are such.    *)
LEMMA SearchInputs ==
  ASSUME NEW in \in Searches
  PROVE  /\ in.what = "search" /\ Lists(in.rows) /\ IsList(in.query) /\ in.cap \in Nat
         /\ in.history \in Nat /\ in.history < Len(in.rows)
         /\ \A i \in 1..Len(in.rows) : Len(in.rows[i]) <= 4
<1> DEFINE cells == {"a", "A", "I.", "b"}
           ones == {<<r>> : r \in UpTo({"a", "A", "I.", "b"}, 4)}
           lines == {<<"a", "A", "a">>, <<"w", Spacer, "a", "b">>, <<"I.", "a", "a">>, <<"b">>}
           three == [1..3 -> {<<"a", "A", "a">>, <<"w", Spacer, "a", "b">>, <<"I.", "a", "a">>, <<"b">>}]
           queries == {<<>>, <<"a">>, <<"A", "a">>, <<"a", "b">>, <<".">>, <<"i", ".">>, <<".", "i">>,
                       <<"w", "a">>}
           made(rows, q, cap) == [what |-> "search", rows |-> rows, history |-> Len(rows) \div 3,
                                  query |-> q, cap |-> cap]
<1>1. \E rows \in ones \cup three, q \in queries, cap \in 1..2 : in = made(rows, q, cap)
  BY DEF Searches
<1>2. \A rows, q, cap : /\ made(rows, q, cap).what = "search" /\ made(rows, q, cap).rows = rows
                        /\ made(rows, q, cap).query = q /\ made(rows, q, cap).cap = cap
                        /\ made(rows, q, cap).history = Len(rows) \div 3
  OBVIOUS
<1>3. ASSUME NEW q \in queries PROVE IsList(q)
  <2>1. \/ q = <<>> \/ q = <<"a">> \/ q = <<"A", "a">> \/ q = <<"a", "b">> \/ q = <<".">>
        \/ q = <<"i", ".">> \/ q = <<".", "i">> \/ q = <<"w", "a">>
    OBVIOUS
  <2> HIDE DEF queries
  <2> QED
    BY <2>1, Rows, Zenon
<1>4. ASSUME NEW r \in lines PROVE IsList(r) /\ Len(r) <= 4
  <2>1. r = <<"a", "A", "a">> \/ r = <<"w", Spacer, "a", "b">> \/ r = <<"I.", "a", "a">> \/ r = <<"b">>
    OBVIOUS
  <2> HIDE DEF lines
  <2>2. IsList(r) /\ (Len(r) = 1 \/ Len(r) = 3 \/ Len(r) = 4)
    BY <2>1, Rows, Zenon
  <2>3. 1 <= 4 /\ 3 <= 4 /\ 4 <= 4
    OBVIOUS
  <2> QED
    BY <2>2, <2>3, Zenon
<1>5. ASSUME NEW rows \in ones
      PROVE  /\ Lists(rows) /\ Len(rows) \div 3 \in Nat /\ Len(rows) \div 3 < Len(rows)
             /\ \A i \in 1..Len(rows) : Len(rows[i]) <= 4
  <2>1. PICK r \in UpTo(cells, 4) : rows = <<r>>
    OBVIOUS
  <2> HIDE DEF cells
  <2>2. IsList(r) /\ Len(r) <= 4
    BY ShortLists
  <2>3. Len(rows) = 1 /\ rows[1] = r /\ IsList(rows)
    BY <2>1 DEF IsList
  <2>4. 1 \div 3 \in Nat /\ 1 \div 3 < 1
    OBVIOUS
  <2>5. \A i \in 1..Len(rows) : rows[i] = r
    BY <2>3
  <2> QED
    BY <2>2, <2>3, <2>4, <2>5 DEF Lists
<1>6. ASSUME NEW rows \in three
      PROVE  /\ Lists(rows) /\ Len(rows) \div 3 \in Nat /\ Len(rows) \div 3 < Len(rows)
             /\ \A i \in 1..Len(rows) : Len(rows[i]) <= 4
  <2>1. \A i \in 1..3 : rows[i] \in lines
    OBVIOUS
  <2> HIDE DEF lines
  <2>2. DOMAIN rows = 1..3 /\ rows = [i \in 1..3 |-> rows[i]]
    OBVIOUS
  <2>3. Len(rows) = 3
    BY <2>2
  <2>4. 3 \div 3 \in Nat /\ 3 \div 3 < 3
    OBVIOUS
  <2>5. IsList(rows)
    BY <2>2, <2>3 DEF IsList
  <2>6. \A i \in 1..3 : IsList(rows[i]) /\ Len(rows[i]) <= 4
    BY <1>4, <2>1
  <2> HIDE DEF three
  <2> QED
    BY <2>3, <2>4, <2>5, <2>6 DEF Lists
<1> HIDE DEF ones, three, queries, made
<1>7. PICK rows \in ones \cup three, q \in queries, cap \in 1..2 : in = made(rows, q, cap)
  BY <1>1
<1>8. /\ Lists(rows) /\ Len(rows) \div 3 \in Nat /\ Len(rows) \div 3 < Len(rows)
      /\ \A i \in 1..Len(rows) : Len(rows[i]) <= 4
  BY <1>5, <1>6
<1>9. /\ in.what = "search" /\ in.rows = rows /\ in.query = q /\ in.cap = cap
      /\ in.history = Len(rows) \div 3
  BY <1>2, <1>7
<1> QED
  BY <1>3, <1>8, <1>9

LEMMA SelectionInputs ==
  ASSUME NEW in \in Selections
  PROVE  /\ in.what = "selection" /\ At(in.from) /\ At(in.to) /\ in.block \in BOOLEAN
         /\ in.offset \in Int /\ in.scrolled \in Int
         /\ Sized(in.size) /\ in.size.columns > 0 /\ in.size.rows > 0
<1> DEFINE sizes == {TermSize(0, 0), TermSize(3, 3)}
           made(from, to, block, o, n, size) ==
             [what |-> "selection", from |-> from, to |-> to, block |-> block, offset |-> o,
              scrolled |-> n, size |-> size]
<1>1. \E from \in GridPoints, to \in GridPoints, block \in BOOLEAN, o \in 0..1, n \in 0..4, size \in sizes :
        in = made(from, to, block, o, n, size)
  BY DEF Selections
<1>2. \A from, to, block, o, n, size :
        LET s == made(from, to, block, o, n, size)
        IN /\ s.what = "selection" /\ s.from = from /\ s.to = to /\ s.block = block
           /\ s.offset = o /\ s.scrolled = n /\ s.size = size
  OBVIOUS
<1>3. \A p \in GridPoints : At(p)
  BY DEF GridPoints, At
<1>4. \A size \in sizes : Sized(size) /\ size.columns > 0 /\ size.rows > 0
  BY DEF Sized, TermSize
<1> HIDE DEF made, sizes
<1>5. PICK from \in GridPoints, to \in GridPoints, block \in BOOLEAN, o \in 0..1, n \in 0..4, size \in sizes :
        in = made(from, to, block, o, n, size)
  BY <1>1
<1>6. /\ in.what = "selection" /\ in.from = from /\ in.to = to /\ in.block = block
      /\ in.offset = o /\ in.scrolled = n /\ in.size = size
  BY <1>2, <1>5
<1> QED
  BY <1>3, <1>4, <1>6

LEMMA TitleInputs ==
  ASSUME NEW in \in Titles
  PROVE  in.what = "title" /\ Weighed(in.raw) /\ in.max \in Nat
<1> DEFINE S == [bytes : 1..3, control : BOOLEAN]
           made(raw, max) == [what |-> "title", raw |-> raw, max |-> max]
<1>1. \E raw \in UpTo(S, 3), max \in 0..5 : in = made(raw, max)
  BY DEF Titles
<1>2. \A raw, max : made(raw, max).what = "title" /\ made(raw, max).raw = raw /\ made(raw, max).max = max
  OBVIOUS
<1>3. \A c \in S : c.bytes \in Nat
  OBVIOUS
<1> HIDE DEF S, made
<1>4. PICK raw \in UpTo(S, 3), max \in 0..5 : in = made(raw, max)
  BY <1>1
<1>5. IsList(raw) /\ \A i \in 1..Len(raw) : raw[i] \in S
  BY ShortLists
<1> QED
  BY <1>2, <1>3, <1>4, <1>5 DEF Weighed

LEMMA HistoryInputs ==
  ASSUME NEW in \in Histories
  PROVE  /\ in.what = "history" /\ in.columns \in Nat
         /\ in.limits.scrollback_lines \in Nat /\ in.limits.history_bytes \in Nat
<1> DEFINE made(columns, lines, b) ==
             [what |-> "history", columns |-> columns,
              limits |-> [scrollback_lines |-> lines, history_bytes |-> b]]
<1>1. \E columns \in 0..4, lines \in {0, 1, 3, 10}, b \in {0, 31, 32, 96, 97, 1000} :
        in = made(columns, lines, b)
  BY DEF Histories
<1>2. PICK columns \in 0..4, lines \in {0, 1, 3, 10}, b \in {0, 31, 32, 96, 97, 1000} :
        in = made(columns, lines, b)
  BY <1>1
<1>3. /\ in.what = "history" /\ in.columns = columns
      /\ in.limits.scrollback_lines = lines /\ in.limits.history_bytes = b
  BY <1>2
<1> QED
  BY <1>3

(* What the engine makes of an input is honest.                            *)
LEMMA ViewsHonest == ASSUME input \in Inputs \cup {NoInput} PROVE ViewHonest
<1>1. CASE input \in Searches
  <2>1. /\ input.what = "search" /\ Lists(input.rows) /\ IsList(input.query) /\ input.cap \in Nat
        /\ input.history \in Nat /\ input.history < Len(input.rows)
        /\ \A i \in 1..Len(input.rows) : Len(input.rows[i]) <= 4
    BY <1>1, SearchInputs, Zenon
  <2>2. SearchHonest(input) /\ StepsHonest(input)
    BY <2>1, SearchFinds, StepsReach, Zenon
  <2> QED
    BY <2>1, <2>2 DEF ViewHonest
<1>2. CASE input \in Selections
  <2>1. input.what = "selection" /\ SelectionHonest(input)
    BY <1>2, SelectionInputs, SelectionShows, Zenon
  <2> QED
    BY <2>1 DEF ViewHonest
<1>3. CASE input \in Titles
  <2>1. input.what = "title" /\ LimitsHonest(input)
    BY <1>3, TitleInputs, TitleFits, Zenon
  <2> QED
    BY <2>1 DEF ViewHonest
<1>4. CASE input \in Histories
  <2>1. input.what = "history" /\ "history" # "title"
    BY <1>4, HistoryInputs
  <2>2. LimitsHonest(input)
    BY <1>4, <2>1, HistoryInputs, HistoryFits, Zenon
  <2> QED
    BY <2>1, <2>2 DEF ViewHonest
<1>5. CASE \/ input \in Directories \/ input \in Texts \/ input \in Sockets \/ input \in Processes
           \/ input \in InterfaceLists \/ input \in Peers \/ input \in Addresses \/ input \in Answers
           \/ input = NoInput
  <2>1. input.what \notin {"search", "selection", "title", "history"}
    <3>1. input \in Directories => input.what = "directory"
      BY DirectoryInputs, Zenon
    <3>2. input \in Texts => input.what = "text"
      BY TextInputs, Zenon
    <3>3. input \in Sockets => input.what = "sockets"
      BY SocketInputs, Zenon
    <3>4. input \in Processes => input.what = "processes"
      BY ProcessInputs, Zenon
    <3>5. input \in InterfaceLists => input.what = "interfaces"
      BY InterfaceInputs, Zenon
    <3>6. input \in Peers => input.what = "peers"
      BY PeerInputs, Zenon
    <3>7. input \in Addresses => input.what = "address"
      BY DEF Addresses
    <3>8. input \in Answers => input.what = "answer"
      BY DEF Answers
    <3>9. input = NoInput => input.what = "nothing"
      BY DEF NoInput
    <3> QED
      BY <1>5, <3>1, <3>2, <3>3, <3>4, <3>5, <3>6, <3>7, <3>8, <3>9
  <2> QED
    BY <2>1 DEF ViewHonest
<1> QED
  BY <1>1, <1>2, <1>3, <1>4, <1>5, Zenon DEF Inputs

(* What is marked as found or selected is, what is not shown of it is cut  *)
(* by a limit only, and stepping brings each result into view (search.rs,  *)
(* adapter.rs, snapshot.rs, policy.rs, commands.rs).                       *)
THEOREM ViewIsHonest == Spec => []ViewHonest
<1>1. Init => input \in Inputs \cup {NoInput}
  BY Zenon DEF Init
<1>2. input \in Inputs \cup {NoInput} /\ [Next]_vars => (input \in Inputs \cup {NoInput})'
  BY Zenon DEF Next, vars
<1>3. input \in Inputs \cup {NoInput} => ViewHonest
  BY ViewsHonest, Zenon
<1> QED
  BY <1>1, <1>2, <1>3, PTL DEF Spec
=============================================================================
