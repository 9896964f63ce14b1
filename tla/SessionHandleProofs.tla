------------------------ MODULE SessionHandleProofs ------------------------
(***************************************************************************)
(* Proofs about the two directions of a session's handle.  Commands: no    *)
(* accepted command is slept over, the newest size wins, and a search      *)
(* result describes the snapshot it names, for every capacity of the       *)
(* channel and every number of commands.  Wakeups: they coalesce and lose  *)
(* nothing, for every number of changes of the published state.            *)
(***************************************************************************)
EXTENDS SessionCommands, SessionWake, TLAPS

(***************************************************************************)
(* Commands: what the invariant says                                       *)
(***************************************************************************)

(* What the proofs need of the types.                                      *)
Shape ==
  /\ commands \in Seq(Command) /\ batch \in Seq(Command)
  /\ newest \in Sizes /\ size \in Sizes /\ pending \in Sizes \union {NoSize}
  /\ shown \in Nat /\ epoch \in Nat /\ text \in Nat
  /\ snapshots \in Seq([epoch : Nat, text : Nat])

(* Where the owner may be with commands in its hands.                      *)
Round ==
  /\ pc \notin {"drain", "apply"} => batch = <<>>
  /\ pc # "apply" => pending = NoSize

HasResize(s) == \E i \in 1 .. Len(s) : s[i].kind = "Resize"

(* The last resize of s, if there is one, asks for this size.              *)
EndsIn(s, wanted) ==
  \A i \in 1 .. Len(s) :
    s[i].kind = "Resize" /\ (\A j \in i + 1 .. Len(s) : s[j].kind # "Resize")
      => s[i].to = wanted

(* A command in the channel has a ring ahead of the owner's next sleep.    *)
Noticed ==
  commands # <<>> => \/ ui = "ring"
                     \/ doorbell = 1
                     \/ pc \in {"start", "drain", "gone"}

(* The newest size is where the last resize is: in the channel, else in    *)
(* the batch, else pending, else in force.                                 *)
Newest ==
  /\ EndsIn(commands, newest)
  /\ ~HasResize(commands) => EndsIn(batch, newest)
  /\ ~HasResize(commands) /\ ~HasResize(batch) =>
       IF pending = NoSize THEN size = newest \/ failed ELSE pending = newest

(* The last snapshot is the model, unless the owner has changes to show.   *)
Shown ==
  ~dirty \/ pc \in {"drain", "apply", "wait"} =>
    snapshots # <<>> /\ snapshots[Len(snapshots)] = Content
Inv == Shape /\ Round /\ Noticed /\ Newest /\ Shown /\ SearchTied

(***************************************************************************)
(* Resizes in sequences of commands                                        *)
(***************************************************************************)

LEMMA AppendResize ==
  ASSUME NEW s \in Seq(Command), NEW c \in Command, c.kind = "Resize"
  PROVE  HasResize(Append(s, c)) /\ EndsIn(Append(s, c), c.to)
<1> DEFINE t == Append(s, c)
<1>1. Len(t) = Len(s) + 1 /\ t[Len(s) + 1] = c /\ Len(s) \in Nat
  OBVIOUS
<1>2. HasResize(t)
  BY <1>1 DEF HasResize
<1>3. EndsIn(t, c.to)
  BY <1>1 DEF EndsIn
<1> QED
  BY <1>2, <1>3

LEMMA AppendOther ==
  ASSUME NEW s \in Seq(Command), NEW c \in Command, c.kind # "Resize",
         NEW wanted
  PROVE  /\ HasResize(Append(s, c)) <=> HasResize(s)
         /\ EndsIn(s, wanted) => EndsIn(Append(s, c), wanted)
<1> DEFINE t == Append(s, c)
<1>1. /\ Len(t) = Len(s) + 1 /\ t[Len(s) + 1] = c /\ Len(s) \in Nat
      /\ \A i \in 1 .. Len(s) : t[i] = s[i]
  OBVIOUS
<1>2. HasResize(t) <=> HasResize(s)
  BY <1>1 DEF HasResize
<1>3. EndsIn(s, wanted) => EndsIn(t, wanted)
  BY <1>1 DEF EndsIn
<1> QED
  BY <1>2, <1>3

LEMMA TailResizes ==
  ASSUME NEW s \in Seq(Command), s # <<>>, NEW wanted
  PROVE  /\ HasResize(s) <=> Head(s).kind = "Resize" \/ HasResize(Tail(s))
         /\ EndsIn(s, wanted) => EndsIn(Tail(s), wanted)
         /\ /\ EndsIn(s, wanted)
            /\ Head(s).kind = "Resize" /\ ~HasResize(Tail(s))
            => Head(s).to = wanted
<1> DEFINE t == Tail(s)
<1>1. /\ Len(s) \in Nat /\ Len(s) >= 1 /\ Len(t) = Len(s) - 1
      /\ \A i \in 1 .. Len(t) : t[i] = s[i + 1]
      /\ Head(s) = s[1]
  OBVIOUS
<1>2. \A i \in 2 .. Len(s) : i - 1 \in 1 .. Len(t) /\ s[i] = t[i - 1]
  BY <1>1
<1>3. HasResize(s) <=> s[1].kind = "Resize" \/ HasResize(t)
  <2>1. ASSUME NEW i \in 1 .. Len(s), s[i].kind = "Resize", i # 1
        PROVE  HasResize(t)
    <3>1. i - 1 \in 1 .. Len(t) /\ t[i - 1].kind = "Resize"
      BY <1>1, <1>2, <2>1
    <3> QED
      BY <3>1 DEF HasResize
  <2>2. ASSUME NEW i \in 1 .. Len(t), t[i].kind = "Resize"
        PROVE  HasResize(s)
    <3>1. i + 1 \in 1 .. Len(s) /\ s[i + 1].kind = "Resize"
      BY <1>1, <2>2
    <3> QED
      BY <3>1 DEF HasResize
  <2>3. s[1].kind = "Resize" => HasResize(s)
    BY <1>1 DEF HasResize
  <2> QED
    BY <2>1, <2>2, <2>3 DEF HasResize
<1>4. EndsIn(s, wanted) => EndsIn(t, wanted)
  <2> SUFFICES ASSUME EndsIn(s, wanted),
                      NEW i \in 1 .. Len(t), t[i].kind = "Resize",
                      \A j \in i + 1 .. Len(t) : t[j].kind # "Resize"
               PROVE  t[i].to = wanted
    BY DEF EndsIn
  <2>1. i + 1 \in 1 .. Len(s) /\ s[i + 1] = t[i]
    BY <1>1
  <2>2. ASSUME NEW j \in (i + 1) + 1 .. Len(s)
        PROVE  s[j].kind # "Resize"
    <3>1. j - 1 \in i + 1 .. Len(t) /\ s[j] = t[j - 1]
      BY <1>1, <1>2
    <3> QED
      BY <3>1
  <2> QED
    BY <1>1, <2>1, <2>2 DEF EndsIn
<1>5. ASSUME EndsIn(s, wanted), s[1].kind = "Resize", ~HasResize(t)
      PROVE  s[1].to = wanted
  <2>1. ASSUME NEW j \in 1 + 1 .. Len(s)
        PROVE  s[j].kind # "Resize"
    <3>1. j - 1 \in 1 .. Len(t) /\ s[j] = t[j - 1]
      BY <1>1, <1>2
    <3> QED
      BY <3>1, <1>5 DEF HasResize
  <2> QED
    BY <1>1, <1>5, <2>1 DEF EndsIn
<1> QED
  BY <1>1, <1>3, <1>4, <1>5

LEMMA ResizeCommand ==
  ASSUME NEW c \in Command, c.kind = "Resize"
  PROVE  c.to \in Sizes
BY DEF Command

(***************************************************************************)
(* The invariant                                                           *)
(***************************************************************************)

LEMMA InitInv == Init => Inv
<1> SUFFICES ASSUME Init PROVE Inv
  OBVIOUS
<1>1. Shape
  BY CommandAssumption DEF Init, Shape
<1>2. Round /\ Noticed /\ Shown /\ SearchTied
  BY DEF Init, Round, Noticed, Shown, SearchTied
<1>3. Newest
  BY DEF Init, Newest, EndsIn
<1> QED
  BY <1>1, <1>2, <1>3 DEF Inv

LEMMA NextShape ==
  ASSUME Shape, [Next]_vars
  PROVE  Shape'
<1> USE DEF Shape
<1>1. CASE SendAny
  <2>1. ASSUME NEW command \in Command, Send(command)
        PROVE  Shape'
    <3>1. newest' \in Sizes
      BY <2>1, ResizeCommand DEF Send
    <3>2. commands' \in Seq(Command)
      <4>1. Append(commands, command) \in Seq(Command)
        OBVIOUS
      <4> QED
        BY <2>1, <4>1 DEF Send
    <3> QED
      BY <2>1, <3>1, <3>2 DEF Send, published, model
  <2>2. \E command \in Command : Send(command)
    BY <1>1 DEF SendAny, Command
  <2> QED
    BY <2>1, <2>2
<1>2. CASE Ring \/ WorkerRings \/ WakeUp
  BY <1>2 DEF Ring, WorkerRings, WakeUp, uiVars, published, model
<1>3. CASE Refresh
  <2>1. snapshots[Len(snapshots)] \in [epoch : Nat, text : Nat]
    <3> DEFINE Snapshot == [epoch : Nat, text : Nat]
    <3>1. snapshots \in Seq(Snapshot) /\ snapshots # <<>>
      BY <1>3 DEF Refresh
    <3> HIDE DEF Snapshot
    <3>2. Len(snapshots) \in 1 .. Len(snapshots)
      BY <3>1
    <3>3. snapshots[Len(snapshots)] \in Snapshot
      BY <3>1, <3>2
    <3> QED
      BY <3>3 DEF Snapshot
  <2>2. shown' \in Nat
    BY <1>3, <2>1 DEF Refresh
  <2> QED
    BY <1>3, <2>2 DEF Refresh, channel, published, model
<1>4. CASE Start \/ EndRound
  <2>1. Append(snapshots, Content) \in Seq([epoch : Nat, text : Nat])
    <3>1. Content \in [epoch : Nat, text : Nat]
      BY DEF Content
    <3> QED
      BY <3>1
  <2>2. snapshots' \in Seq([epoch : Nat, text : Nat])
    BY <1>4, <2>1 DEF Start, EndRound, Publish
  <2> QED
    BY <1>4, <2>2 DEF Start, EndRound, Publish, uiVars, channel, model
<1>5. CASE Drain
  <2>1. commands # <<>> =>
          /\ Tail(commands) \in Seq(Command)
          /\ Append(batch, Head(commands)) \in Seq(Command)
    OBVIOUS
  <2>2. commands' \in Seq(Command) /\ batch' \in Seq(Command)
    BY <1>5, <2>1 DEF Drain
  <2> QED
    BY <1>5, <2>2 DEF Drain, uiVars, published, model
<1>6. CASE Apply
  <2>1. batch # <<>> /\ batch' = Tail(batch) /\ Head(batch) \in Command
    BY <1>6 DEF Apply
  <2>2. pending' \in Sizes \union {NoSize}
    BY <1>6, <2>1, ResizeCommand DEF Apply, Coalesced
  <2> QED
    BY <1>6, <2>1, <2>2 DEF Apply, uiVars, channel, model
<1>7. CASE Resize
  BY <1>7 DEF Resize, Resized, uiVars, channel, published
<1>8. CASE Parse
  BY <1>8 DEF Parse, uiVars, channel, published
<1>9. CASE UNCHANGED vars
  BY <1>9 DEF vars, uiVars, channel, published, model
<1> QED
  BY <1>1, <1>2, <1>3, <1>4, <1>5, <1>6, <1>7, <1>8, <1>9 DEF Next, OwnerNext

LEMMA NextRound ==
  ASSUME Round, [Next]_vars
  PROVE  Round'
<1> USE DEF Round
<1>1. CASE SendAny
  BY <1>1 DEF SendAny, Send
<1>2. CASE Ring \/ WorkerRings \/ WakeUp
  BY <1>2 DEF Ring, WorkerRings, WakeUp
<1>3. CASE Refresh
  BY <1>3 DEF Refresh
<1>4. CASE Start \/ EndRound
  BY <1>4 DEF Start, EndRound, Publish
<1>5. CASE Drain
  BY <1>5 DEF Drain
<1>6. CASE Apply
  BY <1>6 DEF Apply
<1>7. CASE Resize
  BY <1>7 DEF Resize
<1>8. CASE Parse
  BY <1>8 DEF Parse
<1>9. CASE UNCHANGED vars
  BY <1>9 DEF vars
<1> QED
  BY <1>1, <1>2, <1>3, <1>4, <1>5, <1>6, <1>7, <1>8, <1>9 DEF Next, OwnerNext

(* The receiver looks at the channel after it has emptied the doorbell,    *)
(* the sender rings after it has filled the channel.                       *)
LEMMA NextNoticed ==
  ASSUME Shape, Noticed, [Next]_vars
  PROVE  Noticed'
<1> USE DEF Noticed
<1>1. CASE SendAny
  BY <1>1 DEF SendAny, Send
<1>2. CASE Ring \/ WorkerRings
  BY <1>2 DEF Ring, WorkerRings, OwnerGone
<1>3. CASE WakeUp \/ Start
  BY <1>3 DEF WakeUp, Start, Publish
<1>4. CASE Refresh
  BY <1>4 DEF Refresh, channel
<1>5. CASE Drain
  BY <1>5 DEF Drain, uiVars
<1>6. CASE Apply
  BY <1>6 DEF Apply, uiVars, channel
<1>7. CASE Resize
  BY <1>7 DEF Resize, uiVars, channel
<1>8. CASE Parse \/ EndRound
  BY <1>8 DEF Parse, EndRound, Publish, uiVars, channel
<1>9. CASE UNCHANGED vars
  BY <1>9 DEF vars, uiVars, channel
<1> QED
  BY <1>1, <1>2, <1>3, <1>4, <1>5, <1>6, <1>7, <1>8, <1>9 DEF Next, OwnerNext

(* The last resize moves from the channel to the batch to the model, and   *)
(* on the way never falls behind another.                                  *)
LEMMA NextNewest ==
  ASSUME Shape, Round, Newest, [Next]_vars
  PROVE  Newest'
<1>1. CASE SendAny
  <2>1. ASSUME NEW command \in Command, Send(command)
        PROVE  Newest'
    <3>1. CASE UNCHANGED <<commands, newest>>
      BY <2>1, <3>1 DEF Send, Newest, HasResize, EndsIn, model
    <3>2. CASE /\ commands' = Append(commands, command)
               /\ command.kind = "Resize" /\ newest' = command.to
      <4>1. HasResize(commands') /\ EndsIn(commands', newest')
        BY <3>2, AppendResize DEF Shape
      <4> QED
        BY <2>1, <4>1 DEF Newest, HasResize, EndsIn
    <3>3. CASE /\ commands' = Append(commands, command)
               /\ command.kind # "Resize" /\ newest' = newest
      <4>1. /\ HasResize(commands') <=> HasResize(commands)
            /\ EndsIn(commands, newest) => EndsIn(commands', newest)
        BY <3>3, AppendOther DEF Shape
      <4>2. UNCHANGED <<batch, pending, size, failed>>
        BY <2>1 DEF Send, model
      <4> QED
        BY <3>3, <4>1, <4>2 DEF Newest, HasResize, EndsIn
    <3> QED
      BY <2>1, <3>1, <3>2, <3>3 DEF Send
  <2>2. \E command \in Command : Send(command)
    BY <1>1 DEF SendAny, Command, Shape
  <2> QED
    BY <2>1, <2>2
<1>2. CASE Drain
  <2>1. CASE commands = <<>>
    BY <1>2, <2>1 DEF Drain, Newest, HasResize, EndsIn, uiVars, model
  <2>2. CASE commands # <<>>
    <3> DEFINE head == Head(commands)
    <3>1. /\ batch' = Append(batch, head) /\ commands' = Tail(commands)
          /\ head \in Command
          /\ UNCHANGED <<newest, pending, size, failed>>
      BY <1>2, <2>2 DEF Drain, Shape, uiVars, model
    <3>2. /\ HasResize(commands) <=> head.kind = "Resize" \/ HasResize(commands')
          /\ EndsIn(commands', newest)
          /\ head.kind = "Resize" /\ ~HasResize(commands') => head.to = newest
      BY <2>2, <3>1, TailResizes DEF Shape, Newest
    <3>3. CASE head.kind = "Resize"
      <4>1. HasResize(batch') /\ EndsIn(batch', head.to)
        BY <3>1, <3>3, AppendResize DEF Shape
      <4> QED
        BY <3>1, <3>2, <3>3, <4>1 DEF Newest, HasResize, EndsIn
    <3>4. CASE head.kind # "Resize"
      <4>1. /\ HasResize(batch') <=> HasResize(batch)
            /\ EndsIn(batch, newest) => EndsIn(batch', newest)
        BY <3>1, <3>4, AppendOther DEF Shape
      <4> QED
        BY <3>1, <3>2, <3>4, <4>1 DEF Newest, HasResize, EndsIn
    <3> QED
      BY <3>3, <3>4
  <2> QED
    BY <2>1, <2>2
<1>3. CASE Apply
  <2> DEFINE head == Head(batch)
  <2>1. /\ batch # <<>> /\ batch' = Tail(batch) /\ head \in Command
        /\ UNCHANGED <<commands, newest, size, failed>>
        /\ pending' = IF head.kind = "Resize" THEN head.to ELSE pending
    BY <1>3 DEF Apply, Coalesced, Shape, uiVars, channel, model
  <2>2. /\ HasResize(batch) <=> head.kind = "Resize" \/ HasResize(batch')
        /\ EndsIn(batch, newest) => EndsIn(batch', newest)
        /\ /\ EndsIn(batch, newest)
           /\ head.kind = "Resize" /\ ~HasResize(batch')
           => head.to = newest
    BY <2>1, TailResizes DEF Shape
  <2>3. head.kind = "Resize" => head.to # NoSize
    BY <2>1, ResizeCommand, CommandAssumption
  <2> QED
    BY <2>1, <2>2, <2>3 DEF Newest, HasResize, EndsIn
<1>4. CASE Resize
  <2>1. batch = <<>> /\ ~HasResize(batch)
    BY <1>4 DEF Resize, HasResize
  <2>2. UNCHANGED <<commands, newest, batch>> /\ pending' = NoSize
    BY <1>4 DEF Resize, uiVars, channel
  <2>3. \/ pending # NoSize /\ size' = pending
        \/ failed' = TRUE
        \/ pending = NoSize /\ size' = size /\ (failed' <=> failed)
    BY <1>4 DEF Resize, Resized
  <2> QED
    BY <2>1, <2>2, <2>3 DEF Newest, HasResize, EndsIn
<1>5. CASE UNCHANGED <<commands, newest, batch, pending, size, failed>>
  BY <1>5 DEF Newest, HasResize, EndsIn
<1> QED
  BY <1>1, <1>2, <1>3, <1>4, <1>5
  DEF Next, OwnerNext, Ring, Refresh, WorkerRings, Start, Publish, Parse,
      EndRound, WakeUp, vars, uiVars, channel, model

LEMMA NextShown ==
  ASSUME Shape, Shown, [Next]_vars
  PROVE  Shown'
<1> USE DEF Shown, Content
<1>1. CASE SendAny
  BY <1>1 DEF SendAny, Send, published, model
<1>2. CASE Ring \/ WorkerRings \/ Refresh
  BY <1>2 DEF Ring, WorkerRings, Refresh, published, model
<1>3. CASE Start \/ EndRound
  <2>1. CASE dirty
    <3>1. snapshots' = Append(snapshots, Content) /\ UNCHANGED model
      BY <1>3, <2>1 DEF Start, EndRound, Publish
    <3>2. /\ Append(snapshots, Content) # <<>>
          /\ LET s == Append(snapshots, Content) IN s[Len(s)] = Content
      BY DEF Shape
    <3> QED
      BY <3>1, <3>2 DEF model
  <2>2. CASE ~dirty
    BY <1>3, <2>2 DEF Start, EndRound, Publish, model
  <2> QED
    BY <2>1, <2>2
<1>4. CASE Drain
  BY <1>4 DEF Drain, published, model
<1>5. CASE Apply
  BY <1>5 DEF Apply, model
<1>6. CASE Resize
  BY <1>6 DEF Resize, Resized, published
<1>7. CASE Parse
  BY <1>7 DEF Parse, published
<1>8. CASE WakeUp
  BY <1>8 DEF WakeUp, published, model
<1>9. CASE UNCHANGED vars
  BY <1>9 DEF vars, published, model
<1> QED
  BY <1>1, <1>2, <1>3, <1>4, <1>5, <1>6, <1>7, <1>8, <1>9 DEF Next, OwnerNext

(* The snapshots only grow, and a search runs on what the last one shows.  *)
LEMMA NextSearch ==
  ASSUME Shape, Shown, SearchTied, [Next]_vars
  PROVE  SearchTied'
<1>1. CASE Apply
  <2>1. Len(snapshots) \in 1 .. Len(snapshots)
    BY <1>1 DEF Apply, Shape, Shown
  <2>2. \/ search' = search
        \/ search' = [version |-> Len(snapshots), found |-> Content]
    BY <1>1 DEF Apply
  <2>3. UNCHANGED snapshots
    BY <1>1 DEF Apply
  <2>4. CASE search' = search
    BY <2>3, <2>4 DEF SearchTied
  <2>5. CASE search' = [version |-> Len(snapshots), found |-> Content]
    BY <1>1, <2>1, <2>3, <2>5 DEF Apply, Shown, SearchTied
  <2> QED
    BY <2>2, <2>4, <2>5
<1>2. CASE Start \/ EndRound
  <2>1. UNCHANGED search
    BY <1>2 DEF Start, EndRound, Publish
  <2>2. \/ snapshots' = snapshots
        \/ snapshots' = Append(snapshots, Content)
    BY <1>2 DEF Start, EndRound, Publish
  <2>3. \A v \in 1 .. Len(snapshots) :
          v \in 1 .. Len(snapshots') /\ snapshots'[v] = snapshots[v]
    <3> DEFINE Snapshot == [epoch : Nat, text : Nat]
    <3>1. Content \in Snapshot /\ snapshots \in Seq(Snapshot)
      BY DEF Shape, Content
    <3> HIDE DEF Snapshot
    <3> QED
      BY <2>2, <3>1
  <2> QED
    BY <2>1, <2>3 DEF SearchTied
<1>3. CASE UNCHANGED <<snapshots, search>>
  BY <1>3 DEF SearchTied
<1> QED
  BY <1>1, <1>2, <1>3
  DEF Next, OwnerNext, SendAny, Send, Ring, Refresh, WorkerRings, Drain, Resize,
      Parse, WakeUp, vars, published

LEMMA Invariance == Spec => []Inv
<1>1. Inv /\ [Next]_vars => Inv'
  BY NextShape, NextRound, NextNoticed, NextNewest, NextShown, NextSearch DEF Inv
<1> QED
  BY <1>1, InitInv, PTL DEF Spec

(***************************************************************************)
(* Commands: theorems                                                      *)
(***************************************************************************)

(* SessionHandle::send and Owner::wait_for_work: the owner never sleeps    *)
(* over a command its channel has taken.                                   *)
THEOREM CommandNeverLost == Spec => []CommandsNoticed
<1>1. Inv => CommandsNoticed
  BY DEF Inv, Noticed, CommandsNoticed
<1> QED
  BY <1>1, Invariance, PTL

(* Owner::handle_commands coalesces: when nothing is left to do, the size  *)
(* is that of the last resize the channel took, or the PTY refused it.     *)
THEOREM NewestSizeInForce == Spec => []NewestSizeWins
<1>1. Inv => NewestSizeWins
  <2> SUFFICES ASSUME Inv, pc = "wait", commands = <<>>
               PROVE  size = newest \/ failed
    BY DEF NewestSizeWins
  <2>1. batch = <<>> /\ pending = NoSize
    BY DEF Inv, Round
  <2>2. ~HasResize(commands) /\ ~HasResize(batch)
    BY <2>1 DEF HasResize
  <2> QED
    BY <2>1, <2>2 DEF Inv, Newest
<1> QED
  BY <1>1, Invariance, PTL

(* Owner::apply: a search result is that of the snapshot whose version it  *)
(* carries, whatever else happened in the round.                           *)
THEOREM SearchDescribesSnapshot == Spec => []SearchTied
  BY Invariance, PTL DEF Inv

(***************************************************************************)
(* Wakeups                                                                 *)
(***************************************************************************)

(* The wake that wake_pending stands for is in exactly one place: about to *)
(* be sent by the owner, in the UI's channel, or taken by the UI that has  *)
(* not cleared the flag yet.  With the flag clear there is none.  Once the *)
(* pane is closed the wake may have been discarded.                        *)
OneToken ==
  LET sending == owner = "notify"
      taken == refresh = "clear"
  IN IF wake_pending
     THEN \/ ~pane /\ ~sending /\ events = 0 /\ ~taken
          \/ sending /\ events = 0 /\ ~taken
          \/ ~sending /\ events = 1 /\ ~taken
          \/ ~sending /\ events = 0 /\ taken
     ELSE ~sending /\ events = 0 /\ ~taken

(* A publish that is due is due in this round or the next, and a late      *)
(* failure is one of a session that closes and has not ended.              *)
Due ==
  /\ changed => \/ owner \in {"round", "publish"}
                \/ owner \in {"swap", "notify"} /\ after = "round"
  /\ late => ~running /\ owner \notin {"notify", "gone"}
  /\ owner = "finish" => ~running
  /\ owner \in {"swap", "notify"} /\ after \in {"finish", "gone"} => ~running

WakeInv == WakeTypeOK /\ OneToken /\ Due /\ NoLostUpdate /\ NoLostCopy

USE MaxWorkAssumption DEF round, uiSide

(* The Boolean variables of the protocol, apart from the others.           *)
WakeFlagsOK ==
  /\ copied \in BOOLEAN /\ wake_pending \in BOOLEAN /\ pane \in BOOLEAN
  /\ changed \in BOOLEAN /\ running \in BOOLEAN /\ late \in BOOLEAN

LEMMA WakeInitInv == WakeInit => WakeInv
<1> SUFFICES ASSUME WakeInit PROVE WakeInv
  OBVIOUS
<1>1. WakeFlagsOK /\ ~copied /\ ~wake_pending /\ changed /\ running /\ ~late
  BY Zenon DEF WakeInit, WakeFlagsOK
<1> QED
  BY <1>1 DEF WakeInit, WakeFlagsOK, WakeInv, WakeTypeOK, OneToken, Due,
     NoLostUpdate, NoLostCopy

LEMMA WakeNextFlags ==
  ASSUME WakeFlagsOK, [WakeNext]_wakeVars
  PROVE  WakeFlagsOK'
<1> USE DEF WakeFlagsOK, InRound
<1>1. CASE ChangeModel \/ BeginToClose \/ FailLate
  BY <1>1, Zenon DEF ChangeModel, BeginToClose, FailLate
<1>2. CASE Answer
  BY <1>2, Zenon DEF Answer
<1>3. CASE CopySelection
  BY <1>3, Zenon DEF CopySelection
<1>4. CASE RoundEnds \/ StopWaiting \/ PublishEnd
  BY <1>4, Zenon DEF RoundEnds, StopWaiting, PublishEnd
<1>5. CASE PublishChange
  BY <1>5, Zenon DEF PublishChange, PublishThen
<1>6. CASE Swap \/ Notify
  BY <1>6, Zenon DEF Swap, Notify
<1>7. CASE TakeEvent \/ DiscardEvent \/ ClosePane \/ RefreshPane
  BY <1>7, Zenon DEF TakeEvent, DiscardEvent, ClosePane, RefreshPane
<1>8. CASE UNCHANGED wakeVars
  BY <1>8, Zenon DEF wakeVars
<1> QED
  BY <1>1, <1>2, <1>3, <1>4, <1>5, <1>6, <1>7, <1>8, Zenon DEF WakeNext

LEMMA WakeNextInv == WakeInv /\ [WakeNext]_wakeVars => WakeInv'
<1> SUFFICES ASSUME WakeInv, [WakeNext]_wakeVars
             PROVE  WakeInv'
  OBVIOUS
<1>1. WakeFlagsOK /\ WakeFlagsOK'
  BY WakeNextFlags, Zenon DEF WakeInv, WakeTypeOK, WakeFlagsOK
<1> USE DEF WakeFlagsOK, WakeInv, WakeTypeOK, OneToken, Due, NoLostUpdate, NoLostCopy
<1>2. CASE ChangeModel
  BY <1>1, <1>2 DEF ChangeModel, InRound
<1>3. CASE BeginToClose
  BY <1>1, <1>3 DEF BeginToClose, InRound
<1>4. CASE FailLate
  BY <1>1, <1>4 DEF FailLate, InRound
<1>5. CASE Answer
  BY <1>1, <1>5 DEF Answer, InRound
<1>6. CASE CopySelection
  BY <1>1, <1>6 DEF CopySelection, InRound
<1>7. CASE RoundEnds
  BY <1>1, <1>7 DEF RoundEnds
<1>8. CASE PublishChange
  <2>1. PICK next \in {"round", "wait", "finish"} : PublishThen(next)
    BY <1>8 DEF PublishChange
  <2>2. CASE changed
    BY <1>1, <2>1, <2>2 DEF PublishThen
  <2>3. CASE ~changed
    BY <1>1, <2>1, <2>3 DEF PublishThen
  <2> QED
    BY <2>2, <2>3
<1>9. CASE StopWaiting
  BY <1>1, <1>9 DEF StopWaiting
<1>10. CASE PublishEnd
  BY <1>1, <1>10 DEF PublishEnd
<1>11. CASE Swap
  BY <1>1, <1>11 DEF Swap
<1>12. CASE Notify
  BY <1>1, <1>12 DEF Notify
<1>13. CASE TakeEvent \/ DiscardEvent
  BY <1>1, <1>13 DEF TakeEvent, DiscardEvent
<1>14. CASE ClosePane
  BY <1>1, <1>14 DEF ClosePane
<1>15. CASE RefreshPane
  <2>1. CASE refresh = "clear"
    BY <1>1, <1>15, <2>1 DEF RefreshPane
  <2>2. CASE refresh = "clone"
    BY <1>1, <1>15, <2>2 DEF RefreshPane
  <2>3. CASE refresh = "take"
    BY <1>1, <1>15, <2>3 DEF RefreshPane
  <2> QED
    BY <1>15, <2>1, <2>2, <2>3 DEF RefreshPane
<1>16. CASE UNCHANGED wakeVars
  BY <1>1, <1>16 DEF wakeVars
<1> QED
  BY <1>2, <1>3, <1>4, <1>5, <1>6, <1>7, <1>8, <1>9, <1>10, <1>11, <1>12,
     <1>13, <1>14, <1>15, <1>16 DEF WakeNext

LEMMA WakeInvariance == WakeSpec => []WakeInv
  BY WakeInitInv, WakeNextInv, PTL DEF WakeSpec

(* The pane never shows a version that was not published, and every        *)
(* variable of the wake protocol keeps its type.                           *)
THEOREM TypeCorrect == WakeSpec => []WakeTypeOK
  BY WakeInvariance, PTL DEF WakeInv

(* Shared::wake coalesces: the UI's channel never holds a second event of  *)
(* the session.                                                            *)
THEOREM WakesCoalesce == WakeSpec => []AtMostOneEvent
<1>1. WakeInv => AtMostOneEvent
  BY DEF WakeInv, WakeTypeOK, OneToken, AtMostOneEvent
<1> QED
  BY <1>1, WakeInvariance, PTL

(* Shared::wake and SessionHandle::published never lose a change, be it    *)
(* announced at once, by the publish that ends the round or, for a failure *)
(* of the teardown, by the end of the session.                             *)
THEOREM UpdateNeverLost == WakeSpec => []NoLostUpdate
  BY WakeInvariance, PTL DEF WakeInv

(* Nor do they and take_copied lose a copied text.                         *)
THEOREM CopyNeverLost == WakeSpec => []NoLostCopy
  BY WakeInvariance, PTL DEF WakeInv
=============================================================================
