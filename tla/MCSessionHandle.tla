--------------------------- MODULE MCSessionHandle ---------------------------
(***************************************************************************)
(* The two directions of a session's handle in one run: the commands that  *)
(* the UI sends down and the wakeups that come up share no state, so a     *)
(* behaviour is one of them.                                               *)
(***************************************************************************)
EXTENDS SessionCommands, SessionWake

VARIABLE direction

HandleInit == direction \in {"commands", "wakeups"} /\ Init /\ WakeInit

HandleNext ==
  \/ direction = "commands" /\ Next /\ UNCHANGED <<wakeVars, direction>>
  \/ direction = "wakeups" /\ WakeNext /\ UNCHANGED <<vars, direction>>

HandleSpec == HandleInit /\ [][HandleNext]_<<vars, wakeVars, direction>> /\ WakeFairness
=============================================================================
