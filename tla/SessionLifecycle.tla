-------------------------- MODULE SessionLifecycle -------------------------
(***************************************************************************)
(* The lifecycle a session promises to whoever holds its handle: Creating, *)
(* Running, Closing, Exited, with Failed reachable while the session has   *)
(* not ended.  Exited and Failed are final.                                *)
(*                                                                         *)
(* The status and the input are published apart.  A failure is known       *)
(* before the input closes, so that a session shown as Failed may still    *)
(* take what is typed; and the input closes before Closing is known, so    *)
(* that one shown as Running may refuse it.  Once closed it stays closed,  *)
(* and a session shown as Closing or Exited never takes input.             *)
(***************************************************************************)
VARIABLES
  status,
  input,  \* the session accepts input for the child
  ended   \* its threads have nothing more to say

vars == <<status, input, ended>>

Init ==
  /\ status = "Creating"
  /\ input = TRUE
  /\ ended = FALSE

Run ==
  /\ status = "Creating"
  /\ status' = "Running"
  /\ UNCHANGED <<input, ended>>

(* An I/O error, also during the teardown.                                 *)
Break ==
  /\ status \in {"Running", "Closing"}
  /\ status' = "Failed"
  /\ UNCHANGED <<input, ended>>

(* The child exited, the handle was closed, or a failure is known.         *)
Shut ==
  /\ status \in {"Running", "Failed"}
  /\ input /\ ~ended
  /\ input' = FALSE
  /\ UNCHANGED <<status, ended>>

Close ==
  /\ status = "Running" /\ ~input
  /\ status' = "Closing"
  /\ UNCHANGED <<input, ended>>

(* The teardown is over: the child's exit is known, or it is not.          *)
End ==
  /\ ~ended /\ ~input
  /\ ended' = TRUE
  /\ \/ status = "Closing" /\ status' \in {"Exited", "Failed"}
     \/ status = "Failed" /\ UNCHANGED status
  /\ UNCHANGED input

Next == Run \/ Break \/ Shut \/ Close \/ End

Safety == Init /\ [][Next]_vars

(* Ending needs nobody's help, not even the child's.                       *)
Spec == Safety /\ WF_vars(End)
=============================================================================
