--------------------------- MODULE MCWriteQueue ----------------------------
(***************************************************************************)
(* Model checking of WriteQueue.  Every bound is one of its constants: the *)
(* queue is finite because of its limits, so no further constraint is      *)
(* needed.                                                                 *)
(***************************************************************************)
EXTENDS WriteQueue
=============================================================================
