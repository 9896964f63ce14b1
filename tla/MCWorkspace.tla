---------------------------- MODULE MCWorkspace ----------------------------
(***************************************************************************)
(* Layout files for TLC: one that is valid although its active tab is not  *)
(* there any more, and one edited by hand with a tab nested too deep.      *)
(***************************************************************************)
EXTENDS Workspace

MCFiles ==
  {[active |-> 3, tabs |-> <<{<<>>}, {<<0>>, <<1>>}>>],
   [active |-> 1, tabs |-> <<{<<0>>, <<1, 0>>, <<1, 1, 0>>, <<1, 1, 1>>}>>]}
=============================================================================
