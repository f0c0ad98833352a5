---------------------------- MODULE MCWriteHold ----------------------------
(***************************************************************************)
(* Instances of WriteHold for TLC.  Two windows are what a race needs; two *)
(* attempts are an earlier one and the one that must not overtake it.      *)
(***************************************************************************)
EXTENDS WriteHold

CONSTANTS w1, w2

TwoWindows == {w1, w2}
=============================================================================
