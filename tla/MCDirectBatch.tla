--------------------------- MODULE MCDirectBatch ---------------------------
(***************************************************************************)
(* Instances of DirectBatch for TLC: two windows, two calls a batch, and   *)
(* two different batches a user may review for the same scope.             *)
(***************************************************************************)
EXTENDS DirectBatch

CONSTANTS w1, w2, r1, r2

TwoWindows == {w1, w2}
TwoRequests == {r1, r2}
BeforeTheWallet == {"marker"}
=============================================================================
