---------------------------- MODULE MCSafeBatch ----------------------------
(***************************************************************************)
(* Instances of SafeBatch for TLC: the pools a project may have.           *)
(***************************************************************************)
EXTENDS SafeBatch

OnePool == <<"native">>
=============================================================================
