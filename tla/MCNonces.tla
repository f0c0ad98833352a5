------------------------------- MODULE MCNonces -------------------------------
(***************************************************************************)
(* Two parts that keep a call to one nonce, on small sets: the             *)
(* reservations of forwarder nonces, and the reads of a Safe's queue among *)
(* co-owners who queue the same call.  They share no state, so a behaviour *)
(* is one of a single part and the other stays as it is.  Windows and      *)
(* forwarder chains are interchangeable: no action orders them.            *)
(***************************************************************************)
EXTENDS NonceReservations, SafePlan, TLC

VARIABLE reserving

Alike == Permutations(Windows) \cup Permutations(Chains)

NoncesInit == reserving \in BOOLEAN /\ Init /\ SafeInit

NoncesNext ==
  \/ reserving /\ Next /\ UNCHANGED <<reserving, safeVars>>
  \/ ~reserving /\ SafeNext /\ UNCHANGED <<reserving, vars>>

NoncesSpec == NoncesInit /\ [][NoncesNext]_<<reserving, vars, safeVars>>
===============================================================================
