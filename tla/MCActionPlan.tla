---------------------------- MODULE MCActionPlan ----------------------------
(***************************************************************************)
(* Instances of ActionPlan and SafePlan for TLC.  A saved plan keeps the   *)
(* mode it was prepared in (plan.safeMode; another mode throws), so a      *)
(* behaviour is one of a wallet's plan or of a Safe's, and the state of    *)
(* the other stays as it began.  Two plans are a discarded one and the one *)
(* prepared anew; two rounds have a checkpoint between them; two chains    *)
(* are a hosted Safe and one without a service.                            *)
(***************************************************************************)
EXTENDS ActionPlan, SafePlan, TLC

CONSTANTS w1, w2,
  Modes   \* the values of safeMode

VARIABLE safeMode

TwoWindows == {w1, w2}
Alike == Permutations(TwoWindows)

EitherInit ==
  /\ safeMode \in Modes
  /\ Init /\ (safeMode => ~refreshes)
  /\ SafeInit

\* A Safe plan may really stop: with a request of unknown outcome, or acknowledged.
SafeStops == at = "idle" /\ (saved.pending \/ acknowledged) /\ UNCHANGED safeVars

EitherNext ==
  \/ ~safeMode /\ Next /\ UNCHANGED <<safeMode, safeVars>>
  \/ safeMode /\ (SafeNext \/ SafeStops) /\ UNCHANGED <<safeMode, vars>>

EitherSpec == EitherInit /\ [][EitherNext]_<<safeMode, vars, safeVars>>
=============================================================================
