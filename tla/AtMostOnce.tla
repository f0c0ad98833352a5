----------------------------- MODULE AtMostOnce -----------------------------
(***************************************************************************)
(* What a write hold promises, with no window, storage or lock in it: one  *)
(* slot per action, held by at most one attempt, and an attempt leaves the *)
(* slot only when nothing can come of it any more.  src/write-hold.js      *)
(* lines 1-5 state the promise; WriteHold.tla is shown to implement it.    *)
(***************************************************************************)
EXTENDS Naturals

CONSTANT MaxAttempts

VARIABLES
  holder,   \* the attempt in the slot, 0 when the slot is free
  stage     \* what is known of each attempt, see Stages

avars == <<holder, stage>>

Attempts == 1 .. MaxAttempts

\* "held": in the slot, the wallet not asked yet.  "asked": the wallet has
\* been asked, the outcome is open.  "over": nothing can come of it any more.
Stages == {"new", "held", "asked", "over"}

AbsTypeOK ==
  /\ holder \in 0 .. MaxAttempts
  /\ stage \in [Attempts -> Stages]

AbsInit ==
  /\ holder = 0
  /\ stage = [a \in Attempts |-> "new"]

\* An attempt takes the free slot.  It may be over at once (its window was
\* gone, or refused, before it could ask the wallet).
Take(a) ==
  /\ holder = 0
  /\ stage[a] = "new"
  /\ holder' = a
  /\ \E s \in {"held", "over"} : stage' = [stage EXCEPT ![a] = s]

\* An attempt that was given up before it kept the slot.
Skip(a) ==
  /\ stage[a] = "new"
  /\ stage' = [stage EXCEPT ![a] = "over"]
  /\ UNCHANGED holder

\* The wallet is asked for the attempt in the slot, and for no other.
Ask(a) ==
  /\ holder = a
  /\ stage[a] = "held"
  /\ stage' = [stage EXCEPT ![a] = "asked"]
  /\ UNCHANGED holder

\* The outcome is final, or nobody will ask the wallet any more.
Settle(a) ==
  /\ stage[a] \in {"held", "asked"}
  /\ stage' = [stage EXCEPT ![a] = "over"]
  /\ UNCHANGED holder

\* The slot is given back by an attempt that is over; one that never asked
\* the wallet may be over in the same step.
Free(a) ==
  /\ holder = a
  /\ stage[a] \in {"held", "over"}
  /\ holder' = 0
  /\ stage' = [stage EXCEPT ![a] = "over"]

AbsNext ==
  \E a \in Attempts : Take(a) \/ Skip(a) \/ Ask(a) \/ Settle(a) \/ Free(a)

AbsSpec == AbsInit /\ [][AbsNext]_avars
=============================================================================
