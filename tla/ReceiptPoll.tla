---------------------------- MODULE ReceiptPoll ----------------------------
(***************************************************************************)
(* How a submitted transaction is followed: pollTransactionReceipt and     *)
(* receiptAttempt of src/component-base.js.  Every attempt asks the RPC    *)
(* client and the wallet at once; the first receipt settles the poll, and  *)
(* an attempt in which both miss, or whose timer fires, is followed by a   *)
(* pause and another attempt.  Nothing is assumed of the sources: a call   *)
(* may stay unanswered for ever.                                           *)
(***************************************************************************)
EXTENDS Naturals

CONSTANTS
  Sources,      \* those asked for the receipt
  MaxAttempts   \* attempts

ASSUME ReceiptPollAssumption == Sources # {} /\ MaxAttempts \in Nat \ {0}

VARIABLES
  mined,      \* outside: is the transaction mined?
  poll,       \* where the poll stands
  remaining,  \* remaining
  pending     \* the sources that did not answer this attempt (answers to an older one are ignored)

pollVars == <<mined, poll, remaining, pending>>

PollTypeOK ==
  /\ mined \in BOOLEAN
  /\ poll \in {"new", "attempt", "pause", "receipt", "gone"}
  /\ remaining \in 0 .. MaxAttempts
  /\ pending \subseteq Sources

PollInit ==
  /\ mined \in BOOLEAN
  /\ poll = "new"
  /\ remaining = MaxAttempts
  /\ pending = {}

\* check: all sources are asked and the timer of the attempt starts.
AskReceipt ==
  /\ poll' = "attempt"
  /\ pending' = Sources
  /\ UNCHANGED <<mined, remaining>>

StartPoll == poll = "new" /\ AskReceipt
PauseOver == poll = "pause" /\ AskReceipt

\* The attempt was rejected.
Miss ==
  /\ remaining' = remaining - 1
  /\ poll' = IF remaining = 1 THEN "gone" ELSE "pause"
  /\ pending' = {}
  /\ UNCHANGED mined

\* done: a source gives the receipt.
Found ==
  /\ poll = "attempt" /\ pending # {} /\ mined
  /\ poll' = "receipt"
  /\ pending' = {}
  /\ UNCHANGED <<mined, remaining>>

\* missed: a source has no receipt, fails, or is a wallet on another chain; the last ends
\* the attempt.
Missed(s) ==
  /\ poll = "attempt" /\ s \in pending
  /\ \/ pending = {s} /\ Miss
     \/ pending # {s} /\ pending' = pending \ {s} /\ UNCHANGED <<mined, poll, remaining>>

\* Mutant: the first miss clears the timer.
TimedOut_Cleared == poll = "attempt" /\ pending = Sources /\ Miss

TimedOut == poll = "attempt" /\ Miss

Mined ==
  /\ poll \in {"attempt", "pause"} /\ ~mined
  /\ mined' = TRUE
  /\ UNCHANGED <<poll, remaining, pending>>

PollNext ==
  \/ StartPoll \/ PauseOver \/ Found \/ TimedOut \/ Mined
  \/ \E s \in Sources : Missed(s)

\* The timer of an attempt and the one of a pause fire; the sources promise nothing.
PollFair == WF_pollVars(TimedOut) /\ WF_pollVars(PauseOver)

PollSpec == PollInit /\ [][PollNext]_pollVars /\ PollFair

----------------------------------------------------------------------------
\* Polling ends, with a receipt or for good after the last attempt, although a source may
\* leave a request unanswered for ever while the other one misses: the action that waits
\* for it keeps its lock until then (component-base.js:1768-1824).
PollSettles == (poll = "attempt") ~> (poll \in {"receipt", "gone"})
=============================================================================
