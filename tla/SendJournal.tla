----------------------------- MODULE SendJournal -----------------------------
(***************************************************************************)
(* What the parts of the program rely on in one another's journals: a      *)
(* journal of something to send is marked before a wallet is asked, and    *)
(* the mark goes only when nothing that was asked for counts any more.     *)
(*                                                                         *)
(* The subject is the payment of a Relayr request, one call of a direct    *)
(* batch, or one round of a saved plan.  RelayrSession, every slot of      *)
(* DirectBatch and every round of ActionPlan implement this module: what   *)
(* ActionPlan takes for the journal of a round is what the others keep.    *)
(***************************************************************************)
CONSTANTS
  Works,    \* what may be sent for the subject: bundles, batches, refreshed calls
  NoWork,
  Asks      \* the wallet prompts

VARIABLES
  mark,     \* the work the journal is marked for, and whether with a hash
  prompt,   \* what each prompt was opened for, and whether it still counts
  closed    \* the work that is verified complete or that a user has cleared

jvars == <<mark, prompt, closed>>

\* A mark is "clear", "sending" or, with a hash, "sent".
Clear == [of |-> NoWork, stage |-> "clear"]

\* A prompt is "new", "live" while it may be, or was, executed and its work is not done
\* with, or "over".
Unopened == [of |-> NoWork, stage |-> "new"]

JournalInit ==
  /\ mark = Clear
  /\ prompt = [n \in Asks |-> Unopened]
  /\ closed = {}

Idle == \A n \in Asks : prompt[n].stage # "live"

\* The mark comes first.
Mark(k) ==
  /\ mark = Clear /\ Idle
  /\ k \notin closed
  /\ mark' = [of |-> k, stage |-> "sending"]
  /\ UNCHANGED <<prompt, closed>>

\* A wallet is asked for what the journal is marked for, and for nothing beside it.
Ask(n) ==
  /\ mark.stage = "sending" /\ Idle
  /\ prompt[n] = Unopened
  /\ prompt' = [prompt EXCEPT ![n] = [of |-> mark.of, stage |-> "live"]]
  /\ UNCHANGED <<mark, closed>>

\* A window may still ask for work that a user has cleared in another one.
AskClosed(n) ==
  /\ prompt[n] = Unopened
  /\ \E k \in closed : prompt' = [prompt EXCEPT ![n] = [of |-> k, stage |-> "over"]]
  /\ UNCHANGED <<mark, closed>>

\* A hash is recorded only of work that a wallet was asked for.
Submit(n) ==
  /\ mark.stage = "sending"
  /\ prompt[n].of = mark.of
  /\ mark' = [mark EXCEPT !.stage = "sent"]
  /\ UNCHANGED <<prompt, closed>>

\* A prompt is refused, its transaction reverts, or its subject is done with; only
\* then may the mark go with it.
Settle(n) ==
  /\ prompt[n].stage = "live"
  /\ prompt' = [prompt EXCEPT ![n].stage = "over"]
  /\ mark' \in {mark, Clear}
  /\ UNCHANGED closed

\* The mark is taken back, or the journal removed, when nothing asked for counts.
Unmark ==
  /\ Idle
  /\ mark' = Clear
  /\ UNCHANGED <<prompt, closed>>

\* Work is verified complete, or cleared by a user.
Close(k) ==
  /\ closed' = closed \cup {k}
  /\ mark' = IF mark.of = k THEN Clear ELSE mark
  /\ prompt' = [n \in Asks |-> IF prompt[n].of = k THEN [prompt[n] EXCEPT !.stage = "over"]
                                                  ELSE prompt[n]]

JournalNext ==
  \/ \E k \in Works : Mark(k) \/ Close(k)
  \/ \E n \in Asks : Ask(n) \/ AskClosed(n) \/ Submit(n) \/ Settle(n)
  \/ Unmark

\* Most steps of an implementation do not touch its journal.
JournalStep == UNCHANGED jvars \/ JournalNext

JournalSpec == JournalInit /\ [][JournalStep]_jvars

----------------------------------------------------------------------------
\* What whoever keeps such a journal may rely on: at most one request counts, the journal is
\* marked for it and it is not closed work; and a hash in the journal is of work that was
\* asked for.
LiveIsMarked ==
  \A n \in Asks : prompt[n].stage = "live" =>
    /\ mark.of = prompt[n].of /\ mark.stage # "clear" /\ mark.of \notin closed
    /\ \A m \in Asks : prompt[m].stage = "live" => m = n

HashIsOfWork == mark.stage = "sent" => \E n \in Asks : prompt[n].of = mark.of
=============================================================================
