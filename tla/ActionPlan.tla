----------------------------- MODULE ActionPlan -----------------------------
(***************************************************************************)
(* Saved action plans: runSavedActionPlan, discardUnsubmittedActionPlan    *)
(* and acknowledgeSavedActionPlan of src/action-plan.js, with the          *)
(* executeRound that runSelectedProjectCallRounds of src/discover.js gives *)
(* them, for a plan whose rounds are sent by the user's own wallet.        *)
(*                                                                         *)
(* An action of several rounds is prepared once and saved; each round runs *)
(* on a journal of its own, direct or Relayr, and is checkpointed in the   *)
(* plan before that journal goes.  One scope of one account (one storage   *)
(* key) is modelled.  A round's calls are one send here, and its journal   *)
(* only says whether the wallet was asked: what happens inside a journal   *)
(* is DirectBatch and RelayrSession.  An action of this module is one run  *)
(* of a window's event loop from one await to the next.                    *)
(***************************************************************************)
EXTENDS Integers

CONSTANTS
  Windows,         \* the browser windows open on the site
  None,            \* nobody holds the plan's Web Lock
  Rounds,          \* how many rounds a plan has
  MaxPlans,        \* bound: how many plans are ever saved
  MaxAsks,         \* bound: how many wallet prompts are ever opened
  MaxVersions,     \* bound: how often the calls of a round are refreshed
  StorageMayFail   \* may a write or removal of the plan fail?

ASSUME ActionPlanAssumption ==
  /\ None \notin Windows
  /\ Rounds \in Nat \ {0}
  /\ MaxPlans \in Nat \ {0}
  /\ MaxAsks \in Nat \ {0}
  /\ MaxVersions \in Nat
  /\ StorageMayFail \in BOOLEAN

VARIABLES
  plan,      \* the plan in localStorage
  journal,   \* the journal of each round of each plan
  lock,      \* who holds the plan's Web Lock
  next,      \* the id of the next plan (randomUUID never repeats one)
  pc,        \* where each window's run or discard stands
  mine,      \* the plan object each window works on
  fresh,     \* the windows whose run prepared its plan (not resumedPlan)
  seen,      \* the windows whose round found a Relayr record (roundRelayrEvidence)
  offer,     \* the "Discard" each window shows beside a refused round
  refreshes, \* does the feature refresh unsent rounds (and send them directly)?
  asks,      \* outside: the wallet prompts, and who still waits for the answer
  skipped,   \* the rounds found resolved already (a history variable)
  over       \* the plans acknowledged by a user (a history variable)

vars == <<plan, journal, lock, next, pc, mine, fresh, seen, offer, refreshes, asks, skipped, over>>

Plans == 1 .. MaxPlans
Round == 0 .. Rounds - 1
Asks == 1 .. MaxAsks
Calls == 0 .. MaxVersions

\* `round` is nextRound; the calls of a round are named by how often they were refreshed.
NoPlan == [id |-> 0, round |-> 0, calls |-> [r \in Round |-> 0]]
SavedPlans == [id : Plans, round : 0 .. Rounds, calls : [Round -> Calls]]

\* What the journal of a round says: its calls, and whether they are unsent (empty
\* slots, or a Relayr quote nobody paid), marked as sending, or sent with this hash.
Unsent == 0
Sending == -1
NoJournal == [kind |-> "none", calls |-> 0, sent |-> Unsent]
Journals == {NoJournal} \cup [kind : {"direct", "relayr"}, calls : Calls, sent : -1 .. MaxAsks]

NoOffer == [id |-> 0, round |-> 0, calls |-> 0, seen |-> FALSE]
Offers == [id : 0 .. MaxPlans, round : Round, calls : Calls, seen : BOOLEAN]

\* "odd": mined, but its effects do not verify.
NoAsk == [id |-> 0, round |-> 0, calls |-> 0, fate |-> "none", to |-> None]
Fates == {"none", "open", "refused", "sent", "ok", "odd", "reverted"}

PCs == {"idle", "prepare", "round", "refresh", "send", "called", "prompt", "track",
        "verified", "saved", "completed", "discard", "drop"}

TypeOK ==
  /\ plan \in SavedPlans \cup {NoPlan}
  /\ journal \in [Plans -> [Round -> Journals]]
  /\ lock \in Windows \cup {None}
  /\ next \in 1 .. MaxPlans + 1
  /\ pc \in [Windows -> PCs]
  /\ mine \in [Windows -> SavedPlans \cup {NoPlan}]
  /\ fresh \subseteq Windows
  /\ seen \subseteq Windows
  /\ offer \in [Windows -> Offers]
  /\ refreshes \in BOOLEAN
  /\ asks \in [Asks -> [id : 0 .. MaxPlans, round : Round, calls : Calls, fate : Fates,
                        to : Windows \cup {None}]]
  /\ skipped \subseteq Plans \X Round
  /\ over \subseteq Plans

Init ==
  /\ plan = NoPlan
  /\ journal = [p \in Plans |-> [r \in Round |-> NoJournal]]
  /\ lock = None
  /\ next = 1
  /\ pc = [w \in Windows |-> "idle"]
  /\ mine = [w \in Windows |-> NoPlan]
  /\ fresh = {}
  /\ seen = {}
  /\ offer = [w \in Windows |-> NoOffer]
  /\ refreshes \in BOOLEAN
  /\ asks = [n \in Asks |-> NoAsk]
  /\ skipped = {}
  /\ over = {}

----------------------------------------------------------------------------
(* The plan and the journal of its current round.                          *)

\* The run ends, by a throw or a cancel: the lock goes back, what is saved stays.
Rest(w) ==
  /\ pc' = [pc EXCEPT ![w] = "idle"]
  /\ mine' = [mine EXCEPT ![w] = NoPlan]
  /\ fresh' = fresh \ {w}
  /\ seen' = seen \ {w}
  /\ lock' = IF lock = w THEN None ELSE lock

\* The run works on plan s next, holding the lock.
Go(w, to, s) ==
  /\ pc' = [pc EXCEPT ![w] = to]
  /\ mine' = [mine EXCEPT ![w] = s]
  /\ lock' = w

\* The head of the loop: the next round, or the end of the run.
Continue(w, s) ==
  IF s.round < Rounds
  THEN Go(w, "round", s) /\ UNCHANGED <<fresh, seen>>
  ELSE /\ pc' = [pc EXCEPT ![w] = "completed"]
       /\ mine' = [mine EXCEPT ![w] = NoPlan]
       /\ fresh' = fresh \ {w}
       /\ seen' = seen \ {w}
       /\ lock' = None

\* save throws when the plan cannot be read back, whether or not it was written.
SaveFails(w, s) ==
  /\ StorageMayFail
  /\ plan' \in {plan, s}
  /\ Rest(w)

Saves(s) == plan' = s

Here(w) == journal[mine[w].id][mine[w].round]
Reviewed(w) == mine[w].calls[mine[w].round]

SetJournal(id, r, j) == journal' = [journal EXCEPT ![id][r] = j]
SetHere(w, j) == SetJournal(mine[w].id, mine[w].round, j)

\* Mutant: only a hash counts as submitted.
Clearable_NoHash(j, calls) == j.kind # "direct" \/ (j.calls = calls /\ j.sent \in {Unsent, Sending})

\* clearUnsubmittedDirectBatch: no direct journal, or one of these calls with empty slots.
Clearable(j, calls) == j.kind # "direct" \/ (j.calls = calls /\ j.sent = Unsent)
Cleared(j) == IF j.kind = "direct" THEN NoJournal ELSE j

----------------------------------------------------------------------------
(* runSavedActionPlan and executeRound.                                    *)

\* A saved plan is resumed; with none a new one is prepared, under the lock.
Start(w) ==
  /\ pc[w] = "idle"
  /\ lock = None
  /\ offer' = [offer EXCEPT ![w] = NoOffer]
  /\ IF plan = NoPlan
     THEN Go(w, "prepare", NoPlan) /\ UNCHANGED <<fresh, seen>>
     ELSE Continue(w, plan)
  /\ UNCHANGED <<plan, journal, next, refreshes, asks, skipped, over>>

\* The prepared rounds are saved before any of them runs.
Prepared(w) ==
  LET s == [NoPlan EXCEPT !.id = next]
  IN /\ pc[w] = "prepare"
     /\ next \in Plans
     /\ next' = next + 1
     /\ \/ Saves(s) /\ Go(w, "round", s) /\ fresh' = fresh \cup {w} /\ UNCHANGED seen
        \/ SaveFails(w, s)
     /\ UNCHANGED <<journal, offer, refreshes, asks, skipped, over>>

\* executeRound begins.  A feature that refreshes its rounds first clears what is unsent.
BeginRound(w) ==
  /\ pc[w] = "round"
  /\ seen' = IF Here(w).kind = "relayr" THEN seen \cup {w} ELSE seen \ {w}
  /\ IF refreshes /\ Here(w).kind # "relayr" /\ Clearable(Here(w), Reviewed(w))
     THEN SetHere(w, NoJournal) /\ Go(w, "refresh", mine[w])
     ELSE UNCHANGED journal /\ Go(w, "send", mine[w])
  /\ UNCHANGED <<plan, next, fresh, offer, refreshes, asks, skipped, over>>

\* replaceUnsubmittedRound: the fresh calls are saved before they are reviewed.
Replace(w) ==
  LET s == [mine[w] EXCEPT !.calls[mine[w].round] = @ + 1]
  IN /\ pc[w] = "refresh"
     /\ Reviewed(w) < MaxVersions
     /\ \/ Saves(s) /\ Go(w, "send", s) /\ UNCHANGED <<fresh, seen>>
        \/ SaveFails(w, s)
     /\ UNCHANGED <<journal, next, offer, refreshes, asks, skipped, over>>

\* The calls are as they were.
Keep(w) ==
  /\ pc[w] = "refresh"
  /\ Saves(mine[w]) /\ Go(w, "send", mine[w]) /\ UNCHANGED <<fresh, seen>>
  /\ UNCHANGED <<journal, next, offer, refreshes, asks, skipped, over>>

NextRound(w) == [mine[w] EXCEPT !.round = @ + 1]

\* Someone else resolved the round: it is checkpointed with nothing sent.
Skip(w) ==
  /\ pc[w] = "refresh"
  /\ \/ Saves(NextRound(w)) /\ Continue(w, NextRound(w))
     \/ SaveFails(w, NextRound(w))
  /\ skipped' = skipped \cup {<<mine[w].id, mine[w].round>>}
  /\ UNCHANGED <<journal, next, offer, refreshes, asks, over>>

\* A preparation or a review is cancelled, or a check fails.
GiveUp(w) ==
  /\ pc[w] \in {"prepare", "round", "refresh", "send"}
  /\ Rest(w)
  /\ UNCHANGED <<plan, journal, next, offer, refreshes, asks, skipped, over>>

\* reverifySaved refuses the round of a resumed plan, which is offered for discard.
Refused(w) ==
  /\ pc[w] = "send"
  /\ w \notin fresh
  /\ offer' = [offer EXCEPT ![w] = [id |-> mine[w].id, round |-> mine[w].round,
                                    calls |-> Reviewed(w), seen |-> w \in seen]]
  /\ Rest(w)
  /\ UNCHANGED <<plan, journal, next, refreshes, asks, skipped, over>>

\* A Relayr request for the round: posted and quoted, not paid.
Quote(w) ==
  /\ pc[w] = "send"
  /\ ~refreshes
  /\ Here(w) = NoJournal
  /\ SetHere(w, [kind |-> "relayr", calls |-> Reviewed(w), sent |-> Unsent])
  /\ UNCHANGED <<plan, lock, next, pc, mine, fresh, seen, offer, refreshes, asks, skipped, over>>

\* The journal is marked before the wallet is asked.  A direct journal with other
\* calls throws; a saved Relayr quote is paid as it is.
Mark(w) ==
  LET j == Here(w)
  IN /\ pc[w] = "send"
     /\ j = NoJournal \/ (j.sent = Unsent /\ (j.kind = "direct" => j.calls = Reviewed(w)))
     /\ SetHere(w, IF j = NoJournal
                   THEN [kind |-> "direct", calls |-> Reviewed(w), sent |-> Sending]
                   ELSE [j EXCEPT !.sent = Sending])
     /\ Go(w, "called", mine[w])
     /\ UNCHANGED <<plan, next, fresh, seen, offer, refreshes, asks, skipped, over>>

\* What an earlier run sent is only checked: a receipt that verifies completes the
\* round, a direct send that reverted empties its slot, anything else stops.
Recheck(w) ==
  LET j == Here(w)
      own == {n \in Asks : asks[n].id = mine[w].id /\ asks[n].round = mine[w].round}
      found == IF j.kind = "direct" THEN own \cap {j.sent} ELSE own
  IN /\ pc[w] = "send"
     /\ j.sent # Unsent
     /\ \/ /\ \E n \in found : asks[n].fate = "ok"
           /\ Go(w, "verified", mine[w])
           /\ UNCHANGED <<journal, fresh, seen>>
        \/ /\ j.kind = "direct"
           /\ \E n \in found : asks[n].fate = "reverted"
           /\ SetHere(w, [j EXCEPT !.sent = Unsent])
           /\ Rest(w)
        \/ Rest(w) /\ UNCHANGED journal
     /\ UNCHANGED <<plan, next, offer, refreshes, asks, skipped, over>>

\* The wallet is called: its prompt opens.
Ask(w) ==
  /\ pc[w] = "called"
  /\ \E n \in Asks :
       /\ asks[n] = NoAsk
       /\ \A m \in 1 .. n - 1 : asks[m] # NoAsk
       /\ asks' = [asks EXCEPT ![n] = [id |-> mine[w].id, round |-> mine[w].round,
                                       calls |-> Here(w).calls, fate |-> "open", to |-> w]]
  /\ Go(w, "prompt", mine[w])
  /\ UNCHANGED <<plan, journal, next, fresh, seen, offer, refreshes, skipped, over>>

\* The answer n of the wallet reaches the window that asked.
Hears(w, n) ==
  /\ pc[w] = "prompt"
  /\ asks[n].to = w
  /\ asks' = [asks EXCEPT ![n].to = None]

\* Never called, or refused: the mark is taken back.
TakeBack(w) ==
  /\ SetHere(w, [Here(w) EXCEPT !.sent = Unsent])
  /\ Rest(w)
  /\ UNCHANGED <<plan, next, offer, refreshes, skipped, over>>

NotInvoked(w) == pc[w] = "called" /\ UNCHANGED asks /\ TakeBack(w)
Rejected(w) == \E n \in Asks : asks[n].fate = "refused" /\ Hears(w, n) /\ TakeBack(w)

\* Any other wallet error: the mark stays.
Unsure(w) ==
  \E n \in Asks :
    /\ Hears(w, n)
    /\ Rest(w)
    /\ UNCHANGED <<plan, journal, next, offer, refreshes, skipped, over>>

Answered(w) ==
  \E n \in Asks :
    /\ asks[n].fate \in {"sent", "ok", "odd", "reverted"}
    /\ Hears(w, n)
    /\ SetHere(w, [Here(w) EXCEPT !.sent = n])
    /\ Go(w, "track", mine[w])
    /\ UNCHANGED <<plan, next, fresh, seen, offer, refreshes, skipped, over>>

\* Mutant: a receipt that succeeded is enough.
Tracked_Unverified(w) ==
  /\ pc[w] = "track"
  /\ \/ /\ asks[Here(w).sent].fate \in {"ok", "odd"}
        /\ Go(w, "verified", mine[w])
        /\ UNCHANGED <<fresh, seen>>
     \/ Rest(w)
  /\ UNCHANGED <<plan, journal, next, offer, refreshes, asks, skipped, over>>

\* Only a receipt whose effects verify completes the round.
Tracked(w) ==
  /\ pc[w] = "track"
  /\ \/ /\ asks[Here(w).sent].fate = "ok"
        /\ Go(w, "verified", mine[w])
        /\ UNCHANGED <<fresh, seen>>
     \/ Rest(w)
  /\ UNCHANGED <<plan, journal, next, offer, refreshes, asks, skipped, over>>

\* Mutant: the round's journal goes before the plan is saved.
Checkpoint_ClearsFirst(w) ==
  /\ pc[w] = "verified"
  /\ SetHere(w, NoJournal)
  /\ \/ Saves(NextRound(w)) /\ Go(w, "saved", mine[w]) /\ UNCHANGED <<fresh, seen>>
     \/ SaveFails(w, NextRound(w))
  /\ UNCHANGED <<next, offer, refreshes, asks, skipped, over>>

\* checkpoint, called by the lower runner before it clears its journal.
Checkpoint(w) ==
  /\ pc[w] = "verified"
  /\ \/ Saves(NextRound(w)) /\ Go(w, "saved", mine[w]) /\ UNCHANGED <<fresh, seen>>
     \/ SaveFails(w, NextRound(w))
  /\ UNCHANGED <<journal, next, offer, refreshes, asks, skipped, over>>

\* The round's journal goes, or its removal fails, and the loop goes on.
EndRound(w) ==
  /\ pc[w] = "saved"
  /\ SetHere(w, NoJournal) \/ (StorageMayFail /\ UNCHANGED journal)
  /\ Continue(w, NextRound(w))
  /\ UNCHANGED <<plan, next, offer, refreshes, asks, skipped, over>>

----------------------------------------------------------------------------
(* acknowledgeSavedActionPlan, discardUnsubmittedActionPlan and the        *)
(* retirement of an expired quote.                                         *)

\* The page has shown the result.  No lock is taken: whatever plan is saved now is
\* removed if it is complete.
Acknowledge(w) ==
  /\ pc[w] = "completed"
  /\ pc' = [pc EXCEPT ![w] = "idle"]
  /\ \/ /\ plan # NoPlan /\ plan.round = Rounds
        /\ plan' = NoPlan
        /\ over' = over \cup {plan.id}
     \/ UNCHANGED <<plan, over>>
  /\ UNCHANGED <<journal, lock, next, mine, fresh, seen, offer, refreshes, asks, skipped>>

\* Under the plan's lock: the plan is the one that was refused and nothing of it is
\* checkpointed, and its round has no Relayr record and had none.
StartDiscard(w) ==
  /\ pc[w] = "idle"
  /\ lock = None
  /\ offer[w] # NoOffer
  /\ plan.id = offer[w].id /\ plan.round = 0
  /\ ~offer[w].seen
  /\ journal[plan.id][offer[w].round].kind # "relayr"
  /\ Go(w, "discard", plan)
  /\ UNCHANGED <<plan, journal, next, fresh, seen, offer, refreshes, asks, skipped, over>>

\* Its direct journal must be clear too.
ClearDiscard(w) ==
  LET j == journal[mine[w].id][offer[w].round]
  IN /\ pc[w] = "discard"
     /\ \/ /\ Clearable(j, offer[w].calls)
           /\ SetJournal(mine[w].id, offer[w].round, Cleared(j))
           /\ Go(w, "drop", mine[w])
           /\ UNCHANGED <<fresh, seen, offer>>
        \/ /\ ~Clearable(j, offer[w].calls) \/ StorageMayFail
           /\ Rest(w)
           /\ offer' = [offer EXCEPT ![w] = NoOffer]
           /\ UNCHANGED journal
     /\ UNCHANGED <<plan, next, refreshes, asks, skipped, over>>

EndDiscard(w) ==
  /\ pc[w] = "drop"
  /\ plan' = NoPlan \/ (StorageMayFail /\ plan' = plan)
  /\ offer' = [offer EXCEPT ![w] = NoOffer]
  /\ Rest(w)
  /\ UNCHANGED <<journal, next, refreshes, asks, skipped, over>>

\* retireExpiredUnpaidRelayrSession takes the payment lock, not the plan's.
Retire(p, r) ==
  /\ journal[p][r].kind = "relayr" /\ journal[p][r].sent = Unsent
  /\ SetJournal(p, r, NoJournal)
  /\ UNCHANGED <<plan, lock, next, pc, mine, fresh, seen, offer, refreshes, asks, skipped, over>>

----------------------------------------------------------------------------
(* The window, the wallet and the chain.                                   *)

\* A reload or a crash: the run, its lock and the offer are gone, the prompt is not.
Reload(w) ==
  /\ pc[w] # "idle" \/ offer[w] # NoOffer
  /\ Rest(w)
  /\ offer' = [offer EXCEPT ![w] = NoOffer]
  /\ asks' = [n \in Asks |-> IF asks[n].to = w THEN [asks[n] EXCEPT !.to = None] ELSE asks[n]]
  /\ UNCHANGED <<plan, journal, next, refreshes, skipped, over>>

Become(n, from, to) ==
  /\ asks[n].fate = from
  /\ asks' = [asks EXCEPT ![n].fate = to]
  /\ UNCHANGED <<plan, journal, lock, next, pc, mine, fresh, seen, offer, refreshes, skipped, over>>

Approve(n) == Become(n, "open", "sent")
Refuse(n) == Become(n, "open", "refused")
Include(n) == \E to \in {"ok", "odd", "reverted"} : Become(n, "sent", to)

----------------------------------------------------------------------------
WindowStep(w) ==
  \/ Start(w) \/ Prepared(w) \/ BeginRound(w) \/ Replace(w) \/ Keep(w) \/ Skip(w) \/ GiveUp(w)
  \/ Refused(w) \/ Quote(w) \/ Mark(w) \/ Recheck(w) \/ Ask(w) \/ NotInvoked(w) \/ Rejected(w)
  \/ Unsure(w) \/ Answered(w) \/ Tracked(w) \/ Checkpoint(w) \/ EndRound(w) \/ Acknowledge(w)
  \/ StartDiscard(w) \/ ClearDiscard(w) \/ EndDiscard(w) \/ Reload(w)

Next ==
  \/ \E w \in Windows : WindowStep(w)
  \/ \E p \in Plans, r \in Round : Retire(p, r)
  \/ \E n \in Asks : Approve(n) \/ Refuse(n) \/ Include(n)

Spec == Init /\ [][Next]_vars

----------------------------------------------------------------------------
(* Properties.                                                             *)

\* What was sent, or may be once its prompt is approved, in a plan not acknowledged.
Live(n) == asks[n].fate \in {"open", "sent", "ok", "odd"} /\ asks[n].id \notin over

\* Every live send is accounted for by the saved plan, with the calls the plan has for
\* its round: a round behind nextRound was sent and verified, and a send of the current
\* round is in that round's journal.  No crash between checkpoint and cleanup, discard,
\* refresh, failed save or late acknowledgement loses one ("A receipt checkpoint is
\* written before the lower-level Relayr/direct journal can clear", action-plan.js 1-2;
\* "Anything uncertain keeps the plan for recovery", 55-58).
SendRecorded ==
  \A n \in Asks : Live(n) =>
    /\ plan.id = asks[n].id
    /\ plan.calls[asks[n].round] = asks[n].calls
    /\ \/ asks[n].round < plan.round /\ asks[n].fate = "ok"
       \/ /\ asks[n].round = plan.round
          /\ journal[plan.id][plan.round].sent \in {Sending, n}

\* A round is sent at most once, and never beside the round of another plan for the
\* same action: not when the action is opened again after a reload, refused, refreshed,
\* discarded and prepared anew.
RoundOnce ==
  \A m, n \in Asks :
    Live(m) /\ Live(n) /\ m # n => asks[m].id = asks[n].id /\ asks[m].round # asks[n].round

\* A round counts as completed only when its calls were confirmed with their effects
\* verified, or were found resolved with nothing sent: an acknowledged plan did all it
\* was prepared for.
RoundsDone ==
  \A r \in Round : r < plan.round =>
    \/ <<plan.id, r>> \in skipped
    \/ \E n \in Asks : asks[n].id = plan.id /\ asks[n].round = r /\ asks[n].fate = "ok"

\* The journal of each round is a SendJournal, for as long as the plan is at that round.
RoundMark(p, r) ==
  LET j == journal[p][r]
  IN IF j.sent = Unsent
     THEN [of |-> -1, stage |-> "clear"]
     ELSE [of |-> j.calls, stage |-> IF j.sent = Sending THEN "sending" ELSE "sent"]

LiveAt(p, r, n) ==
  Live(n) /\ plan.id = p /\ plan.round = r /\ asks[n].id = p /\ asks[n].round = r

RoundPrompt(p, r, n) ==
  IF asks[n].id = p /\ asks[n].round = r
  THEN [of |-> asks[n].calls, stage |-> IF LiveAt(p, r, n) THEN "live" ELSE "over"]
  ELSE [of |-> -1, stage |-> "new"]

RoundOf(p, r) == INSTANCE SendJournal WITH
  Works <- Calls, NoWork <- -1,
  mark <- RoundMark(p, r),
  prompt <- [n \in Asks |-> RoundPrompt(p, r, n)],
  closed <- {}

\* A plan takes of the journal of each round what RelayrSession and DirectBatch keep of
\* theirs: refreshes, discards, checkpoints and failed saves ask for a round only under
\* its mark with none of its prompts live, and lose a mark only when nothing that was
\* asked for the round counts while the plan is at it (action-plan.js 1-2 and 55-99).
\* A step that leaves the variables of the mapping alone is none of the journal's.
RoundsAreSendJournals ==
  /\ \A p \in Plans, r \in Round : RoundOf(p, r)!JournalInit
  /\ [][ \/ UNCHANGED <<plan, journal, asks, over>>
         \/ \A p \in Plans, r \in Round : RoundOf(p, r)!JournalStep ]_vars
=============================================================================
