------------------------------ MODULE SafePlan ------------------------------
(***************************************************************************)
(* A saved action whose calls go through a Safe: the Safe side of          *)
(* runSavedActionPlan (src/action-plan.js), the review that                *)
(* proposeSafeAcrossChains opens for it (src/discover.js) and the requests *)
(* of src/safe.js, for one plan of one round with one call per chain.      *)
(*                                                                         *)
(* A chain is hosted (signatures are posted to the Safe service) or not    *)
(* (owners approve the hash in a transaction).  A request is named by its  *)
(* Safe nonce: the call and every other field are fixed, so the nonce is   *)
(* the hash.  Web Locks let one window run the plan at a time, so one run  *)
(* is modelled; ReloadReview ends it anywhere.  safeProgress.attempt is    *)
(* not kept: it is set and cleared together with safePending, or names a   *)
(* proposal that is known.  A chain without its Safe (which stops the      *)
(* round), the one-chain Safe app and a row handed to another owner's      *)
(* wallet are left out.                                                    *)
(*                                                                         *)
(* Co-owners queue the same call too, at any time and any nonce: the       *)
(* review reads a hosted queue when it opens, when it is clicked, at the   *)
(* row and again after the signature, and it is the last of these reads    *)
(* that a request rests on.  The earlier ones only save a signature.       *)
(***************************************************************************)
EXTENDS Integers, FiniteSets

CONSTANTS
  SafeChains,   \* the chains of the round, in the order of the review
  Hosted,       \* those with a Safe service
  MaxSafeNonce, \* bound: the last Safe nonce
  MaxTheirs,    \* bound: the requests for the call that co-owners make
  SaveMayFail   \* may a write of the plan fail?

ASSUME SafePlanAssumption ==
  /\ SafeChains \subseteq Nat
  /\ IsFiniteSet(SafeChains)
  /\ Hosted \subseteq SafeChains
  /\ MaxSafeNonce \in Nat
  /\ MaxTheirs \in Nat
  /\ SaveMayFail \in BOOLEAN

VARIABLES
  saved,        \* the plan in localStorage
  held,         \* the plan object of the run
  at,           \* where the run stands
  review,       \* the open review: its rows, and the request of the row at hand
  asked,        \* outside: this browser's requests, except those the wallet refused
  live,         \* outside: those of them that arrived at the service or the Safe
  theirs,       \* outside: the requests for the call that co-owners made
  safeNonce,    \* outside: each Safe's nonce
  ran,          \* outside: the requests that executed
  gone,         \* outside: the chains where something else did what the call was for
  late,         \* those of theirs that a hosted queue got after its last read (a history variable)
  retried,      \* was a review used again with a request left unrecorded? (a history variable)
  acknowledged  \* has the user acknowledged the plan? (a history variable)

safeVars == <<saved, held, at, review, live, asked, theirs, late, safeNonce, ran, gone, retried,
              acknowledged>>
outside == <<theirs, late, safeNonce, ran, gone, acknowledged>>

Nonces == 0 .. MaxSafeNonce
NoNonce == -1

NoSafePlan == [phase |-> "none", pending |-> FALSE, known |-> [c \in SafeChains |-> NoNonce],
               executed |-> {}, obsolete |-> {}]
SafePlans == [phase : {"none", "round", "done"}, pending : BOOLEAN,
              known : [SafeChains -> Nonces \cup {NoNonce}],
              executed : SUBSET SafeChains, obsolete : SUBSET SafeChains]

\* The requests for the call that Safe owners can see.
Seen(c) == live[c] \cup theirs[c]

\* What the review read of a Safe: its nonce, and the calls like this one in its queue.
Visible(c) == {n \in Seen(c) : n >= safeNonce[c]}
Read(c) == [nonce |-> safeNonce[c], queue |-> IF c \in Hosted THEN Visible(c) ELSE {}]

\* todo: rows left in this click; pick, req: the request of the first of them
\* ("again": the browser had asked for the same hash before); tried: rows that asked.
Unread == [nonce |-> 0, queue |-> {}]
Shut == [todo |-> {}, pick |-> 0, req |-> "none", full |-> FALSE, tried |-> {},
         mark |-> [c \in SafeChains |-> "out"],
         view |-> [c \in SafeChains |-> Unread]]

Steps == {"idle", "prepare", "review", "row", "sign", "publish", "posted", "ripe",
          "executing", "stuck"}

SafeTypeOK ==
  /\ saved \in SafePlans
  /\ held \in SafePlans
  /\ at \in Steps
  /\ review \in [todo : SUBSET SafeChains, pick : Nonces, full : BOOLEAN,
                 tried : SUBSET SafeChains, req : {"none", "open", "again", "landed"},
                 mark : [SafeChains -> {"out", "new", "noted", "done"}],
                 view : [SafeChains -> [nonce : 0 .. MaxSafeNonce + 1, queue : SUBSET Nonces]]]
  /\ live \in [SafeChains -> SUBSET Nonces]
  /\ theirs \in [SafeChains -> SUBSET Nonces]
  /\ late \in [SafeChains -> SUBSET Nonces]
  /\ asked \in [SafeChains -> SUBSET Nonces]
  /\ safeNonce \in [SafeChains -> 0 .. MaxSafeNonce + 1]
  /\ ran \in [SafeChains -> SUBSET Nonces]
  /\ gone \subseteq SafeChains
  /\ retried \in BOOLEAN
  /\ acknowledged \in BOOLEAN

SafeInit ==
  /\ saved = NoSafePlan
  /\ held = NoSafePlan
  /\ at = "idle"
  /\ review = Shut
  /\ live = [c \in SafeChains |-> {}]
  /\ asked = [c \in SafeChains |-> {}]
  /\ theirs = [c \in SafeChains |-> {}]
  /\ late = [c \in SafeChains |-> {}]
  /\ safeNonce = [c \in SafeChains |-> 0]
  /\ ran = [c \in SafeChains |-> {}]
  /\ gone = {}
  /\ retried = FALSE
  /\ acknowledged = FALSE

----------------------------------------------------------------------------
(* The run.                                                                *)

End == at' = "idle" /\ held' = NoSafePlan /\ review' = Shut

\* The review stays open for another click.
Back == at' = "review" /\ review' = [review EXCEPT !.todo = {}, !.pick = 0, !.req = "none"]

\* save throws when it cannot read the plan back, whether or not it was written.
SaveThrows(p) == SaveMayFail /\ saved' \in {saved, p}

\* saveSafeProgress: the plan in memory is changed first, so it stays changed.
Saving(p, then) ==
  /\ held' = p
  /\ \/ saved' = p /\ then
     \/ SaveThrows(p) /\ Back

Row == CHOOSE c \in review.todo : \A d \in review.todo : c <= d

\* The click goes on to its next row, with the result so far if the row got any further; at
\* the last it leaves a full result or a partial one.  What was read of a row that has its
\* proposal is not looked at again.
Onward(mark) ==
  LET left == review.todo \ {Row}
  IN /\ at' = IF left = {} THEN "review" ELSE "row"
     /\ review' = [review EXCEPT !.todo = left, !.pick = 0, !.req = "none",
                                 !.mark[Row] = mark,
                                 !.view[Row] = IF mark = "new" THEN @ ELSE Unread,
                                 !.full = IF left = {}
                                          THEN mark # "new" /\ \A c \in SafeChains \ {Row} :
                                                                 review.mark[c] # "new"
                                          ELSE review.full /\ mark = review.mark[Row]]

\* The calls that have no known proposal yet are reviewed.
Open(p) ==
  /\ at' = "review"
  /\ held' = p
  /\ review' = [Shut EXCEPT
       !.mark = [c \in SafeChains |-> IF p.known[c] = NoNonce THEN "new" ELSE "out"],
       !.view = [c \in SafeChains |-> IF p.known[c] = NoNonce THEN Read(c) ELSE Unread]]

\* With no plan saved one is prepared; the calls are saved before anything else.
Prepare ==
  /\ at = "idle" /\ saved = NoSafePlan /\ ~acknowledged
  /\ at' = "prepare"
  /\ UNCHANGED <<saved, held, review, live, asked, retried, outside>>

SavePrepared ==
  LET p == [NoSafePlan EXCEPT !.phase = "round"]
  IN /\ at = "prepare"
     /\ \/ saved' = p /\ Open(p)
        \/ SaveThrows(p) /\ End
     /\ UNCHANGED <<live, asked, retried, outside>>

\* A saved plan with safePending set is not resumed: runSavedActionPlan throws.
ResumeRound ==
  /\ at = "idle" /\ saved.phase = "round" /\ ~saved.pending
  /\ \E c \in SafeChains : saved.known[c] = NoNonce
  /\ Open(saved)
  /\ UNCHANGED <<saved, live, asked, retried, outside>>

\* Mutant: a Safe nonce that moved past a proposal counts as its execution.
Reconciled_NonceMoved(p) ==
  LET seen == p.executed \cup {c \in SafeChains : p.known[c] < safeNonce[c]}
  IN IF p.executed = SafeChains THEN p
     ELSE [p EXCEPT !.executed = seen, !.obsolete = gone \ seen]

\* reconcileSelectedSafeResult: a proposal is executed when its own execution is found
\* (findSavedSafeExecution), and obsolete when what it was for is gone.
Reconciled(p) ==
  LET seen == p.executed \cup {c \in SafeChains : p.known[c] \in ran[c]}
  IN IF p.executed = SafeChains THEN p
     ELSE [p EXCEPT !.executed = seen, !.obsolete = gone \ seen]

\* Every call has its proposal: what became of them is looked up and saved.
Reconcile ==
  LET p == [Reconciled(saved) EXCEPT !.phase = "done"]
  IN /\ at = "idle" /\ saved.phase # "none" /\ ~saved.pending
     /\ \A c \in SafeChains : saved.known[c] # NoNonce
     /\ saved' = p \/ SaveThrows(p)
     /\ UNCHANGED <<held, at, review, live, asked, retried, outside>>

\* acknowledgeSavedActionPlan, when the user is done with the result.
AcknowledgeSafe ==
  /\ at = "idle" /\ saved.phase = "done" /\ ~saved.pending
  /\ saved.executed \cup saved.obsolete = SafeChains
  /\ saved' = NoSafePlan /\ acknowledged' = TRUE
  /\ UNCHANGED <<held, at, review, live, asked, theirs, late, safeNonce, ran, gone, retried>>

\* discardUnsubmittedActionPlan, offered beside a saved round that no longer verifies.
Discard ==
  /\ at = "idle" /\ saved.phase = "round" /\ ~saved.pending
  /\ \A c \in SafeChains : saved.known[c] = NoNonce
  /\ saved' = NoSafePlan
  /\ UNCHANGED <<held, at, review, live, asked, retried, outside>>

----------------------------------------------------------------------------
(* The review: one click does the signer's part on every row.              *)

Same(c) == review.view[c] = Read(c)

\* A row of this review asked for something and was left without recording it.
Unclear == \E c \in review.tried : review.mark[c] = "new" /\ asked[c] # {}

\* Every row is checked before the first signature: a hosted queue must be as it was
\* shown, the others are read again.
Click ==
  LET rows == {c \in SafeChains : review.mark[c] \in {"new", "noted"}}
  IN /\ at = "review" /\ rows # {}
     /\ \A c \in rows \cap Hosted : Same(c)
     /\ at' = "row"
     /\ review' = [review EXCEPT !.todo = rows,
          !.view = [c \in SafeChains |-> IF c \in rows \ Hosted THEN Read(c) ELSE @[c]]]
     /\ retried' = (retried \/ Unclear)
     /\ UNCHANGED <<saved, held, live, asked, outside>>

\* The nonce of a row: that of a known proposal or of the same call in the queue, else
\* what the user entered.
Choices(c) ==
  LET queue == review.view[c].queue
  IN IF review.mark[c] = "noted" THEN {held.known[c]}
     ELSE IF queue # {} THEN {CHOOSE n \in queue : \A m \in queue : n <= m}
     ELSE {n \in Nonces : n >= review.view[c].nonce}

\* The owner has signed or approved this very request already.
Signed(c, n) == n \in live[c]

StartRow ==
  /\ at = "row"
  /\ \E n \in Choices(Row) :
       /\ IF Row \in Hosted THEN Same(Row) ELSE n >= safeNonce[Row]
       /\ IF Signed(Row, n)
          THEN /\ review' = [review EXCEPT !.pick = n, !.req = "landed"]
               /\ at' = IF review.mark[Row] = "noted" THEN "ripe" ELSE "posted"
          ELSE /\ review' = [review EXCEPT !.pick = n]
               /\ at' = IF Row \in Hosted THEN "sign" ELSE "publish"
  /\ UNCHANGED <<saved, held, live, asked, retried, outside>>

\* The nonce was used since the check: the row is left for a later click.
StaleRow ==
  /\ at = "row" /\ Row \notin Hosted
  /\ \E n \in Choices(Row) : n < safeNonce[Row]
  /\ Onward(review.mark[Row])
  /\ UNCHANGED <<saved, held, live, asked, retried, outside>>

\* Mutant: the signature goes to the post without another read of the queue.
SignRow_Unread ==
  /\ at = "sign"
  /\ at' = "publish"
  /\ UNCHANGED <<saved, held, review, live, asked, retried, outside>>

\* The wallet signed; the queue is read once more (the reverify of proposeSafeTx), which
\* shows whatever co-owners had queued until then.
SignRow ==
  /\ at = "sign" /\ Same(Row)
  /\ at' = "publish"
  /\ late' = [late EXCEPT ![Row] = {}]
  /\ UNCHANGED <<saved, held, review, live, asked, theirs, safeNonce, ran, gone, retried,
                 acknowledged>>

\* beforeSafe: is the request one the plan knows?
Marked(p, c, n) == [p EXCEPT !.pending = p.known[c] # n]

\* Mutant: the plan is marked after the request.
Publish_Unmarked ==
  /\ at = "publish"
  /\ at' = "posted"
  /\ review' = [review EXCEPT !.tried = @ \cup {Row},
       !.req = IF review.pick \in asked[Row] THEN "again" ELSE "open"]
  /\ asked' = [asked EXCEPT ![Row] = @ \cup {review.pick}]
  /\ UNCHANGED <<saved, held, live, retried, outside>>

\* The plan is marked, and at once the signature is posted (the beforeSend of safeFetch)
\* or the wallet asked for the approval (sendAndConfirm).
Publish ==
  LET p == Marked(held, Row, review.pick)
  IN /\ at = "publish"
     /\ held' = p
     /\ \/ /\ saved' = p
           /\ at' = "posted"
           /\ review' = [review EXCEPT !.tried = @ \cup {Row},
                !.req = IF review.pick \in asked[Row] THEN "again" ELSE "open"]
           /\ asked' = [asked EXCEPT ![Row] = @ \cup {review.pick}]
        \/ SaveThrows(p) /\ Back /\ UNCHANGED asked
     /\ UNCHANGED <<live, retried, outside>>

\* Mutant: a second proposal for a chain replaces the first.
Record_Twice ==
  LET p == [held EXCEPT !.known[Row] = review.pick, !.pending = FALSE]
  IN /\ at = "posted" /\ review.req = "landed"
     /\ Saving(p, IF Row \in Hosted THEN Onward("done")
                  ELSE /\ at' = "ripe"
                       /\ review' = [review EXCEPT !.mark[Row] = "noted"])
     /\ UNCHANGED <<live, asked, retried, outside>>

\* The service took it, or the approval is mined and can be read: recordSafeProposal,
\* which refuses a second proposal for a chain.
Record ==
  LET p == [held EXCEPT !.known[Row] = review.pick, !.pending = FALSE]
  IN /\ at = "posted" /\ review.req = "landed" /\ held.known[Row] = NoNonce
     /\ Saving(p, IF Row \in Hosted THEN Onward("done")
                  ELSE /\ at' = "ripe"
                       /\ review' = [review EXCEPT !.mark[Row] = "noted"])
     /\ UNCHANGED <<live, asked, retried, outside>>

\* Mutant: a row that waits leaves the click in a step nothing continues from.
NotRipe_Stranded ==
  /\ at = "ripe"
  /\ at' = "waiting"
  /\ UNCHANGED <<saved, held, review, live, asked, retried, outside>>

\* An approved request that lacks other owners or is not next in line waits.
NotRipe ==
  /\ at = "ripe"
  /\ Onward("noted")
  /\ UNCHANGED <<saved, held, live, asked, retried, outside>>

\* One with enough approvals at the Safe's nonce is executed; the plan knows its hash.
Execute ==
  /\ at = "ripe" /\ review.pick = safeNonce[Row]
  /\ Saving(Marked(held, Row, review.pick), at' = "executing" /\ UNCHANGED review)
  /\ UNCHANGED <<live, asked, retried, outside>>

\* The execution is mined with its own success event: recordSafeExecuted.
Executed ==
  /\ at = "executing" /\ review.pick \in ran[Row]
  /\ Saving([held EXCEPT !.executed = @ \cup {Row}, !.pending = FALSE], Onward("done"))
  /\ UNCHANGED <<live, asked, retried, outside>>

\* The wallet refused: safeRequestNotSubmitted, and safeCancelled clears the mark.  When
\* that save throws, the click's own error handler has thrown and the review is stuck.
WalletRefused ==
  LET p == [held EXCEPT !.pending = FALSE]
  IN /\ \/ at \in {"sign", "executing"} /\ UNCHANGED asked
        \/ /\ at = "posted" /\ Row \notin Hosted /\ review.req \in {"open", "again"}
           /\ asked' = IF review.req = "again" THEN asked
                       ELSE [asked EXCEPT ![Row] = @ \ {review.pick}]
     /\ held' = p
     /\ \/ saved' = p /\ Back
        \/ SaveThrows(p) /\ at' = "stuck" /\ UNCHANGED review
     /\ UNCHANGED <<live, retried, outside>>

\* A check fails, an answer never comes or is an error: whatever was sent may be on its way.
Fail ==
  /\ at \in {"row", "sign", "publish", "posted", "ripe", "executing"}
  /\ Back
  /\ UNCHANGED <<saved, held, live, asked, retried, outside>>

\* "Execute" of hosted requests with enough signatures, by executeReadySafeTransactions.
ExecuteReady ==
  LET ready == {c \in Hosted : held.known[c] \in ran[c]}
  IN /\ at = "review" /\ review.full
     /\ held' = [held EXCEPT !.executed = @ \cup ready]
     /\ UNCHANGED <<saved, at, review, live, asked, retried, outside>>

\* The review closes.  A full result is checkpointed when every call has its proposal.
Close ==
  LET p == [held EXCEPT !.phase = "done", !.pending = FALSE]
  IN /\ at = "review"
     /\ End
     /\ IF review.full /\ \A c \in SafeChains : held.known[c] # NoNonce
        THEN saved' = p \/ SaveThrows(p)
        ELSE UNCHANGED saved
     /\ UNCHANGED <<live, asked, retried, outside>>

\* The page goes, or the preparation is given up.
ReloadReview ==
  /\ at # "idle"
  /\ End
  /\ UNCHANGED <<saved, live, asked, retried, outside>>

----------------------------------------------------------------------------
(* The Safes, their owners and the service.                                *)

\* A request of this browser arrives, however late; a lost one never does.
Land ==
  \E c \in SafeChains, n \in Nonces :
    LET mine == /\ at = "posted" /\ Row = c /\ review.pick = n
                /\ review.req \in {"open", "again"}
    IN /\ n \in asked[c]
       /\ n \notin live[c] \/ mine
       /\ live' = [live EXCEPT ![c] = @ \cup {n}]
       /\ review' = IF mine THEN [review EXCEPT !.req = "landed"] ELSE review
       /\ UNCHANGED <<saved, held, at, asked, retried, outside>>

\* A co-owner queues the same call with the service, or approves it onchain, at a nonce of
\* their own: also while the review is open, and between its last read and the post.
OwnersQueue ==
  \E c \in SafeChains, n \in Nonces :
    /\ n >= safeNonce[c] /\ n \notin theirs[c]
    /\ \A d \in SafeChains : Cardinality(theirs[d]) < MaxTheirs
    /\ theirs' = [theirs EXCEPT ![c] = @ \cup {n}]
    /\ late' = IF c \in Hosted /\ (asked[c] # {} \/ (at = "publish" /\ Row = c))
               THEN [late EXCEPT ![c] = @ \cup {n}] ELSE late
    /\ UNCHANGED <<saved, held, at, review, live, asked, safeNonce, ran, gone, retried,
                   acknowledged>>

\* Enough owners signed the request at the Safe's nonce, and someone executes it.
OwnersExecute ==
  \E c \in SafeChains \ gone :
    /\ safeNonce[c] \in Seen(c)
    /\ ran' = [ran EXCEPT ![c] = @ \cup {safeNonce[c]}]
    /\ safeNonce' = [safeNonce EXCEPT ![c] = @ + 1]
    /\ UNCHANGED <<saved, held, at, review, live, asked, theirs, late, gone, retried,
                   acknowledged>>

\* Another transaction uses the Safe's nonce.
OtherCall ==
  \E c \in SafeChains :
    /\ safeNonce[c] < MaxSafeNonce
    /\ safeNonce' = [safeNonce EXCEPT ![c] = @ + 1]
    /\ UNCHANGED <<saved, held, at, review, live, asked, theirs, late, ran, gone, retried,
                   acknowledged>>

\* Someone else did what the call was for (verifyObsoleteSafeCall).
Consume ==
  \E c \in SafeChains \ gone :
    /\ ran[c] = {}
    /\ gone' = gone \cup {c}
    /\ UNCHANGED <<saved, held, at, review, live, asked, theirs, late, safeNonce, ran, retried,
                   acknowledged>>

SafeRun ==
  \/ Prepare \/ SavePrepared \/ ResumeRound \/ Reconcile \/ AcknowledgeSafe \/ Discard
  \/ Click \/ StartRow \/ StaleRow \/ SignRow \/ Publish \/ Record \/ NotRipe
  \/ Execute \/ Executed \/ WalletRefused \/ Fail \/ ExecuteReady \/ Close \/ ReloadReview
SafeWorld == Land \/ OwnersQueue \/ OwnersExecute \/ OtherCall \/ Consume
SafeNext == SafeRun \/ SafeWorld
SafeSpec == SafeInit /\ [][SafeNext]_safeVars

----------------------------------------------------------------------------
(* Properties.                                                             *)

Recorded(c, n) == acknowledged \/ saved.pending \/ saved.known[c] = n

\* Whatever this browser sent to a Safe and was not refused by the wallet is in the saved
\* plan, as a known proposal or as a mark that stops the plan, until the user acknowledges
\* the result: through crashes before recordSafeProposal, failed saves and discards
\* (src/action-plan.js:56-58).  It holds for reviews that are closed once a request of
\* theirs was left unrecorded, and not clicked again.
Accounted == ~retried => \A c \in SafeChains : \A n \in asked[c] : Recorded(c, n)

\* The same without that exemption: "Unknown wallet or Safe publication remains blocked for
\* inspection" (src/RISKS.md:13).
UnknownStaysBlocked == \A c \in SafeChains : \A n \in asked[c] : Recorded(c, n)

\* At most one request of this browser for a call can still be executed on a chain.  On a
\* hosted chain it is not put beside one that a co-owner queued at another nonce, unless that
\* came after the last read of the queue or the request is one that co-owners made too: that
\* window between the reverify of proposeSafeTx and its post is all that is left.  Without a
\* service there is no queue to read, and another nonce "starts a separate tx"
\* (src/discover.js:13234).
QueuedOnce ==
  ~retried => \A c \in SafeChains : \A n \in asked[c] : n >= safeNonce[c] =>
    /\ \A m \in asked[c] : m >= safeNonce[c] => m = n
    /\ c \in Hosted => \A m \in theirs[c] :
         m >= safeNonce[c] /\ m # n => m \in late[c] \/ n \in theirs[c]

\* What the plan calls executed did execute, as the very request it knows; an acknowledged
\* plan has no call left that was neither executed nor made obsolete
\* (reconcileSelectedSafeResult: "a nonce advance alone never proves this call").
ExecutedTrue ==
  /\ \A c \in saved.executed : saved.known[c] \in ran[c]
  /\ acknowledged => \A c \in SafeChains : ran[c] # {} \/ c \in gone

\* A known proposal is never replaced or dropped while the plan is kept, and the plan goes
\* only by acknowledgement once it has one, also when a failed save is saved over.
KnownKept ==
  [][\A c \in SafeChains : saved.known[c] # NoNonce =>
       saved'.known[c] = saved.known[c] \/ (acknowledged' /\ ~acknowledged)]_safeVars

=============================================================================
