------------------------------ MODULE SafeBatch ------------------------------
(***************************************************************************)
(* The batch of owner steps: the trays of src/safe-batch.js (one per       *)
(* chain, in localStorage), the review dialog and its two routes in        *)
(* src/safe-batch-ui.js, and what runRelayrAcrossChains of discover.js     *)
(* makes of a batch sent by a wallet.                                      *)
(*                                                                         *)
(* One page with one dialog; the trays and the saved requests are shared   *)
(* with the other pages of the site.  An action ends at an await.  Steps   *)
(* are those with a dependency, the hook and its pools; the others queue   *)
(* the same way.                                                           *)
(***************************************************************************)
EXTENDS Naturals, Sequences, SequencesExt, FiniteSets

CONSTANTS
  TrayChains,   \* the chains of the project
  Pools,        \* the tokens a pool may have, in the order they are read
  MaxChanges,   \* bound: how often a user changes the trays
  MaxSends      \* bound: how many sends are under way, and how many are saved

ASSUME SafeBatchAssumption ==
  /\ TrayChains \subseteq Nat /\ Pools \in Seq({Pools[i] : i \in DOMAIN Pools})
  /\ MaxChanges \in Nat /\ MaxSends \in Nat

VARIABLES
  tray,      \* the steps queued on each chain
  changes,   \* how often a user changed them
  mirror,    \* a copy to the other chains under way: the steps it read, the chains left
  dlg,       \* the dialog: the steps it shows, and the route that was found
  sends,     \* sends of a wallet under way: what the page counts, and what was submitted
  saved,     \* the Relayr sessions and direct journals, by scope
  outcome    \* the last "Sent n transactions.": were the n calls sent?

batchVars == <<tray, changes, mirror, dlg, sends, saved, outcome>>

Tokens == {Pools[i] : i \in DOMAIN Pools}
Hook == [kind |-> "setHookFor", token |-> "none"]
PoolOf(t) == [kind |-> "setPoolFor", token |-> t]
Steps == {Hook} \cup {PoolOf(t) : t \in Tokens}
HasHook(s) == \E i \in DOMAIN s : s[i].kind = "setHookFor"

\* The storage key of a send: relayrActionScope with the chains as the dialog listed them.
Scopes == [first : TrayChains, rest : SUBSET TrayChains]
NoDialog == [at |-> "none", chain |-> 0, steps |-> <<>>, route |-> "none", others |-> {}]
NoMirror == [from |-> 0, steps |-> <<>>, left |-> {}]

BatchTypeOK ==
  /\ tray \in [TrayChains -> Seq(Steps)] /\ changes \in 0 .. MaxChanges
  /\ mirror.steps \in Seq(Steps) /\ mirror.left \subseteq TrayChains
  /\ dlg.at \in {"none", "checking", "open", "proposing", "account"}
  /\ dlg.steps \in Seq(Steps) /\ dlg.route \in {"none", "safe", "eoa"} /\ dlg.others \subseteq TrayChains
  /\ \A x \in saved \cup sends : x.scope \in Scopes /\ x.by \in {"relayr", "direct"}

BatchInit ==
  /\ tray = [c \in TrayChains |-> <<>>] /\ changes = 0
  /\ mirror = NoMirror /\ dlg = NoDialog
  /\ sends = {} /\ saved = {} /\ outcome = "none"

----------------------------------------------------------------------------
(* The steps.                                                              *)

\* Mutant: a step whose key is there is added once more.
Upsert_Appends(s, x) == Append(s, x)

\* A step is named by its kind and its target, which pools of two tokens share: what is
\* there is replaced in place.
Upsert(s, x) ==
  IF \E i \in DOMAIN s : s[i].kind = x.kind
  THEN [i \in DOMAIN s |-> IF s[i].kind = x.kind THEN x ELSE s[i]]
  ELSE Append(s, x)

UpsertAll(s, xs) ==
  LET upserted[i \in 0 .. Len(xs)] == IF i = 0 THEN s ELSE Upsert(upserted[i - 1], xs[i])
  IN  upserted[Len(xs)]

\* The elements of s that are in S, in their order.
Only(s, S) ==
  LET only[i \in 0 .. Len(s)] ==
        IF i = 0 THEN <<>> ELSE IF s[i] \in S THEN Append(only[i - 1], s[i]) ELSE only[i - 1]
  IN  only[Len(s)]

\* checkBatchOrder: a pool with a hook selection in the batch has one before it.
Ordered(s) ==
  HasHook(s) => \A i \in DOMAIN s : s[i].kind = "setPoolFor" => HasHook(SubSeq(s, 1, i - 1))

\* Mutant: the dependency is not looked at.
WithDependency_Keeps(source, out) == out

\* The end of mirrorBatch: a pool does not go without the hook its source batch selected.
WithDependency(source, out) ==
  IF HasHook(source) /\ ~HasHook(out)
  THEN Only(out, {x \in Steps : x.kind # "setPoolFor"}) ELSE out

\* A mirrored step whose values resolve on the target: a hook that is allowed there, a
\* pool of the same token that the preset would carry there.
Resolves(s, allowed, carried) == IF s = Hook THEN allowed ELSE s.token \in carried

----------------------------------------------------------------------------
(* The trays, from any page.                                               *)

Altered(t) ==
  /\ changes < MaxChanges /\ changes' = changes + 1
  /\ tray' = t

\* "Add to batch" of the power modal, on the chains selected.
AddToBatch ==
  \E C \in SUBSET TrayChains \ {{}}, x \in Steps :
    /\ Altered([c \in TrayChains |-> IF c \in C THEN Upsert(tray[c], x) ELSE tray[c]])
    /\ UNCHANGED <<mirror, dlg, sends, saved, outcome>>

\* The preset, on the chains ticked: the hook where it is not set yet, and the pools that are
\* carried from the old one; an invalid window stops at its chain.
PresetSteps(carried) ==
  LET pools == Only(Pools, carried)
  IN <<Hook>> \o [i \in DOMAIN pools |-> PoolOf(pools[i])]

AddPreset ==
  \E C \in SUBSET TrayChains \ {{}}, carried \in [TrayChains -> SUBSET Tokens] :
    /\ Altered([c \in TrayChains |-> IF c \in C THEN UpsertAll(tray[c], PresetSteps(carried[c])) ELSE tray[c]])
    /\ UNCHANGED <<mirror, dlg, sends, saved, outcome>>

\* "Clear all", and "Remove from the batch" for one chain whose proposal was found.
ClearTray ==
  \E C \in SUBSET TrayChains :
    /\ \E c \in C : tray[c] # <<>>
    /\ Altered([c \in TrayChains |-> IF c \in C THEN <<>> ELSE tray[c]])
    /\ UNCHANGED <<mirror, dlg, sends, saved, outcome>>

\* mirrorAcrossChains reads its source once, and then each target after that chain's reads.
MirrorStart ==
  \E c \in TrayChains :
    /\ mirror = NoMirror /\ tray[c] # <<>>
    /\ Altered(tray)
    /\ mirror' = [from |-> c, steps |-> tray[c], left |-> TrayChains \ {c}]
    /\ UNCHANGED <<dlg, sends, saved, outcome>>

Mirrored ==
  \E to \in mirror.left, allowed \in BOOLEAN, carried \in SUBSET Tokens :
    LET out == Only(mirror.steps, {x \in Steps : Resolves(x, allowed, carried)}) IN
    /\ tray' = [tray EXCEPT ![to] = UpsertAll(@, WithDependency(mirror.steps, out))]
    /\ mirror' = IF mirror.left = {to} THEN NoMirror ELSE [mirror EXCEPT !.left = @ \ {to}]
    /\ UNCHANGED <<changes, dlg, sends, saved, outcome>>

----------------------------------------------------------------------------
(* The dialog.                                                             *)

OpenBatch ==
  \E c \in TrayChains :
    /\ dlg = NoDialog /\ tray[c] # <<>>
    /\ dlg' = [NoDialog EXCEPT !.at = "checking", !.chain = c, !.steps = tray[c]]
    /\ outcome' = "none"
    /\ UNCHANGED <<tray, changes, mirror, sends, saved>>

\* resolveBatchRoute answered; a wallet's batch goes with those of the other chains.
BatchRouted ==
  /\ dlg.at = "checking"
  /\ \E route \in {"none", "safe", "eoa"} :
       dlg' = [dlg EXCEPT !.at = "open", !.route = route,
                 !.others = IF route = "eoa" THEN {c \in TrayChains : c # dlg.chain /\ tray[c] # <<>>} ELSE {}]
  /\ UNCHANGED <<tray, changes, mirror, sends, saved, outcome>>

\* Every edit in the dialog writes the steps it shows over the tray, unless storage refuses
\* it without a word.
EditBatch ==
  /\ dlg.at = "open"
  /\ \E s \in {RemoveAt(dlg.steps, i) : i \in DOMAIN dlg.steps}
              \cup {[dlg.steps EXCEPT ![i] = dlg.steps[i + 1], ![i + 1] = dlg.steps[i]] :
                      i \in 1 .. Len(dlg.steps) - 1} :
       /\ Altered([tray EXCEPT ![dlg.chain] = s]) \/ UNCHANGED <<tray, changes>>
       /\ dlg' = [dlg EXCEPT !.steps = s]
  /\ UNCHANGED <<mirror, sends, saved, outcome>>

\* Mutant: the primary only waits for a route.
ConfirmBatch_Unordered ==
  /\ dlg.at = "open" /\ dlg.route # "none"
  /\ dlg' = [dlg EXCEPT !.at = IF dlg.route = "safe" THEN "proposing" ELSE "account"]
  /\ UNCHANGED <<tray, changes, mirror, sends, saved, outcome>>

ConfirmBatch ==
  /\ dlg.at = "open" /\ dlg.route # "none"
  /\ dlg.steps # <<>> /\ Ordered(dlg.steps)
  /\ dlg' = [dlg EXCEPT !.at = IF dlg.route = "safe" THEN "proposing" ELSE "account"]
  /\ UNCHANGED <<tray, changes, mirror, sends, saved, outcome>>

\* The Safe has the batch: the tray is cleared, as it is by now.
Proposed ==
  /\ dlg.at = "proposing"
  /\ tray' = [tray EXCEPT ![dlg.chain] = <<>>]
  /\ dlg' = NoDialog
  /\ UNCHANGED <<changes, mirror, sends, saved, outcome>>

\* Cancelled, refused, unreadable or out of order: the tray stays.
BatchFails ==
  /\ dlg.at # "none" /\ dlg' = NoDialog
  /\ UNCHANGED <<tray, changes, mirror, sends, saved, outcome>>

----------------------------------------------------------------------------
(* A wallet's batch.                                                       *)

ChainsOf(scope) == {scope.first} \cup scope.rest
BatchScope == [first |-> dlg.chain, rest |-> dlg.others]

\* The trays of the scope, as they are by now.
BatchCalls == [c \in TrayChains |-> IF c \in ChainsOf(BatchScope) THEN tray[c] ELSE <<>>]
SavedFor(scope, by) == {s \in saved : s.scope = scope /\ s.by = by}

\* Mutant: the trays that were reviewed are taken to be those of now.
Gathered_Trusts == dlg.at = "account" /\ Cardinality(sends) < MaxSends

\* sendBatchDirect, with the account: the trays are read again and their order checked.
Gathered ==
  /\ dlg.at = "account" /\ Cardinality(sends) < MaxSends
  /\ \A c \in TrayChains : Ordered(BatchCalls[c])

\* A send starts: what the page counts, and what was submitted.
Submitting(by, did) ==
  /\ sends' = sends \cup {[scope |-> BatchScope, by |-> by, said |-> BatchCalls, did |-> did]}
  /\ dlg' = NoDialog
  /\ UNCHANGED <<tray, changes, mirror, outcome>>

\* A Relayr session saved for the scope is resumed, whatever the calls are now.
ResumeBatch ==
  /\ Gathered /\ SavedFor(BatchScope, "direct") = {}
  /\ \E s \in SavedFor(BatchScope, "relayr") : Submitting("relayr", s.calls)
  /\ UNCHANGED saved

\* A new bundle, for two chains or more.  Two calls of one chain sign the same nonce of the
\* forwarder, and the reservation refuses the bundle.
PublishBatch ==
  /\ Gathered /\ dlg.others # {} /\ Cardinality(saved) < MaxSends
  /\ SavedFor(BatchScope, "relayr") \cup SavedFor(BatchScope, "direct") = {}
  /\ \A c \in TrayChains : Len(BatchCalls[c]) <= 1
  /\ \E c \in TrayChains : BatchCalls[c] # <<>>
  /\ saved' = saved \cup {[scope |-> BatchScope, by |-> "relayr", calls |-> BatchCalls]}
  /\ Submitting("relayr", BatchCalls)

\* Direct sends, where Relayr or the forwarder of a target does not serve, or a journal of
\* the same calls is there.
SendBatchDirect ==
  /\ Gathered /\ SavedFor(BatchScope, "relayr") = {}
  /\ \A s \in SavedFor(BatchScope, "direct") : s.calls = BatchCalls
  /\ SavedFor(BatchScope, "direct") = {} => Cardinality(saved) < MaxSends
  /\ saved' = saved \cup {[scope |-> BatchScope, by |-> "direct", calls |-> BatchCalls]}
  /\ Submitting("direct", BatchCalls)

\* The receipts are in: the record is done with, the trays of the scope are cleared, and
\* the page says how many transactions it sent.
BatchSent ==
  \E x \in sends :
    /\ saved' = saved \ SavedFor(x.scope, x.by)
    /\ tray' = [c \in TrayChains |-> IF c \in ChainsOf(x.scope) THEN <<>> ELSE tray[c]]
    /\ outcome' = IF x.said = x.did THEN "sent" ELSE "unsent"
    /\ sends' = sends \ {x}
    /\ UNCHANGED <<changes, mirror, dlg>>

\* A refusal, a receipt that is late, a Relayr that does not answer: the record stays.
BatchSendFails ==
  \E x \in sends :
    /\ sends' = sends \ {x}
    /\ UNCHANGED <<tray, changes, mirror, dlg, saved, outcome>>

\* A Relayr session is ended elsewhere: by the page of the account, or a user's hand.
ForgetSession ==
  \E s \in saved :
    /\ s.by = "relayr" /\ saved' = saved \ {s}
    /\ UNCHANGED <<tray, changes, mirror, dlg, sends, outcome>>

BatchReload ==
  /\ mirror' = NoMirror /\ dlg' = NoDialog /\ sends' = {} /\ outcome' = "none"
  /\ UNCHANGED <<tray, changes, saved>>

----------------------------------------------------------------------------
BatchNext ==
  \/ AddToBatch \/ AddPreset \/ ClearTray \/ MirrorStart \/ Mirrored
  \/ OpenBatch \/ BatchRouted \/ EditBatch \/ ConfirmBatch \/ Proposed \/ BatchFails
  \/ ResumeBatch \/ PublishBatch \/ SendBatchDirect \/ BatchSent \/ BatchSendFails
  \/ ForgetSession \/ BatchReload

BatchSpec == BatchInit /\ [][BatchNext]_batchVars

----------------------------------------------------------------------------
(* Properties.                                                             *)

PoolsOf(s) == {s[i] : i \in {j \in DOMAIN s : s[j].kind = "setPoolFor"}}

\* Executed in its order, the list registers no pool on a hook it then replaces.
KeepsItsPools(s) ==
  \A i, j \in DOMAIN s : s[i].kind = "setHookFor" /\ s[j].kind = "setPoolFor" => i < j

\* What is proposed or sent registers its pools on the hook it selects, though trays are
\* edited, mirrored and read again in the meantime; and a mirror brings no pool from a batch
\* with a hook to a chain that does not get one ("Operator presets and mirrored batches must
\* validate ... hook/pool dependency order", RISKS.md 7; safe-batch.js:201-211).
HookBeforePool ==
  [][ /\ dlg'.at = "proposing" => KeepsItsPools(dlg'.steps)
      /\ \A x \in sends', c \in TrayChains : KeepsItsPools(x.did[c])
      /\ mirror' # mirror /\ HasHook(mirror.steps)
           => \A c \in TrayChains : PoolsOf(tray'[c]) \subseteq PoolsOf(tray[c]) \/ HasHook(tray'[c]) ]_batchVars

\* "Sent n transactions." (safe-batch-ui.js:352) counts the calls that were sent.
SaidSentWasSent == outcome # "unsent"
=============================================================================
