--------------------------- MODULE RelayrSession ---------------------------
(***************************************************************************)
(* The journal of one Relayr request: the pending session of src/relayr.js *)
(* (save, load, clear, restore, retire), relayrPostBundle and relayrPay    *)
(* around it, and the flows of src/discover.js that drive it               *)
(* (runRelayrAcrossChains, fundRelayrQuotedSession, monitorRelayrSession). *)
(*                                                                         *)
(* One scope of one account (one storage key) is one action to run on      *)
(* several chains.  It is signed and posted to Relayr as a bundle, quoted, *)
(* paid once, and polled until every destination is verified.  A window is *)
(* a single-threaded event loop that may run several flows; an action of   *)
(* this module is one run of it from one await to the next.                *)
(***************************************************************************)
EXTENDS Integers

CONSTANTS
  Windows,         \* the browser windows open on the site
  Flows,           \* the runs of the feature, each in a window
  None,            \* no flow
  MaxBundles,      \* bound: how many bundles are ever posted
  MaxAsks,         \* bound: how many payment prompts are ever opened
  Worlds           \* the surroundings it may run in
(* A world is a record of four facts that do not change:                   *)
(*   window      the window of each flow                                   *)
(*   scheduled   the bundles that carry a scheduleValidUntil               *)
(*   locks       does the browser have Web Locks?                          *)
(*   fails       may storage be full or unavailable?                       *)

ASSUME RelayrSessionAssumption ==
  /\ None \notin Flows
  /\ MaxBundles \in Nat \ {0}
  /\ MaxAsks \in Nat \ {0}
  /\ Worlds \subseteq [window : [Flows -> Windows], scheduled : SUBSET (1 .. MaxBundles),
                       locks : BOOLEAN, fails : BOOLEAN]

VARIABLES
  world,     \* the surroundings: one of Worlds, for good
  disk,      \* the session in localStorage
  mem,       \* RELAYR_UNSAVED_SESSIONS of each window: a session that could not be saved
  quote,     \* RELAYR_KNOWN_QUOTES of each window: the bundle whose quote it can fund
  pubLock,   \* who holds the publication lock
  payLock,   \* who holds the account's payment lock
  next,      \* the next bundle
  pc,        \* where each flow stands
  ses,       \* the session object each flow holds
  asks,      \* outside: the payment prompts, and who still waits for the answer
  done,      \* outside: the bundles executed on every destination
  expired,   \* outside: the bundles whose schedule has passed unpaid
  dropped    \* the bundles a user cleared or retired (a history variable)

vars == <<world, disk, mem, quote, pubLock, payLock, next, pc, ses, asks, done, expired, dropped>>

WindowOf == world.window
Scheduled == world.scheduled
HasLocks == world.locks
StorageMayFail == world.fails

Bundles == 1 .. MaxBundles
Asks == 1 .. MaxAsks

\* relayrPaymentStage.
Publication == -1   \* posted, no answer yet
Quoted == 0
Sending == 1        \* the wallet was or is about to be asked
Paid == 2           \* the payment hash is known

\* No record ranks below every stage.
NoRec == [id |-> 0, stage |-> -1]
Records == {NoRec} \cup [id : Bundles, stage : Publication .. Paid]

\* The publication record of a bundle has a uuid of its own.
SameBundle(r, s) == r.id = s.id /\ (r.stage = Publication <=> s.stage = Publication)

PCs == {"idle", "sign", "reserve", "post", "fund", "modal", "send", "called", "prompt",
        "hash", "track", "unsure", "poll", "wait", "failed", "retire"}

\* What storage does for one turn of a window: work, refuse writes, refuse everything.
Storage == IF StorageMayFail THEN {"ok", "full", "off"} ELSE {"ok"}

NoAsk == [of |-> 0, fate |-> "none", to |-> None]
Fates == {"none", "open", "refused", "sent"}

TypeOK ==
  /\ world \in Worlds
  /\ disk \in Records
  /\ mem \in [Windows -> Records]
  /\ quote \in [Windows -> 0 .. MaxBundles]
  /\ pubLock \in Flows \cup {None}
  /\ payLock \in Flows \cup {None}
  /\ next \in 1 .. MaxBundles + 1
  /\ pc \in [Flows -> PCs]
  /\ ses \in [Flows -> Records]
  /\ asks \in [Asks -> [of : 0 .. MaxBundles, fate : Fates, to : Flows \cup {None}]]
  /\ done \subseteq Bundles
  /\ expired \subseteq Bundles
  /\ dropped \subseteq Bundles

Init ==
  /\ world \in Worlds
  /\ disk = NoRec
  /\ mem = [w \in Windows |-> NoRec]
  /\ quote = [w \in Windows |-> 0]
  /\ pubLock = None
  /\ payLock = None
  /\ next = 1
  /\ pc = [f \in Flows |-> "idle"]
  /\ ses = [f \in Flows |-> NoRec]
  /\ asks = [n \in Asks |-> NoAsk]
  /\ done = {}
  /\ expired = {}
  /\ dropped = {}

Go(f, to, s) ==
  /\ pc' = [pc EXCEPT ![f] = to]
  /\ ses' = [ses EXCEPT ![f] = s]

Rest(f) == Go(f, "idle", NoRec)

\* With no Web Locks a payment runs on without one, and so does a publication unless it has
\* forwarded requests; those throw before they are posted (relayrPostBundle).
Free(lock) == HasLocks => lock = None
Locked(f) == IF HasLocks THEN f ELSE None

----------------------------------------------------------------------------
(* The journal.                                                            *)

Seen(st) == IF st = "off" THEN NoRec ELSE disk

\* relayrStoredValue: a readable record of another bundle, or of a later stage,
\* overrides the copy in memory.
MemWins(w, st) ==
  /\ mem[w] # NoRec
  /\ \/ Seen(st) = NoRec
     \/ SameBundle(Seen(st), mem[w]) /\ Seen(st).stage <= mem[w].stage

Stored(w, st) == IF MemWins(w, st) THEN mem[w] ELSE Seen(st)
MemRead(w, st) == [mem EXCEPT ![w] = IF MemWins(w, st) THEN @ ELSE NoRec]

\* loadRelayrPendingSession: also forgets a copy in memory that lost.
Load(w, st) == mem' = MemRead(w, st) /\ UNCHANGED disk

Conflicts(w, r, st) == Stored(w, st) # NoRec /\ ~SameBundle(Stored(w, st), r)

\* A pre-send marker that never reached the disk may be taken back.
Rollback(w, r, st) ==
  /\ r.stage = Quoted
  /\ Stored(w, st).stage = Sending
  /\ MemWins(w, st)
  /\ Seen(st) = r

\* Mutant: the last writer wins.
Outranked_Never(w, r, st) == FALSE

Outranked(w, r, st) == Stored(w, st).stage > r.stage /\ ~Rollback(w, r, st)

Write(w, r, st) ==
  IF st = "ok"
  THEN /\ disk' = r
       /\ mem' = [mem EXCEPT ![w] = NoRec]
  ELSE /\ disk' = disk
       /\ mem' = [mem EXCEPT ![w] = r]

\* saveRelayrPendingSession, where it does not throw for a different bundle, and
\* the session it returns.
Save(w, r, st) ==
  /\ ~Conflicts(w, r, st)
  /\ IF Outranked(w, r, st) THEN Load(w, st) ELSE Write(w, r, st)

Saved(w, r, st) == IF Outranked(w, r, st) THEN Stored(w, st) ELSE r

\* clearRelayrPendingSession leaves the record of another bundle alone.
Clear(w, r, st) ==
  IF Conflicts(w, r, st)
  THEN Load(w, st)
  ELSE /\ mem' = [mem EXCEPT ![w] = NoRec]
       /\ disk' = IF st = "off" THEN disk ELSE NoRec

\* restoreUnsentRelayrPayment: only a pre-send marker of this bundle goes back.
Restore(w, r, st) ==
  IF Stored(w, st) = [id |-> r.id, stage |-> Sending]
  THEN Write(w, [id |-> r.id, stage |-> Quoted], st)
  ELSE Load(w, st)

----------------------------------------------------------------------------
(* fundRelayrQuotedSession up to the funding chooser, and the start of     *)
(* monitorRelayrSession, as other actions call them.                       *)

Unpaid(w, b, st) == Stored(w, st) = [id |-> b, stage |-> Quoted]

\* A stale funding modal is refused; so is a quote that cannot be saved.
Fund(f, b, st) ==
  LET w == WindowOf[f]
      q == [id |-> b, stage |-> Quoted]
  IN \/ /\ Unpaid(w, b, st) /\ b \notin expired
        /\ Write(w, q, st)
        /\ IF st = "ok" THEN Go(f, "modal", q) ELSE Rest(f)
     \/ /\ ~Unpaid(w, b, st) \/ b \in expired
        /\ Load(w, st)
        /\ Rest(f)

Refreshed(w, r, st) == IF SameBundle(Stored(w, st), r) THEN Stored(w, st) ELSE r

\* A stale copy is refreshed before it is written back.  A publication or a quote
\* has nothing to poll; an expired quote is left for retirement.
Monitor(f, s, st) ==
  LET w == WindowOf[f]
      r == Refreshed(w, s, st)
  IN \/ /\ Conflicts(w, r, st) \/ (r.stage = Quoted /\ r.id \in expired)
        /\ Load(w, st)
        /\ Rest(f)
     \/ /\ ~(r.stage = Quoted /\ r.id \in expired)
        /\ Save(w, r, st)
        /\ IF r.stage > Quoted THEN Go(f, "poll", Saved(w, r, st)) ELSE Rest(f)

----------------------------------------------------------------------------
(* runRelayrAcrossChains.                                                  *)

\* A saved request is resumed or checked; with none the calls are reviewed and signed.
Run(f) ==
  LET w == WindowOf[f]
  IN \E st \in Storage :
       LET s == Stored(w, st)
       IN /\ pc[f] = "idle"
          /\ \/ /\ s = NoRec
                /\ Load(w, st)
                /\ Go(f, "sign", NoRec)
             \/ /\ s # NoRec /\ s.stage = Quoted /\ quote[w] = s.id
                /\ Fund(f, s.id, st)
             \/ /\ s # NoRec /\ ~(s.stage = Quoted /\ quote[w] = s.id)
                /\ Monitor(f, s, st)
          /\ UNCHANGED <<quote, pubLock, payLock, next, asks, done, expired, dropped>>

\* A review is cancelled, or a check before the write fails.
GiveUp(f) ==
  /\ pc[f] \in {"sign", "reserve", "modal", "send"}
  /\ Rest(f)
  /\ pubLock' = IF pubLock = f THEN None ELSE pubLock
  /\ payLock' = IF payLock = f THEN None ELSE payLock
  /\ UNCHANGED <<disk, mem, quote, next, asks, done, expired, dropped>>

\* relayrPostBundle: a request saved meanwhile refuses a new bundle.
CheckNew(f) ==
  LET w == WindowOf[f]
  IN \E st \in Storage :
       /\ pc[f] = "sign"
       /\ Free(pubLock)
       /\ Load(w, st)
       /\ IF Stored(w, st) = NoRec
          THEN Go(f, "reserve", NoRec) /\ pubLock' = Locked(f)
          ELSE Rest(f) /\ UNCHANGED pubLock
       /\ UNCHANGED <<quote, payLock, next, asks, done, expired, dropped>>

\* The publication is saved before it is posted; a save that conflicts or fails
\* posts nothing.
Publish(f) ==
  LET w == WindowOf[f]
      p == [id |-> next, stage |-> Publication]
  IN \E st \in Storage :
       /\ pc[f] = "reserve"
       /\ next \in Bundles
       /\ \/ /\ ~Conflicts(w, p, st) /\ st = "ok"
             /\ Write(w, p, st)
             /\ Go(f, "post", p)
             /\ next' = next + 1
             /\ UNCHANGED pubLock
          \/ /\ ~Conflicts(w, p, st) /\ st # "ok"
             /\ mem' = [mem EXCEPT ![w] = NoRec]
             /\ Rest(f)
             /\ pubLock' = None
             /\ UNCHANGED <<disk, next>>
          \/ /\ Conflicts(w, p, st)
             /\ Load(w, st)
             /\ Rest(f)
             /\ pubLock' = None
             /\ UNCHANGED next
       /\ UNCHANGED <<quote, payLock, asks, done, expired, dropped>>

\* The answer to the POST was lost or unusable: Relayr may have the bundle.
PostLost(f) ==
  /\ pc[f] = "post"
  /\ Rest(f)
  /\ pubLock' = None
  /\ UNCHANGED <<disk, mem, quote, payLock, next, asks, done, expired, dropped>>

\* The publication record makes room for the quote, which stays in this window.
PostAnswered(f) ==
  LET w == WindowOf[f]
      p == ses[f]
      q == [p EXCEPT !.stage = Quoted]
  IN \E st \in Storage :
       /\ pc[f] = "post"
       /\ IF Conflicts(w, p, st)
          THEN /\ Load(w, st)
               /\ Rest(f)
               /\ UNCHANGED quote
          ELSE /\ quote' = [quote EXCEPT ![w] = p.id]
               /\ IF st = "ok"
                  THEN Write(w, q, st) /\ Go(f, "fund", q)
                  ELSE /\ disk' = IF st = "off" THEN disk ELSE NoRec
                       /\ mem' = [mem EXCEPT ![w] = q]
                       /\ Rest(f)
       /\ pubLock' = None
       /\ UNCHANGED <<payLock, next, asks, done, expired, dropped>>

OpenFunding(f) ==
  \E st \in Storage :
    /\ pc[f] = "fund"
    /\ Fund(f, ses[f].id, st)
    /\ UNCHANGED <<quote, pubLock, payLock, next, asks, done, expired, dropped>>

----------------------------------------------------------------------------
(* relayrPay, with the callbacks fundRelayrQuotedSession gives it.         *)

TakePayLock(f) ==
  /\ pc[f] = "modal"
  /\ Free(payLock)
  /\ Go(f, "send", ses[f])
  /\ payLock' = Locked(f)
  /\ UNCHANGED <<disk, mem, quote, pubLock, next, asks, done, expired, dropped>>

\* Mutant: the wallet is asked although the marker could not be saved.
MarkFailed_Ignored(f, w, q, st) ==
  /\ Write(w, [q EXCEPT !.stage = Sending], st)
  /\ Go(f, "called", [q EXCEPT !.stage = Sending])
  /\ UNCHANGED payLock

\* The marker did not reach the disk: it is taken back, where the disk still shows
\* the quote, and nothing is sent.
MarkFailed(f, w, q, st) ==
  /\ disk' = disk
  /\ mem' = [mem EXCEPT ![w] = IF Seen(st) = q THEN q ELSE [q EXCEPT !.stage = Sending]]
  /\ Rest(f)
  /\ payLock' = None

\* requireUnpaidRelayrSession, then assertScheduleFresh.
StillUnpaid(w, q, st) == Unpaid(w, q.id, st) /\ q.id \notin expired

\* onSending: the marker is on disk before the wallet is asked.
MarkSending(f) ==
  LET w == WindowOf[f]
      q == ses[f]
  IN \E st \in Storage :
       /\ pc[f] = "send"
       /\ \/ /\ StillUnpaid(w, q, st) /\ st = "ok"
             /\ Write(w, [q EXCEPT !.stage = Sending], st)
             /\ Go(f, "called", [q EXCEPT !.stage = Sending])
             /\ UNCHANGED payLock
          \/ /\ StillUnpaid(w, q, st) /\ st # "ok"
             /\ MarkFailed(f, w, q, st)
          \/ /\ ~StillUnpaid(w, q, st)
             /\ Load(w, st)
             /\ Rest(f)
             /\ payLock' = None
       /\ UNCHANGED <<quote, pubLock, next, asks, done, expired, dropped>>

\* invokeWallet calls the wallet: its prompt opens.
Ask(f) ==
  /\ pc[f] = "called"
  /\ ses[f].id \notin expired
  /\ \E n \in Asks :
       /\ asks[n] = NoAsk
       /\ \A m \in 1 .. n - 1 : asks[m] # NoAsk
       /\ asks' = [asks EXCEPT ![n] = [of |-> ses[f].id, fate |-> "open", to |-> f]]
  /\ Go(f, "prompt", ses[f])
  /\ UNCHANGED <<disk, mem, quote, pubLock, payLock, next, done, expired, dropped>>

\* The answer n of the wallet reaches the flow that asked.
Hears(f, n) ==
  /\ pc[f] = "prompt"
  /\ asks[n].to = f
  /\ asks' = [asks EXCEPT ![n].to = None]

\* onUnsent, still under the lock.
TakeBack(f) ==
  \E st \in Storage :
    /\ Restore(WindowOf[f], ses[f], st)
    /\ Rest(f)
    /\ payLock' = None
    /\ UNCHANGED <<quote, pubLock, next, done, expired, dropped>>

\* invokeWallet gave up before it called the wallet.
NotInvoked(f) ==
  /\ pc[f] = "called"
  /\ UNCHANGED asks
  /\ TakeBack(f)

Rejected(f) ==
  \E n \in Asks :
    /\ asks[n].fate = "refused"
    /\ Hears(f, n)
    /\ TakeBack(f)

\* Mutant: any wallet error is taken for a rejection.
Unsure_Restored(f) == \E n \in Asks : Hears(f, n) /\ TakeBack(f)

\* Any other wallet error: the payment may have been sent.
Unsure(f) ==
  \E n \in Asks :
    /\ Hears(f, n)
    /\ Go(f, "unsure", ses[f])
    /\ payLock' = None
    /\ UNCHANGED <<disk, mem, quote, pubLock, next, done, expired, dropped>>

\* The hash comes back, and the lock is given back before it is saved.
Answered(f) ==
  \E n \in Asks :
    /\ asks[n].fate = "sent"
    /\ Hears(f, n)
    /\ Go(f, "hash", [ses[f] EXCEPT !.stage = Paid])
    /\ payLock' = None
    /\ UNCHANGED <<disk, mem, quote, pubLock, next, done, expired, dropped>>

\* onSubmitted: a save that throws is swallowed.
SaveHash(f) ==
  LET w == WindowOf[f]
  IN \E st \in Storage :
       /\ pc[f] = "hash"
       /\ Save(w, ses[f], st) \/ (Conflicts(w, ses[f], st) /\ Load(w, st))
       /\ Go(f, "track", ses[f])
       /\ UNCHANGED <<quote, pubLock, payLock, next, asks, done, expired, dropped>>

\* A payment that reverted onchain ends the flow; its record stays.
Reverted(f) ==
  /\ pc[f] = "track"
  /\ Rest(f)
  /\ UNCHANGED <<disk, mem, quote, pubLock, payLock, next, asks, done, expired, dropped>>

StartMonitor(f) ==
  \E st \in Storage :
    /\ pc[f] \in {"track", "unsure"}
    /\ Monitor(f, ses[f], st)
    /\ UNCHANGED <<quote, pubLock, payLock, next, asks, done, expired, dropped>>

----------------------------------------------------------------------------
(* monitorRelayrSession.                                                   *)

\* Every report is saved.  One that conflicts is only retried.
Tick(f) ==
  LET w == WindowOf[f]
  IN \E st \in Storage :
       /\ pc[f] = "poll"
       /\ \/ Save(w, ses[f], st) /\ Go(f, "poll", Saved(w, ses[f], st))
          \/ Conflicts(w, ses[f], st) /\ Load(w, st) /\ UNCHANGED <<pc, ses>>
       /\ UNCHANGED <<quote, pubLock, payLock, next, asks, done, expired, dropped>>

\* A timeout or an unclear report waits for the user to check again; a failure
\* report, or a record that cannot be saved, offers to clear the receipt.
PollEnds(f) ==
  LET w == WindowOf[f]
  IN \E st \in Storage :
       /\ pc[f] = "poll"
       /\ \/ Save(w, ses[f], st) /\ Go(f, "wait", Saved(w, ses[f], st))
          \/ Save(w, ses[f], st) /\ Go(f, "failed", Saved(w, ses[f], st))
          \/ Conflicts(w, ses[f], st) /\ Load(w, st) /\ Go(f, "failed", ses[f])
       /\ UNCHANGED <<quote, pubLock, payLock, next, asks, done, expired, dropped>>

\* Mutant: Relayr's word is taken for the destination receipts.
Verified_ByReport(f) ==
  \E st \in Storage :
    /\ pc[f] = "poll"
    /\ Clear(WindowOf[f], ses[f], st)
    /\ Rest(f)
    /\ UNCHANGED <<quote, pubLock, payLock, next, asks, done, expired, dropped>>

\* Every destination was verified onchain.
Verified(f) ==
  \E st \in Storage :
    /\ pc[f] = "poll"
    /\ ses[f].id \in done
    /\ Clear(WindowOf[f], ses[f], st)
    /\ Rest(f)
    /\ UNCHANGED <<quote, pubLock, payLock, next, asks, done, expired, dropped>>

\* "Check Relayr status" refreshes first; what turns out unpaid has nothing to poll.
Check(f) ==
  LET w == WindowOf[f]
  IN \E st \in Storage :
       LET r == Refreshed(w, ses[f], st)
       IN /\ pc[f] = "wait"
          /\ \/ r.stage > Quoted /\ Load(w, st) /\ Go(f, "poll", r)
             \/ r.stage = Quoted /\ Save(w, r, st) /\ Rest(f)
          /\ UNCHANGED <<quote, pubLock, payLock, next, asks, done, expired, dropped>>

\* "Clear saved receipt", confirmed by the user.
ClearReceipt(f) ==
  \E st \in Storage :
    /\ pc[f] = "failed"
    /\ Clear(WindowOf[f], ses[f], st)
    /\ dropped' = dropped \cup {ses[f].id}
    /\ Rest(f)
    /\ UNCHANGED <<quote, pubLock, payLock, next, asks, done, expired>>

\* Mutant: the closed panel leaves the flow in a state no later step continues from.
Leave_Stranded(f) ==
  /\ pc[f] \in {"wait", "failed"}
  /\ Go(f, "closed", ses[f])
  /\ UNCHANGED <<disk, mem, quote, pubLock, payLock, next, asks, done, expired, dropped>>

\* The user closes the panel.
Leave(f) ==
  /\ pc[f] \in {"wait", "failed"}
  /\ Rest(f)
  /\ UNCHANGED <<disk, mem, quote, pubLock, payLock, next, asks, done, expired, dropped>>

----------------------------------------------------------------------------
(* retireExpiredUnpaidRelayrSession.                                       *)

\* It needs the payment lock, and a quote whose schedule has passed.
StartRetire(f) ==
  LET w == WindowOf[f]
  IN \E st \in Storage :
       /\ pc[f] = "idle"
       /\ HasLocks /\ payLock = None
       /\ Stored(w, st).stage = Quoted /\ Stored(w, st).id \in expired
       /\ Load(w, st)
       /\ Go(f, "retire", Stored(w, st))
       /\ payLock' = f
       /\ UNCHANGED <<quote, pubLock, next, asks, done, expired, dropped>>

\* After the chain reads the saved session is read again, archived and cleared.
EndRetire(f) ==
  LET w == WindowOf[f]
  IN \E st \in Storage :
       /\ pc[f] = "retire"
       /\ \/ /\ Unpaid(w, ses[f].id, st) /\ st = "ok"
             /\ Clear(w, ses[f], st)
             /\ dropped' = dropped \cup {ses[f].id}
          \/ Load(w, st) /\ UNCHANGED dropped
       /\ Rest(f)
       /\ payLock' = None
       /\ UNCHANGED <<quote, pubLock, next, asks, done, expired>>

----------------------------------------------------------------------------
(* The window, the wallet, Relayr and the clock.                           *)

\* A reload or a crash: the window's memory, flows and locks are gone, its wallet
\* prompts are not.
Reload(w) ==
  LET mine == {f \in Flows : WindowOf[f] = w}
  IN /\ mem[w] # NoRec \/ quote[w] # 0 \/ \E f \in mine : pc[f] # "idle"
     /\ mem' = [mem EXCEPT ![w] = NoRec]
     /\ quote' = [quote EXCEPT ![w] = 0]
     /\ pc' = [f \in Flows |-> IF f \in mine THEN "idle" ELSE pc[f]]
     /\ ses' = [f \in Flows |-> IF f \in mine THEN NoRec ELSE ses[f]]
     /\ pubLock' = IF pubLock \in mine THEN None ELSE pubLock
     /\ payLock' = IF payLock \in mine THEN None ELSE payLock
     /\ asks' = [n \in Asks |-> IF asks[n].to \in mine THEN [asks[n] EXCEPT !.to = None]
                                                      ELSE asks[n]]
     /\ UNCHANGED <<disk, next, done, expired, dropped>>

\* The user answers a payment prompt.
Answer(n) ==
  /\ asks[n].fate = "open"
  /\ \E fate \in {"refused", "sent"} : asks' = [asks EXCEPT ![n].fate = fate]
  /\ UNCHANGED <<disk, mem, quote, pubLock, payLock, next, pc, ses, done, expired, dropped>>

\* Relayr executes a paid bundle on every destination.
Execute(b) ==
  /\ b \notin done
  /\ \E n \in Asks : asks[n].of = b /\ asks[n].fate = "sent"
  /\ done' = done \cup {b}
  /\ UNCHANGED <<disk, mem, quote, pubLock, payLock, next, pc, ses, asks, expired, dropped>>

\* The schedule of a posted bundle passes.
Expire(b) ==
  /\ b \in Scheduled /\ b < next /\ b \notin expired
  /\ expired' = expired \cup {b}
  /\ UNCHANGED <<disk, mem, quote, pubLock, payLock, next, pc, ses, asks, done, dropped>>

----------------------------------------------------------------------------
FlowStep(f) ==
  \/ Run(f) \/ GiveUp(f) \/ CheckNew(f) \/ Publish(f) \/ PostLost(f) \/ PostAnswered(f)
  \/ OpenFunding(f) \/ TakePayLock(f) \/ MarkSending(f) \/ Ask(f) \/ NotInvoked(f)
  \/ Rejected(f) \/ Unsure(f) \/ Answered(f) \/ SaveHash(f) \/ Reverted(f)
  \/ StartMonitor(f) \/ Tick(f) \/ PollEnds(f) \/ Verified(f) \/ Check(f)
  \/ ClearReceipt(f) \/ Leave(f) \/ StartRetire(f) \/ EndRetire(f)

Next ==
  /\ \/ \E f \in Flows : FlowStep(f)
     \/ \E w \in Windows : Reload(w)
     \/ \E n \in Asks : Answer(n)
     \/ \E b \in Bundles : Execute(b) \/ Expire(b)
  /\ UNCHANGED world

Spec == Init /\ [][Next]_vars

----------------------------------------------------------------------------
(* Properties.                                                             *)

Closed(b) == b \in done \cup dropped
Live(n) == asks[n].fate \in {"open", "sent"} /\ ~Closed(asks[n].of)

\* While a payment of a bundle may be or become onchain, and the bundle is neither
\* verified complete nor cleared by a user, the record on disk names that bundle
\* with the wallet asked.  No reload, failed save, stale copy, clear of another
\* bundle or unclear wallet error loses it (relayr.js 840-930, 1052-1068).
PaymentJournaled ==
  \A n \in Asks :
    Live(n) => disk.id = asks[n].of /\ disk.stage >= Sending

\* An action is never paid twice: not from two flows or windows, not after a reload
\* or an unclear wallet error, not for the same and not for another bundle.
AtMostOneLivePayment ==
  \A m, n \in Asks : Live(m) /\ Live(n) => m = n

\* A payment hash on disk is final: no stale copy takes it back, and it goes only
\* with a bundle that is verified complete or cleared by a user.
HashStays ==
  [][ disk.stage = Paid =>
        disk' = disk \/ (disk' = NoRec /\ disk.id \in done' \cup dropped') ]_vars

\* While signed requests may be executed, their marker on disk blocks fresh
\* signatures: "After reload the durable marker prevents fresh signatures"
\* (relayr.js 36-37).
SignedRequestsMarked ==
  \A b \in 1 .. next - 1 : ~Closed(b) => disk.id = b

\* The same where storage works, over locks, schedules and reloads.
SignedRequestsMarkedDurably == ~StorageMayFail => SignedRequestsMarked

\* A definite rejection makes the quote payable again until the wallet is asked
\* again: "retries the same quote after a definite wallet rejection without new
\* signatures or publication" (test/relayr-recovery.test.js 160).
RejectionStands ==
  [][ disk.stage = Quoted /\ disk' = [disk EXCEPT !.stage = Sending]
        => \E f \in Flows : pc[f] = "send" /\ pc'[f] = "called" ]_vars

\* A payment is a SendJournal: its mark is that of the record on disk, as long as the
\* bundle is not closed.
PaymentMark ==
  IF disk.stage >= Sending /\ ~Closed(disk.id)
  THEN [of |-> disk.id, stage |-> IF disk.stage = Paid THEN "sent" ELSE "sending"]
  ELSE [of |-> 0, stage |-> "clear"]

PaymentPrompt(n) ==
  [of |-> asks[n].of,
   stage |-> IF asks[n].of = 0 THEN "new" ELSE IF Live(n) THEN "live" ELSE "over"]

Payment == INSTANCE SendJournal WITH
  Works <- Bundles, NoWork <- 0,
  mark <- PaymentMark,
  prompt <- [n \in Asks |-> PaymentPrompt(n)],
  closed <- done \cup dropped

\* However many windows write the one record, from stale copies, without locks and with
\* storage that comes and goes, a payment is asked for only under its mark and with no
\* other one live, a hash is recorded only of a payment that was asked for and is never
\* taken back, and the mark goes only with a rejection or with its bundle (relayr.js
\* 840-930, 1052-1068).  A step that leaves the variables of the mapping alone is none
\* of the journal's.
PaymentIsSendJournal ==
  /\ Payment!JournalInit
  /\ [][ UNCHANGED <<disk, asks, done, dropped>> \/ Payment!JournalStep ]_vars
=============================================================================
