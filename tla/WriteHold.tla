------------------------------ MODULE WriteHold ------------------------------
(***************************************************************************)
(* The write hold: src/write-hold.js, and the code of component-base.js    *)
(* that takes, settles and releases it (executeTransaction, sendHeldWrite, *)
(* heldWriteGate, offerHeldRelease).                                       *)
(*                                                                         *)
(* One action (one account, chain, target and function: one storage key)   *)
(* is tried from several browser windows.  Keys share no state, so one key *)
(* is the whole component.  A window is a single-threaded event loop, so   *)
(* an action of this module is one run of it from one await to the next.   *)
(***************************************************************************)
EXTENDS Naturals

CONSTANTS
  Windows,         \* the browser windows open on the site
  NoWindow,        \* nobody holds the Web Lock
  MaxAttempts,     \* bound: how many attempts are ever reserved
  StorageMayFail,  \* may a storage write, removal or read fail?
  UserKeepsWord    \* is a user truthful who releases an attempt as "not sent"?
                   \* When they click they have approved nothing of it in the
                   \* wallet, and a prompt open then or later they refuse

ASSUME WriteHoldAssumption ==
  /\ NoWindow \notin Windows
  /\ MaxAttempts \in Nat \ {0}
  /\ StorageMayFail \in BOOLEAN
  /\ UserKeepsWord \in BOOLEAN

VARIABLES
  disk,      \* the record in localStorage
  mem,       \* the `memory` map of each window: a hash that could not be saved
  lock,      \* who holds the action's Web Lock
  next,      \* the id of the next attempt (newId never repeats one)
  pc,        \* where each window's executeTransaction stands
  rec,       \* the record that flow works with
  dlg,       \* each window's release dialog
  fate,      \* outside: what became of each attempt at the wallet and onchain
  disowned   \* the attempts a user has declared not sent (a history variable)

vars == <<disk, mem, lock, next, pc, rec, dlg, fate, disowned>>

Attempts == 1 .. MaxAttempts

\* A record is an attempt's id and whether its hash is in it, or no record.
\* A record that does not parse counts as held with no hash, like [id, FALSE].
NoRec == [id |-> 0, sent |-> FALSE]
Records == {NoRec} \cup [id : Attempts, sent : BOOLEAN]

PCs == {"idle", "gate", "gateRelease", "review", "wallet", "prompt",
        "track", "trackRelease"}

Dialogs == [state : {"closed", "open", "queued"}, shown : Records]
Closed == [state |-> "closed", shown |-> NoRec]

\* "none": the wallet was never asked.  "prompt": its prompt is open.
\* "ok": mined with the effects its review named.  "odd": mined, but the
\* receipt lacks them (verifyReceipt fails).  "gone": dropped, or replaced
\* under another hash, so that no node finds it.
Fates == {"none", "prompt", "refused", "pending", "ok", "odd", "reverted", "gone"}
Broadcast == {"pending", "ok", "odd", "reverted", "gone"}
Settled == {"refused", "ok", "reverted"}

TypeOK ==
  /\ disk \in Records
  /\ mem \in [Windows -> Records]
  /\ lock \in Windows \cup {NoWindow}
  /\ next \in 1 .. MaxAttempts + 1
  /\ pc \in [Windows -> PCs]
  /\ rec \in [Windows -> Records]
  /\ dlg \in [Windows -> Dialogs]
  /\ fate \in [Attempts -> Fates]
  /\ disowned \subseteq Attempts

Init ==
  /\ disk = NoRec
  /\ mem = [w \in Windows |-> NoRec]
  /\ lock = NoWindow
  /\ next = 1
  /\ pc = [w \in Windows |-> "idle"]
  /\ rec = [w \in Windows |-> NoRec]
  /\ dlg = [w \in Windows |-> Closed]
  /\ fate = [a \in Attempts |-> "none"]
  /\ disowned = {}

----------------------------------------------------------------------------
(* The hold's own operations.                                              *)

\* Mutant: the copy in memory counts over the record of any attempt.
Kept_AnyAttempt(w) == mem[w] # NoRec /\ disk # NoRec

\* getItem: the copy in memory counts only over the stored record of its attempt.
Kept(w) == mem[w] # NoRec /\ mem[w].id = disk.id
Read(w) == IF Kept(w) THEN mem[w] ELSE disk
MemAfterRead(w) == [mem EXCEPT ![w] = IF Kept(w) THEN @ ELSE NoRec]

\* Mutant: any record in the slot is taken for the expected one.
Mine_AnyRecord(w, expected) == Read(w) # NoRec

\* Mutant: the same attempt, whatever its state.
Mine_SameId(w, expected) == Read(w) # NoRec /\ Read(w).id = expected.id

\* The same attempt in the same state.
Mine(w, expected) == Read(w) # NoRec /\ Read(w) = expected

\* releaseLocked.  A removal that fails is swallowed and leaves the stored record.
Remove(w, expected) ==
  \/ /\ Mine(w, expected)
     /\ mem' = [mem EXCEPT ![w] = NoRec]
     /\ disk' = NoRec \/ (StorageMayFail /\ disk' = disk)
  \/ /\ ~Mine(w, expected)
     /\ mem' = MemAfterRead(w)
     /\ disk' = disk

\* Storage that cannot be read makes releaseLocked throw with nothing done.
RemoveThrows == StorageMayFail /\ UNCHANGED <<mem, disk>>

ReleaseLocked(w, expected) == Remove(w, expected) \/ RemoveThrows

Go(w, to) == pc' = [pc EXCEPT ![w] = to]

\* offerHeldRelease: a dialog naming one attempt in one state.
ShowDialog(w, state, r) == dlg' = [dlg EXCEPT ![w] = [state |-> state, shown |-> r]]
OpenDialog(w, r) == ShowDialog(w, "open", r)
CloseDialog(w) == ShowDialog(w, "closed", NoRec)

----------------------------------------------------------------------------
(* executeTransaction, up to the lock.                                     *)

\* With nothing held the review opens.  A held attempt is settled first: from
\* the chain when its hash is known, by the user when it is not.
Start(w) ==
  /\ pc[w] = "idle"
  /\ mem' = MemAfterRead(w)
  /\ \/ /\ Read(w) = NoRec
        /\ Go(w, "review")
        /\ UNCHANGED <<rec, dlg>>
     \/ /\ Read(w) # NoRec /\ Read(w).sent
        /\ Go(w, "gate")
        /\ rec' = [rec EXCEPT ![w] = Read(w)]
        /\ UNCHANGED dlg
     \/ /\ Read(w) # NoRec /\ ~Read(w).sent
        /\ OpenDialog(w, Read(w))
        /\ UNCHANGED <<pc, rec>>
  /\ UNCHANGED <<disk, lock, next, fate, disowned>>

\* heldWriteGate's answer: mined and settled goes on to release; pending, or
\* mined with a receipt that cannot be read or verified, stops; a hash the node
\* does not know (or a failed read) offers the release dialog.
Gate(w) ==
  /\ pc[w] = "gate"
  /\ \/ /\ fate[rec[w].id] \in {"ok", "reverted"}
        /\ Go(w, "gateRelease")
        /\ UNCHANGED dlg
     \/ /\ fate[rec[w].id] \in {"pending", "ok", "odd", "reverted"}
        /\ Go(w, "idle")
        /\ UNCHANGED dlg
     \/ /\ Go(w, "idle")
        /\ OpenDialog(w, rec[w])
  /\ UNCHANGED <<disk, mem, lock, next, rec, fate, disowned>>

\* hold.release, queued behind whoever holds the lock, then the tail of the gate:
\* a revert that left nothing held goes on to the review.
GateRelease(w) ==
  /\ pc[w] = "gateRelease"
  /\ lock = NoWindow
  /\ ReleaseLocked(w, rec[w])
  /\ Go(w, IF fate[rec[w].id] = "reverted" /\ disk' = NoRec THEN "review" ELSE "idle")
  /\ UNCHANGED <<lock, next, rec, dlg, fate, disowned>>

\* The review is cancelled, the wallet route or account changed, a read or the
\* simulation failed, or another window holds the lock: nothing was sent.
GiveUp(w) ==
  /\ pc[w] = "review"
  /\ Go(w, "idle")
  /\ UNCHANGED <<disk, mem, lock, next, rec, dlg, fate, disowned>>

----------------------------------------------------------------------------
(* sendHeldWrite: under the lock from reserve until the wallet has answered. *)

\* reserve, check and owns run in one turn.  A record already there, or one that
\* cannot be saved, refuses; a check that throws takes the reservation back.
ReserveRefused(w) ==
  /\ Read(w) # NoRec
  /\ Go(w, "idle")
  /\ UNCHANGED <<disk, lock, next, rec>>

\* Mutant: reserve trusts the read made before the review.
ReserveKept_Unread(w) ==
  /\ next \in Attempts
  /\ next' = next + 1
  /\ disk' = [id |-> next, sent |-> FALSE]
  /\ rec' = [rec EXCEPT ![w] = disk']
  /\ lock' = w
  /\ Go(w, "wallet")

ReserveKept(w) ==
  /\ Read(w) = NoRec
  /\ next \in Attempts
  /\ next' = next + 1
  /\ disk' = [id |-> next, sent |-> FALSE]
  /\ rec' = [rec EXCEPT ![w] = disk']
  /\ lock' = w
  /\ Go(w, "wallet")

ReserveUndone(w) ==
  /\ Read(w) = NoRec
  /\ next \in Attempts
  /\ next' = next + 1
  /\ disk' = disk \/ (StorageMayFail /\ disk' = [id |-> next, sent |-> FALSE])
  /\ Go(w, "idle")
  /\ UNCHANGED <<lock, rec>>

Reserve(w) ==
  /\ pc[w] = "review"
  /\ lock = NoWindow
  /\ mem' = MemAfterRead(w)
  /\ ReserveRefused(w) \/ ReserveKept(w) \/ ReserveUndone(w)
  /\ UNCHANGED <<dlg, fate, disowned>>

\* invokeWallet gave up before it called the wallet (walletNotInvoked).
NotInvoked(w) ==
  /\ pc[w] = "wallet"
  /\ ReleaseLocked(w, rec[w])
  /\ lock' = NoWindow
  /\ Go(w, "idle")
  /\ UNCHANGED <<next, rec, dlg, fate, disowned>>

\* The wallet is called: its prompt opens.
Ask(w) ==
  /\ pc[w] = "wallet"
  /\ Go(w, "prompt")
  /\ fate' = [fate EXCEPT ![rec[w].id] = "prompt"]
  /\ UNCHANGED <<disk, mem, lock, next, rec, dlg, disowned>>

\* Code 4001: the one answer that ends the hold with nothing read from the chain.
Rejected(w) ==
  /\ pc[w] = "prompt"
  /\ fate[rec[w].id] = "refused"
  /\ ReleaseLocked(w, rec[w])
  /\ lock' = NoWindow
  /\ Go(w, "idle")
  /\ UNCHANGED <<next, rec, dlg, fate, disowned>>

\* Mutant: any wallet error is taken for a rejection.
Unsure_Released(w) ==
  /\ pc[w] = "prompt"
  /\ ReleaseLocked(w, rec[w])
  /\ lock' = NoWindow
  /\ Go(w, "idle")
  /\ UNCHANGED <<next, rec, dlg, fate, disowned>>

\* Mutant: the lock is not given back after an unclear answer.
Unsure_LockKept(w) ==
  /\ pc[w] = "prompt"
  /\ Go(w, "idle")
  /\ UNCHANGED <<disk, mem, lock, next, rec, dlg, fate, disowned>>

\* Any other wallet error says nothing: the action stays held.
Unsure(w) ==
  /\ pc[w] = "prompt"
  /\ lock' = NoWindow
  /\ Go(w, "idle")
  /\ UNCHANGED <<disk, mem, next, rec, dlg, fate, disowned>>

\* submitted: the hash is stored, or kept in memory when that fails.
SaveHash(w, withHash) ==
  \/ /\ disk' = withHash
     /\ mem' = [mem EXCEPT ![w] = NoRec]
  \/ /\ StorageMayFail
     /\ disk' = disk
     /\ mem' = [mem EXCEPT ![w] = withHash]

\* The wallet answers with the hash, and the lock is given back.
Answered(w) ==
  LET withHash == [rec[w] EXCEPT !.sent = TRUE]
  IN /\ pc[w] = "prompt"
     /\ fate[rec[w].id] \in Broadcast
     /\ IF Mine(w, rec[w])
        THEN SaveHash(w, withHash) /\ rec' = [rec EXCEPT ![w] = withHash]
        ELSE UNCHANGED <<disk, rec>> /\ mem' = MemAfterRead(w)
     /\ lock' = NoWindow
     /\ Go(w, "track")
     /\ UNCHANGED <<next, dlg, fate, disowned>>

\* Mutant: the flow is left in a state no later step continues from.
Confirmed_Stranded(w) ==
  /\ pc[w] = "track"
  /\ fate[rec[w].id] \in {"ok", "reverted"}
  /\ Go(w, "confirmed")
  /\ UNCHANGED <<disk, mem, lock, next, rec, dlg, fate, disowned>>

\* A read receipt settles the attempt: a revert, or a success whose effects verify.
Confirmed(w) ==
  /\ pc[w] = "track"
  /\ fate[rec[w].id] \in {"ok", "reverted"}
  /\ Go(w, "trackRelease")
  /\ UNCHANGED <<disk, mem, lock, next, rec, dlg, fate, disowned>>

\* Tracking failed, timed out, or the effects could not be verified: still held.
TrackingLost(w) ==
  /\ pc[w] = "track"
  /\ Go(w, "idle")
  /\ UNCHANGED <<disk, mem, lock, next, rec, dlg, fate, disowned>>

TrackRelease(w) ==
  /\ pc[w] = "trackRelease"
  /\ lock = NoWindow
  /\ ReleaseLocked(w, rec[w])
  /\ Go(w, "idle")
  /\ UNCHANGED <<lock, next, rec, dlg, fate, disowned>>

----------------------------------------------------------------------------
(* The release dialog, which outlives the flow that opened it.             *)

\* "It was not sent, release it."  The code takes the user's word; one who
\* keeps it looked into the wallet, and found nothing of the attempt sent.  A
\* slot that changed since keeps the dialog open, an empty one closes it, and
\* the shown attempt queues for the lock.
Click(w) ==
  LET shown == dlg[w].shown
  IN /\ dlg[w].state = "open"
     /\ UserKeepsWord => fate[shown.id] # "pending"
     /\ mem' = MemAfterRead(w)
     /\ IF Read(w) = shown
        THEN /\ ShowDialog(w, "queued", shown)
             /\ disowned' = disowned \cup {shown.id}
        ELSE /\ IF Read(w) = NoRec THEN CloseDialog(w) ELSE UNCHANGED dlg
             /\ UNCHANGED disowned
     /\ UNCHANGED <<disk, lock, next, pc, rec, fate>>

DialogRelease(w) ==
  /\ dlg[w].state = "queued"
  /\ lock = NoWindow
  /\ \/ Remove(w, dlg[w].shown) /\ CloseDialog(w)
     \/ RemoveThrows /\ OpenDialog(w, dlg[w].shown)
  /\ UNCHANGED <<lock, next, pc, rec, fate, disowned>>

Dismiss(w) ==
  /\ dlg[w].state = "open"
  /\ CloseDialog(w)
  /\ UNCHANGED <<disk, mem, lock, next, pc, rec, fate, disowned>>

----------------------------------------------------------------------------
(* The window, the wallet and the chain.                                   *)

\* A reload or a crash: the browser drops the window's memory and its locks,
\* while its wallet prompt stays where it is.
Reload(w) ==
  /\ pc[w] # "idle" \/ dlg[w] # Closed \/ mem[w] # NoRec
  /\ Go(w, "idle")
  /\ mem' = [mem EXCEPT ![w] = NoRec]
  /\ rec' = [rec EXCEPT ![w] = NoRec]
  /\ CloseDialog(w)
  /\ lock' = IF lock = w THEN NoWindow ELSE lock
  /\ UNCHANGED <<disk, next, fate, disowned>>

Become(a, from, to) ==
  /\ fate[a] = from
  /\ fate' = [fate EXCEPT ![a] = to]
  /\ UNCHANGED <<disk, mem, lock, next, pc, rec, dlg, disowned>>

Approve(a) == Become(a, "prompt", "pending") /\ (UserKeepsWord => a \notin disowned)
Refuse(a) == Become(a, "prompt", "refused")
Include(a) == \E to \in {"ok", "odd", "reverted", "gone"} : Become(a, "pending", to)

----------------------------------------------------------------------------
WindowStep(w) ==
  \/ Start(w) \/ Gate(w) \/ GateRelease(w) \/ GiveUp(w)
  \/ Reserve(w) \/ NotInvoked(w) \/ Ask(w) \/ Rejected(w) \/ Unsure(w)
  \/ Answered(w) \/ Confirmed(w) \/ TrackingLost(w) \/ TrackRelease(w)
  \/ Click(w) \/ DialogRelease(w) \/ Dismiss(w) \/ Reload(w)

Outside(a) == Approve(a) \/ Refuse(a) \/ Include(a)

Next ==
  \/ \E w \in Windows : WindowStep(w)
  \/ \E a \in Attempts : Outside(a)

Spec == Init /\ [][Next]_vars

\* A pending read, the wallet's answer and the tracker's last try always come
\* (the reads and polls time out; the user answers every prompt), and the Web
\* Lock queue is first come first served, so that who waits in it is served
\* although others take the lock meanwhile.  Nobody is made to start or click.
Fairness ==
  /\ \A w \in Windows :
       /\ WF_vars(NotInvoked(w) \/ Ask(w))
       /\ WF_vars(Rejected(w) \/ Unsure(w) \/ Answered(w))
       /\ SF_vars(DialogRelease(w))

FairSpec == Spec /\ Fairness

----------------------------------------------------------------------------
(* Properties.                                                             *)

\* Each stored record and its attempt: the record of an attempt leaves storage
\* only when the wallet was never asked for it or refused, when its receipt was
\* read and (for a success) verified, or when a user declared it not sent.  A
\* reload, an ambiguous wallet error, a lost hash or an unverifiable success
\* keeps it (write-hold.js 1-5, component-base.js 1411-1431 and 1441-1447).
HeldUntilSettled ==
  \A a \in 1 .. next - 1 :
    \/ disk.id = a
    \/ a \in disowned
    \/ fate[a] \in Settled
    \/ fate[a] = "none" /\ \A w \in Windows : ~(pc[w] = "wallet" /\ rec[w].id = a)

\* At most one attempt of the action can still take effect: is in the mempool,
\* or has a wallet prompt its user may approve.  Sending the same action from two
\* windows, after a reload or after an unclear answer never doubles it.
CanStillLand(a) == fate[a] = "pending" \/ (fate[a] = "prompt" /\ a \notin disowned)

AtMostOneCanLand ==
  \A a, b \in Attempts : CanStillLand(a) /\ CanStillLand(b) => a = b

\* A stored record only gains its hash or is removed: no window overwrites the
\* record of another attempt, or takes a saved hash back (write-hold.js 51-78).
RecordOnlyAdvances ==
  [][ \/ disk = NoRec \/ disk' = NoRec \/ disk' = disk
      \/ disk' = [disk EXCEPT !.sent = TRUE] ]_vars

\* "A release queued behind a send never removes the hash it saved"
\* (write-hold.js 50; test/write-hold.test.js 150): a release asked for while no
\* hash was known finds the wallet's answer, in whichever window it came, and
\* leaves the record alone.
HashInHand(a) ==
  \E v \in Windows : mem[v] = [id |-> a, sent |-> TRUE]
                      \/ (pc[v] = "track" /\ rec[v] = [id |-> a, sent |-> TRUE])

QueuedReleaseKeepsHash ==
  [][ \A w \in Windows :
        dlg[w].state = "queued" /\ ~dlg[w].shown.sent /\ HashInHand(dlg[w].shown.id)
          /\ dlg'[w] = Closed
        => disk' = disk ]_vars

\* A release that waits behind a send is not stranded by it: however the wallet
\* answers, and if its window is closed, the lock comes back and the release runs.
QueuedReleaseRuns ==
  \A w \in Windows : dlg[w].state = "queued" ~> dlg[w].state # "queued"

\* The hold implements AtMostOnce.  An attempt is over once nothing can come of
\* it that a user does not know: it was never sent and nobody is about to, it was
\* refused, its receipt was read and verified, or a user declared it not sent.
Stage(a) ==
  IF a >= next THEN "new"
  ELSE IF a \in disowned \/ fate[a] \in Settled THEN "over"
  ELSE IF fate[a] # "none" THEN "asked"
  ELSE IF \E w \in Windows : pc[w] = "wallet" /\ rec[w].id = a THEN "held"
  ELSE "over"

Abs == INSTANCE AtMostOnce WITH holder <- disk.id, stage <- [a \in Attempts |-> Stage(a)]

ImplementsAtMostOnce == Abs!AbsSpec
=============================================================================
