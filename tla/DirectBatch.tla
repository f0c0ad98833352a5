---------------------------- MODULE DirectBatch ----------------------------
(***************************************************************************)
(* Direct sends, one wallet transaction per call, in order: runDirectBatch *)
(* and clearUnsubmittedDirectBatch of src/direct-batch.js, with the        *)
(* callbacks runRelayrAcrossChains of src/discover.js gives it.            *)
(*                                                                         *)
(* One scope of one account (one storage key).  A window runs the batch    *)
(* under the key's Web Lock, taken only if it is free; an action is one    *)
(* run of the window's event loop from one await to the next.              *)
(***************************************************************************)
EXTENDS Integers

CONSTANTS
  Windows,    \* the browser windows open on the site
  None,       \* no window
  Requests,   \* the batches of calls a user may review for the scope
  NoRequest,
  Calls,      \* how many calls a batch has
  MaxAsks,    \* bound: how many wallet prompts are ever opened
  Failing     \* the journal writes that storage may refuse, of Saves below

Saves == {"marker",   \* onSending, before the wallet is asked
          "hash",     \* onSubmitted, when it answers
          "undo",     \* back to null after a definite rejection
          "revert",   \* back to null after a receipt that reverted
          "remove"}   \* the removal of a finished batch

ASSUME DirectBatchAssumption ==
  /\ None \notin Windows
  /\ NoRequest \notin Requests
  /\ Calls \in Nat \ {0}
  /\ MaxAsks \in Nat \ {0}
  /\ Failing \subseteq Saves

VARIABLES
  disk,      \* the journal in localStorage
  mem,       \* the `memory` map of each window: a journal that could not be saved
  lock,      \* who holds the batch's Web Lock
  pc,        \* where each window's runDirectBatch stands
  at,        \* the call it works on
  ses,       \* the session object it holds
  asks,      \* outside: the wallet prompts, and who still waits for the answer
  complete   \* the prompts of completed batches (a history variable)

vars == <<disk, mem, lock, pc, at, ses, asks, complete>>

Asks == 1 .. MaxAsks
Slots == 1 .. Calls

\* A slot of hashes[]: null, the marker 'sending', or a hash, named by its prompt.
Null == 0
Sending == -1
Hash(slot) == slot \in Asks

NoJournal == [req |-> NoRequest, hashes |-> [i \in Slots |-> Null]]
Journals == {NoJournal} \cup [req : Requests, hashes : [Slots -> -1 .. MaxAsks]]
Fresh(r) == [req |-> r, hashes |-> [i \in Slots |-> Null]]

NoAsk == [req |-> NoRequest, call |-> 0, fate |-> "none", to |-> None]

\* "odd": mined, but verifyReceipt does not accept its effects.
Fates == {"none", "open", "refused", "sent", "ok", "odd", "reverted"}

PCs == {"idle", "check", "review", "called", "prompt", "track", "finish"}

TypeOK ==
  /\ disk \in Journals
  /\ mem \in [Windows -> Journals]
  /\ lock \in Windows \cup {None}
  /\ pc \in [Windows -> PCs]
  /\ at \in [Windows -> 0 .. Calls]
  /\ ses \in [Windows -> Journals]
  /\ asks \in [Asks -> [req : Requests \cup {NoRequest}, call : 0 .. Calls,
                        fate : Fates, to : Windows \cup {None}]]
  /\ complete \subseteq Asks

Init ==
  /\ disk = NoJournal
  /\ mem = [w \in Windows |-> NoJournal]
  /\ lock = None
  /\ pc = [w \in Windows |-> "idle"]
  /\ at = [w \in Windows |-> 0]
  /\ ses = [w \in Windows |-> NoJournal]
  /\ asks = [n \in Asks |-> NoAsk]
  /\ complete = {}

----------------------------------------------------------------------------
(* The journal and the loop over the calls.                                *)

\* persist: a journal that storage refuses is kept in memory.
Persist(w, s, what) ==
  \/ /\ disk' = s
     /\ mem' = [mem EXCEPT ![w] = NoJournal]
  \/ /\ what \in Failing
     /\ disk' = disk
     /\ mem' = [mem EXCEPT ![w] = s]

\* The batch ends, by a throw or by its last call: the lock goes back.
Stop(w) ==
  /\ pc' = [pc EXCEPT ![w] = "idle"]
  /\ at' = [at EXCEPT ![w] = 0]
  /\ ses' = [ses EXCEPT ![w] = NoJournal]
  /\ lock' = None

Go(w, to, i, s) ==
  /\ pc' = [pc EXCEPT ![w] = to]
  /\ at' = [at EXCEPT ![w] = i]
  /\ ses' = [ses EXCEPT ![w] = s]
  /\ lock' = w

\* Mutant: a marker left by an interrupted request is taken for an empty slot.
Turn_Resends(w, i, s) ==
  CASE i > Calls -> Go(w, "finish", 0, s)
    [] i <= Calls /\ Hash(s.hashes[i]) -> Go(w, "check", i, s)
    [] i <= Calls /\ ~Hash(s.hashes[i]) -> Go(w, "review", i, s)

\* The turn of call i: a saved hash is only checked, a marker left by an
\* interrupted request stops the batch, and only an empty slot is sent.
Turn(w, i, s) ==
  CASE i > Calls -> Go(w, "finish", 0, s)
    [] i <= Calls /\ Hash(s.hashes[i]) -> Go(w, "check", i, s)
    [] i <= Calls /\ s.hashes[i] = Null -> Go(w, "review", i, s)
    [] i <= Calls /\ s.hashes[i] = Sending -> Stop(w)

Set(w, slot) == [ses[w] EXCEPT !.hashes[at[w]] = slot]

----------------------------------------------------------------------------
(* runDirectBatch.                                                         *)

\* An unfinished batch runs on only with the calls it was started with.
Matches(s, r) == s.req = r

\* The copy in memory comes first.  A batch that runs in another window, or whose
\* journal has other calls, throws.
Start(w) ==
  /\ pc[w] = "idle"
  /\ lock = None
  /\ \E r \in Requests :
       LET found == IF mem[w] # NoJournal THEN mem[w] ELSE disk
           s == IF found = NoJournal THEN Fresh(r) ELSE found
       IN Matches(s, r) /\ Turn(w, 1, s)
  /\ UNCHANGED <<disk, mem, asks, complete>>

\* verifySubmitted: the receipt of the saved hash.
Checked(w) ==
  LET fate == asks[ses[w].hashes[at[w]]].fate
  IN /\ pc[w] = "check"
     /\ \/ fate = "ok" /\ Turn(w, at[w] + 1, ses[w]) /\ UNCHANGED <<disk, mem>>
        \/ fate = "reverted" /\ Persist(w, Set(w, Null), "revert") /\ Stop(w)
        \/ fate # "reverted" /\ Stop(w) /\ UNCHANGED <<disk, mem>>
     /\ UNCHANGED <<asks, complete>>

\* The review is cancelled, the account changed, a check or the simulation failed.
GiveUp(w) ==
  /\ pc[w] = "review"
  /\ Stop(w)
  /\ UNCHANGED <<disk, mem, asks, complete>>

\* onSending: the marker is saved, or nothing is sent.  The object that went to
\* memory is the one whose slot is set back.
MarkSending(w) ==
  /\ pc[w] = "review"
  /\ \/ /\ disk' = Set(w, Sending)
        /\ mem' = [mem EXCEPT ![w] = NoJournal]
        /\ Go(w, "called", at[w], Set(w, Sending))
     \/ /\ "marker" \in Failing
        /\ disk' = disk
        /\ mem' = [mem EXCEPT ![w] = Set(w, Null)]
        /\ Stop(w)
  /\ UNCHANGED <<asks, complete>>

\* invokeWallet calls the wallet: its prompt opens.
Ask(w) ==
  /\ pc[w] = "called"
  /\ \E n \in Asks :
       /\ asks[n] = NoAsk
       /\ \A m \in 1 .. n - 1 : asks[m] # NoAsk
       /\ asks' = [asks EXCEPT ![n] = [req |-> ses[w].req, call |-> at[w],
                                       fate |-> "open", to |-> w]]
  /\ Go(w, "prompt", at[w], ses[w])
  /\ UNCHANGED <<disk, mem, complete>>

\* The answer n of the wallet reaches the window that asked.
Hears(w, n) ==
  /\ pc[w] = "prompt"
  /\ asks[n].to = w
  /\ asks' = [asks EXCEPT ![n].to = None]

\* invokeWallet gave up before it called the wallet.
NotInvoked(w) ==
  /\ pc[w] = "called"
  /\ Persist(w, Set(w, Null), "undo")
  /\ Stop(w)
  /\ UNCHANGED <<asks, complete>>

Rejected(w) ==
  \E n \in Asks :
    /\ asks[n].fate = "refused"
    /\ Hears(w, n)
    /\ Persist(w, Set(w, Null), "undo")
    /\ Stop(w)
    /\ UNCHANGED complete

\* Any other wallet error: the marker stays.
Unsure(w) ==
  \E n \in Asks :
    /\ Hears(w, n)
    /\ Stop(w)
    /\ UNCHANGED <<disk, mem, complete>>

\* onSubmitted.
Answered(w) ==
  \E n \in Asks :
    /\ asks[n].fate \in {"sent", "ok", "odd", "reverted"}
    /\ Hears(w, n)
    /\ Persist(w, Set(w, n), "hash")
    /\ Go(w, "track", at[w], Set(w, n))
    /\ UNCHANGED complete

\* Mutant: the next call does not wait for the receipt.
Tracked_Unconfirmed(w) ==
  /\ pc[w] = "track"
  /\ Turn(w, at[w] + 1, ses[w])
  /\ UNCHANGED <<disk, mem, asks, complete>>

\* A receipt that succeeded and verified leads to the next call; anything else throws.
Tracked(w) ==
  /\ pc[w] = "track"
  /\ \/ asks[ses[w].hashes[at[w]]].fate = "ok" /\ Turn(w, at[w] + 1, ses[w])
     \/ Stop(w)
  /\ UNCHANGED <<disk, mem, asks, complete>>

\* Mutant: a finished batch keeps its window in a state no later step continues from.
Finish_Stranded(w) ==
  /\ pc[w] = "finish"
  /\ pc' = [pc EXCEPT ![w] = "finished"]
  /\ UNCHANGED <<disk, mem, lock, at, ses, asks, complete>>

\* onComplete throws, or the journal is removed.
Finish(w) ==
  /\ pc[w] = "finish"
  /\ \/ UNCHANGED <<disk, mem, complete>>
     \/ /\ disk' = NoJournal \/ ("remove" \in Failing /\ disk' = disk)
        /\ mem' = [mem EXCEPT ![w] = NoJournal]
        /\ complete' = complete \cup {ses[w].hashes[i] : i \in Slots}
  /\ Stop(w)
  /\ UNCHANGED asks

\* Mutant: a batch with no hash counts as unsubmitted.
Unsubmitted_NoHash(s) == \A i \in Slots : ~Hash(s.hashes[i])

Unsubmitted(s) == \A i \in Slots : s.hashes[i] = Null

\* clearUnsubmittedDirectBatch.
ClearUnsubmitted(w) ==
  /\ pc[w] = "idle"
  /\ lock = None
  /\ mem[w] = NoJournal
  /\ disk # NoJournal /\ Unsubmitted(disk)
  /\ disk' = NoJournal
  /\ UNCHANGED <<mem, lock, pc, at, ses, asks, complete>>

----------------------------------------------------------------------------
(* The window, the wallet and the chain.                                   *)

\* A reload or a crash: memory, the run and the lock are gone, the prompt is not.
Reload(w) ==
  /\ pc[w] # "idle" \/ mem[w] # NoJournal
  /\ mem' = [mem EXCEPT ![w] = NoJournal]
  /\ pc' = [pc EXCEPT ![w] = "idle"]
  /\ at' = [at EXCEPT ![w] = 0]
  /\ ses' = [ses EXCEPT ![w] = NoJournal]
  /\ lock' = IF lock = w THEN None ELSE lock
  /\ asks' = [n \in Asks |-> IF asks[n].to = w THEN [asks[n] EXCEPT !.to = None] ELSE asks[n]]
  /\ UNCHANGED <<disk, complete>>

Become(n, from, to) ==
  /\ asks[n].fate = from
  /\ asks' = [asks EXCEPT ![n].fate = to]
  /\ UNCHANGED <<disk, mem, lock, pc, at, ses, complete>>

Approve(n) == Become(n, "open", "sent")
Refuse(n) == Become(n, "open", "refused")
Include(n) == \E to \in {"ok", "odd", "reverted"} : Become(n, "sent", to)

----------------------------------------------------------------------------
WindowStep(w) ==
  \/ Start(w) \/ Checked(w) \/ GiveUp(w) \/ MarkSending(w) \/ Ask(w) \/ NotInvoked(w)
  \/ Rejected(w) \/ Unsure(w) \/ Answered(w) \/ Tracked(w) \/ Finish(w)
  \/ ClearUnsubmitted(w) \/ Reload(w)

Next ==
  \/ \E w \in Windows : WindowStep(w)
  \/ \E n \in Asks : Approve(n) \/ Refuse(n) \/ Include(n)

Spec == Init /\ [][Next]_vars

----------------------------------------------------------------------------
(* Properties.                                                             *)

\* What was sent, or may be once its prompt is approved, in a batch not completed.
Live(n) == asks[n].fate \in {"open", "sent", "ok", "odd"} /\ n \notin complete

\* Each live send is in the journal on disk, as its hash or as the marker: nothing
\* that a reload, a rejection of a later call, a failed save or the discard of an
\* unsubmitted batch does forgets it (direct-batch.js 25-42 and 66-112).
SendJournaled ==
  \A n \in Asks :
    Live(n) => disk.req = asks[n].req /\ disk.hashes[asks[n].call] \in {Sending, n}

\* No call of a batch is sent twice, and no call of another batch beside it: "Sequential
\* wallet sends retain each submitted hash so a later rejected or unknown leg cannot replay
\* earlier successful calls.  A resumed batch must still match the exact reviewed
\* destinations/calldata" (direct-batch.js 1-2).
SentOnce ==
  \A m, n \in Asks :
    Live(m) /\ Live(n) /\ m # n => asks[m].req = asks[n].req /\ asks[m].call # asks[n].call

\* The calls go in order: a call is sent only after each earlier one of its batch was
\* confirmed with its effects verified, in this run or in one it resumes.
InOrder ==
  \A n \in Asks : Live(n) =>
    \A i \in 1 .. asks[n].call - 1 :
      \E m \in Asks \ complete : asks[m].call = i /\ asks[m].req = asks[n].req /\ asks[m].fate = "ok"

\* Each slot of the journal is a SendJournal: its mark is the slot on disk.
SlotMark(i) ==
  IF disk.hashes[i] = Null
  THEN [of |-> NoRequest, stage |-> "clear"]
  ELSE [of |-> disk.req, stage |-> IF Hash(disk.hashes[i]) THEN "sent" ELSE "sending"]

SlotPrompt(i, n) ==
  IF asks[n].call = i
  THEN [of |-> asks[n].req, stage |-> IF Live(n) THEN "live" ELSE "over"]
  ELSE [of |-> NoRequest, stage |-> "new"]

Slot(i) == INSTANCE SendJournal WITH
  Works <- Requests, NoWork <- NoRequest,
  mark <- SlotMark(i),
  prompt <- [n \in Asks |-> SlotPrompt(i, n)],
  closed <- {}

\* Each call of a batch is asked for only under its marker and with no other prompt for it
\* live, a hash takes the place of a marker and of nothing else, and marker and hash go
\* only with a rejection, a reverted receipt or the batch, whichever copy of the journal
\* is written and from whichever window (direct-batch.js 25-42 and 66-112).
\* A step that leaves the variables of the mapping alone is none of the journal's.
SlotsAreSendJournals ==
  /\ \A i \in Slots : Slot(i)!JournalInit
  /\ [][ UNCHANGED <<disk, asks, complete>> \/ \A i \in Slots : Slot(i)!JournalStep ]_vars
=============================================================================
