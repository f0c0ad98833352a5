-------------------------- MODULE RelayrSessionProofs --------------------------
(***************************************************************************)
(* The journal of a Relayr request keeps its promises for any windows,     *)
(* flows, bundles and prompts, with or without Web Locks and whatever      *)
(* storage refuses.                                                        *)
(*                                                                         *)
(* None of the promises is inductive.  What carries them is that an open   *)
(* bundle has at most one attempt at paying it (a flow that is about to    *)
(* ask the wallet, or a prompt that may yet be answered), and that while   *)
(* it has one the disk shows the mark: then only the flow of that attempt  *)
(* can take the mark back.                                                 *)
(***************************************************************************)
EXTENDS RelayrSession, TLAPS

\* A flow past the check for a saved request holds the session of a bundle; one that
\* posts a bundle, its publication record.
Holding ==
  \A f \in Flows :
    /\ pc[f] \notin {"idle", "sign", "reserve"} => ses[f].id \in Bundles
    /\ pc[f] = "post" => ses[f].stage = Publication

\* Where storage works no session stays in a window's memory alone.
NothingUnsaved == ~StorageMayFail => \A w \in Windows : mem[w] = NoRec

\* The disk names the bundle, with the wallet asked.
Marked(b) == disk.id = b /\ disk.stage >= Sending

\* Its answer may come, or may have been a payment.
Pending(n) == asks[n].fate \in {"open", "sent"} \/ asks[n].to # None

\* A prompt is heard by the flow that opened it, and a flow hears one prompt.
Listening ==
  /\ \A n \in Asks : asks[n].to # None =>
       pc[asks[n].to] = "prompt" /\ ses[asks[n].to].id = asks[n].of
  /\ \A m, n \in Asks : asks[m].to = asks[n].to /\ asks[m].to # None => m = n

CallsMarked == \A f \in Flows : pc[f] = "called" /\ ~Closed(ses[f].id) => Marked(ses[f].id)

AsksMarked == \A n \in Asks : Pending(n) /\ ~Closed(asks[n].of) => Marked(asks[n].of)

\* At most one attempt at paying a bundle that is not closed.
OneAttempt ==
  /\ \A f, g \in Flows :
       pc[f] = "called" /\ pc[g] = "called" /\ ses[f].id = ses[g].id /\ ~Closed(ses[f].id)
         => f = g
  /\ \A f \in Flows, n \in Asks :
       pc[f] = "called" /\ Pending(n) /\ ~Closed(ses[f].id) => asks[n].of # ses[f].id
  /\ \A m, n \in Asks :
       Pending(m) /\ Pending(n) /\ asks[m].of = asks[n].of /\ ~Closed(asks[m].of) => m = n

Sound == TypeOK /\ Holding /\ NothingUnsaved
Attempts == Listening /\ CallsMarked /\ AsksMarked /\ OneAttempt
SessionInv == Sound /\ Attempts

----------------------------------------------------------------------------
(* The journal.                                                            *)

\* What one write may do to the disk: nothing, fill it where it is empty, or go on
\* with its own bundle, never to an earlier stage.
Advances ==
  \/ disk' = disk
  \/ disk = NoRec
  \/ disk'.id = disk.id /\ disk'.stage >= disk.stage

\* It may also empty it: of a bundle that is closed, or of one posted without an answer,
\* where the quote cannot be written.
Empties ==
  /\ disk' = NoRec
  /\ disk.id \in done' \cup dropped' \/ (StorageMayFail /\ disk.stage = Publication)

MemKept ==
  /\ mem' \in [Windows -> Records]
  /\ NothingUnsaved'

\* A record is its bundle and its stage.
LEMMA RecordFacts ==
  \A r \in Records :
    /\ r.id \in 0 .. MaxBundles /\ r.stage \in -1 .. 2
    /\ r = [id |-> r.id, stage |-> r.stage]
    /\ r # NoRec => r.id \in Bundles
    /\ r.stage # -1 => r.id \in Bundles
BY RelayrSessionAssumption DEF Records, NoRec, Bundles, Publication, Paid

\* Another stage of the same bundle.
LEMMA Restaged ==
  \A r \in Records, s \in -1 .. 2 : r.id \in Bundles =>
    /\ [r EXCEPT !.stage = s] = [id |-> r.id, stage |-> s]
    /\ [id |-> r.id, stage |-> s] \in Records
BY RelayrSessionAssumption DEF Records, NoRec, Bundles, Publication, Paid

LEMMA NoRecIs == NoRec \in Records /\ NoRec.id = 0 /\ NoRec.stage = -1
BY DEF Records, NoRec

LEMMA StoredFacts ==
  ASSUME Sound, NEW w \in Windows, NEW st \in Storage
  PROVE  /\ Seen(st) \in Records /\ mem[w] \in Records /\ Stored(w, st) \in Records
         /\ Stored(w, st) = disk \/ Stored(w, st) = mem[w] \/ Stored(w, st) = NoRec
         /\ ~StorageMayFail => st = "ok" /\ Stored(w, st) = disk
         /\ st \in {"ok", "full"} => Seen(st) = disk
         /\ st \in {"ok", "full", "off"}
         /\ MemRead(w, st) \in [Windows -> Records]
         /\ ~StorageMayFail => \A v \in Windows : MemRead(w, st)[v] = NoRec
BY NoRecIs DEF Sound, TypeOK, NothingUnsaved, Seen, Stored, MemWins, MemRead, Storage

LEMMA Loads ==
  ASSUME Sound, NEW w \in Windows, NEW st \in Storage, Load(w, st), UNCHANGED world
  PROVE  MemKept /\ disk' = disk
BY StoredFacts DEF Load, MemKept, NothingUnsaved, StorageMayFail

LEMMA WriteKeepsMem ==
  ASSUME Sound, NEW w \in Windows, NEW st \in Storage, NEW r \in Records, Write(w, r, st),
         UNCHANGED world
  PROVE  MemKept /\ disk' \in Records /\ (disk' = disk \/ disk' = r)
<1>1. mem \in [Windows -> Records] /\ disk \in Records
  BY DEF Sound, TypeOK
<1>2. ~StorageMayFail => st = "ok" /\ \A v \in Windows : mem[v] = NoRec
  BY StoredFacts DEF Sound, NothingUnsaved
<1> QED
  BY <1>1, <1>2, NoRecIs DEF Write, MemKept, NothingUnsaved, StorageMayFail

\* A record written where the journal, as the window sees it, has nothing or an
\* earlier stage of the bundle.
LEMMA WriteAdvances ==
  ASSUME Sound, NEW w \in Windows, NEW st \in Storage, NEW r \in Records, Write(w, r, st),
         \/ Stored(w, st) = NoRec
         \/ Stored(w, st).id = r.id /\ Stored(w, st).stage <= r.stage
  PROVE  Advances
<1>1. CASE st # "ok"
  BY <1>1 DEF Write, Advances
<1>2. CASE st = "ok"
  <2>1. Seen(st) = disk /\ disk' = r /\ disk \in Records /\ mem[w] \in Records
    BY <1>2 DEF Write, Seen, Sound, TypeOK
  <2>2. CASE MemWins(w, st)
    BY <2>1, <2>2, RecordFacts DEF MemWins, Stored, Advances, SameBundle
  <2>3. CASE ~MemWins(w, st)
    BY <2>1, <2>3 DEF Stored, Advances
  <2> QED
    BY <2>2, <2>3
<1> QED
  BY <1>1, <1>2

LEMMA Saves ==
  ASSUME Sound, NEW w \in Windows, NEW st \in Storage, NEW r \in Records, Save(w, r, st),
         UNCHANGED world
  PROVE  /\ MemKept /\ Advances
         /\ Saved(w, r, st) \in Records
         /\ r.stage > Quoted => Saved(w, r, st).stage > Quoted
         /\ r.id \in Bundles => Saved(w, r, st).id \in Bundles
<1>0. disk \in Records /\ Stored(w, st) \in Records
  BY StoredFacts DEF Sound, TypeOK
<1>1. CASE Outranked(w, r, st)
  BY <1>0, <1>1, Loads, RecordFacts DEF Save, Outranked, Saved, Advances, Quoted
<1>2. CASE ~Outranked(w, r, st)
  <2>1. Write(w, r, st) /\ Saved(w, r, st) = r
    BY <1>2 DEF Save, Saved
  <2>2. MemKept
    BY <2>1, WriteKeepsMem
  <2>3. CASE Rollback(w, r, st)
    <3>1. st = "ok" => Seen(st) = disk
      BY DEF Seen
    <3> QED
      BY <2>1, <2>2, <2>3, <3>1 DEF Rollback, Write, Advances
  <2>4. CASE ~Rollback(w, r, st)
    <3>1. Stored(w, st).stage <= r.stage
      BY <1>0, <1>2, <2>4, RecordFacts DEF Outranked
    <3>2. Stored(w, st) = NoRec \/ Stored(w, st).id = r.id
      BY DEF Save, Conflicts, SameBundle
    <3> QED
      BY <2>1, <2>2, <3>1, <3>2, WriteAdvances
  <2> QED
    BY <2>3, <2>4
<1> QED
  BY <1>1, <1>2

\* Clearing empties the disk only of the bundle it is about.
LEMMA Clears ==
  ASSUME Sound, NEW w \in Windows, NEW st \in Storage, NEW r \in Records, Clear(w, r, st),
         UNCHANGED world
  PROVE  /\ MemKept
         /\ disk' = disk \/ disk = NoRec \/ (disk' = NoRec /\ disk.id = r.id)
<1>1. CASE Conflicts(w, r, st)
  BY <1>1, Loads DEF Clear
<1>2. CASE ~Conflicts(w, r, st)
  <2>1. mem' = [mem EXCEPT ![w] = NoRec] /\ disk' = IF st = "off" THEN disk ELSE NoRec
    BY <1>2 DEF Clear
  <2>2. MemKept
    BY <2>1, NoRecIs DEF MemKept, Sound, TypeOK, NothingUnsaved, StorageMayFail
  <2>3. ASSUME st # "off"  PROVE disk = NoRec \/ disk.id = r.id
    <3>1. Seen(st) = disk
      BY <2>3 DEF Seen
    <3>2. Stored(w, st) = NoRec \/ Stored(w, st).id = r.id
      BY <1>2 DEF Conflicts, SameBundle
    <3> QED
      BY <3>1, <3>2 DEF Stored, MemWins, SameBundle
  <2> QED
    BY <2>1, <2>2, <2>3
<1> QED
  BY <1>1, <1>2

\* What the window takes for an unpaid quote is on disk as that, or not at all.
LEMMA UnpaidIs ==
  ASSUME Sound, NEW w \in Windows, NEW st \in Storage, NEW b, Unpaid(w, b, st)
  PROVE  /\ b \in Bundles
         /\ st = "ok" => disk = NoRec \/ (disk.id = b /\ disk.stage = Quoted)
<1>1. Stored(w, st) \in Records /\ Stored(w, st) = [id |-> b, stage |-> Quoted]
  BY StoredFacts DEF Unpaid
<1>2. b \in Bundles
  BY <1>1, RecordFacts DEF Quoted, NoRec
<1>3. ASSUME st = "ok"  PROVE disk = NoRec \/ (disk.id = b /\ disk.stage = Quoted)
  <2>1. Seen(st) = disk /\ disk \in Records
    BY <1>3 DEF Seen, Sound, TypeOK
  <2>2. disk.stage \in -1 .. 2
    BY <2>1, RecordFacts
  <2> QED
    BY <1>1, <2>1, <2>2 DEF Stored, MemWins, SameBundle, Quoted, Publication
<1> QED
  BY <1>2, <1>3

----------------------------------------------------------------------------
(* The steps of a flow that ask the wallet nothing.                        *)

\* The flow holds a session where its next step needs one, and no prompt opens.
Moves(f) ==
  \E to \in PCs \ {"called", "prompt"}, s \in Records :
    /\ Go(f, to, s)
    /\ to \notin {"idle", "sign", "reserve"} => s.id \in Bundles
    /\ to = "post" => s.stage = Publication

JournalKept == MemKept /\ disk' \in Records /\ (Advances \/ Empties)

\* A new bundle is on disk before it counts as posted.
Posts ==
  \/ next' = next
  \/ next \in Bundles /\ next' = next + 1 /\ Advances /\ disk'.id = next

AsksNothing(f) ==
  /\ pc[f] \notin {"called", "prompt"}
  /\ JournalKept /\ Moves(f) /\ Posts
  /\ asks' = asks /\ done' = done /\ expired' = expired
  /\ dropped \subseteq dropped' /\ dropped' \subseteq Bundles
  /\ quote' \in [Windows -> 0 .. MaxBundles]
  /\ pubLock' \in Flows \cup {None} /\ payLock' \in Flows \cup {None}

\* Everything but the journal, the flow and its locks is left alone.
LeavesRest(f) ==
  /\ pc[f] \notin {"called", "prompt"}
  /\ UNCHANGED <<world, quote, next, asks, done, expired>>
  /\ dropped' = dropped \/ dropped' = dropped \cup {ses[f].id}
  /\ \/ pubLock' = pubLock \/ pubLock' = None \/ pubLock' = Locked(f)
  /\ \/ payLock' = payLock \/ payLock' = None \/ payLock' = Locked(f) \/ payLock' = f

LEMMA WindowOfType == ASSUME Sound, NEW f \in Flows PROVE WindowOf[f] \in Windows
BY RelayrSessionAssumption DEF Sound, TypeOK, WindowOf

LEMMA Resting ==
  ASSUME NEW f \in Flows, Rest(f)
  PROVE  Moves(f)
BY NoRecIs DEF Rest, Moves, PCs

LEMMA LeavesRestAsksNothing ==
  ASSUME Sound, NEW f \in Flows, LeavesRest(f), JournalKept, Moves(f),
         dropped' # dropped => ses[f].id \in Bundles
  PROVE  AsksNothing(f)
BY DEF LeavesRest, AsksNothing, Sound, TypeOK, Locked, Posts

LEMMA FundMoves ==
  ASSUME Sound, NEW f \in Flows, NEW st \in Storage, NEW b, Fund(f, b, st), UNCHANGED world
  PROVE  JournalKept /\ Moves(f)
<1> DEFINE w == WindowOf[f]
           q == [id |-> b, stage |-> Quoted]
<1>1. w \in Windows /\ disk \in Records
  BY WindowOfType DEF Sound, TypeOK
<1>2. CASE Unpaid(w, b, st) /\ b \notin expired
  <2>1. Write(w, q, st) /\ IF st = "ok" THEN Go(f, "modal", q) ELSE Rest(f)
    BY <1>2 DEF Fund
  <2>2. b \in Bundles
    BY <1>1, <1>2, UnpaidIs
  <2>3. q \in Records
    BY <2>2 DEF Records, Publication, Quoted, Paid
  <2>4. JournalKept
    <3>1. Stored(w, st) = q
      BY <1>2 DEF Unpaid
    <3>2. q.id = q.id /\ q.stage <= q.stage
      BY DEF Quoted
    <3>3. Advances
      BY <1>1, <2>1, <2>3, <3>1, <3>2, WriteAdvances
    <3> QED
      BY <1>1, <2>1, <2>3, <3>3, WriteKeepsMem DEF JournalKept
  <2>5. Moves(f)
    BY <2>1, <2>2, <2>3, Resting DEF Moves, PCs
  <2> QED
    BY <2>4, <2>5
<1>3. CASE ~(Unpaid(w, b, st) /\ b \notin expired)
  BY <1>1, <1>3, Loads, Resting DEF Fund, JournalKept, Advances
<1> QED
  BY <1>2, <1>3

LEMMA MonitorMoves ==
  ASSUME Sound, NEW f \in Flows, NEW st \in Storage, NEW s \in Records, Monitor(f, s, st),
         UNCHANGED world
  PROVE  JournalKept /\ Moves(f)
<1> DEFINE w == WindowOf[f]
           r == Refreshed(w, s, st)
<1>1. w \in Windows /\ disk \in Records
  BY WindowOfType DEF Sound, TypeOK
<1>2. r \in Records
  BY <1>1, StoredFacts DEF Refreshed
<1>3. CASE Load(w, st) /\ Rest(f)
  BY <1>1, <1>3, Loads, Resting DEF JournalKept, Advances
<1>4. CASE /\ Save(w, r, st)
           /\ IF r.stage > Quoted THEN Go(f, "poll", Saved(w, r, st)) ELSE Rest(f)
  <2>1. /\ MemKept /\ Advances /\ Saved(w, r, st) \in Records
        /\ r.stage > Quoted => Saved(w, r, st).stage > Quoted
    BY <1>1, <1>2, <1>4, Saves
  <2>2. disk' \in Records
    BY <1>1, <1>2, <1>4, Loads, WriteKeepsMem DEF Save
  <2>3. r.stage > Quoted => Saved(w, r, st).id \in Bundles
    BY <2>1, RecordFacts DEF Quoted
  <2>4. Moves(f)
    BY <1>4, <2>1, <2>3, Resting DEF Moves, PCs
  <2> QED
    BY <2>1, <2>2, <2>4 DEF JournalKept
<1> QED
  BY <1>3, <1>4 DEF Monitor

\* The actions that neither are about to ask the wallet nor hear from it.
QuietStep(f) ==
  \/ Run(f) \/ GiveUp(f) \/ CheckNew(f) \/ Publish(f) \/ PostLost(f) \/ PostAnswered(f)
  \/ OpenFunding(f) \/ TakePayLock(f) \/ SaveHash(f) \/ Reverted(f) \/ StartMonitor(f)
  \/ Tick(f) \/ PollEnds(f) \/ Verified(f) \/ Check(f) \/ ClearReceipt(f) \/ Leave(f)
  \/ StartRetire(f) \/ EndRetire(f)

\* The steps that only read the journal, and may forget a copy in memory.
LEMMA LoadKeepsJournal ==
  ASSUME Sound, UNCHANGED world,
         UNCHANGED <<disk, mem>> \/ \E w \in Windows, st \in Storage : Load(w, st)
  PROVE  JournalKept
<1>1. CASE UNCHANGED <<disk, mem>>
  BY <1>1 DEF JournalKept, MemKept, Advances, Sound, TypeOK, NothingUnsaved, StorageMayFail
<1>2. CASE \E w \in Windows, st \in Storage : Load(w, st)
  BY <1>2, Loads DEF JournalKept, Advances, Sound, TypeOK
<1> QED
  BY <1>1, <1>2

LEMMA SaveKeepsJournal ==
  ASSUME Sound, UNCHANGED world, NEW w \in Windows, NEW st \in Storage, NEW r \in Records,
         Save(w, r, st)
  PROVE  JournalKept
<1>1. disk' \in Records
  BY Loads, WriteKeepsMem DEF Save, Sound, TypeOK
<1> QED
  BY <1>1, Saves DEF JournalKept

LEMMA ClearKeepsJournal ==
  ASSUME Sound, UNCHANGED world, NEW w \in Windows, NEW st \in Storage, NEW r \in Records,
         Clear(w, r, st), disk.id = r.id => r.id \in done' \cup dropped'
  PROVE  JournalKept
<1>1. disk' \in Records
  BY Loads, NoRecIs DEF Clear, Sound, TypeOK
<1> QED
  BY <1>1, Clears DEF JournalKept, Advances, Empties

\* The publication is written where the journal is empty.
LEMMA PublishQuiet ==
  ASSUME Sound, UNCHANGED world, NEW f \in Flows, Publish(f)
  PROVE  AsksNothing(f)
<1> DEFINE w == WindowOf[f]
           p == [id |-> next, stage |-> Publication]
<1>1. PICK st \in Storage :
        \/ /\ ~Conflicts(w, p, st) /\ st = "ok"
           /\ Write(w, p, st) /\ Go(f, "post", p) /\ next' = next + 1
           /\ UNCHANGED pubLock
        \/ /\ mem' = [mem EXCEPT ![w] = NoRec] /\ Rest(f)
           /\ pubLock' = None /\ UNCHANGED <<disk, next>>
        \/ /\ Load(w, st) /\ Rest(f) /\ pubLock' = None /\ UNCHANGED next
  BY DEF Publish
<1>2. /\ w \in Windows /\ next \in Bundles /\ pc[f] = "reserve"
      /\ UNCHANGED <<quote, payLock, asks, done, expired, dropped>>
  BY WindowOfType DEF Publish
<1>3. p \in Records
  BY <1>2 DEF Records, Publication, Paid
<1>4. CASE /\ ~Conflicts(w, p, st) /\ st = "ok"
           /\ Write(w, p, st) /\ Go(f, "post", p) /\ next' = next + 1
           /\ UNCHANGED pubLock
  <2>1. /\ Stored(w, st) \in Records
        /\ Stored(w, st) = NoRec \/ SameBundle(Stored(w, st), p)
    BY <1>2, <1>4, StoredFacts DEF Conflicts
  <2>2. Stored(w, st) = NoRec \/ (Stored(w, st).id = p.id /\ Stored(w, st).stage <= p.stage)
    BY <2>1 DEF SameBundle, Publication
  <2>3. Advances
    BY <1>2, <1>3, <1>4, <2>2, WriteAdvances
  <2>4. disk' = p
    BY <1>4 DEF Write
  <2>5. JournalKept
    BY <1>2, <1>3, <1>4, <2>3, <2>4, WriteKeepsMem DEF JournalKept
  <2>6. Moves(f)
    BY <1>2, <1>3, <1>4 DEF Moves, PCs
  <2>7. Posts
    BY <1>2, <1>4, <2>3, <2>4 DEF Posts
  <2> QED
    BY <1>2, <1>4, <2>5, <2>6, <2>7 DEF AsksNothing, Sound, TypeOK
<1>5. CASE /\ mem' = [mem EXCEPT ![w] = NoRec] /\ Rest(f)
           /\ pubLock' = None /\ UNCHANGED <<disk, next>>
  <2>1. MemKept
    BY <1>2, <1>5, NoRecIs DEF MemKept, Sound, TypeOK, NothingUnsaved, StorageMayFail
  <2> QED
    BY <1>2, <1>5, <2>1, Resting
    DEF AsksNothing, JournalKept, Advances, Posts, Sound, TypeOK
<1>6. CASE Load(w, st) /\ Rest(f) /\ pubLock' = None /\ UNCHANGED next
  BY <1>2, <1>6, LoadKeepsJournal, Resting DEF AsksNothing, Posts, Sound, TypeOK
<1> QED
  BY <1>1, <1>4, <1>5, <1>6

\* The quote replaces the publication record of its own bundle.
LEMMA PostAnsweredQuiet ==
  ASSUME Sound, UNCHANGED world, NEW f \in Flows, PostAnswered(f)
  PROVE  AsksNothing(f)
<1> DEFINE w == WindowOf[f]
           p == ses[f]
           q == [p EXCEPT !.stage = Quoted]
<1>1. /\ w \in Windows /\ pc[f] = "post" /\ p \in Records /\ p.id \in Bundles
      /\ p.stage = Publication
      /\ UNCHANGED <<payLock, next, asks, done, expired, dropped>>
      /\ pubLock' = None
  BY WindowOfType DEF PostAnswered, Sound, TypeOK, Holding
<1>2. q \in Records /\ q.id = p.id /\ q.stage = 0
  <2>1. q = [id |-> p.id, stage |-> 0] /\ [id |-> p.id, stage |-> 0] \in Records
    BY <1>1, Restaged, 0 \in -1 .. 2 DEF Quoted
  <2> QED
    BY <2>1
<1>3. PICK st \in Storage :
        \/ Load(w, st) /\ Rest(f) /\ UNCHANGED quote
        \/ /\ ~Conflicts(w, p, st) /\ quote' = [quote EXCEPT ![w] = p.id]
           /\ \/ st = "ok" /\ Write(w, q, st) /\ Go(f, "fund", q)
              \/ /\ st # "ok" /\ disk' = IF st = "off" THEN disk ELSE NoRec
                 /\ mem' = [mem EXCEPT ![w] = q] /\ Rest(f)
  BY DEF PostAnswered
<1>4. CASE Load(w, st) /\ Rest(f) /\ UNCHANGED quote
  BY <1>1, <1>4, LoadKeepsJournal, Resting DEF AsksNothing, Posts, Sound, TypeOK
<1>5. ASSUME ~Conflicts(w, p, st), quote' = [quote EXCEPT ![w] = p.id]
      PROVE  /\ st # "off" => disk = NoRec \/ (disk.id = p.id /\ disk.stage = Publication)
             /\ quote' \in [Windows -> 0 .. MaxBundles]
  <2>1. Stored(w, st) = NoRec \/ SameBundle(Stored(w, st), p)
    BY <1>5 DEF Conflicts
  <2>2. st # "off" => Seen(st) = disk
    BY DEF Seen
  <2>3. st # "off" => disk = NoRec \/ (disk.id = p.id /\ disk.stage = Publication)
    BY <1>1, <2>1, <2>2 DEF Stored, MemWins, SameBundle
  <2>4. quote' \in [Windows -> 0 .. MaxBundles]
    BY <1>1, <1>5, RecordFacts DEF Sound, TypeOK
  <2> QED
    BY <2>3, <2>4
<1>6. CASE ~Conflicts(w, p, st) /\ quote' = [quote EXCEPT ![w] = p.id]
           /\ st = "ok" /\ Write(w, q, st) /\ Go(f, "fund", q)
  <2>1. disk' = q /\ MemKept
    BY <1>1, <1>2, <1>6, WriteKeepsMem DEF Write
  <2>2. Advances
    BY <1>2, <1>5, <1>6, <2>1 DEF Advances, Publication
  <2>3. Moves(f)
    <3>1. Go(f, "fund", q) /\ q \in Records /\ q.id \in Bundles
      BY <1>1, <1>2, <1>6
    <3> HIDE DEF q
    <3> QED
      BY <3>1 DEF Moves, PCs
  <2> QED
    BY <1>1, <1>2, <1>5, <1>6, <2>1, <2>2, <2>3
    DEF AsksNothing, JournalKept, Posts, Sound, TypeOK
<1>7. CASE ~Conflicts(w, p, st) /\ quote' = [quote EXCEPT ![w] = p.id]
           /\ st # "ok" /\ disk' = (IF st = "off" THEN disk ELSE NoRec)
           /\ mem' = [mem EXCEPT ![w] = q] /\ Rest(f)
  <2>1. StorageMayFail
    BY <1>1, <1>7, StoredFacts
  <2>2. MemKept
    BY <1>1, <1>2, <1>7, <2>1 DEF MemKept, NothingUnsaved, Sound, TypeOK, StorageMayFail
  <2>3. disk' \in Records /\ (Advances \/ Empties)
    BY <1>5, <1>7, <2>1, NoRecIs DEF Advances, Empties, Sound, TypeOK
  <2> QED
    BY <1>1, <1>5, <1>7, <2>2, <2>3, Resting
    DEF AsksNothing, JournalKept, Posts, Sound, TypeOK
<1> QED
  BY <1>3, <1>4, <1>6, <1>7

LEMMA QuietAsksNothing ==
  ASSUME Sound, UNCHANGED world, NEW f \in Flows, QuietStep(f)
  PROVE  AsksNothing(f)
<1> DEFINE w == WindowOf[f]
<1>0. /\ w \in Windows /\ ses[f] \in Records /\ pc[f] \in PCs
      /\ pc[f] \notin {"idle", "sign", "reserve"} => ses[f].id \in Bundles
  BY WindowOfType DEF Sound, TypeOK, Holding
<1>1. ASSUME Run(f)  PROVE AsksNothing(f)
  <2>1. PICK st \in Storage :
          \/ Load(w, st) /\ Go(f, "sign", NoRec)
          \/ Fund(f, Stored(w, st).id, st)
          \/ Monitor(f, Stored(w, st), st)
    BY <1>1 DEF Run
  <2>2. LeavesRest(f) /\ UNCHANGED dropped
    BY <1>1 DEF Run, LeavesRest
  <2>3. Stored(w, st) \in Records
    BY <1>0, StoredFacts
  <2>4. Go(f, "sign", NoRec) => Moves(f)
    BY NoRecIs DEF Moves, PCs
  <2> QED
    BY <1>0, <2>1, <2>2, <2>3, <2>4, LoadKeepsJournal, FundMoves, MonitorMoves,
       LeavesRestAsksNothing
<1>2. ASSUME GiveUp(f) \/ PostLost(f) \/ Reverted(f) \/ Leave(f)  PROVE AsksNothing(f)
  <2>1. LeavesRest(f) /\ Rest(f) /\ UNCHANGED <<disk, mem, dropped>>
    BY <1>2 DEF GiveUp, PostLost, Reverted, Leave, LeavesRest
  <2> QED
    BY <2>1, LoadKeepsJournal, Resting, LeavesRestAsksNothing
<1>3. ASSUME CheckNew(f)  PROVE AsksNothing(f)
  <2>1. /\ LeavesRest(f) /\ UNCHANGED dropped
        /\ \E st \in Storage : Load(w, st)
        /\ Go(f, "reserve", NoRec) \/ Rest(f)
    BY <1>3 DEF CheckNew, LeavesRest
  <2>2. Moves(f)
    BY <2>1, NoRecIs, Resting DEF Moves, PCs
  <2> QED
    BY <1>0, <2>1, <2>2, LoadKeepsJournal, LeavesRestAsksNothing
<1>4. ASSUME OpenFunding(f)  PROVE AsksNothing(f)
  <2>1. PICK st \in Storage : Fund(f, ses[f].id, st)
    BY <1>4 DEF OpenFunding
  <2>2. LeavesRest(f) /\ UNCHANGED dropped
    BY <1>4 DEF OpenFunding, LeavesRest
  <2> QED
    BY <2>1, <2>2, FundMoves, LeavesRestAsksNothing
<1>5. ASSUME TakePayLock(f)  PROVE AsksNothing(f)
  <2>1. LeavesRest(f) /\ Go(f, "send", ses[f]) /\ UNCHANGED <<disk, mem, dropped>>
        /\ pc[f] = "modal"
    BY <1>5 DEF TakePayLock, LeavesRest
  <2>2. Moves(f)
    BY <1>0, <2>1 DEF Moves, PCs
  <2> QED
    BY <2>1, <2>2, LoadKeepsJournal, LeavesRestAsksNothing
<1>6. ASSUME SaveHash(f)  PROVE AsksNothing(f)
  <2>1. PICK st \in Storage : Save(w, ses[f], st) \/ Load(w, st)
    BY <1>6 DEF SaveHash
  <2>2. LeavesRest(f) /\ Go(f, "track", ses[f]) /\ UNCHANGED dropped /\ pc[f] = "hash"
    BY <1>6 DEF SaveHash, LeavesRest
  <2>3. Moves(f)
    BY <1>0, <2>2 DEF Moves, PCs
  <2> QED
    BY <1>0, <2>1, <2>2, <2>3, LoadKeepsJournal, SaveKeepsJournal, LeavesRestAsksNothing
<1>7. ASSUME StartMonitor(f)  PROVE AsksNothing(f)
  <2>1. PICK st \in Storage : Monitor(f, ses[f], st)
    BY <1>7 DEF StartMonitor
  <2>2. LeavesRest(f) /\ UNCHANGED dropped
    BY <1>7 DEF StartMonitor, LeavesRest
  <2> QED
    BY <1>0, <2>1, <2>2, MonitorMoves, LeavesRestAsksNothing
<1>8. ASSUME Tick(f) \/ PollEnds(f)  PROVE AsksNothing(f)
  <2>1. PICK st \in Storage :
          \/ /\ Save(w, ses[f], st)
             /\ \E to \in {"poll", "wait", "failed"} : Go(f, to, Saved(w, ses[f], st))
          \/ /\ Load(w, st)
             /\ UNCHANGED <<pc, ses>> \/ Go(f, "failed", ses[f])
    BY <1>8 DEF Tick, PollEnds
  <2>2. LeavesRest(f) /\ UNCHANGED dropped /\ pc[f] = "poll"
    BY <1>8 DEF Tick, PollEnds, LeavesRest
  <2>3. CASE /\ Save(w, ses[f], st)
             /\ \E to \in {"poll", "wait", "failed"} : Go(f, to, Saved(w, ses[f], st))
    <3>1. Saved(w, ses[f], st) \in Records /\ Saved(w, ses[f], st).id \in Bundles
      BY <1>0, <2>2, <2>3, Saves
    <3>2. Moves(f)
      BY <2>3, <3>1 DEF Moves, PCs
    <3> QED
      BY <1>0, <2>2, <2>3, <3>2, SaveKeepsJournal, LeavesRestAsksNothing
  <2>4. CASE Load(w, st) /\ (UNCHANGED <<pc, ses>> \/ Go(f, "failed", ses[f]))
    <3>1. UNCHANGED <<pc, ses>> => Go(f, "poll", ses[f])
      BY <2>2 DEF Go, Sound, TypeOK
    <3>2. Moves(f)
      BY <1>0, <2>2, <2>4, <3>1 DEF Moves, PCs
    <3> QED
      BY <1>0, <2>2, <2>4, <3>2, LoadKeepsJournal, LeavesRestAsksNothing
  <2> QED
    BY <2>1, <2>3, <2>4
<1>9. ASSUME Verified(f)  PROVE AsksNothing(f)
  <2>1. PICK st \in Storage : Clear(w, ses[f], st)
    BY <1>9 DEF Verified
  <2>2. LeavesRest(f) /\ Rest(f) /\ UNCHANGED dropped /\ ses[f].id \in done'
    BY <1>9 DEF Verified, LeavesRest
  <2> QED
    BY <1>0, <2>1, <2>2, ClearKeepsJournal, Resting, LeavesRestAsksNothing
<1>10. ASSUME Check(f)  PROVE AsksNothing(f)
  <2> DEFINE r(st) == Refreshed(w, ses[f], st)
  <2>1. PICK st \in Storage :
          \/ r(st).stage > Quoted /\ Load(w, st) /\ Go(f, "poll", r(st))
          \/ Save(w, r(st), st) /\ Rest(f)
    BY <1>10 DEF Check
  <2>2. LeavesRest(f) /\ UNCHANGED dropped
    BY <1>10 DEF Check, LeavesRest
  <2>3. r(st) \in Records
    BY <1>0, StoredFacts DEF Refreshed
  <2>4. Moves(f)
    BY <2>1, <2>3, RecordFacts, Resting DEF Moves, PCs, Quoted
  <2> HIDE DEF r
  <2> QED
    BY <1>0, <2>1, <2>2, <2>3, <2>4, LoadKeepsJournal, SaveKeepsJournal, LeavesRestAsksNothing
<1>11. ASSUME ClearReceipt(f)  PROVE AsksNothing(f)
  <2>1. PICK st \in Storage : Clear(w, ses[f], st)
    BY <1>11 DEF ClearReceipt
  <2>2. LeavesRest(f) /\ Rest(f) /\ ses[f].id \in dropped' /\ pc[f] = "failed"
    BY <1>11 DEF ClearReceipt, LeavesRest
  <2> QED
    BY <1>0, <2>1, <2>2, ClearKeepsJournal, Resting, LeavesRestAsksNothing
<1>12. ASSUME StartRetire(f)  PROVE AsksNothing(f)
  <2>1. PICK st \in Storage :
          /\ Stored(w, st).stage = Quoted /\ Load(w, st) /\ Go(f, "retire", Stored(w, st))
    BY <1>12 DEF StartRetire
  <2>2. LeavesRest(f) /\ UNCHANGED dropped
    BY <1>12 DEF StartRetire, LeavesRest
  <2>3. Moves(f)
    BY <1>0, <2>1, StoredFacts, RecordFacts DEF Moves, PCs, Quoted
  <2> QED
    BY <1>0, <2>1, <2>2, <2>3, LoadKeepsJournal, LeavesRestAsksNothing
<1>13. ASSUME EndRetire(f)  PROVE AsksNothing(f)
  <2>1. PICK st \in Storage :
          \/ Clear(w, ses[f], st) /\ dropped' = dropped \cup {ses[f].id}
          \/ Load(w, st) /\ UNCHANGED dropped
    BY <1>13 DEF EndRetire
  <2>2. LeavesRest(f) /\ Rest(f) /\ pc[f] = "retire"
    BY <1>13 DEF EndRetire, LeavesRest
  <2> QED
    BY <1>0, <2>1, <2>2, LoadKeepsJournal, ClearKeepsJournal, Resting, LeavesRestAsksNothing
<1> QED
  BY <1>1, <1>2, <1>3, <1>4, <1>5, <1>6, <1>7, <1>8, <1>9, <1>10, <1>11, <1>12, <1>13,
     PublishQuiet, PostAnsweredQuiet DEF QuietStep

----------------------------------------------------------------------------
(* The steps that are about to ask the wallet, or hear from it.            *)

\* Giving up before the mark, or because the mark did not reach the disk.
LEMMA UnmarkedQuiet ==
  ASSUME Sound, UNCHANGED world, NEW f \in Flows, MarkSending(f),
         ~\E st \in Storage :
            /\ st = "ok" /\ StillUnpaid(WindowOf[f], ses[f], st)
            /\ Write(WindowOf[f], [ses[f] EXCEPT !.stage = Sending], st)
            /\ Go(f, "called", [ses[f] EXCEPT !.stage = Sending])
  PROVE  AsksNothing(f)
<1> DEFINE w == WindowOf[f]
           q == ses[f]
<1>0. w \in Windows /\ q \in Records
  BY WindowOfType DEF Sound, TypeOK
<1>1. PICK st \in Storage :
        \/ StillUnpaid(w, q, st) /\ st # "ok" /\ MarkFailed(f, w, q, st)
        \/ Load(w, st) /\ Rest(f) /\ payLock' = None
  BY DEF MarkSending
<1>2. LeavesRest(f) /\ UNCHANGED dropped /\ Rest(f)
  BY <1>1 DEF MarkSending, LeavesRest, MarkFailed
<1>3. CASE StillUnpaid(w, q, st) /\ st # "ok" /\ MarkFailed(f, w, q, st)
  <2>1. q.id \in Bundles /\ StorageMayFail
    BY <1>0, <1>3, UnpaidIs, StoredFacts DEF StillUnpaid
  <2>2. [q EXCEPT !.stage = Sending] = [id |-> q.id, stage |-> 1]
        /\ [id |-> q.id, stage |-> 1] \in Records
    BY <1>0, <2>1, Restaged, 1 \in -1 .. 2 DEF Sending
  <2>3. JournalKept
    BY <1>0, <1>3, <2>1, <2>2
    DEF MarkFailed, JournalKept, MemKept, Advances, NothingUnsaved, StorageMayFail, Sound, TypeOK
  <2> QED
    BY <1>2, <2>3, Resting, LeavesRestAsksNothing
<1>4. CASE Load(w, st) /\ Rest(f)
  BY <1>0, <1>2, <1>4, LoadKeepsJournal, Resting, LeavesRestAsksNothing
<1> QED
  BY <1>1, <1>3, <1>4

\* The mark is put where the disk has the quote, or nothing.
LEMMA Marks ==
  ASSUME Sound, UNCHANGED world, NEW f \in Flows, NEW st \in Storage, st = "ok",
         StillUnpaid(WindowOf[f], ses[f], st),
         Write(WindowOf[f], [ses[f] EXCEPT !.stage = Sending], st)
  PROVE  /\ ses[f].id \in Bundles
         /\ [ses[f] EXCEPT !.stage = Sending] = [id |-> ses[f].id, stage |-> Sending]
         /\ MemKept /\ Advances /\ disk.stage < Sending
         /\ disk' = [id |-> ses[f].id, stage |-> Sending] /\ disk' \in Records
<1> DEFINE w == WindowOf[f]
           q == ses[f]
<1>0. w \in Windows /\ q \in Records
  BY WindowOfType DEF Sound, TypeOK
<1>1. q.id \in Bundles /\ (disk = NoRec \/ (disk.id = q.id /\ disk.stage = Quoted))
  BY <1>0, UnpaidIs DEF StillUnpaid
<1>2. [q EXCEPT !.stage = Sending] = [id |-> q.id, stage |-> 1]
      /\ [id |-> q.id, stage |-> 1] \in Records
  BY <1>0, <1>1, Restaged, 1 \in -1 .. 2 DEF Sending
<1>3. disk' = [id |-> q.id, stage |-> 1]
  BY <1>2 DEF Write
<1>4. MemKept
  BY <1>0, <1>2, WriteKeepsMem
<1> QED
  BY <1>1, <1>2, <1>3, <1>4 DEF Advances, Quoted, Sending, NoRec

\* Taking back touches only a mark, and only of the flow's own bundle.
TakesBack(b) ==
  /\ disk = NoRec \/ disk.id = b
  /\ disk.stage <= Sending
  /\ disk' = [id |-> b, stage |-> Quoted]

LEMMA Restores ==
  ASSUME Sound, UNCHANGED world, NEW w \in Windows, NEW st \in Storage, NEW r \in Records,
         Restore(w, r, st)
  PROVE  /\ MemKept /\ disk' \in Records
         /\ disk' = disk \/ TakesBack(r.id)
<1>1. disk \in Records /\ mem[w] \in Records
  BY DEF Sound, TypeOK
<1>2. CASE Stored(w, st) = [id |-> r.id, stage |-> Sending]
  <2> DEFINE q == [id |-> r.id, stage |-> Quoted]
  <2>0. r.id \in Bundles
    BY <1>2, StoredFacts, RecordFacts DEF Sending
  <2>1. q \in Records
    BY <2>0 DEF Records, Publication, Quoted, Paid
  <2>2. Write(w, q, st)
    BY <1>2 DEF Restore
  <2>3. MemKept /\ disk' \in Records
    BY <2>1, <2>2, WriteKeepsMem
  <2>4. CASE st = "ok"
    <3>1. disk' = q /\ Seen(st) = disk
      BY <2>2, <2>4 DEF Write, Seen
    <3>2. CASE MemWins(w, st)
      BY <1>1, <1>2, <2>3, <3>1, <3>2, RecordFacts
      DEF MemWins, Stored, SameBundle, TakesBack, Sending, NoRec
    <3>3. CASE ~MemWins(w, st)
      BY <1>2, <2>3, <3>1, <3>3 DEF Stored, TakesBack, Sending
    <3> QED
      BY <3>2, <3>3
  <2>5. CASE st # "ok"
    BY <2>2, <2>3, <2>5 DEF Write
  <2> QED
    BY <2>4, <2>5
<1>3. CASE Stored(w, st) # [id |-> r.id, stage |-> Sending]
  BY <1>1, <1>3, Loads DEF Restore
<1> QED
  BY <1>2, <1>3

----------------------------------------------------------------------------
(* The invariant.                                                          *)

\* A mark stays until its bundle is closed.
LEMMA MarkStays ==
  ASSUME Sound, JournalKept, NEW b, Marked(b), b \notin done' \cup dropped'
  PROVE  Marked(b)'
BY RecordFacts
DEF Marked, JournalKept, Advances, Empties, Sound, TypeOK, NoRec, Sending, Publication

LEMMA QuietKeeps ==
  ASSUME SessionInv, UNCHANGED world, NEW f \in Flows, AsksNothing(f)
  PROVE  SessionInv'
<1>1. PICK to \in PCs \ {"called", "prompt"}, s \in Records :
        /\ pc' = [pc EXCEPT ![f] = to] /\ ses' = [ses EXCEPT ![f] = s]
        /\ to \notin {"idle", "sign", "reserve"} => s.id \in Bundles
        /\ to = "post" => s.stage = Publication
  BY DEF AsksNothing, Moves, Go
<1>2. /\ TypeOK /\ JournalKept /\ Sound /\ Attempts
      /\ pc \in [Flows -> PCs] /\ ses \in [Flows -> Records]
      /\ asks \in [Asks -> [of : 0 .. MaxBundles, fate : Fates, to : Flows \cup {None}]]
      /\ asks' = asks
      /\ pc[f] \notin {"called", "prompt"}
  BY DEF AsksNothing, SessionInv, Sound, TypeOK
<1>3. TypeOK'
  <2>1. next' \in 1 .. MaxBundles + 1
    BY <1>2, RelayrSessionAssumption DEF AsksNothing, Posts, TypeOK, Bundles
  <2> QED
    BY <1>1, <1>2, <2>1
    DEF AsksNothing, JournalKept, MemKept, TypeOK, Bundles, Asks
<1>4. Holding'
  BY <1>1, <1>2 DEF Sound, Holding
<1>5. NothingUnsaved'
  BY <1>2 DEF JournalKept, MemKept
<1>6. \A b : Closed(b) => Closed(b)'
  BY DEF AsksNothing, Closed
<1>7. \A b : Marked(b) /\ ~Closed(b)' => Marked(b)'
  BY <1>2, MarkStays DEF Closed
<1>8. \A g \in Flows : pc'[g] = "called" => pc[g] = "called" /\ ses'[g] = ses[g]
  BY <1>1, <1>2
<1>9. \A n \in Asks : Pending(n)' <=> Pending(n)
  BY <1>2 DEF Pending
<1>10. Listening'
  BY <1>1, <1>2 DEF Attempts, Listening
<1>11. CallsMarked'
  BY <1>2, <1>6, <1>7, <1>8 DEF Attempts, CallsMarked
<1>12. AsksMarked'
  BY <1>2, <1>6, <1>7, <1>9 DEF Attempts, AsksMarked
<1>13. OneAttempt'
  BY <1>2, <1>6, <1>8, <1>9 DEF Attempts, OneAttempt
<1> QED
  BY <1>3, <1>4, <1>5, <1>10, <1>11, <1>12, <1>13 DEF SessionInv, Sound, Attempts

\* A step of a flow or prompt that leaves the journal, the locks and the windows typed.
LEMMA SoundStep ==
  ASSUME Sound, UNCHANGED world, MemKept, disk' \in Records,
         UNCHANGED <<next, expired, quote, pubLock>>,
         done' \subseteq Bundles, dropped' \subseteq Bundles,
         payLock' \in Flows \cup {None},
         asks' \in [Asks -> [of : 0 .. MaxBundles, fate : Fates, to : Flows \cup {None}]],
         \/ UNCHANGED <<pc, ses>>
         \/ \E f \in Flows, to \in PCs, s \in Records :
              /\ Go(f, to, s)
              /\ to \in {"idle", "called", "prompt", "unsure", "hash"}
              /\ to # "idle" => s.id \in Bundles
  PROVE  Sound'
<1>1. pc \in [Flows -> PCs] /\ ses \in [Flows -> Records]
  BY DEF Sound, TypeOK
<1>2. TypeOK'
  BY <1>1 DEF Sound, TypeOK, MemKept, Go, Bundles, Asks
<1>3. Holding'
  BY <1>1 DEF Sound, Holding, Go
<1> QED
  BY <1>2, <1>3 DEF Sound, MemKept

LEMMA MarkSendingKeeps ==
  ASSUME SessionInv, UNCHANGED world, NEW f \in Flows, MarkSending(f)
  PROVE  SessionInv'
<1> DEFINE Marking(st) ==
      /\ st = "ok" /\ StillUnpaid(WindowOf[f], ses[f], st)
      /\ Write(WindowOf[f], [ses[f] EXCEPT !.stage = Sending], st)
      /\ Go(f, "called", [ses[f] EXCEPT !.stage = Sending])
<1>1. CASE ~\E st \in Storage : Marking(st)
  BY <1>1, UnmarkedQuiet, QuietKeeps DEF SessionInv
<1>2. ASSUME NEW st \in Storage, Marking(st)  PROVE SessionInv'
  <2> DEFINE b == ses[f].id
             m == [id |-> ses[f].id, stage |-> Sending]
  <2>1. /\ Sound /\ Attempts
        /\ pc \in [Flows -> PCs] /\ ses \in [Flows -> Records]
        /\ pc[f] = "send"
        /\ UNCHANGED <<quote, pubLock, next, asks, done, expired, dropped>>
        /\ payLock' \in Flows \cup {None}
    BY <1>2 DEF SessionInv, Sound, TypeOK, MarkSending, MarkFailed
  <2>2. /\ b \in Bundles /\ MemKept /\ Advances /\ disk.stage < Sending
        /\ disk' = m /\ m \in Records
        /\ Go(f, "called", m)
    BY <1>2, <2>1, Marks
  <2> HIDE DEF m
  <2>3. m.id = b /\ m.stage = Sending
    BY DEF m
  <2>4. Sound'
    <3>1. "called" \in PCs
      BY DEF PCs
    <3> QED
      BY <2>1, <2>2, <2>3, <3>1, SoundStep DEF Sound, TypeOK
  <2>5. \A a : ~Marked(a)
    BY <2>1, <2>2, RecordFacts DEF Marked, Sending, Sound, TypeOK
  <2>6. /\ \A g \in Flows : g # f => pc'[g] = pc[g] /\ ses'[g] = ses[g]
        /\ pc'[f] = "called" /\ ses'[f].id = b
        /\ \A a : Closed(a)' <=> Closed(a)
        /\ \A n \in Asks : asks'[n] = asks[n] /\ (Pending(n)' <=> Pending(n))
    BY <2>1, <2>2, <2>3 DEF Go, Closed, Pending
  <2>7. Marked(b)'
    BY <2>2, <2>3, <2>6 DEF Marked, Sending
  <2>8. /\ \A g \in Flows : pc[g] = "called" => Closed(ses[g].id)
        /\ \A n \in Asks : Pending(n) => Closed(asks[n].of)
    BY <2>1, <2>5 DEF Attempts, CallsMarked, AsksMarked
  <2>9. Listening'
    BY <2>1, <2>6 DEF Attempts, Listening, Sound, TypeOK
  <2>10. CallsMarked'
    BY <2>6, <2>7, <2>8 DEF CallsMarked
  <2>11. AsksMarked'
    BY <2>6, <2>8 DEF AsksMarked
  <2>12. OneAttempt'
    BY <2>6, <2>8 DEF OneAttempt
  <2> QED
    BY <2>4, <2>9, <2>10, <2>11, <2>12 DEF SessionInv, Attempts
<1> QED
  BY <1>1, <1>2

\* The attempt of the flow becomes that of its prompt.
LEMMA AskKeeps ==
  ASSUME SessionInv, UNCHANGED world, NEW f \in Flows, Ask(f)
  PROVE  SessionInv'
<1>1. PICK n \in Asks :
        /\ asks[n] = NoAsk
        /\ asks' = [asks EXCEPT ![n] = [of |-> ses[f].id, fate |-> "open", to |-> f]]
  BY DEF Ask
<1>2. /\ Sound /\ Attempts
      /\ pc \in [Flows -> PCs] /\ ses \in [Flows -> Records]
      /\ asks \in [Asks -> [of : 0 .. MaxBundles, fate : Fates, to : Flows \cup {None}]]
      /\ pc[f] = "called" /\ ses[f].id \in Bundles /\ f # None
      /\ Go(f, "prompt", ses[f])
      /\ UNCHANGED <<disk, mem, quote, pubLock, payLock, next, done, expired, dropped>>
  BY RelayrSessionAssumption DEF SessionInv, Sound, TypeOK, Holding, Ask
<1>3. Sound'
  <2>1. [of |-> ses[f].id, fate |-> "open", to |-> f]
          \in [of : 0 .. MaxBundles, fate : Fates, to : Flows \cup {None}]
    BY <1>2, RelayrSessionAssumption DEF Bundles, Fates
  <2>2. asks' \in [Asks -> [of : 0 .. MaxBundles, fate : Fates, to : Flows \cup {None}]]
    BY <1>1, <1>2, <2>1
  <2>3. MemKept
    BY <1>2 DEF MemKept, Sound, TypeOK, NothingUnsaved, StorageMayFail
  <2>4. "prompt" \in PCs /\ ses[f] \in Records
    BY <1>2 DEF PCs
  <2> QED
    BY <1>2, <2>2, <2>3, <2>4, SoundStep DEF Sound, TypeOK
<1>4. /\ \A g \in Flows : g # f => pc'[g] = pc[g] /\ ses'[g] = ses[g]
      /\ pc'[f] = "prompt" /\ ses'[f] = ses[f]
      /\ \A m \in Asks : m # n => asks'[m] = asks[m]
      /\ asks'[n].of = ses[f].id /\ asks'[n].to = f
      /\ \A a : (Closed(a)' <=> Closed(a)) /\ (Marked(a)' <=> Marked(a))
  BY <1>1, <1>2 DEF Go, Closed, Marked
<1>5. \A m \in Asks : m # n => (Pending(m)' <=> Pending(m))
  BY <1>4 DEF Pending
<1>6. Listening'
  <2>1. \A m \in Asks : asks[m].to # f
    BY <1>2 DEF Attempts, Listening
  <2> QED
    BY <1>2, <1>4, <2>1 DEF Attempts, Listening
<1>7. CallsMarked'
  BY <1>4 , <1>2 DEF Attempts, CallsMarked
<1>8. AsksMarked'
  BY <1>2, <1>4, <1>5 DEF Attempts, CallsMarked, AsksMarked
<1>9. OneAttempt'
  <2>1. \A g \in Flows : pc'[g] = "called" => g # f /\ pc[g] = "called" /\ ses'[g] = ses[g]
    BY <1>4
  <2>2. ~Closed(ses[f].id) => \A m \in Asks : Pending(m) => asks[m].of # ses[f].id
    BY <1>2 DEF Attempts, OneAttempt
  <2> QED
    BY <1>2, <1>4, <1>5, <2>1, <2>2 DEF Attempts, OneAttempt
<1> QED
  BY <1>3, <1>6, <1>7, <1>8, <1>9 DEF SessionInv, Attempts

\* The answer n reaches f: nothing else waits for f, and n is no attempt any more
\* unless it may have been a payment.
LEMMA Heard ==
  ASSUME SessionInv, NEW f \in Flows, NEW n \in Asks, Hears(f, n)
  PROVE  /\ pc[f] = "prompt" /\ asks[n].to = f /\ asks[n].of = ses[f].id
         /\ ses[f] \in Records /\ ses[f].id \in Bundles
         /\ asks' \in [Asks -> [of : 0 .. MaxBundles, fate : Fates, to : Flows \cup {None}]]
         /\ asks'[n].of = asks[n].of /\ asks'[n].fate = asks[n].fate /\ asks'[n].to = None
         /\ \A m \in Asks : m # n => asks'[m] = asks[m] /\ asks'[m].to # f
         /\ \A m \in Asks : Pending(m)' => Pending(m) /\ asks'[m].of = asks[m].of
         /\ Pending(n)
         /\ asks[n].fate = "refused" => ~Pending(n)'
<1>1. /\ asks \in [Asks -> [of : 0 .. MaxBundles, fate : Fates, to : Flows \cup {None}]]
      /\ ses \in [Flows -> Records] /\ f # None
      /\ pc[f] = "prompt" /\ asks[n].to = f
      /\ asks' = [asks EXCEPT ![n].to = None]
  BY RelayrSessionAssumption DEF Hears, SessionInv, Sound, TypeOK
<1>2. asks[n].of = ses[f].id /\ ses[f].id \in Bundles
  BY <1>1 DEF SessionInv, Sound, Holding, Attempts, Listening
<1>3. \A m \in Asks : asks[m].to = f => m = n
  BY <1>1 DEF SessionInv, Attempts, Listening
<1>4. /\ asks'[n].of = asks[n].of /\ asks'[n].fate = asks[n].fate /\ asks'[n].to = None
      /\ \A m \in Asks : m # n => asks'[m] = asks[m] /\ asks'[m].to # f
      /\ asks' \in [Asks -> [of : 0 .. MaxBundles, fate : Fates, to : Flows \cup {None}]]
  BY <1>1, <1>3
<1>5. \A m \in Asks : Pending(m)' => Pending(m) /\ asks'[m].of = asks[m].of
  BY <1>4 DEF Pending
<1>6. Pending(n) /\ (asks[n].fate = "refused" => ~Pending(n)')
  BY <1>1, <1>4 DEF Pending
<1> QED
  BY <1>1, <1>2, <1>3, <1>4, <1>5, <1>6

\* A step of a flow at the wallet that opens no attempt, and leaves the mark of every
\* attempt there still is.
LEMMA AttemptsShrink ==
  ASSUME SessionInv, UNCHANGED world, NEW f \in Flows, NEW to \in {"idle", "unsure", "hash"},
         NEW s, Go(f, to, s), UNCHANGED <<done, dropped>>,
         \A m \in Asks : /\ Pending(m)' => Pending(m) /\ asks'[m].of = asks[m].of
                         /\ asks'[m].to # None => asks'[m] = asks[m] /\ asks[m].to # f,
         \/ disk' = disk
         \/ \A a : Marked(a) /\ ~Closed(a) =>
              /\ \A g \in Flows : pc[g] = "called" /\ ses[g].id = a => g = f
              /\ \A m \in Asks : Pending(m)' => asks[m].of # a
  PROVE  Attempts'
<1>1. /\ pc \in [Flows -> PCs] /\ ses \in [Flows -> Records] /\ Attempts
      /\ asks \in [Asks -> [of : 0 .. MaxBundles, fate : Fates, to : Flows \cup {None}]]
  BY DEF SessionInv, Sound, TypeOK
<1>2. /\ \A g \in Flows : g # f => pc'[g] = pc[g] /\ ses'[g] = ses[g]
      /\ pc'[f] = to /\ to \notin {"called", "prompt"}
      /\ \A a : Closed(a)' <=> Closed(a)
  BY <1>1 DEF Go, Closed
<1>3. \A g \in Flows : pc'[g] = "called" => g # f /\ pc[g] = "called" /\ ses'[g] = ses[g]
  BY <1>2
<1>4. disk' = disk => \A a : Marked(a)' <=> Marked(a)
  BY DEF Marked
<1>5. Listening'
  <2>1. \A m \in Asks : asks'[m].to # None => asks'[m] = asks[m] /\ asks[m].to \in Flows \ {f}
    BY <1>1
  <2> QED
    BY <1>1, <1>2, <2>1 DEF Attempts, Listening
<1>6. CallsMarked'
  BY <1>1, <1>2, <1>3, <1>4 DEF Attempts, CallsMarked
<1>7. AsksMarked'
  BY <1>1, <1>2, <1>4 DEF Attempts, AsksMarked
<1>8. OneAttempt'
  BY <1>1, <1>2, <1>3 DEF Attempts, OneAttempt
<1> QED
  BY <1>5, <1>6, <1>7, <1>8 DEF Attempts

\* The answer may have been a payment: the journal stays as it is.
LEMMA UnclearKeeps ==
  ASSUME SessionInv, UNCHANGED world, NEW f \in Flows, Unsure(f) \/ Answered(f)
  PROVE  SessionInv'
<1>1. PICK n \in Asks, to \in {"unsure", "hash"}, s \in {ses[f], [ses[f] EXCEPT !.stage = Paid]} :
        Hears(f, n) /\ Go(f, to, s)
  BY DEF Unsure, Answered
<1>2. /\ UNCHANGED <<disk, mem, quote, pubLock, next, done, expired, dropped>>
      /\ payLock' = None
  BY DEF Unsure, Answered
<1>3. s \in Records /\ s.id \in Bundles
  <2>1. [ses[f] EXCEPT !.stage = Paid] = [id |-> ses[f].id, stage |-> 2]
        /\ [id |-> ses[f].id, stage |-> 2] \in Records
    BY <1>1, Heard, Restaged, 2 \in -1 .. 2 DEF Paid
  <2> QED
    BY <1>1, <2>1, Heard
<1>4. MemKept
  BY <1>2 DEF MemKept, SessionInv, Sound, TypeOK, NothingUnsaved, StorageMayFail
<1>5. Sound'
  <2>1. to \in PCs
    BY DEF PCs
  <2>2. asks' \in [Asks -> [of : 0 .. MaxBundles, fate : Fates, to : Flows \cup {None}]]
    BY <1>1, Heard
  <2> QED
    BY <1>1, <1>2, <1>3, <1>4, <2>1, <2>2, SoundStep DEF SessionInv, Sound, TypeOK
<1>6. \A m \in Asks : /\ Pending(m)' => Pending(m) /\ asks'[m].of = asks[m].of
                      /\ asks'[m].to # None => asks'[m] = asks[m] /\ asks[m].to # f
  BY <1>1, Heard
<1>7. Attempts'
  BY <1>1, <1>2, <1>6, AttemptsShrink
<1> QED
  BY <1>5, <1>7 DEF SessionInv

\* A definite rejection, or no prompt at all: the mark that goes is the flow's own.
LEMMA TakeBackKeeps ==
  ASSUME SessionInv, UNCHANGED world, NEW f \in Flows, NotInvoked(f) \/ Rejected(f)
  PROVE  SessionInv'
<1> DEFINE b == ses[f].id
<1>1. /\ TakeBack(f)
      /\ \/ pc[f] = "called" /\ asks' = asks
         \/ \E n \in Asks : asks[n].fate = "refused" /\ Hears(f, n)
  BY DEF NotInvoked, Rejected
<1>2. PICK st \in Storage : Restore(WindowOf[f], ses[f], st) /\ Rest(f)
  BY <1>1 DEF TakeBack
<1>3. /\ Sound /\ Attempts /\ ses[f] \in Records /\ b \in Bundles
      /\ UNCHANGED <<quote, pubLock, next, done, expired, dropped>> /\ payLock' = None
  BY <1>1, Heard DEF TakeBack, SessionInv, Sound, TypeOK, Holding
<1>4. MemKept /\ disk' \in Records /\ (disk' = disk \/ TakesBack(b))
  BY <1>2, <1>3, Restores, WindowOfType
<1>5. Sound'
  <2>1. asks' \in [Asks -> [of : 0 .. MaxBundles, fate : Fates, to : Flows \cup {None}]]
    BY <1>1, <1>3, Heard DEF Sound, TypeOK
  <2>2. Go(f, "idle", NoRec) /\ "idle" \in PCs
    BY <1>2 DEF Rest, PCs
  <2> QED
    BY <1>3, <1>4, <2>1, <2>2, NoRecIs, SoundStep DEF Sound, TypeOK
<1>6. \A m \in Asks : /\ Pending(m)' => Pending(m) /\ asks'[m].of = asks[m].of
                      /\ asks'[m].to # None => asks'[m] = asks[m] /\ asks[m].to # f
  <2>1. CASE pc[f] = "called" /\ asks' = asks
    BY <1>3, <2>1 DEF Pending, Attempts, Listening
  <2> QED
    BY <1>1, <2>1, Heard
<1>7. ASSUME TakesBack(b), NEW a, Marked(a), ~Closed(a)
      PROVE  /\ \A g \in Flows : pc[g] = "called" /\ ses[g].id = a => g = f
             /\ \A m \in Asks : Pending(m)' => asks[m].of # a
  <2>1. a = b
    BY <1>7, <1>3, NoRecIs, RecordFacts DEF TakesBack, Marked, Sending
  <2>2. CASE pc[f] = "called" /\ asks' = asks
    <3>1. \A g \in Flows : pc[g] = "called" /\ ses[g].id = a => g = f
      BY <1>3, <1>7, <2>1, <2>2 DEF Attempts, OneAttempt
    <3>2. \A m \in Asks : Pending(m) => asks[m].of # a
      BY <1>3, <1>7, <2>1, <2>2 DEF Attempts, OneAttempt
    <3> QED
      BY <1>6, <3>1, <3>2
  <2>3. ASSUME NEW n \in Asks, asks[n].fate = "refused", Hears(f, n)
        PROVE  /\ \A g \in Flows : pc[g] = "called" /\ ses[g].id = a => g = f
               /\ \A m \in Asks : Pending(m)' => asks[m].of # a
    <3>1. Pending(n) /\ asks[n].of = a /\ ~Pending(n)'
      BY <2>1, <2>3, Heard
    <3>2. \A g \in Flows : pc[g] = "called" => ses[g].id # a
      BY <1>3, <1>7, <3>1 DEF Attempts, OneAttempt
    <3>3. \A m \in Asks : Pending(m) /\ asks[m].of = a => m = n
      BY <1>3, <1>7, <3>1 DEF Attempts, OneAttempt
    <3> QED
      BY <1>6, <3>1, <3>2, <3>3
  <2> QED
    BY <1>1, <2>2, <2>3
<1>8. Attempts'
  BY <1>2, <1>3, <1>4, <1>6, <1>7, AttemptsShrink DEF Rest
<1> QED
  BY <1>5, <1>8 DEF SessionInv

\* A reload ends the attempts of its flows; their prompts stay attempts.
LEMMA ReloadKeeps ==
  ASSUME SessionInv, UNCHANGED world, NEW w \in Windows, Reload(w)
  PROVE  SessionInv'
<1> DEFINE mine == {f \in Flows : WindowOf[f] = w}
<1>1. /\ Sound /\ Attempts /\ TypeOK
      /\ mem' = [mem EXCEPT ![w] = NoRec]
      /\ quote' = [quote EXCEPT ![w] = 0]
      /\ pc' = [f \in Flows |-> IF f \in mine THEN "idle" ELSE pc[f]]
      /\ ses' = [f \in Flows |-> IF f \in mine THEN NoRec ELSE ses[f]]
      /\ pubLock' = (IF pubLock \in mine THEN None ELSE pubLock)
      /\ payLock' = (IF payLock \in mine THEN None ELSE payLock)
      /\ asks' = [n \in Asks |-> IF asks[n].to \in mine THEN [asks[n] EXCEPT !.to = None]
                                                       ELSE asks[n]]
      /\ UNCHANGED <<disk, next, done, expired, dropped>>
  BY DEF Reload, SessionInv, Sound
<1>2. /\ asks \in [Asks -> [of : 0 .. MaxBundles, fate : Fates, to : Flows \cup {None}]]
      /\ pc \in [Flows -> PCs] /\ ses \in [Flows -> Records] /\ None \notin mine
  BY <1>1, RelayrSessionAssumption DEF TypeOK
<1> HIDE DEF mine
<1>3. Sound'
  <2>1. TypeOK'
    <3>1. asks' \in [Asks -> [of : 0 .. MaxBundles, fate : Fates, to : Flows \cup {None}]]
      BY <1>1, <1>2
    <3>2. pc' \in [Flows -> PCs]
      BY <1>1, <1>2 DEF PCs
    <3>3. ses' \in [Flows -> Records]
      BY <1>1, <1>2, NoRecIs
    <3>4. mem' \in [Windows -> Records] /\ quote' \in [Windows -> 0 .. MaxBundles]
      BY <1>1, NoRecIs, RelayrSessionAssumption DEF TypeOK
    <3>5. Asks' = Asks /\ Bundles' = Bundles
      BY DEF Asks, Bundles
    <3> QED
      BY <1>1, <3>1, <3>2, <3>3, <3>4, <3>5 DEF TypeOK
  <2>2. Holding'
    BY <1>1, <1>2 DEF Sound, Holding
  <2>3. NothingUnsaved'
    BY <1>1 DEF Sound, NothingUnsaved, StorageMayFail, TypeOK
  <2> QED
    BY <2>1, <2>2, <2>3 DEF Sound
<1>4. /\ \A f \in Flows : pc'[f] = "called" => pc[f] = "called" /\ ses'[f] = ses[f]
      /\ \A n \in Asks : asks'[n].of = asks[n].of /\ asks'[n].fate = asks[n].fate
      /\ \A n \in Asks : asks'[n].to # None =>
           asks'[n].to = asks[n].to /\ asks[n].to \in Flows \ mine
      /\ \A a : (Closed(a)' <=> Closed(a)) /\ (Marked(a)' <=> Marked(a))
  BY <1>1, <1>2 DEF Closed, Marked
<1>5. \A n \in Asks : Pending(n)' => Pending(n)
  BY <1>4 DEF Pending
<1>6. Listening'
  <2>1. \A f \in Flows \ mine : pc'[f] = pc[f] /\ ses'[f] = ses[f]
    BY <1>1
  <2> QED
    BY <1>1, <1>4, <2>1 DEF Attempts, Listening
<1>7. CallsMarked'
  BY <1>1, <1>4 DEF Attempts, CallsMarked
<1>8. AsksMarked'
  BY <1>1, <1>4, <1>5 DEF Attempts, AsksMarked
<1>9. OneAttempt'
  BY <1>1, <1>4, <1>5 DEF Attempts, OneAttempt
<1> QED
  BY <1>3, <1>6, <1>7, <1>8, <1>9 DEF SessionInv, Attempts

\* An answer, an execution and a schedule that passes can only end attempts.
LEMMA OutsideKeeps ==
  ASSUME SessionInv, UNCHANGED world,
         \/ \E n \in Asks : Answer(n)
         \/ \E b \in Bundles : Execute(b) \/ Expire(b)
  PROVE  SessionInv'
<1>1. /\ Sound /\ Attempts /\ TypeOK
      /\ UNCHANGED <<disk, mem, quote, pubLock, payLock, next, pc, ses, dropped>>
      /\ asks \in [Asks -> [of : 0 .. MaxBundles, fate : Fates, to : Flows \cup {None}]]
      /\ done \subseteq done' /\ done' \subseteq Bundles /\ expired' \subseteq Bundles
  BY DEF SessionInv, Sound, TypeOK, Answer, Execute, Expire
<1>2. /\ asks' \in [Asks -> [of : 0 .. MaxBundles, fate : Fates, to : Flows \cup {None}]]
      /\ \A n \in Asks : /\ asks'[n].of = asks[n].of /\ asks'[n].to = asks[n].to
                         /\ asks'[n].fate = asks[n].fate \/ asks[n].fate = "open"
  BY <1>1 DEF Answer, Execute, Expire, Fates
<1>3. Sound'
  <2>1. Asks' = Asks /\ Bundles' = Bundles
    BY DEF Asks, Bundles
  <2>2. TypeOK'
    BY <1>1, <1>2, <2>1 DEF TypeOK
  <2> QED
    BY <1>1, <2>2 DEF Sound, Holding, NothingUnsaved, StorageMayFail
<1>4. /\ \A n \in Asks : Pending(n)' => Pending(n)
      /\ \A a : (Closed(a) => Closed(a)') /\ (Marked(a)' <=> Marked(a))
  BY <1>1, <1>2 DEF Pending, Closed, Marked
<1>5. Listening'
  BY <1>1, <1>2 DEF Attempts, Listening
<1>6. CallsMarked' /\ AsksMarked' /\ OneAttempt'
  BY <1>1, <1>2, <1>4 DEF Attempts, CallsMarked, AsksMarked, OneAttempt
<1> QED
  BY <1>3, <1>5, <1>6 DEF SessionInv, Attempts

LEMMA InvInit == Init => SessionInv
<1> SUFFICES ASSUME Init PROVE SessionInv
  OBVIOUS
<1>1. TypeOK
  BY RelayrSessionAssumption, NoRecIs DEF Init, TypeOK, PCs, Asks, Bundles, NoAsk, Fates
<1>2. Holding /\ NothingUnsaved
  BY DEF Init, Holding, NothingUnsaved
<1>3. \A n \in Asks : ~Pending(n) /\ asks[n].to = None
  BY DEF Init, Pending, NoAsk
<1> QED
  BY <1>1, <1>2, <1>3
  DEF Init, SessionInv, Sound, Attempts, Listening, CallsMarked, AsksMarked, OneAttempt

LEMMA FlowStepIs ==
  ASSUME NEW f \in Flows, FlowStep(f)
  PROVE  \/ QuietStep(f) \/ MarkSending(f) \/ Ask(f) \/ NotInvoked(f)
         \/ Rejected(f) \/ Unsure(f) \/ Answered(f)
BY DEF FlowStep, QuietStep

LEMMA InvNext == SessionInv /\ [Next]_vars => SessionInv'
<1> SUFFICES ASSUME SessionInv, [Next]_vars PROVE SessionInv'
  OBVIOUS
<1>1. ASSUME NEW f \in Flows, FlowStep(f), UNCHANGED world  PROVE SessionInv'
  <2>1. CASE QuietStep(f)
    BY <1>1, <2>1, QuietAsksNothing, QuietKeeps DEF SessionInv
  <2> QED
    BY <1>1, <2>1, FlowStepIs, MarkSendingKeeps, AskKeeps, TakeBackKeeps, UnclearKeeps
<1>2. CASE UNCHANGED vars
  <2>1. /\ Asks' = Asks /\ Bundles' = Bundles
        /\ UNCHANGED <<world, disk, mem, quote, pubLock, payLock, next, pc, ses, asks, done,
                      expired, dropped>>
    BY <1>2 DEF vars, Asks, Bundles
  <2> QED
    BY <2>1
    DEF SessionInv, Sound, TypeOK, Holding, NothingUnsaved, StorageMayFail, Attempts, Listening,
        CallsMarked, AsksMarked, OneAttempt, Pending, Marked, Closed
<1> QED
  BY <1>1, <1>2, ReloadKeeps, OutsideKeeps DEF Next

----------------------------------------------------------------------------
(* What a step may do to the record on disk.                               *)

\* It is replaced by its own bundle, at a stage that is not earlier or after a mark is
\* taken back; it is filled where it is empty; or it goes for a reason.
JournalStep ==
  \/ disk' = disk
  \/ disk = NoRec
  \/ disk'.id = disk.id /\ (disk'.stage >= disk.stage \/ disk.stage <= Sending)
  \/ Empties

LEMMA JournalSteps ==
  ASSUME SessionInv, [Next]_vars
  PROVE  /\ JournalStep
         /\ next' = next \/ (next' = next + 1 /\ disk'.id = next)
         /\ done \subseteq done' /\ dropped \subseteq dropped'
<1>1. ASSUME NEW f \in Flows, AsksNothing(f)
      PROVE  /\ JournalStep
             /\ next' = next \/ (next' = next + 1 /\ disk'.id = next)
             /\ done \subseteq done' /\ dropped \subseteq dropped'
  BY <1>1 DEF AsksNothing, Posts, JournalKept, JournalStep, Advances
<1>2. ASSUME NEW f \in Flows, UNCHANGED world, MarkSending(f),
             ~AsksNothing(f)
      PROVE  JournalStep /\ UNCHANGED <<next, done, dropped>>
  <2>1. Sound
    BY DEF SessionInv
  <2>2. Advances
    BY <1>2, <2>1, UnmarkedQuiet, Marks
  <2> QED
    BY <1>2, <2>2 DEF MarkSending, JournalStep, Advances
<1>3. ASSUME NEW f \in Flows, UNCHANGED world, NotInvoked(f) \/ Rejected(f)
      PROVE  JournalStep /\ UNCHANGED <<next, done, dropped>>
  <2>1. Sound /\ ses[f] \in Records /\ WindowOf[f] \in Windows
    BY WindowOfType DEF SessionInv, Sound, TypeOK
  <2>2. disk' = disk \/ TakesBack(ses[f].id)
    BY <1>3, <2>1, Restores DEF NotInvoked, Rejected, TakeBack
  <2> QED
    BY <1>3, <2>2 DEF NotInvoked, Rejected, TakeBack, TakesBack, JournalStep
<1>4. ASSUME NEW f \in Flows, Ask(f) \/ Unsure(f) \/ Answered(f)
      PROVE  JournalStep /\ UNCHANGED <<next, done, dropped>>
  BY <1>4 DEF Ask, Unsure, Answered, JournalStep
<1>5. ASSUME NEW w \in Windows, Reload(w)
      PROVE  JournalStep /\ UNCHANGED <<next, done, dropped>>
  BY <1>5 DEF Reload, JournalStep
<1>6. ASSUME \/ \E n \in Asks : Answer(n)
             \/ \E b \in Bundles : Execute(b) \/ Expire(b)
      PROVE  JournalStep /\ UNCHANGED <<next, dropped>> /\ done \subseteq done'
  BY <1>6 DEF Answer, Execute, Expire, JournalStep
<1>7. CASE UNCHANGED vars
  BY <1>7 DEF vars, JournalStep
<1>8. ASSUME NEW f \in Flows, FlowStep(f), UNCHANGED world
      PROVE  /\ JournalStep
             /\ next' = next \/ (next' = next + 1 /\ disk'.id = next)
             /\ done \subseteq done' /\ dropped \subseteq dropped'
  <2>1. CASE QuietStep(f)
    BY <1>1, <1>8, <2>1, QuietAsksNothing DEF SessionInv
  <2> QED
    BY <1>1, <1>2, <1>3, <1>4, <1>8, <2>1, FlowStepIs
<1> QED
  BY <1>5, <1>6, <1>7, <1>8 DEF Next

----------------------------------------------------------------------------
LEMMA InvHolds == Spec => []SessionInv
<1> QED
  BY InvInit, InvNext, PTL DEF Spec

\* Every variable keeps its type: what is saved, copied or restored is always a record of
\* one posted bundle (relayr.js 840-930).
THEOREM TypeCorrect == Spec => []TypeOK
<1>1. SessionInv => TypeOK
  BY DEF SessionInv, Sound
<1> QED
  BY <1>1, InvHolds, PTL

\* A payment that is or may come onchain has its record on disk, until its bundle is
\* verified complete or cleared by a user (relayr.js 840-930, 1052-1068).
THEOREM PaymentsJournaled == Spec => []PaymentJournaled
<1>1. SessionInv => PaymentJournaled
  BY DEF SessionInv, Attempts, AsksMarked, Marked, Pending, PaymentJournaled, Live
<1> QED
  BY <1>1, InvHolds, PTL

\* An action is never paid twice.  Neither Web Locks nor storage that works is needed:
\* onSending checks the journal and marks it in one run of the event loop
\* (relayr.js 640-700).
THEOREM NeverPaidTwice == Spec => []AtMostOneLivePayment
<1>1. SessionInv => AtMostOneLivePayment
  BY DEF SessionInv, Attempts, AsksMarked, OneAttempt, Marked, Pending, AtMostOneLivePayment, Live
<1> QED
  BY <1>1, InvHolds, PTL

\* A payment hash on disk is final until its bundle is closed (relayr.js 895-915).
THEOREM HashFinal == Spec => HashStays
<1>1. SessionInv /\ [Next]_vars =>
        (disk.stage = Paid =>
           disk' = disk \/ (disk' = NoRec /\ disk.id \in done' \cup dropped'))
  <2> SUFFICES ASSUME SessionInv, [Next]_vars, disk.stage = Paid
               PROVE  disk' = disk \/ (disk' = NoRec /\ disk.id \in done' \cup dropped')
    OBVIOUS
  <2>1. JournalStep
    BY JournalSteps
  <2>2. disk \in Records /\ disk' \in Records
    BY InvNext DEF SessionInv, Sound, TypeOK
  <2>3. disk # NoRec /\ ~(disk.stage <= Sending) /\ disk.stage # Publication
    BY DEF NoRec, Paid, Sending, Publication
  <2>4. disk'.id = disk.id /\ disk'.stage >= disk.stage => disk' = disk
    BY <2>2, RecordFacts DEF Paid
  <2> QED
    BY <2>1, <2>3, <2>4 DEF JournalStep, Empties
<1> QED
  BY <1>1, InvHolds, PTL DEF Spec, HashStays

\* Where storage works, the marker of requests that are signed and may be executed is on
\* disk and blocks fresh signatures (relayr.js 36-37).
THEOREM MarkedDurably == Spec => []SignedRequestsMarkedDurably
<1>1. Init => SignedRequestsMarkedDurably
  BY DEF Init, SignedRequestsMarkedDurably, SignedRequestsMarked
<1>2. SessionInv /\ SignedRequestsMarkedDurably /\ [Next]_vars => SignedRequestsMarkedDurably'
  <2> SUFFICES ASSUME SessionInv, SignedRequestsMarkedDurably, [Next]_vars, ~StorageMayFail',
                      NEW b \in 1 .. next' - 1, ~Closed(b)'
               PROVE  disk'.id = b
    BY DEF SignedRequestsMarkedDurably, SignedRequestsMarked
  <2>1. /\ JournalStep
        /\ next' = next \/ (next' = next + 1 /\ disk'.id = next)
        /\ done \subseteq done' /\ dropped \subseteq dropped'
    BY JournalSteps
  <2>2. next \in Nat /\ ~StorageMayFail
    BY RelayrSessionAssumption
    DEF SessionInv, Sound, TypeOK, StorageMayFail, Next, vars
  <2>3. CASE b \in 1 .. next - 1
    <3>1. disk.id = b
      BY <2>1, <2>2, <2>3 DEF SignedRequestsMarkedDurably, SignedRequestsMarked, Closed
    <3>2. b \notin done' \cup dropped' /\ disk # NoRec
      BY <2>2, <2>3, <3>1 DEF Closed, NoRec
    <3> QED
      BY <2>1, <2>2, <3>1, <3>2 DEF JournalStep, Empties
  <2>4. CASE b \notin 1 .. next - 1
    BY <2>1, <2>2, <2>4
  <2> QED
    BY <2>3, <2>4
<1> QED
  BY <1>1, <1>2, InvHolds, PTL DEF Spec

----------------------------------------------------------------------------
(* A hash is recorded only of a payment that was sent.                     *)

\* A record with a hash is of a bundle that some prompt of a paid.
Backed(r, a) == r.stage = Paid => \E n \in Asks : a[n].of = r.id /\ a[n].fate = "sent"

HashesBacked ==
  /\ Backed(disk, asks)
  /\ \A w \in Windows : Backed(mem[w], asks)
  /\ \A f \in Flows : Backed(ses[f], asks)

\* The journal after the step has only hashes of payments that were sent before it.
JournalBacked ==
  /\ Backed(disk', asks)
  /\ \A w \in Windows : Backed(mem'[w], asks)

\* So has the flow that took the step.
FlowBacked(f) == \E to, s : Go(f, to, s) /\ Backed(s, asks)

LEMMA Unhashed ==
  \A r, a : r.stage # Paid => Backed(r, a)
BY DEF Backed

LEMMA NoRecBacked == \A a : Backed(NoRec, a)
BY DEF Backed, NoRec, Paid

LEMMA StoredBacked ==
  ASSUME HashesBacked, NEW w \in Windows, NEW st \in Storage
  PROVE  Backed(Stored(w, st), asks) /\ Backed(Seen(st), asks)
BY NoRecBacked DEF HashesBacked, Stored, Seen

LEMMA LoadBacked ==
  ASSUME Sound, HashesBacked, UNCHANGED <<disk, mem>> \/ \E w \in Windows, st \in Storage : Load(w, st)
  PROVE  JournalBacked
BY NoRecBacked DEF HashesBacked, JournalBacked, Load, MemRead, Sound, TypeOK

LEMMA WriteBacked ==
  ASSUME Sound, HashesBacked, NEW w \in Windows, NEW st \in Storage, NEW r, Write(w, r, st),
         Backed(r, asks)
  PROVE  JournalBacked
BY NoRecBacked DEF HashesBacked, JournalBacked, Write, Sound, TypeOK

LEMMA SaveBacked ==
  ASSUME Sound, HashesBacked, NEW w \in Windows, NEW st \in Storage, NEW r, Save(w, r, st),
         Backed(r, asks)
  PROVE  JournalBacked /\ Backed(Saved(w, r, st), asks)
BY LoadBacked, WriteBacked, StoredBacked DEF Save, Saved

LEMMA ClearBacked ==
  ASSUME Sound, HashesBacked, NEW w \in Windows, NEW st \in Storage, NEW r, Clear(w, r, st)
  PROVE  JournalBacked
<1>1. CASE Conflicts(w, r, st)
  BY <1>1, LoadBacked DEF Clear
<1>2. CASE ~Conflicts(w, r, st)
  BY <1>2, NoRecBacked DEF Clear, HashesBacked, JournalBacked, Sound, TypeOK
<1> QED
  BY <1>1, <1>2

LEMMA RestoreBacked ==
  ASSUME Sound, HashesBacked, NEW w \in Windows, NEW st \in Storage, NEW r, Restore(w, r, st)
  PROVE  JournalBacked
<1>1. Backed([id |-> r.id, stage |-> Quoted], asks)
  BY DEF Backed, Quoted, Paid
<1> QED
  BY <1>1, LoadBacked, WriteBacked DEF Restore

LEMMA RestBacked ==
  ASSUME NEW f \in Flows, Rest(f)
  PROVE  FlowBacked(f)
BY NoRecBacked DEF Rest, FlowBacked

LEMMA FundBacked ==
  ASSUME Sound, HashesBacked, NEW f \in Flows, NEW st \in Storage, NEW b, Fund(f, b, st)
  PROVE  JournalBacked /\ FlowBacked(f)
<1> DEFINE q == [id |-> b, stage |-> Quoted]
<1>0. WindowOf[f] \in Windows
  BY WindowOfType
<1>1. Backed(q, asks)
  BY DEF Backed, Quoted, Paid
<1>2. JournalBacked
  BY <1>0, <1>1, LoadBacked, WriteBacked DEF Fund
<1>3. Rest(f) \/ Go(f, "modal", q)
  BY DEF Fund
<1> QED
  BY <1>1, <1>2, <1>3, RestBacked DEF FlowBacked

LEMMA MonitorBacked ==
  ASSUME Sound, HashesBacked, NEW f \in Flows, NEW st \in Storage, NEW s, Monitor(f, s, st),
         Backed(s, asks)
  PROVE  JournalBacked /\ FlowBacked(f)
<1> DEFINE w == WindowOf[f]
           r == Refreshed(w, s, st)
<1>0. w \in Windows
  BY WindowOfType
<1>1. Backed(r, asks)
  BY <1>0, StoredBacked DEF Refreshed
<1>2. CASE Load(w, st) /\ Rest(f)
  BY <1>0, <1>2, LoadBacked, RestBacked
<1>3. CASE Save(w, r, st) /\ (Go(f, "poll", Saved(w, r, st)) \/ Rest(f))
  <2>1. JournalBacked /\ Backed(Saved(w, r, st), asks)
    BY <1>0, <1>1, <1>3, SaveBacked
  <2> QED
    BY <1>3, <2>1, RestBacked DEF FlowBacked
<1> QED
  BY <1>2, <1>3 DEF Monitor

\* The steps that read, write or clear the journal for a session they have loaded.
LEMMA QuietBacked ==
  ASSUME Sound, HashesBacked, NEW f \in Flows, QuietStep(f)
  PROVE  JournalBacked /\ FlowBacked(f)
<1> DEFINE w == WindowOf[f]
<1>0. w \in Windows /\ Backed(ses[f], asks) /\ ses[f] \in Records
  BY WindowOfType DEF HashesBacked, Sound, TypeOK
<1>1. \A to : Go(f, to, ses[f]) => FlowBacked(f)
  BY <1>0 DEF FlowBacked
<1>2. CASE Run(f)
  <2>1. PICK st \in Storage :
          \/ Load(w, st) /\ Go(f, "sign", NoRec)
          \/ Fund(f, Stored(w, st).id, st)
          \/ Monitor(f, Stored(w, st), st)
    BY <1>2 DEF Run
  <2>2. Go(f, "sign", NoRec) => FlowBacked(f)
    BY NoRecBacked DEF FlowBacked
  <2> QED
    BY <1>0, <2>1, <2>2, LoadBacked, FundBacked, MonitorBacked, StoredBacked
<1>3. CASE GiveUp(f) \/ PostLost(f) \/ Reverted(f) \/ Leave(f)
  BY <1>3, LoadBacked, RestBacked DEF GiveUp, PostLost, Reverted, Leave
<1>4. CASE CheckNew(f)
  <2>1. (\E st \in Storage : Load(w, st)) /\ (Go(f, "reserve", NoRec) \/ Rest(f))
    BY <1>4 DEF CheckNew
  <2>2. Go(f, "reserve", NoRec) => FlowBacked(f)
    BY NoRecBacked DEF FlowBacked
  <2> QED
    BY <1>0, <2>1, <2>2, LoadBacked, RestBacked
<1>5. CASE Publish(f)
  <2> DEFINE p == [id |-> next, stage |-> Publication]
  <2>1. Backed(p, asks)
    BY DEF Backed, Publication, Paid
  <2>2. PICK st \in Storage :
          \/ Write(w, p, st) /\ Go(f, "post", p)
          \/ mem' = [mem EXCEPT ![w] = NoRec] /\ disk' = disk /\ Rest(f)
          \/ Load(w, st) /\ Rest(f)
    BY <1>5 DEF Publish
  <2>3. CASE Write(w, p, st) /\ Go(f, "post", p)
    BY <1>0, <2>1, <2>3, WriteBacked DEF FlowBacked
  <2>4. CASE mem' = [mem EXCEPT ![w] = NoRec] /\ disk' = disk /\ Rest(f)
    BY <2>4, RestBacked, NoRecBacked DEF HashesBacked, JournalBacked, Sound, TypeOK
  <2> QED
    BY <1>0, <2>2, <2>3, <2>4, LoadBacked, RestBacked
<1>6. CASE PostAnswered(f)
  <2> DEFINE q == [ses[f] EXCEPT !.stage = Quoted]
  <2>1. q.stage = Quoted
    BY <1>0 DEF Records, NoRec
  <2>2. Backed(q, asks)
    BY <2>1 DEF Backed, Quoted, Paid
  <2>3. PICK st \in Storage :
          \/ Load(w, st) /\ Rest(f)
          \/ Write(w, q, st) /\ Go(f, "fund", q)
          \/ /\ disk' = IF st = "off" THEN disk ELSE NoRec
             /\ mem' = [mem EXCEPT ![w] = q] /\ Rest(f)
    BY <1>6 DEF PostAnswered
  <2>4. CASE /\ disk' = IF st = "off" THEN disk ELSE NoRec
             /\ mem' = [mem EXCEPT ![w] = q] /\ Rest(f)
    BY <2>2, <2>4, RestBacked, NoRecBacked DEF HashesBacked, JournalBacked, Sound, TypeOK
  <2>5. Go(f, "fund", q) => FlowBacked(f)
    BY <2>2 DEF FlowBacked
  <2> HIDE DEF q
  <2> QED
    BY <1>0, <2>2, <2>3, <2>4, <2>5, LoadBacked, WriteBacked, RestBacked
<1>7. CASE OpenFunding(f)
  BY <1>7, FundBacked DEF OpenFunding
<1>8. CASE TakePayLock(f)
  BY <1>1, <1>8, LoadBacked DEF TakePayLock
<1>9. CASE SaveHash(f)
  <2>1. PICK st \in Storage : Save(w, ses[f], st) \/ Load(w, st)
    BY <1>9 DEF SaveHash
  <2>2. Go(f, "track", ses[f])
    BY <1>9 DEF SaveHash
  <2> QED
    BY <1>0, <1>1, <2>1, <2>2, LoadBacked, SaveBacked
<1>10. CASE StartMonitor(f)
  BY <1>0, <1>10, MonitorBacked DEF StartMonitor
<1>11. CASE Tick(f) \/ PollEnds(f)
  <2>1. PICK st \in Storage :
          \/ Save(w, ses[f], st) /\ \E to : Go(f, to, Saved(w, ses[f], st))
          \/ Load(w, st) /\ (UNCHANGED <<pc, ses>> \/ Go(f, "failed", ses[f]))
    BY <1>11 DEF Tick, PollEnds
  <2>2. CASE Save(w, ses[f], st) /\ \E to : Go(f, to, Saved(w, ses[f], st))
    BY <1>0, <2>2, SaveBacked DEF FlowBacked
  <2>3. UNCHANGED <<pc, ses>> => Go(f, pc[f], ses[f])
    BY DEF Go, Sound, TypeOK
  <2> QED
    BY <1>0, <1>1, <2>1, <2>2, <2>3, LoadBacked
<1>12. CASE Verified(f) \/ ClearReceipt(f)
  <2>1. PICK st \in Storage : Clear(w, ses[f], st) /\ Rest(f)
    BY <1>12 DEF Verified, ClearReceipt
  <2> QED
    BY <1>0, <2>1, ClearBacked, RestBacked
<1>13. CASE Check(f)
  <2>1. PICK st \in Storage :
          LET r == Refreshed(w, ses[f], st)
          IN (Load(w, st) /\ Go(f, "poll", r)) \/ (Save(w, r, st) /\ Rest(f))
    BY <1>13 DEF Check
  <2>2. Backed(Refreshed(w, ses[f], st), asks)
    BY <1>0, StoredBacked DEF Refreshed
  <2> QED
    BY <1>0, <2>1, <2>2, LoadBacked, SaveBacked, RestBacked DEF FlowBacked
<1>14. CASE StartRetire(f)
  <2>1. PICK st \in Storage : Load(w, st) /\ Go(f, "retire", Stored(w, st))
    BY <1>14 DEF StartRetire
  <2> QED
    BY <1>0, <2>1, LoadBacked, StoredBacked DEF FlowBacked
<1>15. CASE EndRetire(f)
  <2>1. PICK st \in Storage : (Clear(w, ses[f], st) \/ Load(w, st)) /\ Rest(f)
    BY <1>15 DEF EndRetire
  <2> QED
    BY <1>0, <2>1, ClearBacked, LoadBacked, RestBacked
<1> QED
  BY <1>2, <1>3, <1>4, <1>5, <1>6, <1>7, <1>8, <1>9, <1>10, <1>11, <1>12, <1>13, <1>14, <1>15
  DEF QuietStep

\* The steps at the wallet: the answer is what a hash is saved from.
LEMMA WalletBacked ==
  ASSUME SessionInv, HashesBacked, NEW f \in Flows,
         MarkSending(f) \/ Ask(f) \/ NotInvoked(f) \/ Rejected(f) \/ Unsure(f) \/ Answered(f)
  PROVE  JournalBacked /\ FlowBacked(f)
<1> DEFINE w == WindowOf[f]
           m == [ses[f] EXCEPT !.stage = Sending]
<1>0. Sound /\ w \in Windows /\ Backed(ses[f], asks) /\ ses[f] \in Records
  BY WindowOfType DEF SessionInv, HashesBacked, Sound, TypeOK
<1>1. Backed(m, asks)
  BY <1>0 DEF Backed, Sending, Paid, Records, NoRec
<1>2. CASE MarkSending(f)
  <2>1. PICK st \in Storage :
          \/ Write(w, m, st) /\ Go(f, "called", m)
          \/ MarkFailed(f, w, ses[f], st)
          \/ Load(w, st) /\ Rest(f)
    BY <1>2 DEF MarkSending
  <2>2. CASE MarkFailed(f, w, ses[f], st)
    BY <1>0, <1>1, <2>2, RestBacked DEF MarkFailed, HashesBacked, JournalBacked, Sound, TypeOK
  <2>3. Go(f, "called", m) => FlowBacked(f)
    BY <1>1 DEF FlowBacked
  <2> HIDE DEF m
  <2> QED
    BY <1>0, <1>1, <2>1, <2>2, <2>3, LoadBacked, WriteBacked, RestBacked
<1>3. CASE Ask(f) \/ Unsure(f)
  BY <1>0, <1>3, LoadBacked DEF Ask, Unsure, FlowBacked
<1>4. CASE NotInvoked(f) \/ Rejected(f)
  BY <1>0, <1>4, RestoreBacked, RestBacked DEF NotInvoked, Rejected, TakeBack
<1>5. CASE Answered(f)
  <2>1. PICK n \in Asks : /\ asks[n].fate = "sent" /\ Hears(f, n)
                          /\ Go(f, "hash", [ses[f] EXCEPT !.stage = Paid])
    BY <1>5 DEF Answered
  <2>2. asks[n].of = ses[f].id
    BY <2>1, Heard
  <2>3. Backed([ses[f] EXCEPT !.stage = Paid], asks)
    BY <1>0, <2>1, <2>2 DEF Backed, Records, NoRec
  <2>4. JournalBacked
    BY <1>0, <1>5, LoadBacked DEF Answered
  <2> QED
    BY <2>1, <2>3, <2>4 DEF FlowBacked
<1> QED
  BY <1>2, <1>3, <1>4, <1>5

\* What was sent stays sent.
LEMMA SentStays ==
  ASSUME SessionInv, [Next]_vars, NEW n \in Asks, asks[n].fate = "sent"
  PROVE  asks'[n].fate = "sent" /\ asks'[n].of = asks[n].of
<1>1. asks \in [Asks -> [of : 0 .. MaxBundles, fate : Fates, to : Flows \cup {None}]]
  BY DEF SessionInv, Sound, TypeOK
<1>2. ASSUME NEW f \in Flows, FlowStep(f), UNCHANGED world
      PROVE  asks'[n].fate = "sent" /\ asks'[n].of = asks[n].of
  <2>1. CASE QuietStep(f)
    BY <1>2, <2>1, QuietAsksNothing DEF AsksNothing, SessionInv
  <2>2. CASE MarkSending(f) \/ NotInvoked(f)
    BY <2>2 DEF MarkSending, NotInvoked
  <2>3. CASE Ask(f)
    BY <1>1, <2>3 DEF Ask, NoAsk
  <2>4. CASE Rejected(f) \/ Unsure(f) \/ Answered(f)
    BY <1>1, <2>4 DEF Rejected, Unsure, Answered, Hears
  <2> QED
    BY <1>2, <2>1, <2>2, <2>3, <2>4, FlowStepIs
<1>3. CASE \E w \in Windows : Reload(w)
  BY <1>1, <1>3 DEF Reload
<1>4. CASE \/ \E m \in Asks : Answer(m)
           \/ \E b \in Bundles : Execute(b) \/ Expire(b)
  BY <1>1, <1>4 DEF Answer, Execute, Expire
<1>5. CASE UNCHANGED vars
  BY <1>5 DEF vars
<1> QED
  BY <1>2, <1>3, <1>4, <1>5 DEF Next

LEMMA BackedStays ==
  ASSUME SessionInv, [Next]_vars
  PROVE  \A r : Backed(r, asks) => Backed(r, asks')
BY SentStays DEF Backed

LEMMA BackedNext == SessionInv /\ HashesBacked /\ [Next]_vars => HashesBacked'
<1> SUFFICES ASSUME SessionInv, HashesBacked, [Next]_vars PROVE HashesBacked'
  OBVIOUS
<1>1. /\ Sound /\ mem \in [Windows -> Records] /\ ses \in [Flows -> Records]
      /\ \A r : Backed(r, asks) => Backed(r, asks')
  BY BackedStays DEF SessionInv, Sound, TypeOK
<1>2. ASSUME NEW f \in Flows, FlowStep(f), UNCHANGED world  PROVE HashesBacked'
  <2>1. JournalBacked /\ FlowBacked(f)
    BY <1>1, <1>2, FlowStepIs, QuietBacked, WalletBacked
  <2>2. \A g \in Flows : Backed(ses'[g], asks)
    BY <1>1, <2>1 DEF FlowBacked, Go, HashesBacked
  <2> QED
    BY <1>1, <2>1, <2>2 DEF JournalBacked, HashesBacked
<1>3. CASE \E w \in Windows : Reload(w)
  BY <1>1, <1>3, NoRecBacked DEF Reload, HashesBacked
<1>4. CASE \/ \E m \in Asks : Answer(m)
           \/ \E b \in Bundles : Execute(b) \/ Expire(b)
  BY <1>1, <1>4 DEF Answer, Execute, Expire, HashesBacked
<1>5. CASE UNCHANGED vars
  BY <1>1, <1>5 DEF vars, HashesBacked
<1> QED
  BY <1>2, <1>3, <1>4, <1>5 DEF Next

LEMMA BackedHolds == Spec => []HashesBacked
<1>1. Init => HashesBacked
  BY NoRecBacked DEF Init, HashesBacked
<1> QED
  BY <1>1, BackedNext, InvHolds, PTL DEF Spec

----------------------------------------------------------------------------
(* A payment is a SendJournal.                                             *)

\* No prompt is opened, and none ends.
SamePrompts ==
  \A n \in Asks :
    /\ asks'[n].of = asks[n].of
    /\ asks'[n].fate \in {"open", "sent"} <=> asks[n].fate \in {"open", "sent"}

\* Bundle b is done with, and its record may go.
Closes(b) ==
  /\ done' \cup dropped' = (done \cup dropped) \cup {b}
  /\ disk' = disk \/ (disk' = NoRec /\ (disk.id = b \/ disk = NoRec))

\* A step changes what is closed, or opens or ends one prompt, or neither.
LEMMA PaymentSteps ==
  ASSUME SessionInv, [Next]_vars
  PROVE  \/ SamePrompts /\ UNCHANGED <<done, dropped>>
         \/ SamePrompts /\ \E b \in Bundles : Closes(b)
         \/ \E f \in Flows : Ask(f)
         \/ /\ \E n \in Asks : /\ asks[n].fate = "open"
                               /\ asks' = [asks EXCEPT ![n].fate = "refused"]
            /\ UNCHANGED <<disk, done, dropped>>
<1>1. /\ asks \in [Asks -> [of : 0 .. MaxBundles, fate : Fates, to : Flows \cup {None}]]
      /\ Sound
  BY DEF SessionInv, Sound, TypeOK
<1>2. asks' = asks => SamePrompts
  BY DEF SamePrompts
<1>3. ASSUME NEW f \in Flows, QuietStep(f), UNCHANGED world
      PROVE  SamePrompts /\ (UNCHANGED <<done, dropped>> \/ \E b \in Bundles : Closes(b))
  <2>1. SamePrompts
    BY <1>1, <1>2, <1>3, QuietAsksNothing DEF AsksNothing
  <2>2. CASE ~ClearReceipt(f) /\ ~EndRetire(f)
    BY <1>3, <2>1, <2>2
    DEF QuietStep, Run, GiveUp, CheckNew, Publish, PostLost, PostAnswered, OpenFunding,
        TakePayLock, SaveHash, Reverted, StartMonitor, Tick, PollEnds, Verified, Check, Leave,
        StartRetire
  <2>3. CASE ClearReceipt(f) \/ EndRetire(f)
    <3>1. CASE UNCHANGED <<done, dropped>>
      BY <2>1, <3>1
    <3>2. CASE ~UNCHANGED <<done, dropped>>
      <4>1. PICK st \in Storage :
              /\ Clear(WindowOf[f], ses[f], st)
              /\ done' = done /\ dropped' = dropped \cup {ses[f].id}
              /\ pc[f] \in {"failed", "retire"}
        BY <2>3, <3>2 DEF ClearReceipt, EndRetire
      <4>2. ses[f].id \in Bundles /\ ses[f] \in Records /\ WindowOf[f] \in Windows
        BY <1>1, <4>1, WindowOfType DEF Sound, Holding, TypeOK
      <4>3. disk' = disk \/ disk' = NoRec
        BY <4>1 DEF Clear, Load
      <4>4. disk' = disk \/ disk = NoRec \/ (disk' = NoRec /\ disk.id = ses[f].id)
        BY <1>1, <1>3, <4>1, <4>2, Clears
      <4> QED
        BY <2>1, <4>1, <4>2, <4>3, <4>4 DEF Closes
    <3> QED
      BY <3>1, <3>2
  <2> QED
    BY <2>2, <2>3
<1>4. ASSUME NEW f \in Flows, MarkSending(f) \/ NotInvoked(f)
      PROVE  SamePrompts /\ UNCHANGED <<done, dropped>>
  BY <1>2, <1>4 DEF MarkSending, NotInvoked, TakeBack
<1>5. ASSUME NEW f \in Flows, Rejected(f) \/ Unsure(f) \/ Answered(f)
      PROVE  SamePrompts /\ UNCHANGED <<done, dropped>>
  BY <1>1, <1>5 DEF Rejected, Unsure, Answered, Hears, TakeBack, SamePrompts
<1>6. ASSUME NEW w \in Windows, Reload(w)
      PROVE  SamePrompts /\ UNCHANGED <<done, dropped>>
  BY <1>1, <1>6 DEF Reload, SamePrompts
<1>7. ASSUME NEW n \in Asks, Answer(n)
      PROVE  \/ SamePrompts /\ UNCHANGED <<done, dropped>>
             \/ /\ asks[n].fate = "open"
                /\ asks' = [asks EXCEPT ![n].fate = "refused"]
                /\ UNCHANGED <<disk, done, dropped>>
  <2>1. PICK fate \in {"refused", "sent"} : asks' = [asks EXCEPT ![n].fate = fate]
    BY <1>7 DEF Answer
  <2>2. asks[n].fate = "open" /\ UNCHANGED <<disk, done, dropped>>
    BY <1>7 DEF Answer
  <2>3. fate = "sent" => SamePrompts
    BY <1>1, <2>1, <2>2 DEF SamePrompts
  <2> QED
    BY <2>1, <2>2, <2>3
<1>8. ASSUME NEW b \in Bundles, Execute(b)
      PROVE  SamePrompts /\ Closes(b)
  BY <1>2, <1>8 DEF Execute, Closes
<1>9. ASSUME NEW b \in Bundles, Expire(b)
      PROVE  SamePrompts /\ UNCHANGED <<done, dropped>>
  BY <1>2, <1>9 DEF Expire
<1>10. CASE UNCHANGED vars
  BY <1>2, <1>10 DEF vars
<1> QED
  BY <1>3, <1>4, <1>5, <1>6, <1>7, <1>8, <1>9, <1>10, FlowStepIs DEF Next

\* What the mark says of the disk.
MarkFacts ==
  /\ PaymentMark.stage \in {"clear", "sending", "sent"}
  /\ PaymentMark.stage = "clear" <=> PaymentMark = [of |-> 0, stage |-> "clear"]
  /\ PaymentMark.stage # "clear" =>
       PaymentMark.of = disk.id /\ Marked(disk.id) /\ ~Closed(disk.id)
  /\ PaymentMark.stage = "sending" <=> disk.stage = Sending /\ ~Closed(disk.id)
  /\ PaymentMark.stage = "sent" <=> disk.stage = Paid /\ ~Closed(disk.id)

\* What is live is what the mark is for.
LiveFacts ==
  \A n \in Asks : PaymentPrompt(n).stage = "live" =>
    /\ Live(n) /\ Pending(n) /\ Marked(asks[n].of)
    /\ PaymentMark.stage # "clear" /\ PaymentMark.of = asks[n].of

LEMMA PaymentFacts == SessionInv => MarkFacts /\ LiveFacts
<1> SUFFICES ASSUME SessionInv PROVE MarkFacts /\ LiveFacts
  OBVIOUS
<1>1. MarkFacts
  BY RecordFacts DEF MarkFacts, PaymentMark, Marked, SessionInv, Sound, TypeOK, Sending, Paid
<1>2. ASSUME NEW n \in Asks, PaymentPrompt(n).stage = "live"
      PROVE  /\ Live(n) /\ Pending(n) /\ Marked(asks[n].of)
             /\ PaymentMark.stage # "clear" /\ PaymentMark.of = asks[n].of
  <2>1. Live(n) /\ Pending(n)
    BY <1>2 DEF PaymentPrompt, Pending, Live
  <2>2. Marked(asks[n].of)
    BY <2>1 DEF SessionInv, Attempts, AsksMarked, Live
  <2> QED
    BY <2>1, <2>2 DEF PaymentMark, Marked, Live
<1> QED
  BY <1>1, <1>2 DEF LiveFacts

LEMMA PaymentFactsNext == SessionInv' => MarkFacts' /\ LiveFacts'
BY PaymentFacts, PTL

LEMMA PaymentInit == Init => Payment!JournalInit
<1> SUFFICES ASSUME Init PROVE Payment!JournalInit
  OBVIOUS
<1>1. PaymentMark = [of |-> 0, stage |-> "clear"]
  BY DEF Init, PaymentMark, NoRec, Sending
<1>2. \A n \in Asks : PaymentPrompt(n) = [of |-> 0, stage |-> "new"]
  BY DEF Init, PaymentPrompt, NoAsk
<1> QED
  BY <1>1, <1>2
  DEF Init, Payment!JournalInit, Payment!Clear, Payment!Unopened

\* Only the journal moves: the mark is put, taken back, gets its hash, or stays.
LEMMA MarkMoves ==
  ASSUME SessionInv, SessionInv', HashesBacked', JournalStep, SamePrompts,
         UNCHANGED <<done, dropped>>
  PROVE  Payment!JournalNext \/ UNCHANGED Payment!jvars
<1>1. /\ Sound /\ Sound' /\ disk \in Records /\ disk' \in Records
      /\ Asks' = Asks /\ \A b : Closed(b)' <=> Closed(b)
  BY DEF SessionInv, Sound, TypeOK, Asks, Closed
<1>0. MarkFacts /\ LiveFacts /\ MarkFacts' /\ LiveFacts'
  BY PaymentFacts, PaymentFactsNext
<1>2. \A n \in Asks : PaymentPrompt(n)' = PaymentPrompt(n)
  BY <1>1 DEF SamePrompts, PaymentPrompt, Live
<1>3. /\ [n \in Asks |-> PaymentPrompt(n)]' = [n \in Asks |-> PaymentPrompt(n)]
      /\ (done \cup dropped)' = done \cup dropped
  BY <1>1, <1>2
<1>4. CASE PaymentMark' = PaymentMark
  BY <1>3, <1>4 DEF Payment!jvars
<1>5. CASE PaymentMark'.stage = "clear" /\ PaymentMark' # PaymentMark
  <2>1. Payment!Idle
    BY <1>0, <1>1, <1>2, <1>5 DEF Payment!Idle, LiveFacts
  <2>2. PaymentMark' = [of |-> 0, stage |-> "clear"]
    BY <1>0, <1>5 DEF MarkFacts
  <2> QED
    BY <1>3, <2>1, <2>2 DEF Payment!JournalNext, Payment!Unmark, Payment!Clear
<1>6. CASE PaymentMark.stage = "clear" /\ PaymentMark'.stage # "clear"
  <2> DEFINE b == disk'.id
  <2>1. PaymentMark = [of |-> 0, stage |-> "clear"]
    BY <1>0, <1>1, <1>6 DEF MarkFacts, Marked
  <2>2. /\ PaymentMark'.of = b /\ disk'.stage >= Sending /\ ~Closed(b)
        /\ PaymentMark'.stage = "sending" \/ disk'.stage = Paid
    BY <1>0, <1>1, <1>6 DEF MarkFacts, Marked
  <2>3. b \in Bundles
    BY <1>1, <2>2, RecordFacts DEF Marked, Sending
  <2>4. Payment!Idle
    BY <1>0, <1>6 DEF Payment!Idle, LiveFacts
  <2>5. ASSUME disk'.stage = Paid  PROVE FALSE
    <3>1. PICK n \in Asks : asks'[n].of = b /\ asks'[n].fate = "sent"
      BY <1>1, <2>5 DEF HashesBacked, Backed
    <3>2. asks[n].of = b /\ Live(n) /\ b # 0
      BY <1>1, <2>2, <2>3, <3>1 DEF SamePrompts, Live, Bundles
    <3>3. PaymentPrompt(n).stage = "live"
      BY <3>2 DEF PaymentPrompt
    <3> QED
      BY <2>4, <3>3 DEF Payment!Idle
  <2>6. PaymentMark' = [of |-> b, stage |-> "sending"]
    BY <2>2, <2>5 DEF PaymentMark
  <2>7. Payment!Mark(b)
    BY <1>3, <2>1, <2>2, <2>4, <2>6 DEF Payment!Mark, Payment!Clear, Closed
  <2> QED
    BY <2>3, <2>7 DEF Payment!JournalNext
<1>7. CASE PaymentMark.stage # "clear" /\ PaymentMark'.stage # "clear" /\ PaymentMark' # PaymentMark
  <2>1. /\ Marked(disk.id) /\ ~Closed(disk.id) /\ PaymentMark.of = disk.id
        /\ disk'.stage >= Sending /\ ~Closed(disk'.id) /\ PaymentMark'.of = disk'.id
    BY <1>0, <1>1, <1>7 DEF MarkFacts, Marked
  <2>2. /\ disk # NoRec /\ disk.stage # Publication /\ disk.stage >= Sending
        /\ disk'.stage >= Sending
    BY <2>1 DEF Marked, NoRec, Publication, Sending
  <2>3. disk'.id = disk.id /\ (disk'.stage >= disk.stage \/ disk.stage <= Sending)
    BY <1>1, <2>1, <2>2, RecordFacts DEF JournalStep, Empties, Closed
  <2>4. disk.stage = Sending /\ disk'.stage = Paid
    <3>1. disk.stage \in -1 .. 2 /\ disk'.stage \in -1 .. 2
      BY <1>1, RecordFacts
    <3>2. disk'.stage # disk.stage
      BY <1>1, <1>7, <2>1, <2>3 DEF PaymentMark
    <3> QED
      BY <2>2, <2>3, <3>1, <3>2 DEF Sending, Paid
  <2>5. PICK n \in Asks : asks'[n].of = disk'.id
    BY <1>1, <2>4 DEF HashesBacked, Backed
  <2>6. [m \in Asks |-> PaymentPrompt(m)][n].of = disk.id
    BY <1>2, <2>3, <2>5 DEF SamePrompts, PaymentPrompt
  <2>7. /\ PaymentMark = [of |-> disk.id, stage |-> "sending"]
        /\ PaymentMark' = [of |-> disk.id, stage |-> "sent"]
    <3>1. disk.stage = 1 /\ disk'.stage = 2 /\ disk'.id = disk.id
      BY <2>3, <2>4 DEF Sending, Paid
    <3>2. ~Closed(disk.id) /\ (~Closed(disk.id))'
      BY <1>1, <2>1, <3>1
    <3> QED
      BY <3>1, <3>2 DEF PaymentMark, Sending, Paid
  <2>8. Payment!Submit(n)
    BY <1>3, <2>6, <2>7 DEF Payment!Submit
  <2> QED
    BY <2>8 DEF Payment!JournalNext
<1> QED
  BY <1>4, <1>5, <1>6, <1>7

LEMMA CloseMoves ==
  ASSUME SessionInv, SamePrompts, NEW b \in Bundles, Closes(b)
  PROVE  Payment!Close(b)
<1>1. /\ Asks' = Asks /\ b # 0 /\ Closed(b)'
      /\ \A k : Closed(k)' <=> Closed(k) \/ k = b
      /\ MarkFacts
  BY PaymentFacts DEF Closes, Closed, Asks, Bundles
<1>2. ASSUME NEW n \in Asks
      PROVE  PaymentPrompt(n)' = IF PaymentPrompt(n).of = b
                                 THEN [PaymentPrompt(n) EXCEPT !.stage = "over"]
                                 ELSE PaymentPrompt(n)
  BY <1>1, <1>2 DEF SamePrompts, PaymentPrompt, Live
<1>3. PaymentMark' = IF PaymentMark.of = b THEN [of |-> 0, stage |-> "clear"] ELSE PaymentMark
  <2>1. CASE disk' = disk
    <3>1. Closed(disk.id)' <=> Closed(disk.id) \/ disk.id = b
      BY <1>1, <2>1
    <3> QED
      BY <1>1, <2>1, <3>1 DEF PaymentMark, Closed
  <2>2. CASE disk' = NoRec /\ (disk.id = b \/ disk = NoRec)
    <3>1. PaymentMark' = [of |-> 0, stage |-> "clear"]
      BY <2>2 DEF PaymentMark, NoRec, Sending, Publication
    <3>2. PaymentMark.of = b \/ PaymentMark = [of |-> 0, stage |-> "clear"]
      BY <2>2 DEF PaymentMark, NoRec, Sending, Publication
    <3> QED
      BY <3>1, <3>2
  <2> QED
    BY <2>1, <2>2 DEF Closes
<1> QED
  BY <1>1, <1>2, <1>3 DEF Payment!Close, Payment!Clear, Closes

LEMMA AskMoves ==
  ASSUME SessionInv, HashesBacked, NEW f \in Flows, Ask(f)
  PROVE  \E n \in Asks : Payment!Ask(n) \/ Payment!AskClosed(n)
<1> DEFINE k == ses[f].id
<1>1. PICK n \in Asks :
        /\ asks[n] = NoAsk
        /\ asks' = [asks EXCEPT ![n] = [of |-> k, fate |-> "open", to |-> f]]
  BY DEF Ask
<1>2. /\ pc[f] = "called" /\ UNCHANGED <<disk, done, dropped>>
      /\ Asks' = Asks /\ \A b : Closed(b)' <=> Closed(b)
      /\ MarkFacts /\ LiveFacts
  BY PaymentFacts DEF Ask, Asks, Closed
<1>3. /\ k \in Bundles /\ k # 0
      /\ asks \in [Asks -> [of : 0 .. MaxBundles, fate : Fates, to : Flows \cup {None}]]
  BY <1>2 DEF SessionInv, Sound, Holding, TypeOK, Bundles
<1>4. PaymentMark' = PaymentMark
  BY <1>2 DEF PaymentMark, Closed
<1>5. \A m \in Asks : PaymentPrompt(m)' = IF m = n
                        THEN [of |-> k, stage |-> IF Closed(k) THEN "over" ELSE "live"]
                        ELSE PaymentPrompt(m)
  BY <1>1, <1>2, <1>3 DEF PaymentPrompt, Live
<1>6. PaymentPrompt(n) = [of |-> 0, stage |-> "new"]
  BY <1>1 DEF PaymentPrompt, NoAsk
<1>7. CASE Closed(k)
  <2>1. Payment!AskClosed(n)
    BY <1>2, <1>4, <1>5, <1>6, <1>7 DEF Payment!AskClosed, Payment!Unopened, Closed
  <2> QED
    BY <2>1
<1>8. CASE ~Closed(k)
  <2>1. Marked(k) /\ \A m \in Asks : Pending(m) => asks[m].of # k
    BY <1>2, <1>8 DEF SessionInv, Attempts, CallsMarked, OneAttempt
  <2>2. disk.id = k /\ disk.stage # Paid
    <3>1. \A m \in Asks : ~(asks[m].of = k /\ asks[m].fate = "sent")
      BY <2>1 DEF Pending
    <3> QED
      BY <2>1, <3>1 DEF Marked, HashesBacked, Backed
  <2>3. PaymentMark = [of |-> k, stage |-> "sending"]
    BY <1>8, <2>1, <2>2 DEF PaymentMark, Marked
  <2>4. Payment!Idle
    BY <2>1, <2>3, <1>2 DEF Payment!Idle, LiveFacts
  <2>5. Payment!Ask(n)
    BY <1>2, <1>4, <1>5, <1>6, <1>8, <2>3, <2>4 DEF Payment!Ask, Payment!Unopened
  <2> QED
    BY <2>5
<1> QED
  BY <1>7, <1>8

LEMMA RefusalMoves ==
  ASSUME SessionInv, NEW n \in Asks,
         asks[n].fate = "open", asks' = [asks EXCEPT ![n].fate = "refused"],
         UNCHANGED <<disk, done, dropped>>
  PROVE  Payment!Settle(n) \/ UNCHANGED Payment!jvars
<1>1. /\ Asks' = Asks /\ \A b : Closed(b)' <=> Closed(b)
      /\ asks \in [Asks -> [of : 0 .. MaxBundles, fate : Fates, to : Flows \cup {None}]]
  BY DEF Asks, Closed, SessionInv, Sound, TypeOK
<1>2. PaymentMark' = PaymentMark /\ (done \cup dropped)' = done \cup dropped
  BY DEF PaymentMark, Closed
<1>3. \A m \in Asks : m # n => PaymentPrompt(m)' = PaymentPrompt(m)
  BY <1>1 DEF PaymentPrompt, Live
<1>4. CASE PaymentPrompt(n).stage = "live"
  <2>1. PaymentPrompt(n)' = [PaymentPrompt(n) EXCEPT !.stage = "over"]
    BY <1>1, <1>4 DEF PaymentPrompt, Live
  <2> QED
    BY <1>1, <1>2, <1>3, <1>4, <2>1 DEF Payment!Settle
<1>5. CASE PaymentPrompt(n).stage # "live"
  <2>1. PaymentPrompt(n)' = PaymentPrompt(n)
    BY <1>1, <1>5 DEF PaymentPrompt, Live
  <2> QED
    BY <1>1, <1>2, <1>3, <2>1 DEF Payment!jvars
<1> QED
  BY <1>4, <1>5

LEMMA PaymentNext ==
  SessionInv /\ HashesBacked /\ SessionInv' /\ HashesBacked' /\ [Next]_vars
    => [Payment!JournalNext]_(Payment!jvars)
<1> SUFFICES ASSUME SessionInv, HashesBacked, SessionInv', HashesBacked', [Next]_vars
             PROVE  Payment!JournalNext \/ UNCHANGED Payment!jvars
  OBVIOUS
<1>1. CASE SamePrompts /\ UNCHANGED <<done, dropped>>
  BY <1>1, JournalSteps, MarkMoves
<1>2. CASE SamePrompts /\ \E b \in Bundles : Closes(b)
  BY <1>2, CloseMoves DEF Payment!JournalNext
<1>3. CASE \E f \in Flows : Ask(f)
  BY <1>3, AskMoves DEF Payment!JournalNext
<1>4. CASE /\ \E n \in Asks : /\ asks[n].fate = "open"
                              /\ asks' = [asks EXCEPT ![n].fate = "refused"]
           /\ UNCHANGED <<disk, done, dropped>>
  BY <1>4, RefusalMoves DEF Payment!JournalNext
<1> QED
  BY <1>1, <1>2, <1>3, <1>4, PaymentSteps

\* The record on disk is, for every number of windows, flows and bundles, a journal the
\* other parts can rely on: asked only under the mark, one at a time, a hash only of what
\* was asked for, and unmarked only by a rejection, a clear or completion
\* (relayr.js 840-930, 1052-1068).
THEOREM PaymentKeepsJournal == Spec => PaymentIsSendJournal
<1>1. SessionInv /\ HashesBacked /\ SessionInv' /\ HashesBacked' /\ [Next]_vars
        => UNCHANGED <<disk, asks, done, dropped>> \/ Payment!JournalStep
  BY PaymentNext DEF Payment!JournalStep
<1> QED
  BY <1>1, PaymentInit, InvHolds, BackedHolds, PTL DEF Spec, PaymentIsSendJournal
=============================================================================
