------------------------- MODULE DirectBatchProofs -------------------------
(***************************************************************************)
(* Proofs about DirectBatch, for any windows, requests, calls and prompts. *)
(*                                                                         *)
(* They assume that storage takes the two writes that make a journal older *)
(* than what it stands for when they fail: the marker before the wallet is *)
(* asked, and the reset after a reverted receipt.  Without that SentOnce   *)
(* does not hold (DirectBatchMarker.cfg).                                  *)
(*                                                                         *)
(* A window may work with its own copy of the journal, kept in memory when *)
(* a write failed.  The invariant therefore says of every copy what makes  *)
(* a journal sound, and that a copy in memory differs from the disk in one *)
(* slot only, in which the disk has the marker: that marker keeps every    *)
(* other window out until the copy is saved or lost (OneCopy).             *)
(***************************************************************************)
EXTENDS DirectBatch, TLAPS

Durable == "marker" \notin Failing /\ "revert" \notin Failing

\* The journal a window goes by.
Found(w) == IF mem[w] # NoJournal THEN mem[w] ELSE disk

\* The rest of the invariant is about journals, prompts and completed batches as
\* they are before or after a step, hence the parameters a (for asks) and c (for
\* complete).
LiveIn(n, a, c) == a[n].fate \in {"open", "sent", "ok", "odd"} /\ n \notin c

Broadcast == {"sent", "ok", "odd", "reverted"}

ConfirmedIn(slot, a) == Hash(slot) /\ a[slot].fate = "ok"

\* A saved hash is that of a transaction sent for this call of this batch.
Traced(j, a) ==
  \A i \in Slots : Hash(j.hashes[i]) =>
    /\ a[j.hashes[i]].req = j.req
    /\ a[j.hashes[i]].call = i
    /\ a[j.hashes[i]].fate \in Broadcast

\* No call is marked or sent before each earlier one is confirmed.
Ordered(j, a) ==
  \A i, k \in Slots : j.hashes[i] # Null /\ k < i => ConfirmedIn(j.hashes[k], a)

\* What is live is in the journal.
Covers(j, a, c) ==
  \A n \in Asks : LiveIn(n, a, c) => j.req = a[n].req /\ j.hashes[a[n].call] \in {Sending, n}

\* A journal with a call of a completed batch is that batch's, which left nothing live.
Whole(j, a, c) ==
  (\E i \in Slots : j.hashes[i] \in c) =>
    /\ \A i \in Slots : j.hashes[i] \in c \cup {Sending}
    /\ \A n \in Asks : ~LiveIn(n, a, c)

Sound(j, a, c) == Traced(j, a) /\ Ordered(j, a) /\ Covers(j, a, c) /\ Whole(j, a, c)

JournalsSound ==
  /\ Sound(disk, asks, complete)
  /\ \A w \in Windows : mem[w] # NoJournal => Sound(mem[w], asks, complete)

\* Of the prompts: a window waits for one at most, and for the call it works on.
AsksSound ==
  \A n \in Asks :
    /\ asks[n].fate = "none" => asks[n] = NoAsk
    /\ asks[n].fate # "none" => asks[n].req \in Requests /\ asks[n].call \in Slots
    /\ n \in complete => asks[n].fate = "ok" /\ asks[n].to = None
    /\ asks[n].to # None =>
         /\ asks[n].fate # "none"
         /\ pc[asks[n].to] = "prompt"
         /\ asks[n].req = ses[asks[n].to].req
         /\ asks[n].call = at[asks[n].to]
         /\ \A m \in Asks : asks[m].to = asks[n].to => m = n

LockHeld == \A w \in Windows : pc[w] # "idle" => lock = w

\* The session of a window that runs is the journal it goes by, or a new one.
SessionCurrent ==
  \A w \in Windows : pc[w] # "idle" =>
    /\ ses[w].req \in Requests
    /\ \/ ses[w] = Found(w)
       \/ /\ Found(w) = NoJournal
          /\ pc[w] = "review"
          /\ at[w] = 1
          /\ ses[w] = Fresh(ses[w].req)

\* The slot a window works on, and those before it.
AtItsCall ==
  \A w \in Windows :
    /\ pc[w] \in {"check", "review", "called", "prompt", "track"} =>
         at[w] \in Slots /\ \A k \in Slots : k < at[w] => ConfirmedIn(ses[w].hashes[k], asks)
    /\ pc[w] \in {"check", "track"} => Hash(ses[w].hashes[at[w]])
    /\ pc[w] = "review" => ses[w].hashes[at[w]] = Null
    /\ pc[w] \in {"called", "prompt"} => ses[w].hashes[at[w]] = Sending
    /\ pc[w] = "finish" => \A i \in Slots : ConfirmedIn(ses[w].hashes[i], asks)

\* From the marker to the wallet's answer nothing else is live in the slot, the disk is
\* the only copy, and its batch is not a completed one.
SlotOurs ==
  \A w \in Windows : pc[w] \in {"called", "prompt"} =>
    /\ \A v \in Windows : mem[v] = NoJournal
    /\ \A i \in Slots : disk.hashes[i] \notin complete
    /\ \A n \in Asks : LiveIn(n, asks, complete) /\ asks[n].call = at[w] =>
         pc[w] = "prompt" /\ asks[n].to = w

OneCopy ==
  \A w \in Windows : mem[w] # NoJournal =>
    /\ mem[w].req = disk.req
    /\ \A v \in Windows \ {w} : mem[v] = NoJournal
    /\ \A i \in Slots : mem[w].hashes[i] # Sending
    /\ \E i \in Slots :
         /\ disk.hashes[i] = Sending
         /\ \A k \in Slots \ {i} : mem[w].hashes[k] = disk.hashes[k]

OneLivePerCall ==
  \A m, n \in Asks :
    LiveIn(m, asks, complete) /\ LiveIn(n, asks, complete) /\ asks[m].call = asks[n].call
      => m = n

IInv ==
  /\ TypeOK
  /\ JournalsSound
  /\ AsksSound
  /\ LockHeld
  /\ SessionCurrent
  /\ AtItsCall
  /\ SlotOurs
  /\ OneCopy
  /\ OneLivePerCall

----------------------------------------------------------------------------
(* Journals.                                                               *)

\* The parts of a journal.
LEMMA JournalForm ==
  ASSUME NEW j \in Journals
  PROVE  /\ j.hashes \in [Slots -> -1 .. MaxAsks]
         /\ j.req \in Requests \cup {NoRequest}
         /\ j # NoJournal <=> j.req \in Requests
         /\ j = [req |-> j.req, hashes |-> j.hashes]
BY DirectBatchAssumption DEF Journals, NoJournal, Slots, Null

\* A new journal has no hash and no marker, so nothing live is needed to make it sound.
LEMMA FreshSound ==
  ASSUME NEW r \in Requests, NEW a, NEW c, c \subseteq Asks, \A n \in Asks : ~LiveIn(n, a, c)
  PROVE  Fresh(r) \in Journals /\ Fresh(r).req = r /\ Sound(Fresh(r), a, c)
BY DirectBatchAssumption
   DEF Fresh, Journals, Sound, Traced, Ordered, Covers, Whole, Slots, Null, Sending, Hash, Asks

\* No prompt is live when the empty journal covers them.
LEMMA NothingLive ==
  ASSUME NEW a, NEW c, Covers(NoJournal, a, c),
         \A n \in Asks : a[n].fate # "none" => a[n].req \in Requests
  PROVE  \A n \in Asks : ~LiveIn(n, a, c)
BY DirectBatchAssumption DEF Covers, NoJournal, LiveIn

\* A journal stays sound while prompts are answered and transactions are mined.
LEMMA SoundKept ==
  ASSUME NEW j \in Journals, NEW a, NEW b, NEW c, Sound(j, a, c),
         \A n \in Asks : /\ b[n].req = a[n].req /\ b[n].call = a[n].call
                         /\ a[n].fate \in Broadcast => b[n].fate \in Broadcast
                         /\ a[n].fate = "ok" => b[n].fate = "ok"
                         /\ LiveIn(n, b, c) => LiveIn(n, a, c)
  PROVE  Sound(j, b, c)
<1> USE DEF Sound
<1>1. Traced(j, b)
  BY DEF Traced, Hash
<1>2. Ordered(j, b)
  BY DEF Ordered, ConfirmedIn, Hash
<1>3. Covers(j, b, c)
  BY DEF Covers
<1>4. Whole(j, b, c)
  BY DEF Whole
<1> QED
  BY <1>1, <1>2, <1>3, <1>4

\* The slot i of a journal becomes v: what makes the new journal sound.
LEMMA SoundSet ==
  ASSUME NEW j \in Journals, NEW a, NEW c, Sound(j, a, c), c \subseteq Asks,
         NEW i \in Slots, NEW v, NEW s \in Journals,
         s.req = j.req, s.hashes[i] = v, \A k \in Slots \ {i} : s.hashes[k] = j.hashes[k],
         \A k \in Slots : j.hashes[k] \notin c,
         ~ConfirmedIn(j.hashes[i], a),
         v # Null => \A k \in Slots : k < i => ConfirmedIn(j.hashes[k], a),
         Hash(v) => a[v].req = j.req /\ a[v].call = i /\ a[v].fate \in Broadcast /\ v \notin c,
         \A n \in Asks : LiveIn(n, a, c) /\ a[n].call = i => v = Sending \/ v = n,
         \A n \in Asks : LiveIn(n, a, c) => a[n].call \in Slots
  PROVE  Sound(s, a, c)
<1>0. /\ s.hashes[i] = v
      /\ \A k \in Slots : k # i => s.hashes[k] = j.hashes[k]
  OBVIOUS
<1> USE DEF Sound
<1>1. Traced(s, a)
  BY <1>0 DEF Traced
<1>2. Ordered(s, a)
  <2> SUFFICES ASSUME NEW m \in Slots, NEW k \in Slots, s.hashes[m] # Null, k < m
               PROVE  ConfirmedIn(s.hashes[k], a)
    BY DEF Ordered
  <2>1. CASE m = i
    BY <1>0, <2>1 DEF Slots
  <2>2. CASE m # i
    <3>1. ConfirmedIn(j.hashes[k], a)
      BY <1>0, <2>2 DEF Ordered
    <3> QED
      BY <1>0, <3>1
  <2> QED
    BY <2>1, <2>2
<1>3. Covers(s, a, c)
  BY <1>0 DEF Covers
<1>4. Whole(s, a, c)
  BY <1>0, DirectBatchAssumption DEF Whole, Hash, Asks, Null, Sending
<1> QED
  BY <1>1, <1>2, <1>3, <1>4

\* The slot i of a journal is set back to null.
LEMMA SoundReset ==
  ASSUME NEW j \in Journals, NEW a, NEW c, Sound(j, a, c), c \subseteq Asks,
         NEW i \in Slots, NEW s \in Journals,
         s.req = j.req, s.hashes[i] = Null, \A k \in Slots \ {i} : s.hashes[k] = j.hashes[k],
         \A k \in Slots : j.hashes[k] \notin c,
         ~ConfirmedIn(j.hashes[i], a),
         \A n \in Asks : LiveIn(n, a, c) => a[n].call \in Slots /\ a[n].call # i
  PROVE  Sound(s, a, c)
<1>1. Null \in -1 .. MaxAsks /\ ~Hash(Null)
  BY DirectBatchAssumption DEF Null, Hash, Asks
<1> QED
  BY <1>1, SoundSet

\* The slot i of a journal becomes the hash n of the only live send of its call.
LEMMA SoundHash ==
  ASSUME NEW j \in Journals, NEW a, NEW c, Sound(j, a, c), c \subseteq Asks,
         NEW i \in Slots, NEW n \in Asks, NEW s \in Journals,
         s.req = j.req, s.hashes[i] = n, \A k \in Slots \ {i} : s.hashes[k] = j.hashes[k],
         \A k \in Slots : j.hashes[k] \notin c,
         ~ConfirmedIn(j.hashes[i], a),
         \A k \in Slots : k < i => ConfirmedIn(j.hashes[k], a),
         a[n].req = j.req, a[n].call = i, a[n].fate \in Broadcast, n \notin c,
         \A m \in Asks : LiveIn(m, a, c) => a[m].call \in Slots /\ (a[m].call = i => m = n)
  PROVE  Sound(s, a, c)
<1>1. \A m \in Asks : LiveIn(m, a, c) /\ a[m].call = i => n = Sending \/ n = m
  OBVIOUS
<1> QED
  BY <1>1, SoundSet

\* The batch is completed: its journal, and what the disk still has of it, is whole.
LEMMA SoundCompleted ==
  ASSUME NEW j \in Journals, NEW s \in Journals, NEW a, NEW c, NEW d, c \subseteq Asks,
         Sound(j, a, c), Sound(s, a, c),
         \A i \in Slots : ConfirmedIn(s.hashes[i], a),
         d = c \cup {s.hashes[i] : i \in Slots},
         \A i \in Slots : j.hashes[i] \in {Sending, s.hashes[i]},
         \A n \in Asks : LiveIn(n, a, c) => a[n].call \in Slots
  PROVE  /\ Sound(j, a, d)
         /\ \A n \in Asks : ~LiveIn(n, a, d)
<1>1. \A n \in Asks : ~LiveIn(n, a, d)
  BY DEF LiveIn, Sound, Covers, ConfirmedIn, Hash, Asks, Sending
<1>2. Covers(j, a, d)
  BY <1>1 DEF Covers
<1>3. Whole(j, a, d)
  BY <1>1 DEF Whole
<1> QED
  BY <1>1, <1>2, <1>3 DEF Sound

----------------------------------------------------------------------------
(* Windows.                                                                *)

\* What a step leaves in the window that takes it, and in the others.
LEMMA GoForm ==
  ASSUME TypeOK, NEW w \in Windows, NEW to \in PCs, NEW i \in 0 .. Calls, NEW s \in Journals,
         Go(w, to, i, s)
  PROVE  /\ pc'[w] = to /\ at'[w] = i /\ ses'[w] = s /\ lock' = w
         /\ \A v \in Windows \ {w} : pc'[v] = pc[v] /\ at'[v] = at[v] /\ ses'[v] = ses[v]
         /\ pc' \in [Windows -> PCs]
         /\ at' \in [Windows -> 0 .. Calls]
         /\ ses' \in [Windows -> Journals]
         /\ lock' \in Windows \cup {None}
BY DEF Go, TypeOK

\* The same of a run that stops.
LEMMA StopForm ==
  ASSUME TypeOK, NEW w \in Windows, Stop(w)
  PROVE  /\ pc'[w] = "idle" /\ lock' = None
         /\ \A v \in Windows \ {w} : pc'[v] = pc[v] /\ at'[v] = at[v] /\ ses'[v] = ses[v]
         /\ pc' \in [Windows -> PCs]
         /\ at' \in [Windows -> 0 .. Calls]
         /\ ses' \in [Windows -> Journals]
         /\ lock' \in Windows \cup {None}
BY DirectBatchAssumption DEF Stop, TypeOK, PCs, Journals

\* While one window runs, or takes the free lock, the others are idle.
LEMMA OthersIdle ==
  ASSUME IInv, NEW w \in Windows, pc[w] # "idle" \/ lock = None
  PROVE  \A v \in Windows \ {w} : pc[v] = "idle"
BY DirectBatchAssumption DEF IInv, LockHeld

\* Then no window but this one waits for a prompt, and it only in "prompt".
LEMMA NobodyWaits ==
  ASSUME IInv, NEW w \in Windows, pc[w] # "prompt", pc[w] # "idle" \/ lock = None
  PROVE  \A n \in Asks : asks[n].to = None
BY OthersIdle DEF IInv, AsksSound, TypeOK

\* The session of a window that runs is a sound journal of its batch.
LEMMA SessionSound ==
  ASSUME IInv, NEW w \in Windows, pc[w] # "idle"
  PROVE  /\ ses[w] \in Journals
         /\ ses[w].req \in Requests
         /\ Sound(ses[w], asks, complete)
<1>1. ses[w] \in Journals /\ ses[w].req \in Requests
  BY DEF IInv, TypeOK, SessionCurrent
<1>2. CASE ses[w] = Found(w)
  <2>1. CASE mem[w] # NoJournal
    <3>1. ses[w] = mem[w]
      BY <1>2, <2>1 DEF Found
    <3> QED
      BY <1>1, <2>1, <3>1 DEF IInv, JournalsSound
  <2>2. CASE mem[w] = NoJournal
    <3>1. ses[w] = disk
      BY <1>2, <2>2 DEF Found
    <3> QED
      BY <1>1, <3>1 DEF IInv, JournalsSound
  <2> QED
    BY <2>1, <2>2
<1>3. CASE Found(w) = NoJournal /\ ses[w] = Fresh(ses[w].req)
  <2>1. disk = NoJournal
    BY <1>3 DEF Found
  <2>2. \A n \in Asks : ~LiveIn(n, asks, complete)
    BY <2>1, NothingLive DEF IInv, JournalsSound, Sound, AsksSound
  <2> QED
    BY <1>1, <1>3, <2>2, FreshSound DEF IInv, TypeOK
<1> QED
  BY <1>1, <1>2, <1>3 DEF IInv, SessionCurrent

\* A window that is about to write over a slot the disk does not mark, or has
\* confirmed every call, has the only copy of the journal.
LEMMA OnlyCopy ==
  ASSUME IInv, NEW w \in Windows, pc[w] # "idle",
         \/ /\ at[w] \in Slots
            /\ ~ConfirmedIn(ses[w].hashes[at[w]], asks)
            /\ ses[w].hashes[at[w]] # Sending
            /\ \A k \in Slots : k < at[w] => ConfirmedIn(ses[w].hashes[k], asks)
         \/ \A i \in Slots : ConfirmedIn(ses[w].hashes[i], asks)
  PROVE  /\ \A v \in Windows \ {w} : mem[v] = NoJournal
         /\ disk = NoJournal => mem[w] = NoJournal
<1> USE DEF IInv, OneCopy
<1>1. disk = NoJournal => \A v \in Windows : mem[v] = NoJournal
  BY JournalForm, DirectBatchAssumption DEF NoJournal, TypeOK
<1>2. CASE mem[w] # NoJournal
  BY <1>1, <1>2
<1>3. CASE mem[w] = NoJournal /\ disk = NoJournal
  BY <1>1, <1>3
<1>4. CASE mem[w] = NoJournal /\ disk # NoJournal
  <2>1. ses[w] = disk
    BY <1>4 DEF SessionCurrent, Found
  <2> SUFFICES ASSUME NEW v \in Windows, mem[v] # NoJournal PROVE FALSE
    BY <1>1
  <2>2. PICK i \in Slots : disk.hashes[i] = Sending
    OBVIOUS
  <2>3. ~ConfirmedIn(Sending, asks) /\ Sending # Null
    BY DirectBatchAssumption DEF ConfirmedIn, Hash, Sending, Null, Asks
  <2>4. at[w] \in Slots /\ \A k \in Slots : k < at[w] => ConfirmedIn(disk.hashes[k], asks)
    BY <2>1, <2>2, <2>3
  <2>5. at[w] < i
    BY <2>1, <2>2, <2>3, <2>4 DEF Slots
  <2>6. ConfirmedIn(disk.hashes[at[w]], asks)
    BY <2>2, <2>3, <2>4, <2>5 DEF JournalsSound, Sound, Ordered
  <2> QED
    BY <2>1, <2>2, <2>3, <2>6
<1> QED
  BY <1>2, <1>3, <1>4

----------------------------------------------------------------------------
(* The invariant holds initially.                                          *)

\* Nothing is saved, sent or running.
LEMMA InitHolds == Init => IInv
<1> SUFFICES ASSUME Init PROVE IInv
  OBVIOUS
<1> USE DirectBatchAssumption DEF Init
<1>1. TypeOK
  BY DEF TypeOK, Journals, PCs, Fates, NoAsk
<1>2. JournalsSound
  BY DEF JournalsSound, Sound, Traced, Ordered, Covers, Whole, NoJournal, LiveIn, NoAsk,
         Null, Sending, Hash, Asks
<1>3. AsksSound
  BY DEF AsksSound, NoAsk
<1>4. OneLivePerCall
  BY DEF OneLivePerCall, LiveIn, NoAsk
<1>5. LockHeld /\ SessionCurrent /\ AtItsCall /\ SlotOurs /\ OneCopy
  BY DEF LockHeld, SessionCurrent, AtItsCall, SlotOurs, OneCopy
<1> QED
  BY <1>1, <1>2, <1>3, <1>4, <1>5 DEF IInv

----------------------------------------------------------------------------
(* Each step keeps it.                                                     *)

\* A run that stops where nothing was written: the review is given up, the session
\* cannot go on, or a receipt does not verify.
LEMMA StopKeeps ==
  ASSUME IInv, NEW w \in Windows, Stop(w), pc[w] # "prompt", pc[w] # "idle" \/ lock = None,
         UNCHANGED <<disk, mem, asks, complete>>
  PROVE  IInv'
<1>1. /\ pc'[w] = "idle" /\ lock' = None
      /\ \A v \in Windows : pc'[v] = "idle"
  BY StopForm, OthersIdle DEF IInv
<1>2. TypeOK'
  BY StopForm DEF IInv, TypeOK
<1>3. AsksSound'
  BY NobodyWaits DEF IInv, AsksSound
<1>4. JournalsSound' /\ OneCopy' /\ OneLivePerCall'
  BY DEF IInv, JournalsSound, OneCopy, OneLivePerCall
<1>5. LockHeld' /\ SessionCurrent' /\ AtItsCall' /\ SlotOurs'
  BY <1>1 DEF LockHeld, SessionCurrent, AtItsCall, SlotOurs
<1> QED
  BY <1>2, <1>3, <1>4, <1>5 DEF IInv

\* A run that goes on, where nothing was written, with the journal it goes by.
LEMMA GoKeeps ==
  ASSUME IInv, NEW w \in Windows, NEW to \in {"check", "review", "finish"},
         NEW i \in 0 .. Calls, NEW s \in Journals, Go(w, to, i, s),
         pc[w] # "prompt", pc[w] # "idle" \/ lock = None,
         UNCHANGED <<disk, mem, asks, complete>>,
         s.req \in Requests,
         s = Found(w) \/ (Found(w) = NoJournal /\ to = "review" /\ i = 1 /\ s = Fresh(s.req)),
         to # "finish" => i \in Slots /\ \A k \in Slots : k < i => ConfirmedIn(s.hashes[k], asks),
         to = "check" => Hash(s.hashes[i]),
         to = "review" => s.hashes[i] = Null,
         to = "finish" => \A k \in Slots : ConfirmedIn(s.hashes[k], asks)
  PROVE  IInv'
<1>1. /\ pc'[w] = to /\ at'[w] = i /\ ses'[w] = s /\ lock' = w
      /\ \A v \in Windows \ {w} : pc'[v] = "idle"
      /\ pc' \in [Windows -> PCs] /\ at' \in [Windows -> 0 .. Calls]
      /\ ses' \in [Windows -> Journals] /\ lock' \in Windows \cup {None}
  BY GoForm, OthersIdle DEF IInv, PCs
<1>2. TypeOK'
  BY <1>1 DEF IInv, TypeOK
<1>3. AsksSound'
  BY NobodyWaits DEF IInv, AsksSound
<1>4. JournalsSound' /\ OneCopy' /\ OneLivePerCall'
  BY DEF IInv, JournalsSound, OneCopy, OneLivePerCall
<1>5. LockHeld' /\ SlotOurs'
  BY <1>1 DEF LockHeld, SlotOurs
<1>6. SessionCurrent'
  BY <1>1 DEF SessionCurrent, Found
<1>7. AtItsCall'
  BY <1>1 DEF AtItsCall
<1> QED
  BY <1>2, <1>3, <1>4, <1>5, <1>6, <1>7 DEF IInv

\* The turn of a call, all earlier ones being confirmed.
LEMMA TurnKeeps ==
  ASSUME IInv, NEW w \in Windows, NEW i \in 1 .. Calls + 1, NEW s \in Journals, Turn(w, i, s),
         pc[w] # "prompt", pc[w] # "idle" \/ lock = None,
         UNCHANGED <<disk, mem, asks, complete>>,
         s.req \in Requests,
         s = Found(w) \/ (Found(w) = NoJournal /\ i = 1 /\ s = Fresh(s.req)),
         \A k \in Slots : k < i => ConfirmedIn(s.hashes[k], asks)
  PROVE  IInv'
<1> USE DirectBatchAssumption DEF Turn, Slots
<1>0. i \in Nat /\ Calls \in Nat
  OBVIOUS
<1>1. CASE i > Calls
  <2>1. ~(i <= Calls)
    BY <1>0, <1>1
  <2>2. Go(w, "finish", 0, s)
    BY <1>1, <2>1
  <2>3. s = Found(w)
    BY <1>0, <1>1
  <2> QED
    BY <1>0, <1>1, <2>2, <2>3, GoKeeps
<1>2. CASE i <= Calls /\ Hash(s.hashes[i])
  <2>0. ~(i > Calls) /\ s.hashes[i] # Null /\ s.hashes[i] # Sending
    BY <1>0, <1>2 DEF Hash, Null, Sending, Asks
  <2>1. Go(w, "check", i, s)
    BY <1>2, <2>0
  <2>2. s = Found(w)
    BY <1>2 DEF Fresh, Hash, Null, Asks
  <2> QED
    BY <1>2, <2>1, <2>2, GoKeeps
<1>3. CASE i <= Calls /\ s.hashes[i] = Null
  <2>1. Go(w, "review", i, s)
    BY <1>3 DEF Hash, Null, Asks, Sending
  <2> QED
    BY <1>3, <2>1, GoKeeps
<1>4. CASE i <= Calls /\ s.hashes[i] = Sending
  <2>1. Stop(w)
    BY <1>4 DEF Hash, Null, Asks, Sending
  <2> QED
    BY <2>1, StopKeeps
<1>5. i > Calls \/ Hash(s.hashes[i]) \/ s.hashes[i] = Null \/ s.hashes[i] = Sending
  BY JournalForm DEF Hash, Null, Asks, Sending
<1> QED
  BY <1>1, <1>2, <1>3, <1>4, <1>5

\* With every window idle, what the invariant says of running ones holds.
LEMMA IdleHolds ==
  ASSUME \A v \in Windows : pc'[v] = "idle"
  PROVE  LockHeld' /\ SessionCurrent' /\ AtItsCall' /\ SlotOurs'
BY DEF LockHeld, SessionCurrent, AtItsCall, SlotOurs

\* A journal that storage takes is the only copy.
LEMMA Saved ==
  ASSUME IInv, NEW w \in Windows, NEW s \in Journals,
         disk' = s, mem' = [mem EXCEPT ![w] = NoJournal],
         \A v \in Windows \ {w} : mem[v] = NoJournal,
         Sound(s, asks', complete')
  PROVE  /\ disk' \in Journals
         /\ mem' \in [Windows -> Journals]
         /\ \A v \in Windows : mem'[v] = NoJournal
         /\ JournalsSound'
         /\ OneCopy'
<1>1. mem' \in [Windows -> Journals] /\ \A v \in Windows : mem'[v] = NoJournal
  BY DEF IInv, TypeOK, Journals
<1> QED
  BY <1>1 DEF JournalsSound, OneCopy

\* A journal that storage refuses, over a marker that storage has.
LEMMA Remembered ==
  ASSUME IInv, NEW w \in Windows, NEW s \in Journals,
         disk' = disk, mem' \in [Windows -> Journals], mem'[w] = s,
         \A v \in Windows \ {w} : mem'[v] = NoJournal,
         Sound(disk, asks', complete'), Sound(s, asks', complete'),
         s.req = disk.req,
         \A k \in Slots : s.hashes[k] # Sending,
         \E i \in Slots : /\ disk.hashes[i] = Sending
                          /\ \A k \in Slots \ {i} : s.hashes[k] = disk.hashes[k]
  PROVE  disk' \in Journals /\ JournalsSound' /\ OneCopy'
<1>1. JournalsSound'
  BY DEF JournalsSound
<1>2. OneCopy'
  BY DEF OneCopy
<1> QED
  BY <1>1, <1>2 DEF IInv, TypeOK

\* A journal has one marker at most: what follows a marker is empty.
LEMMA OneMarker ==
  ASSUME NEW j \in Journals, NEW a, Ordered(j, a), NEW i \in Slots, j.hashes[i] = Sending
  PROVE  \A k \in Slots \ {i} : j.hashes[k] # Sending
<1>1. ~ConfirmedIn(Sending, a) /\ Sending # Null
  BY DirectBatchAssumption DEF ConfirmedIn, Hash, Sending, Null, Asks
<1> SUFFICES ASSUME NEW k \in Slots, k # i, j.hashes[k] = Sending PROVE FALSE
  OBVIOUS
<1>2. CASE k < i
  BY <1>1, <1>2 DEF Ordered
<1>3. CASE i < k
  BY <1>1, <1>3 DEF Ordered
<1> QED
  BY <1>2, <1>3 DEF Slots

\* The session with its slot set to v.
LEMMA SetForm ==
  ASSUME IInv, NEW w \in Windows, pc[w] # "idle", at[w] \in Slots, NEW v \in -1 .. MaxAsks
  PROVE  /\ Set(w, v) \in Journals
         /\ Set(w, v).req = ses[w].req
         /\ Set(w, v).req \in Requests
         /\ Set(w, v) # NoJournal
         /\ Set(w, v).hashes[at[w]] = v
         /\ \A k \in Slots \ {at[w]} : Set(w, v).hashes[k] = ses[w].hashes[k]
<1>1. ses[w] \in Journals /\ ses[w].req \in Requests
  BY SessionSound
<1>2. /\ ses[w].hashes \in [Slots -> -1 .. MaxAsks]
      /\ ses[w] = [req |-> ses[w].req, hashes |-> ses[w].hashes]
  BY <1>1, JournalForm
<1>3. Set(w, v) = [req |-> ses[w].req, hashes |-> [ses[w].hashes EXCEPT ![at[w]] = v]]
  BY <1>2 DEF Set
<1>4. [ses[w].hashes EXCEPT ![at[w]] = v] \in [Slots -> -1 .. MaxAsks]
  BY <1>2
<1>5. Set(w, v) \in Journals
  BY <1>1, <1>3, <1>4 DEF Journals
<1> QED
  BY <1>1, <1>2, <1>3, <1>4, <1>5, DirectBatchAssumption DEF NoJournal

\* runDirectBatch starts with the journal it finds, or with a new one.
LEMMA StartKeeps ==
  ASSUME IInv, NEW w \in Windows, Start(w)
  PROVE  IInv'
<1> PICK r \in Requests :
      LET s == IF Found(w) = NoJournal THEN Fresh(r) ELSE Found(w)
      IN Matches(s, r) /\ Turn(w, 1, s)
  BY DEF Start, Found
<1> DEFINE s == IF Found(w) = NoJournal THEN Fresh(r) ELSE Found(w)
<1>1. Found(w) \in Journals
  BY DEF Found, IInv, TypeOK
<1>2. s \in Journals /\ s.req = r /\ s.req \in Requests
  BY <1>1, DirectBatchAssumption DEF Matches, Fresh, Journals, Null
<1>3. s = Found(w) \/ (Found(w) = NoJournal /\ s = Fresh(s.req))
  BY <1>2
<1>4. Turn(w, 1, s) /\ pc[w] # "prompt" /\ lock = None /\ UNCHANGED <<disk, mem, asks, complete>>
  BY DEF Start
<1>5. 1 \in 1 .. Calls + 1 /\ \A k \in Slots : k < 1 => ConfirmedIn(s.hashes[k], asks)
  BY DirectBatchAssumption DEF Slots
<1> HIDE DEF s
<1> QED
  BY <1>2, <1>3, <1>4, <1>5, TurnKeeps

\* The receipt of a saved hash is checked.
LEMMA CheckedKeeps ==
  ASSUME Durable, IInv, NEW w \in Windows, Checked(w)
  PROVE  IInv'
<1> DEFINE h == ses[w].hashes[at[w]]
<1>1. /\ pc[w] = "check" /\ UNCHANGED <<asks, complete>>
      /\ at[w] \in Slots /\ Hash(h)
      /\ \A k \in Slots : k < at[w] => ConfirmedIn(ses[w].hashes[k], asks)
      /\ ses[w] = Found(w)
  BY DEF Checked, IInv, AtItsCall, SessionCurrent
<1>2. ses[w] \in Journals /\ ses[w].req \in Requests /\ Sound(ses[w], asks, complete)
  BY <1>1, SessionSound
<1>3. CASE asks[h].fate = "ok" /\ Turn(w, at[w] + 1, ses[w]) /\ UNCHANGED <<disk, mem>>
  <2>1. at[w] + 1 \in 1 .. Calls + 1
    BY <1>1, DirectBatchAssumption DEF Slots
  <2>2. \A k \in Slots : k < at[w] + 1 => ConfirmedIn(ses[w].hashes[k], asks)
    <3> SUFFICES ASSUME NEW k \in Slots, k < at[w] + 1 PROVE ConfirmedIn(ses[w].hashes[k], asks)
      OBVIOUS
    <3>1. k < at[w] \/ k = at[w]
      BY <1>1 DEF Slots
    <3> QED
      BY <1>1, <1>3, <3>1 DEF ConfirmedIn
  <2> QED
    BY <1>1, <1>2, <1>3, <2>1, <2>2, TurnKeeps
<1>4. CASE asks[h].fate = "reverted" /\ Persist(w, Set(w, Null), "revert") /\ Stop(w)
  <2>1. disk' = Set(w, Null) /\ mem' = [mem EXCEPT ![w] = NoJournal]
    BY <1>4 DEF Persist, Durable
  <2>2. Null \in -1 .. MaxAsks
    BY DirectBatchAssumption DEF Null
  <2>3. ~ConfirmedIn(h, asks) /\ h # Sending
    BY <1>1, <1>4, DirectBatchAssumption DEF ConfirmedIn, Hash, Asks, Sending
  <2>4. \A k \in Slots : ses[w].hashes[k] \notin complete
    <3>1. h \notin complete \cup {Sending}
      BY <1>1, <1>4, <2>3 DEF IInv, AsksSound, Hash
    <3> QED
      BY <1>1, <1>2, <3>1 DEF Sound, Whole
  <2>5. \A n \in Asks : LiveIn(n, asks, complete) => asks[n].call # at[w]
    BY <1>1, <1>2, <1>4, <2>3 DEF Sound, Covers, LiveIn
  <2>6. \A n \in Asks : LiveIn(n, asks, complete) => asks[n].call \in Slots
    BY DEF IInv, AsksSound, LiveIn
  <2>7. ~Hash(Null) /\ complete \subseteq Asks
    BY DirectBatchAssumption DEF Hash, Null, Asks, IInv, TypeOK
  <2>8. Sound(Set(w, Null), asks, complete)
    <3>1. /\ Set(w, Null) \in Journals /\ Set(w, Null).req = ses[w].req
          /\ Set(w, Null).hashes[at[w]] = Null
          /\ \A k \in Slots \ {at[w]} : Set(w, Null).hashes[k] = ses[w].hashes[k]
      BY <1>1, <2>2, SetForm
    <3>2. \A n \in Asks : LiveIn(n, asks, complete) => asks[n].call \in Slots /\ asks[n].call # at[w]
      BY <2>5, <2>6
    <3> QED
      BY <1>1, <1>2, <2>3, <2>4, <2>7, <3>1, <3>2, SoundReset
  <2>9. \A v \in Windows \ {w} : mem[v] = NoJournal
    BY <1>1, <2>3, OnlyCopy
  <2>10. disk' \in Journals /\ mem' \in [Windows -> Journals] /\ JournalsSound' /\ OneCopy'
    BY <1>1, <2>1, <2>2, <2>8, <2>9, SetForm, Saved
  <2>11. \A v \in Windows : pc'[v] = "idle"
    BY <1>1, <1>4, StopForm, OthersIdle DEF IInv
  <2>12. AsksSound' /\ OneLivePerCall'
    BY <1>1, NobodyWaits DEF IInv, AsksSound, OneLivePerCall
  <2>13. TypeOK'
    BY <1>1, <1>4, <2>10, StopForm DEF IInv, TypeOK
  <2> QED
    BY <2>10, <2>11, <2>12, <2>13, IdleHolds DEF IInv
<1>5. CASE Stop(w) /\ UNCHANGED <<disk, mem>>
  BY <1>1, <1>5, StopKeeps
<1> QED
  BY <1>3, <1>4, <1>5 DEF Checked

\* The marker is saved over the empty slot, before the wallet is asked.
LEMMA MarkSendingKeeps ==
  ASSUME Durable, IInv, NEW w \in Windows, MarkSending(w)
  PROVE  IInv'
<1>1. /\ pc[w] = "review" /\ UNCHANGED <<asks, complete>>
      /\ at[w] \in Slots /\ ses[w].hashes[at[w]] = Null
      /\ \A k \in Slots : k < at[w] => ConfirmedIn(ses[w].hashes[k], asks)
      /\ disk' = Set(w, Sending)
      /\ mem' = [mem EXCEPT ![w] = NoJournal]
      /\ Go(w, "called", at[w], Set(w, Sending))
  BY DEF MarkSending, IInv, AtItsCall, Durable
<1>2. ses[w] \in Journals /\ ses[w].req \in Requests /\ Sound(ses[w], asks, complete)
  BY <1>1, SessionSound
<1>3. /\ Sending \in -1 .. MaxAsks /\ ~Hash(Sending) /\ Sending # Null
      /\ ~ConfirmedIn(Null, asks) /\ Null \notin complete \cup {Sending} /\ complete \subseteq Asks
  BY DirectBatchAssumption DEF Sending, Null, Hash, Asks, ConfirmedIn, IInv, TypeOK
<1> DEFINE s == Set(w, Sending)
<1>4. /\ s \in Journals /\ s.req = ses[w].req /\ s.req \in Requests /\ s # NoJournal
      /\ s.hashes[at[w]] = Sending
      /\ \A k \in Slots \ {at[w]} : s.hashes[k] = ses[w].hashes[k]
  BY <1>1, <1>3, SetForm
<1>5. \A k \in Slots : ses[w].hashes[k] \notin complete
  BY <1>1, <1>2, <1>3 DEF Sound, Whole
<1>6. \A n \in Asks : LiveIn(n, asks, complete) => asks[n].call \in Slots /\ asks[n].call # at[w]
  <2>1. \A n \in Asks : Null \notin {Sending, n}
    BY <1>3 DEF Null, Asks
  <2> QED
    BY <1>1, <1>2, <2>1 DEF Sound, Covers, IInv, AsksSound, LiveIn
<1>7. disk' = s /\ Go(w, "called", at[w], s)
  BY <1>1
<1> HIDE DEF s
<1>8. Sound(s, asks, complete)
  BY <1>1, <1>2, <1>3, <1>4, <1>5, <1>6, SoundSet
<1>9. \A v \in Windows \ {w} : mem[v] = NoJournal
  BY <1>1, <1>3, OnlyCopy
<1>10. /\ disk' \in Journals /\ mem' \in [Windows -> Journals] /\ JournalsSound' /\ OneCopy'
       /\ \A v \in Windows : mem'[v] = NoJournal
  BY <1>1, <1>4, <1>7, <1>8, <1>9, Saved
<1>11. /\ pc'[w] = "called" /\ at'[w] = at[w] /\ ses'[w] = s /\ lock' = w
       /\ \A v \in Windows \ {w} : pc'[v] = "idle"
       /\ pc' \in [Windows -> PCs] /\ at' \in [Windows -> 0 .. Calls]
       /\ ses' \in [Windows -> Journals] /\ lock' \in Windows \cup {None}
  BY <1>1, <1>4, <1>7, GoForm, OthersIdle DEF IInv, PCs, TypeOK
<1>12. AsksSound' /\ OneLivePerCall'
  BY <1>1, NobodyWaits DEF IInv, AsksSound, OneLivePerCall
<1>13. TypeOK'
  BY <1>1, <1>10, <1>11 DEF IInv, TypeOK
<1>14. LockHeld' /\ SessionCurrent'
  BY <1>4, <1>7, <1>10, <1>11 DEF LockHeld, SessionCurrent, Found
<1>15. AtItsCall'
  <2>1. \A k \in Slots : k < at[w] => k # at[w]
    BY <1>1 DEF Slots
  <2>2. \A k \in Slots : k < at[w] => ConfirmedIn(s.hashes[k], asks)
    BY <1>1, <1>4, <2>1
  <2> QED
    BY <1>1, <1>4, <1>11, <2>2 DEF AtItsCall
<1>16. SlotOurs'
  <2>1. \A i \in Slots : s.hashes[i] \notin complete
    BY <1>3, <1>4, <1>5 DEF Asks, Sending
  <2> QED
    BY <1>1, <1>6, <1>7, <1>10, <1>11, <2>1 DEF SlotOurs
<1> QED
  BY <1>10, <1>12, <1>13, <1>14, <1>15, <1>16 DEF IInv

\* The prompt opens: it is live, and the marker on disk stands for it.
LEMMA AskKeeps ==
  ASSUME IInv, NEW w \in Windows, Ask(w)
  PROVE  IInv'
<1> PICK n \in Asks :
      /\ asks[n] = NoAsk
      /\ asks' = [asks EXCEPT ![n] = [req |-> ses[w].req, call |-> at[w],
                                      fate |-> "open", to |-> w]]
  BY DEF Ask
<1>1. /\ pc[w] = "called" /\ Go(w, "prompt", at[w], ses[w]) /\ UNCHANGED <<disk, mem, complete>>
      /\ at[w] \in Slots /\ ses[w].hashes[at[w]] = Sending
      /\ \A k \in Slots : k < at[w] => ConfirmedIn(ses[w].hashes[k], asks)
  BY DEF Ask, IInv, AtItsCall
<1>2. ses[w] \in Journals /\ ses[w].req \in Requests
  BY <1>1, SessionSound
<1>3. /\ ses[w] = disk /\ \A v \in Windows : mem[v] = NoJournal
      /\ \A i \in Slots : disk.hashes[i] \notin complete
      /\ \A m \in Asks : LiveIn(m, asks, complete) => asks[m].call # at[w]
  BY <1>1, <1>2 DEF IInv, SlotOurs, SessionCurrent, Found
<1>4. /\ asks'[n] = [req |-> ses[w].req, call |-> at[w], fate |-> "open", to |-> w]
      /\ \A m \in Asks \ {n} : asks'[m] = asks[m]
      /\ asks[n].fate = "none" /\ asks[n].to = None /\ n \notin complete
  BY DEF IInv, TypeOK, NoAsk, AsksSound
<1>5. /\ pc'[w] = "prompt" /\ at'[w] = at[w] /\ ses'[w] = ses[w] /\ lock' = w
      /\ \A v \in Windows \ {w} : pc'[v] = "idle"
      /\ pc' \in [Windows -> PCs] /\ at' \in [Windows -> 0 .. Calls]
      /\ ses' \in [Windows -> Journals] /\ lock' \in Windows \cup {None}
  BY <1>1, <1>2, GoForm, OthersIdle DEF IInv, PCs, TypeOK
<1>6. \A m \in Asks : asks[m].to = None
  BY <1>1, NobodyWaits
<1>7. TypeOK'
  <2>1. [req |-> ses[w].req, call |-> at[w], fate |-> "open", to |-> w]
          \in [req : Requests \cup {NoRequest}, call : 0 .. Calls,
               fate : Fates, to : Windows \cup {None}]
    BY <1>1, <1>2 DEF IInv, TypeOK, Fates
  <2>2. asks' \in [Asks -> [req : Requests \cup {NoRequest}, call : 0 .. Calls,
                            fate : Fates, to : Windows \cup {None}]]
    BY <2>1 DEF IInv, TypeOK
  <2> QED
    BY <1>1, <1>5, <2>2 DEF IInv, TypeOK
<1>8. \A slot : ConfirmedIn(slot, asks) => ConfirmedIn(slot, asks')
  BY <1>4 DEF ConfirmedIn, Hash
<1>9. Sound(disk, asks', complete)
  <2>1. Sound(disk, asks, complete)
    BY DEF IInv, JournalsSound
  <2>2. Traced(disk, asks')
    BY <1>4, <2>1 DEF Sound, Traced, Broadcast, Hash
  <2>3. Ordered(disk, asks')
    BY <1>8, <2>1 DEF Sound, Ordered
  <2>4. Covers(disk, asks', complete)
    BY <1>1, <1>3, <1>4, <2>1 DEF Sound, Covers, LiveIn
  <2>5. Whole(disk, asks', complete)
    BY <1>3 DEF Whole
  <2> QED
    BY <2>2, <2>3, <2>4, <2>5 DEF Sound
<1>10. JournalsSound' /\ OneCopy'
  BY <1>1, <1>3, <1>9 DEF JournalsSound, OneCopy
<1>11. AsksSound'
  BY <1>1, <1>2, <1>4, <1>5, <1>6, DirectBatchAssumption DEF IInv, AsksSound
<1>12. LockHeld' /\ SessionCurrent'
  BY <1>1, <1>2, <1>3, <1>5 DEF LockHeld, SessionCurrent, Found
<1>13. AtItsCall'
  BY <1>1, <1>5, <1>8 DEF AtItsCall
<1>14. SlotOurs' /\ OneLivePerCall'
  BY <1>1, <1>3, <1>4, <1>5 DEF IInv, SlotOurs, OneLivePerCall, LiveIn
<1> QED
  BY <1>7, <1>10, <1>11, <1>12, <1>13, <1>14 DEF IInv

\* From the marker to the answer: the window's session is the journal on disk, the only copy.
LEMMA Marked ==
  ASSUME IInv, NEW w \in Windows, pc[w] \in {"called", "prompt"}
  PROVE  /\ at[w] \in Slots
         /\ ses[w] = disk /\ disk \in Journals /\ disk.req \in Requests
         /\ disk.hashes[at[w]] = Sending
         /\ \A k \in Slots : k < at[w] => ConfirmedIn(disk.hashes[k], asks)
         /\ \A k \in Slots \ {at[w]} : disk.hashes[k] # Sending
         /\ \A i \in Slots : disk.hashes[i] \notin complete
         /\ \A v \in Windows : mem[v] = NoJournal
         /\ Sound(disk, asks, complete)
<1>1. ses[w] = disk /\ at[w] \in Slots /\ disk.req \in Requests /\ disk.hashes[at[w]] = Sending
  BY DEF IInv, SessionCurrent, Found, SlotOurs, AtItsCall
<1>2. disk \in Journals /\ Sound(disk, asks, complete)
  BY DEF IInv, TypeOK, JournalsSound
<1>3. \A k \in Slots \ {at[w]} : disk.hashes[k] # Sending
  BY <1>1, <1>2, OneMarker DEF Sound
<1> QED
  BY <1>1, <1>2, <1>3 DEF IInv, SlotOurs, AtItsCall

\* The answers that are heard or lost leave of a prompt all but who waits for it.
LEMMA AsksKept ==
  ASSUME IInv, complete' = complete,
         asks' \in [Asks -> [req : Requests \cup {NoRequest}, call : 0 .. Calls,
                             fate : Fates, to : Windows \cup {None}]],
         \A m \in Asks : /\ asks'[m].req = asks[m].req /\ asks'[m].call = asks[m].call
                         /\ asks'[m].fate = asks[m].fate /\ asks'[m].to = None
  PROVE  AsksSound' /\ OneLivePerCall'
<1>1. \A m \in Asks : asks'[m].fate = "none" => asks'[m] = NoAsk
  BY DEF IInv, AsksSound, NoAsk
<1>2. AsksSound'
  BY <1>1 DEF IInv, AsksSound
<1>3. OneLivePerCall'
  BY DEF IInv, OneLivePerCall, LiveIn
<1> QED
  BY <1>2, <1>3

\* The prompt a window hears of is the only live one for its call.
LEMMA Heard ==
  ASSUME IInv, NEW w \in Windows, NEW n \in Asks, Hears(w, n)
  PROVE  /\ pc[w] = "prompt" /\ n \notin complete
         /\ asks[n].req = ses[w].req /\ asks[n].call = at[w]
         /\ asks' \in [Asks -> [req : Requests \cup {NoRequest}, call : 0 .. Calls,
                                fate : Fates, to : Windows \cup {None}]]
         /\ \A m \in Asks : /\ asks'[m].req = asks[m].req /\ asks'[m].call = asks[m].call
                            /\ asks'[m].fate = asks[m].fate /\ asks'[m].to = None
         /\ \A m \in Asks : LiveIn(m, asks, complete) /\ asks[m].call = at[w] => m = n
<1>1. /\ pc[w] = "prompt" /\ asks[n].to = w /\ w # None
      /\ asks' = [asks EXCEPT ![n].to = None]
  BY DirectBatchAssumption DEF Hears
<1>2. n \notin complete /\ asks[n].req = ses[w].req /\ asks[n].call = at[w]
  BY <1>1 DEF IInv, AsksSound
<1>3. \A m \in Asks : asks[m].to = w => m = n
  BY <1>1 DEF IInv, AsksSound
<1>4. \A m \in Asks \ {n} : asks[m].to = None
  BY <1>1, <1>3, OthersIdle DEF IInv, AsksSound, TypeOK
<1>5. /\ asks' \in [Asks -> [req : Requests \cup {NoRequest}, call : 0 .. Calls,
                             fate : Fates, to : Windows \cup {None}]]
      /\ \A m \in Asks : /\ asks'[m].req = asks[m].req /\ asks'[m].call = asks[m].call
                         /\ asks'[m].fate = asks[m].fate /\ asks'[m].to = None
  BY <1>1, <1>4 DEF IInv, TypeOK
<1>6. \A m \in Asks : LiveIn(m, asks, complete) /\ asks[m].call = at[w] => m = n
  BY <1>1, <1>3 DEF IInv, SlotOurs
<1> QED
  BY <1>1, <1>2, <1>5, <1>6

\* The marker is set back, on disk or in memory, with nothing live behind it.
LEMMA UndoKeeps ==
  ASSUME IInv, NEW w \in Windows, pc[w] \in {"called", "prompt"},
         Persist(w, Set(w, Null), "undo"), Stop(w), complete' = complete,
         asks' \in [Asks -> [req : Requests \cup {NoRequest}, call : 0 .. Calls,
                             fate : Fates, to : Windows \cup {None}]],
         \A m \in Asks : /\ asks'[m].req = asks[m].req /\ asks'[m].call = asks[m].call
                         /\ asks'[m].fate = asks[m].fate /\ asks'[m].to = None,
         \A m \in Asks : LiveIn(m, asks, complete) => asks[m].call # at[w]
  PROVE  IInv'
<1> DEFINE s == Set(w, Null)
<1>1. /\ at[w] \in Slots
      /\ ses[w] = disk /\ disk \in Journals /\ disk.req \in Requests
      /\ disk.hashes[at[w]] = Sending
      /\ \A k \in Slots \ {at[w]} : disk.hashes[k] # Sending
      /\ \A i \in Slots : disk.hashes[i] \notin complete
      /\ \A v \in Windows : mem[v] = NoJournal
      /\ Sound(disk, asks, complete)
  BY Marked
<1>2. /\ Null \in -1 .. MaxAsks /\ Null # Sending /\ complete \subseteq Asks
      /\ ~ConfirmedIn(Sending, asks')
  BY DirectBatchAssumption DEF Null, Sending, IInv, TypeOK, ConfirmedIn, Hash, Asks
<1>3. /\ s \in Journals /\ s.req = disk.req
      /\ s.hashes[at[w]] = Null
      /\ \A k \in Slots \ {at[w]} : s.hashes[k] = disk.hashes[k]
  BY <1>1, <1>2, SetForm
<1>4. Persist(w, s, "undo")
  OBVIOUS
<1> HIDE DEF s
<1>5. Sound(disk, asks', complete)
  BY <1>1, SoundKept DEF LiveIn
<1>6. \A n \in Asks : LiveIn(n, asks', complete) => asks'[n].call \in Slots /\ asks'[n].call # at[w]
  BY DEF IInv, AsksSound, LiveIn
<1>7. Sound(s, asks', complete)
  BY <1>1, <1>2, <1>3, <1>5, <1>6, SoundReset
<1>8. disk' \in Journals /\ mem' \in [Windows -> Journals] /\ JournalsSound' /\ OneCopy'
  <2>1. CASE disk' = s /\ mem' = [mem EXCEPT ![w] = NoJournal]
    BY <1>1, <1>3, <1>7, <2>1, Saved
  <2>2. CASE disk' = disk /\ mem' = [mem EXCEPT ![w] = s]
    <3>1. \A k \in Slots : s.hashes[k] # Sending
      BY <1>1, <1>2, <1>3
    <3>2. Sound(disk, asks', complete') /\ Sound(s, asks', complete')
      BY <1>5, <1>7
    <3>3. \E i \in Slots : /\ disk.hashes[i] = Sending
                           /\ \A k \in Slots \ {i} : s.hashes[k] = disk.hashes[k]
      BY <1>1, <1>3
    <3>4. /\ mem' \in [Windows -> Journals] /\ mem'[w] = s
          /\ \A v \in Windows \ {w} : mem'[v] = NoJournal
      BY <1>1, <1>3, <2>2 DEF IInv, TypeOK
    <3> QED
      BY <1>3, <2>2, <3>1, <3>2, <3>3, <3>4, Remembered
  <2> QED
    BY <1>4, <2>1, <2>2 DEF Persist
<1>9. \A v \in Windows : pc'[v] = "idle"
  BY StopForm, OthersIdle DEF IInv
<1>10. TypeOK'
  BY <1>8, StopForm DEF IInv, TypeOK
<1> QED
  BY <1>8, <1>9, <1>10, IdleHolds, AsksKept DEF IInv

\* invokeWallet gave up before it called the wallet.
LEMMA NotInvokedKeeps ==
  ASSUME IInv, NEW w \in Windows, NotInvoked(w)
  PROVE  IInv'
<1>1. /\ pc[w] = "called" /\ Persist(w, Set(w, Null), "undo") /\ Stop(w)
      /\ asks' = asks /\ complete' = complete
  BY DEF NotInvoked
<1>2. \A n \in Asks : asks[n].to = None
  BY <1>1, NobodyWaits
<1>3. \A n \in Asks : LiveIn(n, asks, complete) => asks[n].call # at[w]
  BY <1>1 DEF IInv, SlotOurs
<1>4. asks \in [Asks -> [req : Requests \cup {NoRequest}, call : 0 .. Calls,
                         fate : Fates, to : Windows \cup {None}]]
  BY DEF IInv, TypeOK
<1> QED
  BY <1>1, <1>2, <1>3, <1>4, UndoKeeps

\* The user refused the prompt.
LEMMA RejectedKeeps ==
  ASSUME IInv, NEW w \in Windows, Rejected(w)
  PROVE  IInv'
<1> PICK n \in Asks : /\ asks[n].fate = "refused" /\ Hears(w, n)
                      /\ Persist(w, Set(w, Null), "undo") /\ Stop(w) /\ complete' = complete
  BY DEF Rejected
<1>1. \A m \in Asks : LiveIn(m, asks, complete) => asks[m].call # at[w]
  BY Heard DEF LiveIn
<1> QED
  BY <1>1, Heard, UndoKeeps

\* The wallet failed in a way that says nothing: the marker stays.
LEMMA UnsureKeeps ==
  ASSUME IInv, NEW w \in Windows, Unsure(w)
  PROVE  IInv'
<1> PICK n \in Asks : Hears(w, n) /\ Stop(w) /\ UNCHANGED <<disk, mem, complete>>
  BY DEF Unsure
<1>1. AsksSound' /\ OneLivePerCall'
  BY Heard, AsksKept
<1>2. \A j \in Journals : Sound(j, asks, complete) => Sound(j, asks', complete)
  BY Heard, SoundKept DEF LiveIn
<1>3. JournalsSound' /\ OneCopy'
  BY <1>2 DEF IInv, TypeOK, JournalsSound, OneCopy
<1>4. \A v \in Windows : pc'[v] = "idle"
  BY StopForm, OthersIdle, Heard DEF IInv
<1>5. TypeOK'
  BY StopForm, Heard DEF IInv, TypeOK
<1> QED
  BY <1>1, <1>3, <1>4, <1>5, IdleHolds DEF IInv

\* onSubmitted: the hash takes the place of the marker, on disk or in memory.
LEMMA AnsweredKeeps ==
  ASSUME IInv, NEW w \in Windows, Answered(w)
  PROVE  IInv'
<1> PICK n \in Asks : /\ asks[n].fate \in Broadcast /\ Hears(w, n)
                      /\ Persist(w, Set(w, n), "hash") /\ Go(w, "track", at[w], Set(w, n))
                      /\ complete' = complete
  BY DEF Answered, Broadcast
<1> DEFINE s == Set(w, n)
<1>1. /\ pc[w] = "prompt" /\ n \notin complete
      /\ asks[n].req = ses[w].req /\ asks[n].call = at[w]
      /\ asks' \in [Asks -> [req : Requests \cup {NoRequest}, call : 0 .. Calls,
                             fate : Fates, to : Windows \cup {None}]]
      /\ \A m \in Asks : /\ asks'[m].req = asks[m].req /\ asks'[m].call = asks[m].call
                         /\ asks'[m].fate = asks[m].fate /\ asks'[m].to = None
      /\ \A m \in Asks : LiveIn(m, asks, complete) /\ asks[m].call = at[w] => m = n
  BY Heard
<1>2. /\ at[w] \in Slots
      /\ ses[w] = disk /\ disk \in Journals /\ disk.req \in Requests
      /\ disk.hashes[at[w]] = Sending
      /\ \A k \in Slots : k < at[w] => ConfirmedIn(disk.hashes[k], asks)
      /\ \A k \in Slots \ {at[w]} : disk.hashes[k] # Sending
      /\ \A i \in Slots : disk.hashes[i] \notin complete
      /\ \A v \in Windows : mem[v] = NoJournal
      /\ Sound(disk, asks, complete)
  BY <1>1, Marked
<1>3. /\ n \in -1 .. MaxAsks /\ n # Sending /\ n # Null /\ Hash(n) /\ complete \subseteq Asks
      /\ ~ConfirmedIn(Sending, asks')
  BY DirectBatchAssumption DEF Null, Sending, IInv, TypeOK, ConfirmedIn, Hash, Asks
<1>4. /\ s \in Journals /\ s.req = disk.req /\ s.req \in Requests /\ s # NoJournal
      /\ s.hashes[at[w]] = n
      /\ \A k \in Slots \ {at[w]} : s.hashes[k] = disk.hashes[k]
  BY <1>1, <1>2, <1>3, SetForm
<1>5. Persist(w, s, "hash") /\ Go(w, "track", at[w], s)
  OBVIOUS
<1> HIDE DEF s
<1>6. Sound(disk, asks', complete)
  BY <1>1, <1>2, SoundKept DEF LiveIn
<1>7. \A m \in Asks : LiveIn(m, asks', complete) =>
        asks'[m].call \in Slots /\ (asks'[m].call = at[w] => m = n)
  BY <1>1 DEF IInv, AsksSound, LiveIn
<1>8. \A k \in Slots : k < at[w] => ConfirmedIn(disk.hashes[k], asks')
  BY <1>1, <1>2 DEF ConfirmedIn, Hash
<1>9. asks'[n].req = disk.req /\ asks'[n].call = at[w] /\ asks'[n].fate \in Broadcast
  BY <1>1, <1>2
<1>10. Sound(s, asks', complete)
  <2>1. ~ConfirmedIn(disk.hashes[at[w]], asks') /\ \A k \in Slots : disk.hashes[k] \notin complete
    BY <1>2, <1>3
  <2>2. /\ disk \in Journals /\ complete \subseteq Asks /\ at[w] \in Slots /\ n \notin complete
        /\ s \in Journals /\ s.req = disk.req /\ s.hashes[at[w]] = n
        /\ \A k \in Slots \ {at[w]} : s.hashes[k] = disk.hashes[k]
    BY <1>1, <1>2, <1>3, <1>4
  <2> QED
    BY <1>6, <1>7, <1>8, <1>9, <2>1, <2>2, SoundHash
<1>11. /\ disk' \in Journals /\ mem' \in [Windows -> Journals] /\ JournalsSound' /\ OneCopy'
       /\ s = IF mem'[w] # NoJournal THEN mem'[w] ELSE disk'
  <2>1. CASE disk' = s /\ mem' = [mem EXCEPT ![w] = NoJournal]
    BY <1>2, <1>4, <1>10, <2>1, Saved
  <2>2. CASE disk' = disk /\ mem' = [mem EXCEPT ![w] = s]
    <3>1. \A k \in Slots : s.hashes[k] # Sending
      BY <1>2, <1>3, <1>4
    <3>2. Sound(disk, asks', complete') /\ Sound(s, asks', complete')
      BY <1>6, <1>10
    <3>3. \E i \in Slots : /\ disk.hashes[i] = Sending
                           /\ \A k \in Slots \ {i} : s.hashes[k] = disk.hashes[k]
      BY <1>2, <1>4
    <3>4. /\ mem' \in [Windows -> Journals] /\ mem'[w] = s
          /\ \A v \in Windows \ {w} : mem'[v] = NoJournal
      BY <1>2, <1>4, <2>2 DEF IInv, TypeOK
    <3> QED
      BY <1>4, <2>2, <3>1, <3>2, <3>3, <3>4, Remembered
  <2> QED
    BY <1>5, <2>1, <2>2 DEF Persist
<1>12. /\ pc'[w] = "track" /\ at'[w] = at[w] /\ ses'[w] = s /\ lock' = w
       /\ \A v \in Windows \ {w} : pc'[v] = "idle"
       /\ pc' \in [Windows -> PCs] /\ at' \in [Windows -> 0 .. Calls]
       /\ ses' \in [Windows -> Journals] /\ lock' \in Windows \cup {None}
  BY <1>1, <1>4, <1>5, GoForm, OthersIdle DEF IInv, PCs, TypeOK
<1>13. TypeOK'
  BY <1>1, <1>11, <1>12 DEF IInv, TypeOK
<1>14. AsksSound' /\ OneLivePerCall'
  BY <1>1, AsksKept
<1>15. LockHeld' /\ SlotOurs'
  BY <1>12 DEF LockHeld, SlotOurs
<1>16. SessionCurrent'
  BY <1>4, <1>11, <1>12 DEF SessionCurrent, Found
<1>17. AtItsCall'
  <2>1. \A k \in Slots : k < at[w] => k # at[w]
    BY <1>2 DEF Slots
  <2>2. \A k \in Slots : k < at[w] => ConfirmedIn(s.hashes[k], asks')
    BY <1>4, <1>8, <2>1
  <2> QED
    BY <1>2, <1>3, <1>4, <1>12, <2>2 DEF AtItsCall
<1> QED
  BY <1>11, <1>13, <1>14, <1>15, <1>16, <1>17 DEF IInv

\* The receipt of the call just sent.
LEMMA TrackedKeeps ==
  ASSUME IInv, NEW w \in Windows, Tracked(w)
  PROVE  IInv'
<1>1. /\ pc[w] = "track" /\ UNCHANGED <<disk, mem, asks, complete>>
      /\ at[w] \in Slots /\ Hash(ses[w].hashes[at[w]])
      /\ \A k \in Slots : k < at[w] => ConfirmedIn(ses[w].hashes[k], asks)
      /\ ses[w] = Found(w)
  BY DEF Tracked, IInv, AtItsCall, SessionCurrent
<1>2. ses[w] \in Journals /\ ses[w].req \in Requests
  BY <1>1, SessionSound
<1>3. CASE asks[ses[w].hashes[at[w]]].fate = "ok" /\ Turn(w, at[w] + 1, ses[w])
  <2>1. at[w] + 1 \in 1 .. Calls + 1
    BY <1>1, DirectBatchAssumption DEF Slots
  <2>2. \A k \in Slots : k < at[w] + 1 => ConfirmedIn(ses[w].hashes[k], asks)
    <3> SUFFICES ASSUME NEW k \in Slots, k < at[w] + 1 PROVE ConfirmedIn(ses[w].hashes[k], asks)
      OBVIOUS
    <3>1. k < at[w] \/ k = at[w]
      BY <1>1 DEF Slots
    <3> QED
      BY <1>1, <1>3, <3>1 DEF ConfirmedIn
  <2> QED
    BY <1>1, <1>2, <1>3, <2>1, <2>2, TurnKeeps
<1>4. CASE Stop(w)
  BY <1>1, <1>4, StopKeeps
<1> QED
  BY <1>3, <1>4 DEF Tracked

\* The review is given up.
LEMMA GiveUpKeeps ==
  ASSUME IInv, NEW w \in Windows, GiveUp(w)
  PROVE  IInv'
BY StopKeeps DEF GiveUp

\* The last call is confirmed: onComplete throws, or the batch is completed.
LEMMA FinishKeeps ==
  ASSUME IInv, NEW w \in Windows, Finish(w)
  PROVE  IInv'
<1>1. /\ pc[w] = "finish" /\ Stop(w) /\ asks' = asks
      /\ ses[w] = Found(w)
      /\ \A i \in Slots : ConfirmedIn(ses[w].hashes[i], asks)
  BY DEF Finish, IInv, AtItsCall, SessionCurrent
<1>2. ses[w] \in Journals /\ ses[w].req \in Requests /\ Sound(ses[w], asks, complete)
  BY <1>1, SessionSound
<1>3. CASE UNCHANGED <<disk, mem, complete>>
  BY <1>1, <1>3, StopKeeps
<1>4. CASE /\ disk' = NoJournal \/ disk' = disk
           /\ mem' = [mem EXCEPT ![w] = NoJournal]
           /\ complete' = complete \cup {ses[w].hashes[i] : i \in Slots}
  <2>1. complete \subseteq Asks /\ complete' \subseteq Asks
    BY <1>1, <1>4 DEF IInv, TypeOK, ConfirmedIn, Hash
  <2>2. \A v \in Windows \ {w} : mem[v] = NoJournal
    BY <1>1, OnlyCopy
  <2>3. disk \in Journals /\ Sound(disk, asks, complete)
    BY DEF IInv, TypeOK, JournalsSound
  <2>4. \A i \in Slots : disk.hashes[i] \in {Sending, ses[w].hashes[i]}
    BY <1>1 DEF Found, IInv, OneCopy
  <2>5. \A n \in Asks : LiveIn(n, asks, complete) => asks[n].call \in Slots
    BY DEF IInv, AsksSound, LiveIn
  <2>6. Sound(disk, asks, complete') /\ \A n \in Asks : ~LiveIn(n, asks, complete')
    BY <1>1, <1>2, <1>4, <2>1, <2>3, <2>4, <2>5, SoundCompleted
  <2>7. NoJournal \in Journals /\ Sound(NoJournal, asks, complete')
    BY <2>1, <2>6, DirectBatchAssumption
       DEF NoJournal, Journals, Sound, Traced, Ordered, Covers, Whole, Null, Sending, Hash, Asks
  <2>8. disk' \in Journals /\ Sound(disk', asks', complete')
    BY <1>1, <1>4, <2>3, <2>6, <2>7
  <2>9. /\ disk' \in Journals /\ mem' \in [Windows -> Journals] /\ JournalsSound' /\ OneCopy'
    BY <1>4, <2>2, <2>8, Saved
  <2>10. \A v \in Windows : pc'[v] = "idle"
    BY <1>1, StopForm, OthersIdle DEF IInv
  <2>11. AsksSound'
    <3>1. \A n \in Asks : asks[n].to = None
      BY <1>1, NobodyWaits
    <3>2. \A n \in complete' : asks[n].fate = "ok"
      BY <1>1, <1>4 DEF IInv, AsksSound, TypeOK, ConfirmedIn
    <3> QED
      BY <1>1, <3>1, <3>2 DEF IInv, AsksSound
  <2>12. OneLivePerCall'
    BY <1>1, <2>6 DEF OneLivePerCall
  <2>13. TypeOK'
    BY <1>1, <2>1, <2>9, StopForm DEF IInv, TypeOK
  <2> QED
    BY <2>9, <2>10, <2>11, <2>12, <2>13, IdleHolds DEF IInv
<1> QED
  BY <1>3, <1>4 DEF Finish

\* A batch with nothing marked or sent is discarded.
LEMMA ClearUnsubmittedKeeps ==
  ASSUME IInv, NEW w \in Windows, ClearUnsubmitted(w)
  PROVE  IInv'
<1>1. /\ lock = None /\ pc[w] = "idle" /\ disk' = NoJournal
      /\ UNCHANGED <<mem, lock, pc, at, ses, asks, complete>>
      /\ \A i \in Slots : disk.hashes[i] = Null
  BY DEF ClearUnsubmitted, Unsubmitted
<1>2. Null # Sending /\ Null \notin Asks
  BY DirectBatchAssumption DEF Null, Sending, Asks
<1>3. \A v \in Windows : mem[v] = NoJournal
  BY <1>1, <1>2 DEF IInv, OneCopy
<1>4. \A n \in Asks : ~LiveIn(n, asks, complete)
  BY <1>1, <1>2 DEF IInv, JournalsSound, Sound, Covers, AsksSound, LiveIn
<1>5. NoJournal \in Journals /\ Sound(NoJournal, asks, complete)
  <2>1. complete \subseteq Asks
    BY DEF IInv, TypeOK
  <2> QED
    BY <1>4, <2>1, DirectBatchAssumption
       DEF NoJournal, Journals, Sound, Traced, Ordered, Covers, Whole, Null, Sending, Hash, Asks
<1>6. \A v \in Windows : pc'[v] = "idle"
  BY <1>1, OthersIdle
<1>7. JournalsSound' /\ OneCopy'
  BY <1>1, <1>3, <1>5 DEF JournalsSound, OneCopy
<1>8. TypeOK'
  BY <1>1, <1>5 DEF IInv, TypeOK
<1>9. AsksSound' /\ OneLivePerCall'
  BY <1>1 DEF IInv, AsksSound, OneLivePerCall
<1> QED
  BY <1>6, <1>7, <1>8, <1>9, IdleHolds DEF IInv

\* A reload loses the window's copy and its run, and nobody hears of its prompt any more.
LEMMA ReloadKeeps ==
  ASSUME IInv, NEW w \in Windows, Reload(w)
  PROVE  IInv'
<1>1. /\ disk' = disk /\ complete' = complete
      /\ mem' = [mem EXCEPT ![w] = NoJournal]
      /\ mem'[w] = NoJournal /\ \A v \in Windows \ {w} : mem'[v] = mem[v]
      /\ pc'[w] = "idle"
      /\ \A v \in Windows \ {w} : pc'[v] = pc[v] /\ at'[v] = at[v] /\ ses'[v] = ses[v]
      /\ lock' = IF lock = w THEN None ELSE lock
  BY DEF Reload, IInv, TypeOK
<1>2. /\ \A n \in Asks : /\ asks'[n].req = asks[n].req /\ asks'[n].call = asks[n].call
                         /\ asks'[n].fate = asks[n].fate
                         /\ asks'[n].to = IF asks[n].to = w THEN None ELSE asks[n].to
      /\ asks' \in [Asks -> [req : Requests \cup {NoRequest}, call : 0 .. Calls,
                             fate : Fates, to : Windows \cup {None}]]
  BY DEF Reload, IInv, TypeOK
<1>3. TypeOK'
  <2>1. /\ pc' \in [Windows -> PCs] /\ at' \in [Windows -> 0 .. Calls]
        /\ ses' \in [Windows -> Journals] /\ mem' \in [Windows -> Journals]
    BY DirectBatchAssumption DEF Reload, IInv, TypeOK, PCs, Journals
  <2> QED
    BY <1>1, <1>2, <2>1 DEF IInv, TypeOK
<1>4. \A slot : ConfirmedIn(slot, asks) => ConfirmedIn(slot, asks')
  BY <1>2 DEF ConfirmedIn, Hash
<1>5. \A n \in Asks : LiveIn(n, asks', complete) <=> LiveIn(n, asks, complete)
  BY <1>2 DEF LiveIn
<1>6. \A j \in Journals : Sound(j, asks, complete) => Sound(j, asks', complete)
  BY <1>2, <1>5, SoundKept
<1>7. JournalsSound'
  BY <1>1, <1>6 DEF IInv, TypeOK, JournalsSound
<1>8. AsksSound'
  <2> SUFFICES ASSUME NEW n \in Asks
               PROVE  /\ asks'[n].fate = "none" => asks'[n] = NoAsk
                      /\ asks'[n].fate # "none" => asks'[n].req \in Requests /\ asks'[n].call \in Slots
                      /\ n \in complete' => asks'[n].fate = "ok" /\ asks'[n].to = None
                      /\ asks'[n].to # None =>
                           /\ asks'[n].fate # "none"
                           /\ pc'[asks'[n].to] = "prompt"
                           /\ asks'[n].req = ses'[asks'[n].to].req
                           /\ asks'[n].call = at'[asks'[n].to]
                           /\ \A m \in Asks : asks'[m].to = asks'[n].to => m = n
    BY DEF AsksSound
  <2>1. asks'[n].fate = "none" => asks'[n] = NoAsk
    BY <1>2 DEF IInv, AsksSound, NoAsk
  <2>2. asks'[n].to # None => asks[n].to = asks'[n].to /\ asks[n].to \in Windows \ {w}
    BY <1>2 DEF IInv, TypeOK
  <2>3. asks'[n].to # None => \A m \in Asks : asks'[m].to = asks'[n].to => m = n
    BY <1>2, <2>2 DEF IInv, AsksSound
  <2> QED
    BY <1>1, <1>2, <2>1, <2>2, <2>3 DEF IInv, AsksSound
<1>9. LockHeld'
  BY <1>1 DEF IInv, LockHeld
<1>10. SessionCurrent'
  BY <1>1 DEF IInv, SessionCurrent, Found
<1>11. AtItsCall'
  <2> SUFFICES ASSUME NEW v \in Windows \ {w}
               PROVE  /\ pc[v] \in {"check", "review", "called", "prompt", "track"} =>
                           at[v] \in Slots /\ \A k \in Slots : k < at[v] => ConfirmedIn(ses[v].hashes[k], asks')
                      /\ pc[v] \in {"check", "track"} => Hash(ses[v].hashes[at[v]])
                      /\ pc[v] = "review" => ses[v].hashes[at[v]] = Null
                      /\ pc[v] \in {"called", "prompt"} => ses[v].hashes[at[v]] = Sending
                      /\ pc[v] = "finish" => \A i \in Slots : ConfirmedIn(ses[v].hashes[i], asks')
    BY <1>1 DEF AtItsCall
  <2> QED
    BY <1>4 DEF IInv, AtItsCall
<1>12. SlotOurs'
  <2> SUFFICES ASSUME NEW v \in Windows \ {w}, pc[v] \in {"called", "prompt"}
               PROVE  /\ \A u \in Windows : mem'[u] = NoJournal
                      /\ \A i \in Slots : disk.hashes[i] \notin complete
                      /\ \A n \in Asks : LiveIn(n, asks', complete) /\ asks'[n].call = at[v] =>
                           pc[v] = "prompt" /\ asks'[n].to = v
    BY <1>1 DEF SlotOurs
  <2>1. \A u \in Windows : mem'[u] = NoJournal
    BY <1>1 DEF IInv, SlotOurs
  <2> QED
    BY <1>2, <1>5, <2>1 DEF IInv, SlotOurs
<1>13. OneCopy'
  BY <1>1 DEF IInv, OneCopy
<1>14. OneLivePerCall'
  BY <1>1, <1>2, <1>5 DEF IInv, OneLivePerCall
<1> QED
  BY <1>3, <1>7, <1>8, <1>9, <1>10, <1>11, <1>12, <1>13, <1>14 DEF IInv

\* The wallet and the chain answer a prompt without any window.
LEMMA OutsideKeeps ==
  ASSUME IInv, NEW n \in Asks, Approve(n) \/ Refuse(n) \/ Include(n)
  PROVE  IInv'
<1> PICK from \in {"open", "sent"}, to \in Fates :
      /\ Become(n, from, to)
      /\ \/ from = "open" /\ to \in {"sent", "refused"}
         \/ from = "sent" /\ to \in {"ok", "odd", "reverted"}
  BY DEF Approve, Refuse, Include, Fates
<1>1. /\ asks[n].fate = from /\ UNCHANGED <<disk, mem, lock, pc, at, ses, complete>>
      /\ asks' \in [Asks -> [req : Requests \cup {NoRequest}, call : 0 .. Calls,
                             fate : Fates, to : Windows \cup {None}]]
      /\ asks'[n].fate = to
      /\ \A m \in Asks : /\ asks'[m].req = asks[m].req /\ asks'[m].call = asks[m].call
                         /\ asks'[m].to = asks[m].to
                         /\ m # n => asks'[m] = asks[m]
  BY DEF Become, IInv, TypeOK
<1>2. TypeOK'
  BY <1>1 DEF IInv, TypeOK
<1>3. \A slot : ConfirmedIn(slot, asks) => ConfirmedIn(slot, asks')
  BY <1>1 DEF ConfirmedIn, Hash
<1>4. /\ \A m \in Asks : LiveIn(m, asks', complete) => LiveIn(m, asks, complete)
      /\ \A m \in Asks : asks[m].fate = "ok" => asks'[m].fate = "ok"
      /\ \A m \in Asks : asks[m].fate \in Broadcast => asks'[m].fate \in Broadcast
  BY <1>1 DEF LiveIn, Broadcast
<1>5. \A j \in Journals : Sound(j, asks, complete) => Sound(j, asks', complete)
  BY <1>1, <1>4, SoundKept
<1>6. JournalsSound'
  BY <1>1, <1>5 DEF IInv, TypeOK, JournalsSound
<1>7. AsksSound'
  BY <1>1 DEF IInv, AsksSound
<1>8. LockHeld' /\ SessionCurrent' /\ OneCopy'
  BY <1>1 DEF IInv, LockHeld, SessionCurrent, Found, OneCopy
<1>9. AtItsCall'
  BY <1>1, <1>3 DEF IInv, AtItsCall
<1>10. SlotOurs'
  BY <1>1, <1>4 DEF IInv, SlotOurs
<1>11. OneLivePerCall'
  BY <1>1, <1>4 DEF IInv, OneLivePerCall
<1> QED
  BY <1>2, <1>6, <1>7, <1>8, <1>9, <1>10, <1>11 DEF IInv

\* Every step keeps the invariant.
LEMMA StepKeeps ==
  ASSUME Durable, IInv, [Next]_vars
  PROVE  IInv'
<1>1. CASE UNCHANGED vars
  BY <1>1 DEF vars, IInv, TypeOK, JournalsSound, AsksSound, LockHeld, SessionCurrent, Found,
     AtItsCall, SlotOurs, OneCopy, OneLivePerCall
<1>2. ASSUME NEW w \in Windows, WindowStep(w) PROVE IInv'
  BY <1>2, StartKeeps, CheckedKeeps, GiveUpKeeps, MarkSendingKeeps, AskKeeps, NotInvokedKeeps,
     RejectedKeeps, UnsureKeeps, AnsweredKeeps, TrackedKeeps, FinishKeeps,
     ClearUnsubmittedKeeps, ReloadKeeps DEF WindowStep
<1>3. ASSUME NEW n \in Asks, Approve(n) \/ Refuse(n) \/ Include(n) PROVE IInv'
  BY <1>3, OutsideKeeps
<1> QED
  BY <1>1, <1>2, <1>3 DEF Next

\* The invariant holds in every reachable state.
LEMMA Invariance ==
  ASSUME Durable
  PROVE  Spec => []IInv
<1>1. IInv /\ [Next]_vars => IInv'
  BY StepKeeps
<1> QED
  BY <1>1, InitHolds, PTL DEF Spec

\* The state is well formed while the two writes succeed.
THEOREM TypeCorrect ==
  ASSUME Durable
  PROVE  Spec => []TypeOK
<1>1. IInv => TypeOK
  BY DEF IInv
<1> QED
  BY <1>1, Invariance, PTL

\* Nothing a reload, a rejection, a failed save of a hash or of a reset, or the discard of
\* an unsubmitted batch does forgets a send: the disk has its hash or its marker.
THEOREM SendJournaledAlways ==
  ASSUME Durable
  PROVE  Spec => []SendJournaled
<1>1. IInv => SendJournaled
  BY DEF IInv, JournalsSound, Sound, Covers, SendJournaled, Live, LiveIn
<1> QED
  BY <1>1, Invariance, PTL

\* No call of a batch is sent twice, for any number of windows, calls and prompts.
THEOREM SentOnceAlways ==
  ASSUME Durable
  PROVE  Spec => []SentOnce
<1>1. IInv => SentOnce
  BY DEF IInv, JournalsSound, Sound, Covers, OneLivePerCall, SentOnce, Live, LiveIn
<1> QED
  BY <1>1, Invariance, PTL

\* A call is sent only after each earlier one of its batch was confirmed.
THEOREM InOrderAlways ==
  ASSUME Durable
  PROVE  Spec => []InOrder
<1>1. ASSUME IInv PROVE InOrder
  <2> SUFFICES ASSUME NEW n \in Asks, LiveIn(n, asks, complete), NEW i \in 1 .. asks[n].call - 1
               PROVE  \E m \in Asks \ complete :
                        asks[m].call = i /\ asks[m].req = asks[n].req /\ asks[m].fate = "ok"
    BY DEF InOrder, Live, LiveIn
  <2>1. asks[n].call \in Slots /\ disk.req = asks[n].req /\ disk.hashes[asks[n].call] \in {Sending, n}
    BY <1>1 DEF IInv, AsksSound, JournalsSound, Sound, Covers, LiveIn
  <2>2. i \in Slots /\ i < asks[n].call
    BY <2>1, DirectBatchAssumption DEF Slots
  <2>3. disk.hashes[asks[n].call] # Null
    BY <2>1, DirectBatchAssumption DEF Null, Sending, Asks
  <2>4. ConfirmedIn(disk.hashes[i], asks)
    BY <1>1, <2>1, <2>2, <2>3 DEF IInv, JournalsSound, Sound, Ordered
  <2>5. asks[disk.hashes[i]].call = i /\ asks[disk.hashes[i]].req = disk.req
    BY <1>1, <2>2, <2>4 DEF IInv, JournalsSound, Sound, Traced, ConfirmedIn
  <2>6. disk.hashes[i] \notin complete
    BY <1>1, <2>2 DEF IInv, JournalsSound, Sound, Whole
  <2> QED
    BY <2>1, <2>4, <2>5, <2>6 DEF ConfirmedIn, Hash
<1> QED
  BY <1>1, Invariance, PTL

----------------------------------------------------------------------------
(* Each slot of the journal is a SendJournal.                              *)

\* What becomes of the slot i on disk.
SlotStep(i) ==
  \/ disk'.hashes[i] = disk.hashes[i] /\ (disk.hashes[i] = Null \/ disk'.req = disk.req)
  \/ disk'.hashes[i] = Null
  \/ disk.hashes[i] = Null /\ disk'.hashes[i] = Sending
  \/ disk.hashes[i] = Sending /\ Hash(disk'.hashes[i]) /\ disk'.req = disk.req

\* A session differs from the disk in a slot that the disk marks.
LEMMA SessionNear ==
  ASSUME IInv, NEW w \in Windows, pc[w] # "idle"
  PROVE  /\ \A k \in Slots : ses[w].hashes[k] = disk.hashes[k] \/ disk.hashes[k] = Sending
         /\ ses[w].req = disk.req \/ \A k \in Slots : disk.hashes[k] = Null
<1>1. CASE ses[w] = Found(w)
  BY <1>1 DEF Found, IInv, OneCopy
<1>2. CASE Found(w) = NoJournal /\ ses[w] = Fresh(ses[w].req)
  <2>1. disk = NoJournal
    BY <1>2 DEF Found
  <2> QED
    BY <1>2, <2>1 DEF NoJournal, Fresh
<1> QED
  BY <1>1, <1>2 DEF IInv, SessionCurrent

\* Writing a session with one slot set changes the other slots only as a save may.
LEMMA SetNear ==
  ASSUME IInv, NEW w \in Windows, pc[w] # "idle", at[w] \in Slots, NEW v \in -1 .. MaxAsks,
         disk' = Set(w, v), NEW i \in Slots,
         \/ v = Null
         \/ v = Sending /\ disk.hashes[at[w]] \in {Null, Sending}
         \/ Hash(v) /\ disk.hashes[at[w]] = Sending
  PROVE  SlotStep(i)
<1>1. /\ disk'.req = ses[w].req /\ disk'.hashes[at[w]] = v
      /\ \A k \in Slots \ {at[w]} : disk'.hashes[k] = ses[w].hashes[k]
  BY SetForm
<1>2. /\ ses[w].hashes[i] \in -1 .. MaxAsks
      /\ ses[w].hashes[i] = disk.hashes[i] \/ disk.hashes[i] = Sending
      /\ ses[w].req = disk.req \/ disk.hashes[i] = Null
      /\ ses[w].req = disk.req \/ disk.hashes[at[w]] = Null
  BY SessionNear, SessionSound, JournalForm
<1>3. /\ \A h \in -1 .. MaxAsks : h = Null \/ h = Sending \/ Hash(h)
      /\ Sending # Null
  BY DirectBatchAssumption DEF Null, Sending, Hash, Asks
<1>4. CASE i = at[w]
  BY <1>1, <1>2, <1>3, <1>4 DEF SlotStep
<1>5. CASE i # at[w]
  <2>1. disk'.hashes[i] = ses[w].hashes[i]
    BY <1>1, <1>5
  <2> QED
    BY <1>1, <1>2, <1>3, <2>1 DEF SlotStep
<1> QED
  BY <1>4, <1>5

LEMMA SlotSteps ==
  ASSUME IInv, NEW w \in Windows, WindowStep(w), NEW i \in Slots
  PROVE  SlotStep(i)
<1>1. ASSUME disk' = disk PROVE SlotStep(i)
  BY <1>1 DEF SlotStep
<1>2. ASSUME disk' = NoJournal PROVE SlotStep(i)
  BY <1>2 DEF SlotStep, NoJournal
<1>3. Null \in -1 .. MaxAsks /\ Sending \in -1 .. MaxAsks
  BY DirectBatchAssumption DEF Null, Sending
<1>4. CASE Checked(w) \/ NotInvoked(w) \/ Rejected(w)
  <2>1. pc[w] # "idle" /\ at[w] \in Slots
    BY <1>4 DEF Checked, NotInvoked, Rejected, Hears, IInv, AtItsCall
  <2>2. disk' = disk \/ disk' = Set(w, Null)
    BY <1>4 DEF Checked, NotInvoked, Rejected, Persist
  <2> QED
    BY <1>1, <1>3, <2>1, <2>2, SetNear
<1>5. CASE MarkSending(w)
  <2>1. pc[w] # "idle" /\ at[w] \in Slots /\ ses[w].hashes[at[w]] = Null
    BY <1>5 DEF MarkSending, IInv, AtItsCall
  <2>2. disk.hashes[at[w]] \in {Null, Sending}
    BY <2>1, SessionNear
  <2>3. disk' = disk \/ disk' = Set(w, Sending)
    BY <1>5 DEF MarkSending
  <2> QED
    BY <1>1, <1>3, <2>1, <2>2, <2>3, SetNear
<1>6. CASE Answered(w)
  <2>1. PICK n \in Asks : pc[w] = "prompt" /\ Persist(w, Set(w, n), "hash")
    BY <1>6 DEF Answered, Hears
  <2>2. at[w] \in Slots /\ disk.hashes[at[w]] = Sending
    BY <2>1, Marked
  <2>3. n \in -1 .. MaxAsks /\ Hash(n)
    BY DirectBatchAssumption DEF Asks, Hash
  <2>4. disk' = disk \/ disk' = Set(w, n)
    BY <2>1 DEF Persist
  <2> QED
    BY <1>1, <2>1, <2>2, <2>3, <2>4, SetNear
<1>7. CASE Finish(w) \/ ClearUnsubmitted(w)
  BY <1>1, <1>2, <1>7 DEF Finish, ClearUnsubmitted
<1>8. CASE Start(w) \/ GiveUp(w) \/ Ask(w) \/ Unsure(w) \/ Tracked(w) \/ Reload(w)
  BY <1>1, <1>8 DEF Start, GiveUp, Ask, Unsure, Tracked, Reload
<1> QED
  BY <1>4, <1>5, <1>6, <1>7, <1>8 DEF WindowStep

\* What the mark of a slot says of the disk, and of what is live.
SlotFacts ==
  \A i \in Slots :
    /\ SlotMark(i).stage = "clear" => SlotMark(i) = [of |-> NoRequest, stage |-> "clear"]
    /\ \A n \in Asks : SlotPrompt(i, n).stage = "live" =>
         /\ Live(n) /\ asks[n].call = i
         /\ SlotMark(i).stage # "clear"

LEMMA SlotFactsHold == IInv => SlotFacts
<1> SUFFICES ASSUME IInv, NEW i \in Slots
             PROVE  /\ SlotMark(i).stage = "clear" =>
                         SlotMark(i) = [of |-> NoRequest, stage |-> "clear"]
                    /\ \A n \in Asks : SlotPrompt(i, n).stage = "live" =>
                         /\ Live(n) /\ asks[n].call = i
                         /\ SlotMark(i).stage # "clear"
  BY DEF SlotFacts
<1>1. SlotMark(i).stage = "clear" => SlotMark(i) = [of |-> NoRequest, stage |-> "clear"]
  BY DEF SlotMark
<1>2. ASSUME NEW n \in Asks, SlotPrompt(i, n).stage = "live"
      PROVE  Live(n) /\ asks[n].call = i /\ SlotMark(i).stage # "clear"
  <2>1. Live(n) /\ asks[n].call = i
    BY <1>2 DEF SlotPrompt
  <2>2. disk.hashes[i] \in {Sending, n}
    BY <2>1 DEF IInv, JournalsSound, Sound, Covers, Live, LiveIn
  <2>3. disk.hashes[i] # Null
    BY <2>2 DEF Sending, Null, Asks
  <2> QED
    BY <2>1, <2>3 DEF SlotMark
<1> QED
  BY <1>1, <1>2

LEMMA SlotFactsNext == IInv' => SlotFacts'
BY SlotFactsHold, PTL

LEMMA SlotsInit == Init => \A i \in Slots : Slot(i)!JournalInit
<1> SUFFICES ASSUME Init, NEW i \in Slots PROVE Slot(i)!JournalInit
  OBVIOUS
<1>1. SlotMark(i) = [of |-> NoRequest, stage |-> "clear"]
  BY DEF Init, SlotMark, NoJournal
<1>2. \A n \in Asks : SlotPrompt(i, n) = [of |-> NoRequest, stage |-> "new"]
  BY DEF Init, SlotPrompt, NoAsk, Slots
<1> QED
  BY <1>1, <1>2 DEF Slot!JournalInit, Slot!Clear, Slot!Unopened

\* Every prompt is what it was, and counts if it did.
SamePrompts ==
  \A n \in Asks : /\ asks'[n].req = asks[n].req /\ asks'[n].call = asks[n].call
                  /\ Live(n)' <=> Live(n)

\* Only the slot moves: its marker is put, taken back, gets its hash, or stays.
LEMMA SlotMoves ==
  ASSUME IInv, IInv', NEW i \in Slots, SlotStep(i), SamePrompts
  PROVE  [Slot(i)!JournalNext]_(Slot(i)!jvars)
<1>1. /\ Asks' = Asks /\ SlotFacts /\ SlotFacts'
      /\ disk.hashes[i] \in -1 .. MaxAsks /\ disk'.hashes[i] \in -1 .. MaxAsks
      /\ Null # Sending /\ ~Hash(Null) /\ ~Hash(Sending)
  BY SlotFactsHold, SlotFactsNext, JournalForm, DirectBatchAssumption
  DEF Asks, IInv, TypeOK, Null, Sending, Hash
<1>2. \A n \in Asks : SlotPrompt(i, n)' = SlotPrompt(i, n)
  BY DEF SamePrompts, SlotPrompt
<1>3. [n \in Asks |-> SlotPrompt(i, n)]' = [n \in Asks |-> SlotPrompt(i, n)]
  BY <1>1, <1>2
<1>4. CASE disk'.hashes[i] = disk.hashes[i] /\ (disk.hashes[i] = Null \/ disk'.req = disk.req)
  <2>1. SlotMark(i)' = SlotMark(i)
    BY <1>4 DEF SlotMark, Hash, Asks
  <2> QED
    BY <1>3, <2>1 DEF Slot!jvars
<1>5. CASE disk'.hashes[i] = Null
  <2>1. SlotMark(i)' = [of |-> NoRequest, stage |-> "clear"]
    BY <1>5 DEF SlotMark
  <2>2. Slot(i)!Idle
    BY <1>1, <1>2, <2>1 DEF Slot!Idle, SlotFacts
  <2>3. Slot(i)!Unmark
    BY <1>3, <2>1, <2>2 DEF Slot!Unmark, Slot!Clear
  <2> QED
    BY <2>3 DEF Slot!JournalNext
<1>6. CASE disk.hashes[i] = Null /\ disk'.hashes[i] = Sending
  <2>1. SlotMark(i) = [of |-> NoRequest, stage |-> "clear"]
    BY <1>6 DEF SlotMark
  <2>2. SlotMark(i)' = [of |-> disk'.req, stage |-> "sending"]
    BY <1>1, <1>6 DEF SlotMark, Hash, Asks
  <2>3. Slot(i)!Idle
    BY <1>1, <2>1 DEF Slot!Idle, SlotFacts
  <2>4. disk'.req \in Requests
    BY <1>1, <1>6 DEF IInv, TypeOK, Journals, NoJournal
  <2>5. Slot(i)!Mark(disk'.req)
    BY <1>3, <2>1, <2>2, <2>3 DEF Slot!Mark, Slot!Clear
  <2> QED
    BY <2>4, <2>5 DEF Slot!JournalNext
<1>7. CASE disk.hashes[i] = Sending /\ Hash(disk'.hashes[i]) /\ disk'.req = disk.req
  <2> DEFINE n == disk'.hashes[i]
  <2>1. n \in Asks
    BY <1>7 DEF Hash
  <2>2. asks'[n].call = i /\ asks'[n].req = disk'.req
    BY <1>1, <1>7 DEF IInv, JournalsSound, Sound, Traced, Hash, Slots
  <2>3. [m \in Asks |-> SlotPrompt(i, m)][n].of = disk.req
    BY <1>7, <2>1, <2>2 DEF SamePrompts, SlotPrompt
  <2>4. /\ SlotMark(i) = [of |-> disk.req, stage |-> "sending"]
        /\ SlotMark(i)' = [of |-> disk.req, stage |-> "sent"]
    BY <1>1, <1>7 DEF SlotMark, Hash, Asks
  <2>5. Slot(i)!Submit(n)
    BY <1>3, <2>3, <2>4 DEF Slot!Submit
  <2> QED
    BY <2>1, <2>5 DEF Slot!JournalNext
<1> QED
  BY <1>4, <1>5, <1>6, <1>7 DEF SlotStep

LEMMA SlotAsk ==
  ASSUME IInv, NEW w \in Windows, Ask(w), NEW i \in Slots
  PROVE  [Slot(i)!JournalNext]_(Slot(i)!jvars)
<1>1. PICK n \in Asks :
        /\ asks[n] = NoAsk
        /\ asks' = [asks EXCEPT ![n] = [req |-> ses[w].req, call |-> at[w],
                                        fate |-> "open", to |-> w]]
  BY DEF Ask
<1>2. /\ pc[w] = "called" /\ UNCHANGED <<disk, mem, complete>> /\ Asks' = Asks /\ SlotFacts
      /\ asks \in [Asks -> [req : Requests \cup {NoRequest}, call : 0 .. Calls,
                            fate : Fates, to : Windows \cup {None}]]
  BY SlotFactsHold DEF Ask, Asks, IInv, TypeOK
<1>3. at[w] \in Slots /\ ses[w] = disk /\ disk.hashes[at[w]] = Sending
  BY <1>2, Marked
<1>4. SlotMark(i)' = SlotMark(i)
  BY <1>2 DEF SlotMark, Hash, Asks
<1>5. n \notin complete
  BY <1>1 DEF IInv, AsksSound, NoAsk
<1>6. /\ SlotPrompt(i, n) = [of |-> NoRequest, stage |-> "new"]
      /\ \A m \in Asks : SlotPrompt(i, m)' = IF m = n /\ at[w] = i
                           THEN [of |-> disk.req, stage |-> "live"]
                           ELSE SlotPrompt(i, m)
  BY <1>1, <1>2, <1>3, <1>5 DEF SlotPrompt, NoAsk, Live, Slots
<1>7. CASE at[w] # i
  <2>1. [m \in Asks |-> SlotPrompt(i, m)]' = [m \in Asks |-> SlotPrompt(i, m)]
    BY <1>2, <1>6, <1>7
  <2> QED
    BY <1>4, <2>1 DEF Slot!jvars
<1>8. CASE at[w] = i
  <2>1. SlotMark(i) = [of |-> disk.req, stage |-> "sending"]
    BY <1>3, <1>8, DirectBatchAssumption DEF SlotMark, Hash, Asks, Sending, Null
  <2>2. Slot(i)!Idle
    <3> SUFFICES ASSUME NEW m \in Asks, SlotPrompt(i, m).stage = "live" PROVE FALSE
      BY DEF Slot!Idle
    <3>1. LiveIn(m, asks, complete) /\ asks[m].call = at[w]
      BY <1>2, <1>8 DEF SlotFacts, Live, LiveIn
    <3> QED
      BY <1>2, <3>1 DEF IInv, SlotOurs
  <2>3. [m \in Asks |-> SlotPrompt(i, m)]'
          = [[m \in Asks |-> SlotPrompt(i, m)] EXCEPT ![n] = [of |-> SlotMark(i).of, stage |-> "live"]]
    <3>1. \A m \in Asks : SlotPrompt(i, m)' = IF m = n
                            THEN [of |-> SlotMark(i).of, stage |-> "live"]
                            ELSE SlotPrompt(i, m)
      BY <1>6, <1>8, <2>1
    <3> QED
      BY <1>2, <3>1
  <2>4. SlotMark(i).stage = "sending"
    BY <2>1
  <2>5. Slot(i)!Ask(n)
    BY <1>4, <1>6, <2>2, <2>3, <2>4 DEF Slot!Ask, Slot!Unopened
  <2> QED
    BY <2>5 DEF Slot!JournalNext
<1> QED
  BY <1>7, <1>8

\* One prompt of the slot no longer counts, and the slot keeps its mark or loses it.
LEMMA SlotSettles ==
  ASSUME IInv, NEW n \in Asks, Live(n), ~Live(n)', NEW i \in Slots, asks[n].call = i,
         \A m \in Asks : /\ asks'[m].req = asks[m].req /\ asks'[m].call = asks[m].call
                         /\ m # n /\ asks[m].call = i => (Live(m)' <=> Live(m)),
         SlotMark(i)' \in {SlotMark(i), [of |-> NoRequest, stage |-> "clear"]}
  PROVE  Slot(i)!Settle(n)
<1>1. Asks' = Asks
  BY DEF Asks
<1>2. \A m \in Asks : SlotPrompt(i, m)' = IF m = n
                        THEN [SlotPrompt(i, m) EXCEPT !.stage = "over"]
                        ELSE SlotPrompt(i, m)
  BY DEF SlotPrompt
<1>3. SlotPrompt(i, n).stage = "live"
  BY DEF SlotPrompt
<1> QED
  BY <1>1, <1>2, <1>3 DEF Slot!Settle, Slot!Clear

LEMMA SlotFinish ==
  ASSUME IInv, IInv', NEW w \in Windows, Finish(w), NEW i \in Slots
  PROVE  [Slot(i)!JournalNext]_(Slot(i)!jvars)
<1>1. pc[w] = "finish" /\ asks' = asks /\ complete \subseteq complete'
  BY DEF Finish
<1>2. SlotStep(i)
  BY SlotSteps DEF WindowStep
<1>3. CASE complete' = complete
  <2>1. SamePrompts
    BY <1>1, <1>3 DEF SamePrompts, Live
  <2> QED
    BY <1>2, <2>1, SlotMoves
<1>4. CASE /\ disk' \in {NoJournal, disk}
           /\ complete' = complete \cup {ses[w].hashes[k] : k \in Slots}
  <2>1. \A n \in Asks : ~Live(n)'
    <3> SUFFICES ASSUME NEW n \in Asks, Live(n), n \notin complete' PROVE FALSE
      BY <1>1 DEF Live
    <3>1. asks[n].call \in Slots
      BY DEF Live, IInv, AsksSound
    <3>2. ses[w].hashes[asks[n].call] \in {Sending, n}
      BY <1>1, SessionSound DEF Sound, Covers, Live, LiveIn
    <3>3. Hash(ses[w].hashes[asks[n].call])
      BY <1>1, <3>1 DEF IInv, AtItsCall, ConfirmedIn
    <3> QED
      BY <1>4, <3>1, <3>2, <3>3 DEF Hash, Sending, Asks
  <2>2. CASE \E n \in Asks : Live(n) /\ asks[n].call = i
    <3>1. PICK n \in Asks : Live(n) /\ asks[n].call = i
      BY <2>2
    <3>2. \A m \in Asks : m # n /\ asks[m].call = i => ~Live(m)
      BY <3>1 DEF IInv, OneLivePerCall, Live, LiveIn
    <3>3. SlotMark(i)' \in {SlotMark(i), [of |-> NoRequest, stage |-> "clear"]}
      BY <1>4 DEF SlotMark, NoJournal, Hash, Asks
    <3>4. Slot(i)!Settle(n)
      BY <1>1, <2>1, <3>1, <3>2, <3>3, SlotSettles
    <3> QED
      BY <3>4 DEF Slot!JournalNext
  <2>3. CASE ~\E n \in Asks : Live(n) /\ asks[n].call = i
    <3>1. /\ Asks' = Asks
          /\ \A n \in Asks : SlotPrompt(i, n)' = SlotPrompt(i, n)
      BY <1>1, <2>1, <2>3 DEF SlotPrompt, Asks
    <3>2. [n \in Asks |-> SlotPrompt(i, n)]' = [n \in Asks |-> SlotPrompt(i, n)]
      BY <3>1
    <3>3. Slot(i)!Idle
      BY <2>3 DEF Slot!Idle, SlotPrompt
    <3>4. CASE disk' = NoJournal
      <4>1. SlotMark(i)' = [of |-> NoRequest, stage |-> "clear"]
        BY <3>4 DEF SlotMark, NoJournal
      <4>2. Slot(i)!Unmark
        BY <3>2, <3>3, <4>1 DEF Slot!Unmark, Slot!Clear
      <4> QED
        BY <4>2 DEF Slot!JournalNext
    <3>5. CASE disk' = disk
      <4>1. SlotMark(i)' = SlotMark(i)
        BY <3>5 DEF SlotMark, Hash, Asks
      <4> QED
        BY <3>2, <4>1 DEF Slot!jvars
    <3> QED
      BY <1>4, <3>4, <3>5
  <2> QED
    BY <2>2, <2>3
<1> QED
  BY <1>3, <1>4 DEF Finish

LEMMA SlotOutside ==
  ASSUME IInv, IInv', NEW n \in Asks, Approve(n) \/ Refuse(n) \/ Include(n), NEW i \in Slots
  PROVE  [Slot(i)!JournalNext]_(Slot(i)!jvars)
<1>1. PICK to \in Fates :
        /\ asks' = [asks EXCEPT ![n].fate = to]
        /\ UNCHANGED <<disk, mem, lock, pc, at, ses, complete>>
  BY DEF Approve, Refuse, Include, Become, Fates
<1>2. /\ \A m \in Asks : asks'[m].req = asks[m].req /\ asks'[m].call = asks[m].call
      /\ \A m \in Asks \ {n} : Live(m)' <=> Live(m)
  BY <1>1 DEF IInv, TypeOK, Live
<1>3. Live(n)' => Live(n)
  BY <1>1 DEF Approve, Refuse, Include, Become, Live, IInv, TypeOK
<1>4. SlotStep(i)
  BY <1>1 DEF SlotStep
<1>5. CASE Live(n)' <=> Live(n)
  BY <1>2, <1>4, <1>5, SlotMoves DEF SamePrompts
<1>6. CASE Live(n) /\ ~Live(n)' /\ asks[n].call = i
  <2>1. SlotMark(i)' = SlotMark(i)
    BY <1>1 DEF SlotMark, Hash, Asks
  <2>2. Slot(i)!Settle(n)
    BY <1>2, <1>6, <2>1, SlotSettles
  <2> QED
    BY <2>2 DEF Slot!JournalNext
<1>7. CASE asks[n].call # i
  <2>1. SlotMark(i)' = SlotMark(i) /\ Asks' = Asks
    BY <1>1 DEF SlotMark, Hash, Asks
  <2>2. \A m \in Asks : SlotPrompt(i, m)' = SlotPrompt(i, m)
    BY <1>2, <1>7 DEF SlotPrompt
  <2>3. [m \in Asks |-> SlotPrompt(i, m)]' = [m \in Asks |-> SlotPrompt(i, m)]
    BY <2>1, <2>2
  <2> QED
    BY <2>1, <2>3 DEF Slot!jvars
<1> QED
  BY <1>3, <1>5, <1>6, <1>7

\* The steps of a window other than a call of the wallet and the end of a batch open no
\* prompt and settle none.
LEMMA QuietPrompts ==
  ASSUME IInv, NEW w \in Windows, WindowStep(w), ~Ask(w), ~Finish(w)
  PROVE  SamePrompts
<1>1. asks \in [Asks -> [req : Requests \cup {NoRequest}, call : 0 .. Calls,
                         fate : Fates, to : Windows \cup {None}]]
  BY DEF IInv, TypeOK
<1>2. CASE asks' = asks /\ complete' = complete
  BY <1>2 DEF SamePrompts, Live
<1>3. CASE Rejected(w) \/ Unsure(w) \/ Answered(w)
  BY <1>1, <1>3 DEF Rejected, Unsure, Answered, Hears, SamePrompts, Live
<1>4. CASE Reload(w)
  BY <1>1, <1>4 DEF Reload, SamePrompts, Live
<1> QED
  BY <1>2, <1>3, <1>4 DEF WindowStep, Start, Checked, GiveUp, MarkSending, NotInvoked, Tracked,
     ClearUnsubmitted

LEMMA SlotsNext ==
  ASSUME IInv, IInv', [Next]_vars
  PROVE  \A i \in Slots : [Slot(i)!JournalNext]_(Slot(i)!jvars)
<1> TAKE i \in Slots
<1>1. CASE UNCHANGED vars
  <2>1. SlotStep(i) /\ SamePrompts
    BY <1>1 DEF vars, SlotStep, SamePrompts, Live
  <2> QED
    BY <2>1, SlotMoves
<1>2. ASSUME NEW w \in Windows, WindowStep(w)
      PROVE  [Slot(i)!JournalNext]_(Slot(i)!jvars)
  <2>1. CASE Ask(w)
    BY <2>1, SlotAsk
  <2>2. CASE Finish(w)
    BY <2>2, SlotFinish
  <2>3. CASE ~Ask(w) /\ ~Finish(w)
    BY <1>2, <2>3, QuietPrompts, SlotSteps, SlotMoves
  <2> QED
    BY <2>1, <2>2, <2>3
<1>3. ASSUME NEW n \in Asks, Approve(n) \/ Refuse(n) \/ Include(n)
      PROVE  [Slot(i)!JournalNext]_(Slot(i)!jvars)
  BY <1>3, SlotOutside
<1> QED
  BY <1>1, <1>2, <1>3 DEF Next

\* Every slot of a batch is a journal the other parts can rely on, for any number of
\* windows, calls and prompts, while the marker and the reset after a reverted receipt are
\* saved (direct-batch.js 25-42 and 66-112).
THEOREM SlotsKeepJournals ==
  ASSUME Durable
  PROVE  Spec => SlotsAreSendJournals
<1>1. IInv /\ IInv' /\ [Next]_vars
        => UNCHANGED <<disk, asks, complete>> \/ \A i \in Slots : Slot(i)!JournalStep
  <2> SUFFICES ASSUME IInv, IInv', [Next]_vars, NEW i \in Slots
               PROVE  Slot(i)!JournalStep
    OBVIOUS
  <2>1. [Slot(i)!JournalNext]_(Slot(i)!jvars)
    BY SlotsNext
  <2> QED
    BY <2>1 DEF Slot!JournalStep
<1> QED
  BY <1>1, SlotsInit, Invariance, PTL DEF Spec, SlotsAreSendJournals
=============================================================================
