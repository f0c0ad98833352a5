--------------------------- MODULE WriteHoldProofs ---------------------------
(***************************************************************************)
(* Proofs about WriteHold, for any set of windows, any number of attempts, *)
(* and storage that may or may not fail: its invariants, then how a record *)
(* moves, and that it implements AtMostOnce.                               *)
(***************************************************************************)
EXTENDS WriteHold, TLAPS

\* Every record anywhere names an attempt that was reserved.
IdsReserved ==
  /\ disk.id < next
  /\ \A w \in Windows : mem[w].id < next /\ rec[w].id < next /\ dlg[w].shown.id < next

\* Nothing has happened to an attempt that was not reserved yet.
FutureUntouched ==
  \A a \in Attempts : a >= next => fate[a] = "none" /\ a \notin disowned

\* From reserve to the wallet's answer a window holds the lock.
LockHeld ==
  \A w \in Windows : pc[w] \in {"wallet", "prompt"} => lock = w

\* What each place of the flow knows of the record it works with.
FlowKnows ==
  \A w \in Windows :
    /\ pc[w] \in {"gate", "gateRelease", "wallet", "prompt", "track", "trackRelease"}
         => rec[w] # NoRec
    /\ pc[w] = "wallet" => fate[rec[w].id] = "none"
    /\ pc[w] \in {"gateRelease", "trackRelease"} => fate[rec[w].id] \in Settled

\* A dialog names an attempt, and a queued release one that a user disowned.
DialogKnows ==
  \A w \in Windows :
    /\ dlg[w].state # "closed" => dlg[w].shown # NoRec
    /\ dlg[w].state = "queued" => dlg[w].shown.id \in disowned

IInv ==
  /\ TypeOK
  /\ IdsReserved
  /\ FutureUntouched
  /\ LockHeld
  /\ FlowKnows
  /\ DialogKnows
  /\ HeldUntilSettled

----------------------------------------------------------------------------
(* Records, reads, releases and dialogs.                                   *)

\* The parts of a record.
LEMMA RecordFacts ==
  /\ NoRec \in Records /\ NoRec.id = 0
  /\ \A r \in Records : /\ r.id \in 0 .. MaxAttempts
                        /\ r # NoRec => r.id \in Attempts /\ r.id > 0
BY WriteHoldAssumption DEF NoRec, Records, Attempts

\* Whatever copy a window reads, it is of the attempt whose record is stored.
LEMMA ReadNamesStored ==
  ASSUME TypeOK, NEW w \in Windows
  PROVE  Read(w) \in Records /\ Read(w).id = disk.id
BY DEF TypeOK, Read, Kept

\* A read only ever forgets a copy kept in memory.
LEMMA ReadForgets ==
  ASSUME TypeOK, NEW w \in Windows, mem' = MemAfterRead(w)
  PROVE  /\ mem' \in [Windows -> Records]
         /\ \A v \in Windows : mem'[v] = mem[v] \/ mem'[v] = NoRec
<1>1. CASE Kept(w)
  BY <1>1 DEF TypeOK, MemAfterRead
<1>2. CASE ~Kept(w)
  BY <1>2, RecordFacts DEF TypeOK, MemAfterRead
<1> QED
  BY <1>1, <1>2

\* releaseLocked removes the record of the attempt it was given, or nothing.
LEMMA ReleaseRemovesOwn ==
  ASSUME TypeOK, NEW w \in Windows, NEW expected \in Records, ReleaseLocked(w, expected)
  PROVE  /\ disk' = disk \/ (disk' = NoRec /\ disk.id = expected.id)
         /\ disk' \in Records
         /\ mem' \in [Windows -> Records]
         /\ \A v \in Windows : mem'[v] = mem[v] \/ mem'[v] = NoRec
<1>1. CASE Mine(w, expected) /\ mem' = [mem EXCEPT ![w] = NoRec]
           /\ (disk' = NoRec \/ disk' = disk)
  BY <1>1, ReadNamesStored, RecordFacts DEF Mine, TypeOK
<1>2. CASE mem' = MemAfterRead(w) /\ disk' = disk
  BY <1>2, ReadForgets DEF TypeOK
<1>3. CASE UNCHANGED <<mem, disk>>
  BY <1>3 DEF TypeOK
<1> QED
  BY <1>1, <1>2, <1>3 DEF ReleaseLocked, Remove, RemoveThrows

\* Forgetting a copy leaves every copy naming a reserved attempt.
LEMMA ForgetKeepsIds ==
  ASSUME TypeOK, IdsReserved,
         \A v \in Windows : mem'[v] = mem[v] \/ mem'[v] = NoRec
  PROVE  \A v \in Windows : mem'[v].id < next
<1> SUFFICES ASSUME NEW v \in Windows PROVE mem'[v].id < next
  OBVIOUS
<1>1. mem[v].id < next /\ 0 < next
  BY WriteHoldAssumption DEF TypeOK, IdsReserved
<1> QED
  BY <1>1, RecordFacts

\* Reserving one more attempt keeps every record naming a reserved one.
LEMMA IdsGrow ==
  ASSUME TypeOK, IdsReserved, next \in Attempts, next' = next + 1,
         NEW new, new.id = next,
         disk' \in {disk, new},
         NEW w \in Windows, rec' \in {rec, [rec EXCEPT ![w] = new]},
         \A v \in Windows : mem'[v].id < next,
         mem' \in [Windows -> Records], UNCHANGED dlg
  PROVE  IdsReserved'
<1>1. ASSUME NEW r \in Records, r.id < next PROVE r.id < next + 1
  BY <1>1, RecordFacts, WriteHoldAssumption DEF Attempts
<1>2. next < next + 1
  BY WriteHoldAssumption DEF Attempts
<1>3. disk'.id < next + 1
  BY <1>1, <1>2 DEF TypeOK, IdsReserved
<1>4. ASSUME NEW v \in Windows
      PROVE  mem'[v].id < next + 1 /\ rec'[v].id < next + 1 /\ dlg'[v].shown.id < next + 1
  BY <1>1, <1>2, <1>4 DEF TypeOK, IdsReserved, Dialogs
<1> QED
  BY <1>3, <1>4 DEF IdsReserved

\* What showing, or closing, a dialog does.
LEMMA ShowDialogSets ==
  ASSUME TypeOK, NEW w \in Windows, NEW r \in Records,
         NEW s \in {"closed", "open", "queued"}, ShowDialog(w, s, r)
  PROVE  /\ dlg' \in [Windows -> Dialogs]
         /\ \A v \in Windows : \/ dlg'[v] = dlg[v]
                               \/ v = w /\ dlg'[v].state = s /\ dlg'[v].shown = r
BY DEF TypeOK, ShowDialog, Dialogs

----------------------------------------------------------------------------
(* The invariant.                                                          *)

\* Nothing is held, asked or running at the start.
LEMMA InitIInv == Init => IInv
<1> SUFFICES ASSUME Init PROVE IInv
  OBVIOUS
<1>1. TypeOK
  BY RecordFacts, WriteHoldAssumption
     DEF Init, TypeOK, PCs, Dialogs, Closed, Fates, Attempts
<1> QED
  BY <1>1, RecordFacts, WriteHoldAssumption
     DEF Init, IInv, IdsReserved, FutureUntouched, LockHeld, FlowKnows, DialogKnows,
         HeldUntilSettled, Closed, Attempts

\* executeTransaction starts: it reads the slot.
LEMMA StartStep ==
  ASSUME IInv, NEW w \in Windows, Start(w)
  PROVE  IInv'
<1>r. /\ Read(w) \in Records /\ Read(w).id = disk.id
      /\ mem' \in [Windows -> Records]
      /\ \A v \in Windows : mem'[v].id < next
  BY ReadNamesStored, ReadForgets, ForgetKeepsIds DEF IInv, Start
<1>d. /\ dlg' \in [Windows -> Dialogs]
      /\ \A v \in Windows :
           \/ dlg'[v] = dlg[v]
           \/ /\ v = w
              /\ dlg'[v].state = "open"
              /\ dlg'[v].shown = Read(w) /\ Read(w) # NoRec /\ ~Read(w).sent
  BY <1>r, ShowDialogSets DEF IInv, TypeOK, Start, OpenDialog
<1>1. TypeOK'
  <2>1. rec' \in [Windows -> Records] /\ pc' \in [Windows -> PCs]
    BY <1>r DEF IInv, TypeOK, PCs, Start, Go
  <2> QED
    BY <1>r, <1>d, <2>1 DEF IInv, TypeOK, Start
<1>2. IdsReserved'
  BY <1>r, <1>d, RecordFacts, WriteHoldAssumption
     DEF IInv, TypeOK, IdsReserved, Attempts, Dialogs, Start, Go
<1>3. FutureUntouched'
  BY <1>r, <1>d, RecordFacts, WriteHoldAssumption
     DEF IInv, TypeOK, FutureUntouched, IdsReserved, DialogKnows, FlowKnows, Attempts, Dialogs, Start, Go
<1>4. LockHeld'
  BY WriteHoldAssumption DEF IInv, TypeOK, LockHeld, Start, Go
<1>5. FlowKnows'
  BY <1>r, <1>d, RecordFacts, WriteHoldAssumption
     DEF IInv, TypeOK, FlowKnows, FutureUntouched, LockHeld, Settled, Start, Go
<1>6. DialogKnows'
  BY <1>r, <1>d, RecordFacts DEF IInv, TypeOK, DialogKnows, FlowKnows, Start, Go
<1>7. HeldUntilSettled'
  BY <1>r, <1>d, RecordFacts, WriteHoldAssumption
     DEF IInv, TypeOK, HeldUntilSettled, FlowKnows, LockHeld, DialogKnows, Settled, Attempts, Start, Go
<1> QED
  BY <1>1, <1>2, <1>3, <1>4, <1>5, <1>6, <1>7 DEF IInv

\* The gate reads the chain and writes nothing.
LEMMA GateStep ==
  ASSUME IInv, NEW w \in Windows, Gate(w)
  PROVE  IInv'
<1>d. /\ dlg' \in [Windows -> Dialogs]
      /\ \A v \in Windows : dlg'[v] = dlg[v] \/ (v = w /\ dlg'[v].state = "open" /\ dlg'[v].shown = rec[w])
  BY ShowDialogSets DEF IInv, TypeOK, Gate, OpenDialog
<1>1. TypeOK'
  BY <1>d, RecordFacts, WriteHoldAssumption
     DEF IInv, TypeOK, PCs, Fates, Attempts, Gate, Go
<1>2. IdsReserved'
  BY <1>d, RecordFacts, WriteHoldAssumption
     DEF IInv, TypeOK, IdsReserved, Attempts, Dialogs, Gate, Go
<1>3. FutureUntouched'
  BY <1>d, RecordFacts, WriteHoldAssumption
     DEF IInv, TypeOK, FutureUntouched, IdsReserved, DialogKnows, FlowKnows, Attempts, Dialogs, Gate, Go
<1>4. LockHeld'
  BY WriteHoldAssumption DEF IInv, TypeOK, LockHeld, Gate, Go
<1>5. FlowKnows'
  BY <1>d, RecordFacts, WriteHoldAssumption
     DEF IInv, TypeOK, FlowKnows, FutureUntouched, LockHeld, Settled, Gate, Go
<1>6. DialogKnows'
  BY <1>d, RecordFacts DEF IInv, TypeOK, DialogKnows, FlowKnows, Gate, Go
<1>7. HeldUntilSettled'
  <2>1. /\ UNCHANGED <<disk, next, rec, fate, disowned>>
        /\ \A v \in Windows : pc'[v] = "wallet" => pc[v] = "wallet"
    BY DEF IInv, TypeOK, Gate, Go
  <2> QED
    BY <2>1 DEF IInv, HeldUntilSettled
<1> QED
  BY <1>1, <1>2, <1>3, <1>4, <1>5, <1>6, <1>7 DEF IInv

\* The gate releases the attempt it read as settled.
LEMMA GateReleaseStep ==
  ASSUME IInv, NEW w \in Windows, GateRelease(w)
  PROVE  IInv'
<1>r. /\ disk' = disk \/ (disk' = NoRec /\ disk.id = rec[w].id)
      /\ disk' \in Records
      /\ mem' \in [Windows -> Records]
      /\ \A v \in Windows : mem'[v].id < next
  BY ReleaseRemovesOwn, ForgetKeepsIds DEF IInv, TypeOK, GateRelease
<1>1. TypeOK'
  BY <1>r, RecordFacts, WriteHoldAssumption
     DEF IInv, TypeOK, PCs, Fates, Attempts, GateRelease, Go
<1>2. IdsReserved'
  BY <1>r, RecordFacts, WriteHoldAssumption
     DEF IInv, TypeOK, IdsReserved, Attempts, Dialogs, GateRelease, Go
<1>3. FutureUntouched'
  BY <1>r, RecordFacts, WriteHoldAssumption
     DEF IInv, TypeOK, FutureUntouched, IdsReserved, DialogKnows, FlowKnows, Attempts, Dialogs, GateRelease, Go
<1>4. LockHeld'
  BY WriteHoldAssumption DEF IInv, TypeOK, LockHeld, GateRelease, Go
<1>5. FlowKnows'
  BY <1>r, RecordFacts, WriteHoldAssumption
     DEF IInv, TypeOK, FlowKnows, FutureUntouched, LockHeld, Settled, GateRelease, Go
<1>6. DialogKnows'
  BY <1>r, RecordFacts DEF IInv, TypeOK, DialogKnows, FlowKnows, GateRelease, Go
<1>7. HeldUntilSettled'
  BY <1>r, RecordFacts, WriteHoldAssumption
     DEF IInv, TypeOK, HeldUntilSettled, FlowKnows, LockHeld, DialogKnows, Settled, Attempts, GateRelease, Go
<1> QED
  BY <1>1, <1>2, <1>3, <1>4, <1>5, <1>6, <1>7 DEF IInv

\* A review that ends before the lock holds nothing.
LEMMA GiveUpStep ==
  ASSUME IInv, NEW w \in Windows, GiveUp(w)
  PROVE  IInv'
<1>1. TypeOK'
  BY RecordFacts, WriteHoldAssumption
     DEF IInv, TypeOK, PCs, Fates, Attempts, GiveUp, Go
<1>2. IdsReserved'
  BY RecordFacts, WriteHoldAssumption
     DEF IInv, TypeOK, IdsReserved, Attempts, Dialogs, GiveUp, Go
<1>3. FutureUntouched'
  BY RecordFacts, WriteHoldAssumption
     DEF IInv, TypeOK, FutureUntouched, IdsReserved, DialogKnows, FlowKnows, Attempts, Dialogs, GiveUp, Go
<1>4. LockHeld'
  BY WriteHoldAssumption DEF IInv, TypeOK, LockHeld, GiveUp, Go
<1>5. FlowKnows'
  BY RecordFacts, WriteHoldAssumption
     DEF IInv, TypeOK, FlowKnows, FutureUntouched, LockHeld, Settled, GiveUp, Go
<1>6. DialogKnows'
  BY RecordFacts DEF IInv, TypeOK, DialogKnows, FlowKnows, GiveUp, Go
<1>7. HeldUntilSettled'
  BY RecordFacts, WriteHoldAssumption
     DEF IInv, TypeOK, HeldUntilSettled, FlowKnows, LockHeld, DialogKnows, Settled, Attempts, GiveUp, Go
<1> QED
  BY <1>1, <1>2, <1>3, <1>4, <1>5, <1>6, <1>7 DEF IInv

\* The wallet was never called, so the attempt may be released.
LEMMA NotInvokedStep ==
  ASSUME IInv, NEW w \in Windows, NotInvoked(w)
  PROVE  IInv'
<1>r. /\ disk' = disk \/ (disk' = NoRec /\ disk.id = rec[w].id)
      /\ disk' \in Records
      /\ mem' \in [Windows -> Records]
      /\ \A v \in Windows : mem'[v].id < next
  BY ReleaseRemovesOwn, ForgetKeepsIds DEF IInv, TypeOK, NotInvoked
<1>1. TypeOK'
  BY <1>r, RecordFacts, WriteHoldAssumption
     DEF IInv, TypeOK, PCs, Fates, Attempts, NotInvoked, Go
<1>2. IdsReserved'
  BY <1>r, RecordFacts, WriteHoldAssumption
     DEF IInv, TypeOK, IdsReserved, Attempts, Dialogs, NotInvoked, Go
<1>3. FutureUntouched'
  BY <1>r, RecordFacts, WriteHoldAssumption
     DEF IInv, TypeOK, FutureUntouched, IdsReserved, DialogKnows, FlowKnows, Attempts, Dialogs, NotInvoked, Go
<1>4. LockHeld'
  BY WriteHoldAssumption DEF IInv, TypeOK, LockHeld, NotInvoked, Go
<1>5. FlowKnows'
  BY <1>r, RecordFacts, WriteHoldAssumption
     DEF IInv, TypeOK, FlowKnows, FutureUntouched, LockHeld, Settled, NotInvoked, Go
<1>6. DialogKnows'
  BY <1>r, RecordFacts DEF IInv, TypeOK, DialogKnows, FlowKnows, NotInvoked, Go
<1>7. HeldUntilSettled'
  BY <1>r, RecordFacts, WriteHoldAssumption
     DEF IInv, TypeOK, HeldUntilSettled, FlowKnows, LockHeld, DialogKnows, Settled, Attempts, NotInvoked, Go
<1> QED
  BY <1>1, <1>2, <1>3, <1>4, <1>5, <1>6, <1>7 DEF IInv

\* The prompt opens for the attempt in the slot.
LEMMA AskStep ==
  ASSUME IInv, NEW w \in Windows, Ask(w)
  PROVE  IInv'
<1>1. TypeOK'
  BY RecordFacts, WriteHoldAssumption
     DEF IInv, TypeOK, PCs, Fates, Attempts, Ask, Go
<1>2. IdsReserved'
  BY RecordFacts, WriteHoldAssumption
     DEF IInv, TypeOK, IdsReserved, Attempts, Dialogs, Ask, Go
<1>3. FutureUntouched'
  BY RecordFacts, WriteHoldAssumption
     DEF IInv, TypeOK, FutureUntouched, IdsReserved, DialogKnows, FlowKnows, Attempts, Dialogs, Ask, Go
<1>4. LockHeld'
  BY WriteHoldAssumption DEF IInv, TypeOK, LockHeld, Ask, Go
<1>5. FlowKnows'
  BY RecordFacts, WriteHoldAssumption
     DEF IInv, TypeOK, FlowKnows, FutureUntouched, LockHeld, Settled, Ask, Go
<1>6. DialogKnows'
  BY RecordFacts DEF IInv, TypeOK, DialogKnows, FlowKnows, Ask, Go
<1>7. HeldUntilSettled'
  BY RecordFacts, WriteHoldAssumption
     DEF IInv, TypeOK, HeldUntilSettled, FlowKnows, LockHeld, DialogKnows, Settled, Attempts, Ask, Go
<1> QED
  BY <1>1, <1>2, <1>3, <1>4, <1>5, <1>6, <1>7 DEF IInv

\* A refused attempt is settled, so it may be released.
LEMMA RejectedStep ==
  ASSUME IInv, NEW w \in Windows, Rejected(w)
  PROVE  IInv'
<1>r. /\ disk' = disk \/ (disk' = NoRec /\ disk.id = rec[w].id)
      /\ disk' \in Records
      /\ mem' \in [Windows -> Records]
      /\ \A v \in Windows : mem'[v].id < next
  BY ReleaseRemovesOwn, ForgetKeepsIds DEF IInv, TypeOK, Rejected
<1>1. TypeOK'
  BY <1>r, RecordFacts, WriteHoldAssumption
     DEF IInv, TypeOK, PCs, Fates, Attempts, Rejected, Go
<1>2. IdsReserved'
  BY <1>r, RecordFacts, WriteHoldAssumption
     DEF IInv, TypeOK, IdsReserved, Attempts, Dialogs, Rejected, Go
<1>3. FutureUntouched'
  BY <1>r, RecordFacts, WriteHoldAssumption
     DEF IInv, TypeOK, FutureUntouched, IdsReserved, DialogKnows, FlowKnows, Attempts, Dialogs, Rejected, Go
<1>4. LockHeld'
  BY WriteHoldAssumption DEF IInv, TypeOK, LockHeld, Rejected, Go
<1>5. FlowKnows'
  BY <1>r, RecordFacts, WriteHoldAssumption
     DEF IInv, TypeOK, FlowKnows, FutureUntouched, LockHeld, Settled, Rejected, Go
<1>6. DialogKnows'
  BY <1>r, RecordFacts DEF IInv, TypeOK, DialogKnows, FlowKnows, Rejected, Go
<1>7. HeldUntilSettled'
  <2>1. fate[rec[w].id] \in Settled /\ UNCHANGED <<next, rec, fate, disowned>>
    BY DEF Rejected, Settled
  <2>2. \A v \in Windows : pc'[v] = "wallet" => pc[v] = "wallet"
    BY DEF IInv, TypeOK, Rejected, Go
  <2> QED
    BY <1>r, <2>1, <2>2 DEF IInv, HeldUntilSettled
<1> QED
  BY <1>1, <1>2, <1>3, <1>4, <1>5, <1>6, <1>7 DEF IInv

\* An unclear answer writes nothing.
LEMMA UnsureStep ==
  ASSUME IInv, NEW w \in Windows, Unsure(w)
  PROVE  IInv'
<1>1. TypeOK'
  BY RecordFacts, WriteHoldAssumption
     DEF IInv, TypeOK, PCs, Fates, Attempts, Unsure, Go
<1>2. IdsReserved'
  BY RecordFacts, WriteHoldAssumption
     DEF IInv, TypeOK, IdsReserved, Attempts, Dialogs, Unsure, Go
<1>3. FutureUntouched'
  BY RecordFacts, WriteHoldAssumption
     DEF IInv, TypeOK, FutureUntouched, IdsReserved, DialogKnows, FlowKnows, Attempts, Dialogs, Unsure, Go
<1>4. LockHeld'
  BY WriteHoldAssumption DEF IInv, TypeOK, LockHeld, Unsure, Go
<1>5. FlowKnows'
  BY RecordFacts, WriteHoldAssumption
     DEF IInv, TypeOK, FlowKnows, FutureUntouched, LockHeld, Settled, Unsure, Go
<1>6. DialogKnows'
  BY RecordFacts DEF IInv, TypeOK, DialogKnows, FlowKnows, Unsure, Go
<1>7. HeldUntilSettled'
  BY RecordFacts, WriteHoldAssumption
     DEF IInv, TypeOK, HeldUntilSettled, FlowKnows, LockHeld, DialogKnows, Settled, Attempts, Unsure, Go
<1> QED
  BY <1>1, <1>2, <1>3, <1>4, <1>5, <1>6, <1>7 DEF IInv

\* A receipt settles the attempt before its release.
LEMMA ConfirmedStep ==
  ASSUME IInv, NEW w \in Windows, Confirmed(w)
  PROVE  IInv'
<1>1. TypeOK'
  BY RecordFacts, WriteHoldAssumption
     DEF IInv, TypeOK, PCs, Fates, Attempts, Confirmed, Go
<1>2. IdsReserved'
  BY RecordFacts, WriteHoldAssumption
     DEF IInv, TypeOK, IdsReserved, Attempts, Dialogs, Confirmed, Go
<1>3. FutureUntouched'
  BY RecordFacts, WriteHoldAssumption
     DEF IInv, TypeOK, FutureUntouched, IdsReserved, DialogKnows, FlowKnows, Attempts, Dialogs, Confirmed, Go
<1>4. LockHeld'
  BY WriteHoldAssumption DEF IInv, TypeOK, LockHeld, Confirmed, Go
<1>5. FlowKnows'
  BY RecordFacts, WriteHoldAssumption
     DEF IInv, TypeOK, FlowKnows, FutureUntouched, LockHeld, Settled, Confirmed, Go
<1>6. DialogKnows'
  BY RecordFacts DEF IInv, TypeOK, DialogKnows, FlowKnows, Confirmed, Go
<1>7. HeldUntilSettled'
  BY RecordFacts, WriteHoldAssumption
     DEF IInv, TypeOK, HeldUntilSettled, FlowKnows, LockHeld, DialogKnows, Settled, Attempts, Confirmed, Go
<1> QED
  BY <1>1, <1>2, <1>3, <1>4, <1>5, <1>6, <1>7 DEF IInv

\* Lost tracking writes nothing.
LEMMA TrackingLostStep ==
  ASSUME IInv, NEW w \in Windows, TrackingLost(w)
  PROVE  IInv'
<1>1. TypeOK'
  BY RecordFacts, WriteHoldAssumption
     DEF IInv, TypeOK, PCs, Fates, Attempts, TrackingLost, Go
<1>2. IdsReserved'
  BY RecordFacts, WriteHoldAssumption
     DEF IInv, TypeOK, IdsReserved, Attempts, Dialogs, TrackingLost, Go
<1>3. FutureUntouched'
  BY RecordFacts, WriteHoldAssumption
     DEF IInv, TypeOK, FutureUntouched, IdsReserved, DialogKnows, FlowKnows, Attempts, Dialogs, TrackingLost, Go
<1>4. LockHeld'
  BY WriteHoldAssumption DEF IInv, TypeOK, LockHeld, TrackingLost, Go
<1>5. FlowKnows'
  BY RecordFacts, WriteHoldAssumption
     DEF IInv, TypeOK, FlowKnows, FutureUntouched, LockHeld, Settled, TrackingLost, Go
<1>6. DialogKnows'
  BY RecordFacts DEF IInv, TypeOK, DialogKnows, FlowKnows, TrackingLost, Go
<1>7. HeldUntilSettled'
  BY RecordFacts, WriteHoldAssumption
     DEF IInv, TypeOK, HeldUntilSettled, FlowKnows, LockHeld, DialogKnows, Settled, Attempts, TrackingLost, Go
<1> QED
  BY <1>1, <1>2, <1>3, <1>4, <1>5, <1>6, <1>7 DEF IInv

\* The hash is added to the record of its own attempt only.
LEMMA AnsweredStep ==
  ASSUME IInv, NEW w \in Windows, Answered(w)
  PROVE  IInv'
<1>r. \E new \in Records :
        /\ new.id = rec[w].id /\ new # NoRec
        /\ disk' \in {disk, new} /\ (disk' = new => disk.id = rec[w].id)
        /\ rec' \in {rec, [rec EXCEPT ![w] = new]}
        /\ mem' \in [Windows -> Records]
        /\ \A v \in Windows : mem'[v].id < next
  <2> DEFINE new == [rec[w] EXCEPT !.sent = TRUE]
  <2>0. rec[w] \in Records /\ rec[w] # NoRec /\ rec[w].id < next /\ disk \in Records
    BY DEF IInv, TypeOK, FlowKnows, IdsReserved, Answered
  <2>1. new \in Records /\ new.id = rec[w].id /\ new # NoRec
    BY <2>0 DEF Records, NoRec
  <2>2. CASE Mine(w, rec[w]) /\ SaveHash(w, new) /\ rec' = [rec EXCEPT ![w] = new]
    <3>1. disk.id = rec[w].id
      BY <2>2, ReadNamesStored DEF Mine, IInv
    <3>2. disk' \in {disk, new} /\ (mem' = [mem EXCEPT ![w] = NoRec] \/ mem' = [mem EXCEPT ![w] = new])
      BY <2>2 DEF SaveHash
    <3>3. mem' \in [Windows -> Records] /\ \A v \in Windows : mem'[v].id < next
      <4>1. 0 < next /\ NoRec \in Records /\ NoRec.id = 0
        BY RecordFacts, WriteHoldAssumption DEF IInv, TypeOK
      <4> HIDE DEF new
      <4> QED
        BY <3>2, <4>1, <2>0, <2>1 DEF IInv, TypeOK, IdsReserved
    <3> QED
      BY <2>1, <2>2, <3>1, <3>2, <3>3
  <2>3. CASE UNCHANGED <<disk, rec>> /\ mem' = MemAfterRead(w)
    <3>1. mem' \in [Windows -> Records] /\ \A v \in Windows : mem'[v].id < next
      BY <2>3, ReadForgets, ForgetKeepsIds DEF IInv
    <3>2. disk' = new => disk.id = rec[w].id
      BY <2>3, <2>1
    <3> QED
      BY <2>1, <2>3, <3>1, <3>2
  <2> QED
    BY <2>2, <2>3 DEF Answered
<1>1. TypeOK'
  <2>1. /\ pc' \in [Windows -> PCs] /\ lock' \in Windows \cup {NoWindow}
        /\ UNCHANGED <<next, dlg, fate, disowned>>
    BY DEF IInv, TypeOK, PCs, Answered, Go
  <2>2. disk' \in Records /\ rec' \in [Windows -> Records] /\ mem' \in [Windows -> Records]
    BY <1>r DEF IInv, TypeOK
  <2> QED
    BY <2>1, <2>2 DEF IInv, TypeOK
<1>2. IdsReserved'
  BY <1>r, RecordFacts, WriteHoldAssumption
     DEF IInv, TypeOK, IdsReserved, Attempts, Dialogs, Answered, Go
<1>3. FutureUntouched'
  BY <1>r, RecordFacts, WriteHoldAssumption
     DEF IInv, TypeOK, FutureUntouched, IdsReserved, DialogKnows, FlowKnows, Attempts, Dialogs, Answered, Go
<1>4. LockHeld'
  BY WriteHoldAssumption DEF IInv, TypeOK, LockHeld, Answered, Go
<1>5. FlowKnows'
  BY <1>r, RecordFacts, WriteHoldAssumption
     DEF IInv, TypeOK, FlowKnows, FutureUntouched, LockHeld, Settled, Answered, Go
<1>6. DialogKnows'
  BY <1>r, RecordFacts DEF IInv, TypeOK, DialogKnows, FlowKnows, Answered, Go
<1>7. HeldUntilSettled'
  BY <1>r, RecordFacts, WriteHoldAssumption
     DEF IInv, TypeOK, HeldUntilSettled, FlowKnows, LockHeld, DialogKnows, Settled, Attempts, Answered, Go
<1> QED
  BY <1>1, <1>2, <1>3, <1>4, <1>5, <1>6, <1>7 DEF IInv

\* A tracked attempt is released once settled.
LEMMA TrackReleaseStep ==
  ASSUME IInv, NEW w \in Windows, TrackRelease(w)
  PROVE  IInv'
<1>r. /\ disk' = disk \/ (disk' = NoRec /\ disk.id = rec[w].id)
      /\ disk' \in Records
      /\ mem' \in [Windows -> Records]
      /\ \A v \in Windows : mem'[v].id < next
  BY ReleaseRemovesOwn, ForgetKeepsIds DEF IInv, TypeOK, TrackRelease
<1>1. TypeOK'
  BY <1>r, RecordFacts, WriteHoldAssumption
     DEF IInv, TypeOK, PCs, Fates, Attempts, TrackRelease, Go
<1>2. IdsReserved'
  BY <1>r, RecordFacts, WriteHoldAssumption
     DEF IInv, TypeOK, IdsReserved, Attempts, Dialogs, TrackRelease, Go
<1>3. FutureUntouched'
  BY <1>r, RecordFacts, WriteHoldAssumption
     DEF IInv, TypeOK, FutureUntouched, IdsReserved, DialogKnows, FlowKnows, Attempts, Dialogs, TrackRelease, Go
<1>4. LockHeld'
  BY WriteHoldAssumption DEF IInv, TypeOK, LockHeld, TrackRelease, Go
<1>5. FlowKnows'
  BY <1>r, RecordFacts, WriteHoldAssumption
     DEF IInv, TypeOK, FlowKnows, FutureUntouched, LockHeld, Settled, TrackRelease, Go
<1>6. DialogKnows'
  BY <1>r, RecordFacts DEF IInv, TypeOK, DialogKnows, FlowKnows, TrackRelease, Go
<1>7. HeldUntilSettled'
  BY <1>r, RecordFacts, WriteHoldAssumption
     DEF IInv, TypeOK, HeldUntilSettled, FlowKnows, LockHeld, DialogKnows, Settled, Attempts, TrackRelease, Go
<1> QED
  BY <1>1, <1>2, <1>3, <1>4, <1>5, <1>6, <1>7 DEF IInv

\* The user disowns the attempt the dialog shows.
LEMMA ClickStep ==
  ASSUME IInv, NEW w \in Windows, Click(w)
  PROVE  IInv'
<1>r. /\ Read(w) \in Records /\ Read(w).id = disk.id
      /\ mem' \in [Windows -> Records]
      /\ \A v \in Windows : mem'[v].id < next
  BY ReadNamesStored, ReadForgets, ForgetKeepsIds DEF IInv, Click
<1>d. /\ dlg' \in [Windows -> Dialogs]
      /\ \A v \in Windows :
           \/ dlg'[v] = dlg[v]
           \/ v = w /\ dlg'[v].state = "closed" /\ dlg'[v].shown = NoRec
           \/ v = w /\ dlg'[v].state = "queued" /\ dlg'[v].shown = dlg[w].shown
                /\ dlg[w].shown.id \in disowned'
  <2>0. dlg[w].shown \in Records
    BY DEF IInv, TypeOK, Dialogs
  <2>1. CASE ShowDialog(w, "queued", dlg[w].shown)
             /\ disowned' = disowned \cup {dlg[w].shown.id}
    BY <2>0, <2>1, ShowDialogSets DEF IInv
  <2>2. CASE ShowDialog(w, "closed", NoRec)
    BY <2>2, RecordFacts, ShowDialogSets DEF IInv
  <2>3. CASE UNCHANGED dlg
    BY <2>3 DEF IInv, TypeOK
  <2> QED
    BY <2>1, <2>2, <2>3 DEF Click, CloseDialog
<1>1. TypeOK'
  <2>1. disowned' \subseteq Attempts
    BY <1>r, RecordFacts DEF IInv, TypeOK, DialogKnows, Dialogs, Click
  <2> QED
    BY <1>r, <1>d, <2>1 DEF IInv, TypeOK, Click
<1>2. IdsReserved'
  <2>1. 0 < next /\ UNCHANGED <<disk, next, rec>>
    BY WriteHoldAssumption DEF IInv, TypeOK, Click
  <2> QED
    BY <1>r, <1>d, <2>1, RecordFacts DEF IInv, IdsReserved
<1>3. FutureUntouched'
  BY <1>r, <1>d, RecordFacts, WriteHoldAssumption
     DEF IInv, TypeOK, FutureUntouched, IdsReserved, DialogKnows, FlowKnows, Attempts, Dialogs, Click
<1>4. LockHeld'
  BY WriteHoldAssumption DEF IInv, TypeOK, LockHeld, Click
<1>5. FlowKnows'
  BY <1>r, <1>d, RecordFacts, WriteHoldAssumption
     DEF IInv, TypeOK, FlowKnows, FutureUntouched, LockHeld, Settled, Click
<1>6. DialogKnows'
  BY <1>r, <1>d, RecordFacts DEF IInv, TypeOK, DialogKnows, FlowKnows, Click
<1>7. HeldUntilSettled'
  BY <1>r, <1>d, RecordFacts, WriteHoldAssumption
     DEF IInv, TypeOK, HeldUntilSettled, FlowKnows, LockHeld, DialogKnows, Settled, Attempts, Click
<1> QED
  BY <1>1, <1>2, <1>3, <1>4, <1>5, <1>6, <1>7 DEF IInv

\* A queued release removes a disowned attempt, or nothing.
LEMMA DialogReleaseStep ==
  ASSUME IInv, NEW w \in Windows, DialogRelease(w)
  PROVE  IInv'
<1>r. /\ disk' = disk \/ (disk' = NoRec /\ disk.id = dlg[w].shown.id)
      /\ disk' \in Records
      /\ mem' \in [Windows -> Records]
      /\ \A v \in Windows : mem'[v].id < next
  BY ReleaseRemovesOwn, ForgetKeepsIds DEF IInv, TypeOK, DialogRelease, Dialogs, ReleaseLocked
<1>d. /\ dlg' \in [Windows -> Dialogs]
      /\ \A v \in Windows :
           \/ dlg'[v] = dlg[v]
           \/ /\ v = w
              /\ dlg'[v].state \in {"closed", "open"}
              /\ \/ dlg'[v].shown = NoRec /\ dlg'[v].state = "closed"
                 \/ dlg'[v].shown = dlg[w].shown
  BY RecordFacts, ShowDialogSets DEF IInv, TypeOK, Dialogs, DialogRelease, CloseDialog, OpenDialog
<1>1. TypeOK'
  BY <1>r, <1>d, RecordFacts, WriteHoldAssumption
     DEF IInv, TypeOK, PCs, Fates, Attempts, DialogRelease
<1>2. IdsReserved'
  <2>1. UNCHANGED <<next, rec>> /\ 0 < next
    BY WriteHoldAssumption DEF IInv, TypeOK, DialogRelease
  <2>2. disk'.id < next
    BY <1>r, <2>1, RecordFacts DEF IInv, IdsReserved
  <2>3. ASSUME NEW v \in Windows PROVE dlg'[v].shown.id < next
    BY <1>d, <2>1, RecordFacts DEF IInv, IdsReserved
  <2> QED
    BY <1>r, <2>1, <2>2, <2>3 DEF IInv, IdsReserved
<1>3. FutureUntouched'
  BY <1>r, <1>d, RecordFacts, WriteHoldAssumption
     DEF IInv, TypeOK, FutureUntouched, IdsReserved, DialogKnows, FlowKnows, Attempts, Dialogs, DialogRelease
<1>4. LockHeld'
  BY WriteHoldAssumption DEF IInv, TypeOK, LockHeld, DialogRelease
<1>5. FlowKnows'
  BY <1>r, <1>d, RecordFacts, WriteHoldAssumption
     DEF IInv, TypeOK, FlowKnows, FutureUntouched, LockHeld, Settled, DialogRelease
<1>6. DialogKnows'
  BY <1>r, <1>d, RecordFacts DEF IInv, TypeOK, DialogKnows, FlowKnows, DialogRelease
<1>7. HeldUntilSettled'
  BY <1>r, <1>d, RecordFacts, WriteHoldAssumption
     DEF IInv, TypeOK, HeldUntilSettled, FlowKnows, LockHeld, DialogKnows, Settled, Attempts, DialogRelease
<1> QED
  BY <1>1, <1>2, <1>3, <1>4, <1>5, <1>6, <1>7 DEF IInv

\* Closing the dialog writes nothing.
LEMMA DismissStep ==
  ASSUME IInv, NEW w \in Windows, Dismiss(w)
  PROVE  IInv'
<1>d. /\ dlg' \in [Windows -> Dialogs]
      /\ \A v \in Windows : dlg'[v] = dlg[v] \/ (v = w /\ dlg'[v].state = "closed" /\ dlg'[v].shown = NoRec)
  BY RecordFacts, ShowDialogSets DEF IInv, TypeOK, Dismiss, CloseDialog
<1>1. TypeOK'
  BY <1>d, RecordFacts, WriteHoldAssumption
     DEF IInv, TypeOK, PCs, Fates, Attempts, Dismiss
<1>2. IdsReserved'
  <2>1. 0 < next
    BY WriteHoldAssumption DEF IInv, TypeOK
  <2> QED
    BY <1>d, <2>1, RecordFacts DEF IInv, IdsReserved, Dismiss
<1>3. FutureUntouched'
  BY <1>d, RecordFacts, WriteHoldAssumption
     DEF IInv, TypeOK, FutureUntouched, IdsReserved, DialogKnows, FlowKnows, Attempts, Dialogs, Dismiss
<1>4. LockHeld'
  BY WriteHoldAssumption DEF IInv, TypeOK, LockHeld, Dismiss
<1>5. FlowKnows'
  BY <1>d, RecordFacts, WriteHoldAssumption
     DEF IInv, TypeOK, FlowKnows, FutureUntouched, LockHeld, Settled, Dismiss
<1>6. DialogKnows'
  BY <1>d, RecordFacts DEF IInv, TypeOK, DialogKnows, FlowKnows, Dismiss
<1>7. HeldUntilSettled'
  BY <1>d, RecordFacts, WriteHoldAssumption
     DEF IInv, TypeOK, HeldUntilSettled, FlowKnows, LockHeld, DialogKnows, Settled, Attempts, Dismiss
<1> QED
  BY <1>1, <1>2, <1>3, <1>4, <1>5, <1>6, <1>7 DEF IInv

\* A reload forgets a window's copies and its flow, not the record.
LEMMA ReloadStep ==
  ASSUME IInv, NEW w \in Windows, Reload(w)
  PROVE  IInv'
<1>d. /\ dlg' \in [Windows -> Dialogs]
      /\ \A v \in Windows : dlg'[v] = dlg[v] \/ (v = w /\ dlg'[v].state = "closed" /\ dlg'[v].shown = NoRec)
  BY RecordFacts, ShowDialogSets DEF IInv, TypeOK, Reload, CloseDialog
<1>1. TypeOK'
  BY <1>d, RecordFacts, WriteHoldAssumption
     DEF IInv, TypeOK, PCs, Fates, Attempts, Reload, Go
<1>2. IdsReserved'
  BY <1>d, RecordFacts, WriteHoldAssumption
     DEF IInv, TypeOK, IdsReserved, Attempts, Dialogs, Reload, Go
<1>3. FutureUntouched'
  BY <1>d, RecordFacts, WriteHoldAssumption
     DEF IInv, TypeOK, FutureUntouched, IdsReserved, DialogKnows, FlowKnows, Attempts, Dialogs, Reload, Go
<1>4. LockHeld'
  BY WriteHoldAssumption DEF IInv, TypeOK, LockHeld, Reload, Go
<1>5. FlowKnows'
  BY <1>d, RecordFacts, WriteHoldAssumption
     DEF IInv, TypeOK, FlowKnows, FutureUntouched, LockHeld, Settled, Reload, Go
<1>6. DialogKnows'
  BY <1>d, RecordFacts DEF IInv, TypeOK, DialogKnows, FlowKnows, Reload, Go
<1>7. HeldUntilSettled'
  BY <1>d, RecordFacts, WriteHoldAssumption
     DEF IInv, TypeOK, HeldUntilSettled, FlowKnows, LockHeld, DialogKnows, Settled, Attempts, Reload, Go
<1> QED
  BY <1>1, <1>2, <1>3, <1>4, <1>5, <1>6, <1>7 DEF IInv

\* A new attempt takes an empty slot, and only that.
LEMMA ReserveStep ==
  ASSUME IInv, NEW w \in Windows, Reserve(w)
  PROVE  IInv'
<1>r. /\ Read(w) \in Records /\ Read(w).id = disk.id
      /\ mem' \in [Windows -> Records]
      /\ \A v \in Windows : mem'[v].id < next
  BY ReadNamesStored, ReadForgets, ForgetKeepsIds DEF IInv, Reserve
<1>u. /\ pc[w] = "review" /\ lock = NoWindow
      /\ UNCHANGED <<dlg, fate, disowned>>
  BY DEF Reserve
<1>1. CASE ReserveRefused(w)
  <2>1. /\ pc' = [pc EXCEPT ![w] = "idle"]
        /\ UNCHANGED <<disk, lock, next, rec>>
    BY <1>1 DEF ReserveRefused, Go
  <2>2. TypeOK'
    BY <2>1, <1>r, <1>u DEF IInv, TypeOK, PCs
  <2>3. IdsReserved' /\ FutureUntouched' /\ DialogKnows'
    BY <2>1, <1>r, <1>u DEF IInv, IdsReserved, FutureUntouched, DialogKnows
  <2>4. LockHeld' /\ FlowKnows' /\ HeldUntilSettled'
    BY <2>1, <1>u DEF IInv, TypeOK, LockHeld, FlowKnows, HeldUntilSettled
  <2> QED
    BY <2>2, <2>3, <2>4 DEF IInv
<1>2. CASE ReserveKept(w)
  <2> DEFINE new == [id |-> next, sent |-> FALSE]
  <2>1. /\ new \in Records /\ new.id = next /\ new # NoRec
        /\ next \in Attempts /\ next' = next + 1
        /\ disk' = new /\ rec' = [rec EXCEPT ![w] = new] /\ lock' = w
        /\ pc' = [pc EXCEPT ![w] = "wallet"]
        /\ disk.id = 0
    BY <1>2, <1>r, RecordFacts DEF ReserveKept, Go, Records, Attempts
  <2> HIDE DEF new
  <2>2. TypeOK'
    <3>1. next' \in 1 .. MaxAttempts + 1
      BY <2>1, WriteHoldAssumption DEF Attempts
    <3>2. disk' \in Records /\ rec' \in [Windows -> Records]
      BY <2>1 DEF IInv, TypeOK
    <3> QED
      BY <3>1, <3>2, <2>1, <1>r, <1>u DEF IInv, TypeOK, PCs
  <2>3. IdsReserved'
    BY <2>1, <1>r, <1>u, IdsGrow DEF IInv
  <2>4. FutureUntouched'
    BY <2>1, <1>u, WriteHoldAssumption DEF IInv, TypeOK, FutureUntouched, Attempts
  <2>5. LockHeld'
    BY <2>1, <1>u, WriteHoldAssumption DEF IInv, TypeOK, LockHeld
  <2>6. FlowKnows'
    BY <2>1, <1>u DEF IInv, TypeOK, FlowKnows, FutureUntouched, Attempts
  <2>7. DialogKnows'
    BY <1>u DEF IInv, DialogKnows
  <2>8. HeldUntilSettled'
    BY <2>1, <1>u, WriteHoldAssumption
       DEF IInv, TypeOK, HeldUntilSettled, LockHeld, Attempts
  <2> QED
    BY <2>2, <2>3, <2>4, <2>5, <2>6, <2>7, <2>8 DEF IInv
<1>3. CASE ReserveUndone(w)
  <2> DEFINE new == [id |-> next, sent |-> FALSE]
  <2>1. /\ new \in Records /\ new.id = next /\ new # NoRec
        /\ next \in Attempts /\ next' = next + 1
        /\ disk' = disk \/ disk' = new
        /\ pc' = [pc EXCEPT ![w] = "idle"] /\ UNCHANGED <<lock, rec>>
        /\ disk.id = 0
    BY <1>3, <1>r, RecordFacts DEF ReserveUndone, Go, Records, Attempts
  <2> HIDE DEF new
  <2>2. TypeOK'
    <3>1. next' \in 1 .. MaxAttempts + 1
      BY <2>1, WriteHoldAssumption DEF Attempts
    <3>2. disk' \in Records /\ rec' \in [Windows -> Records]
      BY <2>1 DEF IInv, TypeOK
    <3> QED
      BY <3>1, <3>2, <2>1, <1>r, <1>u DEF IInv, TypeOK, PCs
  <2>3. IdsReserved'
    BY <2>1, <1>r, <1>u, IdsGrow DEF IInv
  <2>4. FutureUntouched'
    BY <2>1, <1>u, WriteHoldAssumption DEF IInv, TypeOK, FutureUntouched, Attempts
  <2>5. LockHeld'
    BY <2>1, <1>u, WriteHoldAssumption DEF IInv, TypeOK, LockHeld
  <2>6. FlowKnows'
    BY <2>1, <1>u DEF IInv, TypeOK, FlowKnows
  <2>7. DialogKnows'
    BY <1>u DEF IInv, DialogKnows
  <2>8. HeldUntilSettled'
    BY <2>1, <1>u, WriteHoldAssumption
       DEF IInv, TypeOK, HeldUntilSettled, LockHeld, FutureUntouched, Attempts
  <2> QED
    BY <2>2, <2>3, <2>4, <2>5, <2>6, <2>7, <2>8 DEF IInv
<1> QED
  BY <1>1, <1>2, <1>3 DEF Reserve

\* The wallet and the chain move an attempt without any window.
LEMMA OutsideStep ==
  ASSUME IInv, NEW a \in Attempts, Outside(a)
  PROVE  IInv'
<1>1. /\ \E f \in {"prompt", "pending"}, to \in Fates \ {"none", "prompt"} :
              fate[a] = f /\ fate' = [fate EXCEPT ![a] = to]
      /\ UNCHANGED <<disk, mem, lock, next, pc, rec, dlg, disowned>>
  BY DEF Outside, Approve, Refuse, Include, Become, Fates
<1>2. TypeOK'
  BY <1>1 DEF IInv, TypeOK
<1>3. IdsReserved' /\ LockHeld' /\ DialogKnows'
  BY <1>1 DEF IInv, IdsReserved, LockHeld, DialogKnows
<1>4. FutureUntouched'
  BY <1>1 DEF IInv, TypeOK, FutureUntouched
<1>5. FlowKnows'
  BY <1>1 DEF IInv, TypeOK, FlowKnows, Settled
<1>6. HeldUntilSettled'
  BY <1>1, WriteHoldAssumption DEF IInv, TypeOK, HeldUntilSettled, Settled, Attempts
<1> QED
  BY <1>2, <1>3, <1>4, <1>5, <1>6 DEF IInv

\* Every step keeps the invariant.
LEMMA NextIInv == IInv /\ [Next]_vars => IInv'
<1> SUFFICES ASSUME IInv, [Next]_vars PROVE IInv'
  OBVIOUS
<1>1. ASSUME NEW w \in Windows, WindowStep(w) PROVE IInv'
  BY <1>1, StartStep, GateStep, GateReleaseStep, GiveUpStep, ReserveStep, NotInvokedStep,
     AskStep, RejectedStep, UnsureStep, AnsweredStep, ConfirmedStep, TrackingLostStep,
     TrackReleaseStep, ClickStep, DialogReleaseStep, DismissStep, ReloadStep
     DEF WindowStep
<1>2. ASSUME NEW a \in Attempts, Outside(a) PROVE IInv'
  BY <1>2, OutsideStep
<1>3. CASE UNCHANGED vars
  BY <1>3 DEF vars, IInv, TypeOK, IdsReserved, FutureUntouched, LockHeld, FlowKnows,
              DialogKnows, HeldUntilSettled
<1> QED
  BY <1>1, <1>2, <1>3 DEF Next

\* Every reachable state has the types declared, whatever windows, faults and users do.
THEOREM TypeCorrect == Spec => []TypeOK
<1>1. IInv => TypeOK
  BY DEF IInv
<1> QED
  BY <1>1, InitIInv, NextIInv, PTL DEF Spec

\* The record of an attempt leaves storage only when its wallet was never asked or refused,
\* when its receipt settled it, or when a user declared it not sent.
THEOREM HeldUntilSettledAlways == Spec => []HeldUntilSettled
<1>1. IInv => HeldUntilSettled
  BY DEF IInv
<1> QED
  BY <1>1, InitIInv, NextIInv, PTL DEF Spec

----------------------------------------------------------------------------
(* At most one attempt can land, when users keep their word.               *)

\* An attempt declared not sent is never in the mempool afterwards.
DisownedNotPending == \A a \in disowned : fate[a] # "pending"

\* A user who keeps their word never approves the prompt of a disowned attempt.
LEMMA DisownedStep ==
  ASSUME UserKeepsWord, IInv, DisownedNotPending, [Next]_vars
  PROVE  DisownedNotPending'
<1>1. ASSUME NEW w \in Windows, Click(w) PROVE DisownedNotPending'
  BY <1>1 DEF Click, DisownedNotPending
<1>2. ASSUME NEW w \in Windows, Ask(w) PROVE DisownedNotPending'
  BY <1>2 DEF Ask, DisownedNotPending, IInv, TypeOK
<1>3. ASSUME NEW a \in Attempts, Outside(a) PROVE DisownedNotPending'
  BY <1>3 DEF Outside, Approve, Refuse, Include, Become, DisownedNotPending, IInv, TypeOK
<1>4. CASE UNCHANGED <<fate, disowned>>
  BY <1>4 DEF DisownedNotPending
<1>5. ASSUME NEW w \in Windows, WindowStep(w), ~Click(w), ~Ask(w)
      PROVE  UNCHANGED <<fate, disowned>>
  BY <1>5 DEF WindowStep, Start, Gate, GateRelease, GiveUp, Reserve, NotInvoked, Rejected,
     Unsure, Answered, Confirmed, TrackingLost, TrackRelease, DialogRelease, Dismiss, Reload
<1> QED
  BY <1>1, <1>2, <1>3, <1>4, <1>5 DEF Next, vars

\* What can still land holds the slot, and the slot holds one attempt.
LEMMA OneCanLand == IInv /\ DisownedNotPending => AtMostOneCanLand
<1> SUFFICES ASSUME IInv, DisownedNotPending,
                    NEW a \in Attempts, CanStillLand(a)
             PROVE  disk.id = a
  BY DEF AtMostOneCanLand
<1>1. a \notin disowned /\ fate[a] \in {"pending", "prompt"}
  BY DEF CanStillLand, DisownedNotPending
<1>2. a \in 1 .. next - 1
  BY <1>1, WriteHoldAssumption DEF IInv, TypeOK, FutureUntouched, Attempts
<1> QED
  BY <1>1, <1>2 DEF IInv, HeldUntilSettled, Settled

\* With users who refuse the prompt of an attempt they released, no two attempts
\* of one action can both still take effect.
THEOREM AtMostOneCanLandAlways ==
  ASSUME UserKeepsWord PROVE Spec => []AtMostOneCanLand
<1>1. Init => DisownedNotPending
  BY DEF Init, DisownedNotPending
<1>2. IInv /\ DisownedNotPending /\ [Next]_vars => DisownedNotPending'
  BY DisownedStep
<1> QED
  BY <1>1, <1>2, InitIInv, NextIInv, OneCanLand, PTL DEF Spec

----------------------------------------------------------------------------
(* The stored record only advances.                                        *)

Advances == \/ disk = NoRec \/ disk' = NoRec \/ disk' = disk
            \/ disk' = [disk EXCEPT !.sent = TRUE]

\* A record with no attempt in it is no record.
LEMMA EmptyRecord == ASSUME TypeOK, disk.id = 0 PROVE disk = NoRec
BY DEF TypeOK, Records, Attempts, NoRec

\* The hash is added to the record of the attempt that was sent.
LEMMA SavedHash ==
  ASSUME IInv, NEW w \in Windows, Mine(w, rec[w])
  PROVE  /\ [rec[w] EXCEPT !.sent = TRUE] = [disk EXCEPT !.sent = TRUE]
         /\ [rec[w] EXCEPT !.sent = TRUE].id = disk.id
<1>1. rec[w].id = disk.id
  BY ReadNamesStored DEF IInv, Mine
<1>2. ASSUME NEW r \in Records
      PROVE  [r EXCEPT !.sent = TRUE] = [id |-> r.id, sent |-> TRUE]
  <2>1. r \in [id : 0 .. MaxAttempts, sent : BOOLEAN]
    <3>1. 0 \in 0 .. MaxAttempts /\ Attempts \subseteq 0 .. MaxAttempts
      BY WriteHoldAssumption DEF Attempts
    <3>2. CASE r = NoRec
      BY <3>1, <3>2 DEF NoRec
    <3>3. CASE r \in [id : Attempts, sent : BOOLEAN]
      BY <3>1, <3>3
    <3> QED
      BY <3>2, <3>3 DEF Records
  <2>2. /\ [r EXCEPT !.sent = TRUE] \in [id : 0 .. MaxAttempts, sent : BOOLEAN]
        /\ [r EXCEPT !.sent = TRUE].id = r.id
        /\ [r EXCEPT !.sent = TRUE].sent = TRUE
    BY <2>1
  <2>3. ASSUME NEW f \in [id : 0 .. MaxAttempts, sent : BOOLEAN]
        PROVE  f = [id |-> f.id, sent |-> f.sent]
    OBVIOUS
  <2> QED
    BY <2>2, <2>3
<1>3. disk \in Records /\ rec[w] \in Records
  BY DEF IInv, TypeOK
<1> QED
  BY <1>1, <1>2, <1>3

\* Whatever a window does, the record only advances.
LEMMA WindowAdvances == ASSUME IInv, NEW w \in Windows, WindowStep(w) PROVE Advances
<1>1. ASSUME \E e \in Records : ReleaseLocked(w, e) PROVE Advances
  BY <1>1, ReleaseRemovesOwn DEF IInv, Advances
<1>2. CASE GateRelease(w) \/ NotInvoked(w) \/ Rejected(w) \/ TrackRelease(w)
  BY <1>1, <1>2 DEF IInv, TypeOK, GateRelease, NotInvoked, Rejected, TrackRelease
<1>3. CASE DialogRelease(w)
  BY <1>1, <1>3 DEF IInv, TypeOK, Dialogs, DialogRelease, ReleaseLocked
<1>4. CASE Reserve(w)
  <2>1. CASE ReserveRefused(w)
    BY <2>1 DEF ReserveRefused, Advances
  <2>2. CASE Read(w) = NoRec
    BY <2>2, ReadNamesStored, RecordFacts, EmptyRecord DEF IInv, Advances
  <2> QED
    BY <1>4, <2>1, <2>2 DEF Reserve, ReserveKept, ReserveUndone
<1>5. CASE Answered(w)
  BY <1>5, SavedHash DEF Answered, SaveHash, Advances
<1>6. CASE Start(w) \/ Gate(w) \/ GiveUp(w) \/ Ask(w) \/ Unsure(w) \/ Confirmed(w)
           \/ TrackingLost(w) \/ Click(w) \/ Dismiss(w) \/ Reload(w)
  BY <1>6 DEF Start, Gate, GiveUp, Ask, Unsure, Confirmed, TrackingLost, Click, Dismiss,
              Reload, Advances
<1> QED
  BY <1>2, <1>3, <1>4, <1>5, <1>6 DEF WindowStep

\* A stored record only gains its hash or is removed, whichever windows race for the slot:
\* nobody overwrites the record of another attempt or takes a saved hash back.
THEOREM RecordOnlyAdvancesAlways == Spec => RecordOnlyAdvances
<1>1. IInv /\ [Next]_vars => [Advances]_vars
  <2> SUFFICES ASSUME IInv, Next PROVE Advances
    BY DEF vars
  <2>1. ASSUME NEW a \in Attempts, Outside(a) PROVE Advances
    BY <2>1 DEF Outside, Approve, Refuse, Include, Become, Advances
  <2> QED
    BY <2>1, WindowAdvances DEF Next
<1> QED
  BY <1>1, InitIInv, NextIInv, PTL DEF Spec, RecordOnlyAdvances, Advances

----------------------------------------------------------------------------
(* Queued releases.  While storage works no hash is kept in memory only,   *)
(* and what a tracking window knows of its attempt is in storage as long   *)
(* as the attempt's record is.                                             *)

HashesSaved ==
  \A v \in Windows :
    /\ mem[v] = NoRec
    /\ pc[v] \in {"wallet", "prompt"} => ~rec[v].sent
    /\ pc[v] = "track" /\ rec[v].sent /\ disk.id = rec[v].id => disk.sent

\* Nobody takes a hash out of a record that stays, or begins to track one that is not saved.
LEMMA HashesStay ==
  ASSUME HashesSaved, \A v \in Windows : mem'[v] = NoRec,
         \/ disk' = disk
         \/ disk' = NoRec
         \/ disk'.sent
         \/ \A v \in Windows : rec'[v].sent => disk'.id # rec'[v].id,
         \A v \in Windows : \/ rec'[v] = rec[v] /\ pc'[v] = pc[v]
                            \/ pc'[v] \notin {"wallet", "prompt", "track"}
                            \/ rec'[v] = rec[v] /\ pc[v] \in {"wallet", "prompt"}
                            \/ disk'.sent /\ pc'[v] = "track"
                            \/ ~rec'[v].sent,
         \A v \in Windows : pc[v] = "track" => rec[v].id # 0
  PROVE  HashesSaved'
BY DEF HashesSaved, NoRec

LEMMA WindowSavesHashes ==
  ASSUME StorageMayFail = FALSE, IInv, HashesSaved, NEW w \in Windows, WindowStep(w)
  PROVE  HashesSaved'
<1>1. \A v \in Windows : pc[v] = "track" => rec[v].id # 0
  BY RecordFacts DEF IInv, TypeOK, FlowKnows
<1>2. /\ pc \in [Windows -> PCs] /\ rec \in [Windows -> Records] /\ mem \in [Windows -> Records]
      /\ disk \in Records
  BY DEF IInv, TypeOK
<1>3. ASSUME NEW e \in Records, ReleaseLocked(w, e)
      PROVE  (disk' = disk \/ disk' = NoRec) /\ \A v \in Windows : mem'[v] = NoRec
  BY <1>3, ReleaseRemovesOwn DEF IInv, HashesSaved
<1>4. CASE GateRelease(w) \/ NotInvoked(w) \/ Rejected(w) \/ TrackRelease(w)
  <2>1. ReleaseLocked(w, rec[w]) /\ rec' = rec /\ \E p \in {"idle", "review"} : pc' = [pc EXCEPT ![w] = p]
    BY <1>4 DEF GateRelease, NotInvoked, Rejected, TrackRelease, Go
  <2>2. \A v \in Windows : pc'[v] = pc[v] \/ pc'[v] \in {"idle", "review"}
    BY <1>2, <2>1
  <2> QED
    BY <1>1, <1>2, <1>3, <2>1, <2>2, HashesStay
<1>5. CASE DialogRelease(w)
  <2>1. ReleaseLocked(w, dlg[w].shown) /\ rec' = rec /\ pc' = pc /\ dlg[w].shown \in Records
    BY <1>5 DEF DialogRelease, ReleaseLocked, IInv, TypeOK, Dialogs
  <2> QED
    BY <1>1, <1>3, <2>1, HashesStay
<1>6. ASSUME mem' = MemAfterRead(w) PROVE \A v \in Windows : mem'[v] = NoRec
  BY <1>6, ReadForgets DEF IInv, HashesSaved
<1>7. CASE Start(w) \/ Gate(w) \/ GiveUp(w) \/ Unsure(w) \/ Confirmed(w) \/ TrackingLost(w)
  <2>1. /\ disk' = disk /\ \A v \in Windows : mem'[v] = NoRec
    BY <1>6, <1>7 DEF Start, Gate, GiveUp, Unsure, Confirmed, TrackingLost, HashesSaved
  <2>2. /\ pc' = pc \/ \E p \in {"review", "gate", "gateRelease", "idle", "trackRelease"} :
                           pc' = [pc EXCEPT ![w] = p]
        /\ \A v \in Windows \ {w} : rec'[v] = rec[v]
        /\ rec' = rec \/ pc' = [pc EXCEPT ![w] = "gate"]
    BY <1>2, <1>7 DEF Start, Gate, GiveUp, Unsure, Confirmed, TrackingLost, Go
  <2>3. \A v \in Windows : \/ rec'[v] = rec[v] /\ pc'[v] = pc[v]
                           \/ pc'[v] \in {"review", "gate", "gateRelease", "idle", "trackRelease"}
    BY <1>2, <2>2
  <2> QED
    BY <1>1, <2>1, <2>3, HashesStay
<1>8. CASE Ask(w)
  <2>1. /\ disk' = disk /\ rec' = rec /\ mem' = mem /\ pc[w] = "wallet" /\ pc' = [pc EXCEPT ![w] = "prompt"]
    BY <1>8 DEF Ask, Go
  <2>2. \A v \in Windows : pc'[v] = pc[v] \/ pc[v] = "wallet"
    BY <1>2, <2>1
  <2> QED
    BY <1>1, <2>1, <2>2, HashesStay DEF HashesSaved
<1>9. CASE Click(w) \/ Dismiss(w)
  <2>1. disk' = disk /\ rec' = rec /\ pc' = pc /\ \A v \in Windows : mem'[v] = NoRec
    BY <1>6, <1>9 DEF Click, Dismiss, HashesSaved
  <2> QED
    BY <1>1, <2>1, HashesStay
<1>10. CASE Reload(w)
  <2>1. /\ disk' = disk /\ \A v \in Windows : mem'[v] = NoRec
        /\ \A v \in Windows : (rec'[v] = rec[v] /\ pc'[v] = pc[v]) \/ pc'[v] = "idle"
    BY <1>2, <1>10 DEF Reload, Go, HashesSaved
  <2> QED
    BY <1>1, <2>1, HashesStay
<1>11. CASE Reserve(w)
  <2>1. \A v \in Windows : mem'[v] = NoRec
    BY <1>6, <1>11 DEF Reserve
  <2>2. CASE ReserveRefused(w) \/ ReserveUndone(w)
    <3>1. disk' = disk /\ rec' = rec /\ pc' = [pc EXCEPT ![w] = "idle"]
      BY <2>2 DEF ReserveRefused, ReserveUndone, Go
    <3>2. \A v \in Windows : pc'[v] = pc[v] \/ pc'[v] = "idle"
      BY <1>2, <3>1
    <3> QED
      BY <1>1, <2>1, <3>1, <3>2, HashesStay
  <2>3. CASE ReserveKept(w)
    <3>1. /\ disk' = [id |-> next, sent |-> FALSE] /\ rec' = [rec EXCEPT ![w] = disk']
          /\ pc' = [pc EXCEPT ![w] = "wallet"]
      BY <2>3 DEF ReserveKept, Go
    <3>2. \A v \in Windows : v # w => rec'[v] = rec[v] /\ pc'[v] = pc[v]
      BY <1>2, <3>1
    <3>3. disk'.id = next /\ ~disk'.sent /\ rec'[w] = disk'
      BY <1>2, <3>1
    <3>4. \A v \in Windows : rec'[v].sent => disk'.id # rec'[v].id
      <4>1. \A v \in Windows : rec[v].id < next /\ rec[v].id \in Nat /\ next \in Nat
        BY <1>2, RecordFacts, WriteHoldAssumption DEF IInv, TypeOK, IdsReserved
      <4> QED
        BY <3>2, <3>3, <4>1
    <3> QED
      BY <1>1, <2>1, <3>2, <3>3, <3>4, HashesStay
  <2> QED
    BY <1>11, <2>2, <2>3 DEF Reserve
<1>12. CASE Answered(w)
  <2>1. pc[w] = "prompt" /\ pc' = [pc EXCEPT ![w] = "track"]
    BY <1>12 DEF Answered, Go
  <2>2. CASE Mine(w, rec[w])
    <3>1. /\ disk' = [disk EXCEPT !.sent = TRUE]
          /\ mem' = [mem EXCEPT ![w] = NoRec]
          /\ rec' = [rec EXCEPT ![w] = [rec[w] EXCEPT !.sent = TRUE]]
      BY <1>12, <2>2, SavedHash DEF Answered, SaveHash
    <3>2. disk'.sent /\ \A v \in Windows : mem'[v] = NoRec
      <4>1. [disk EXCEPT !.sent = TRUE].sent
        BY <1>2 DEF Records, NoRec
      <4> QED
        BY <1>2, <3>1, <4>1 DEF HashesSaved
    <3>3. \A v \in Windows : (rec'[v] = rec[v] /\ pc'[v] = pc[v]) \/ pc'[v] = "track"
      BY <1>2, <2>1, <3>1
    <3> QED
      BY <1>1, <3>2, <3>3, HashesStay
  <2>3. CASE ~Mine(w, rec[w])
    <3>1. disk' = disk /\ rec' = rec /\ mem' = MemAfterRead(w)
      BY <1>12, <2>3 DEF Answered
    <3>2. \A v \in Windows : pc'[v] = pc[v] \/ pc[v] = "prompt"
      BY <1>2, <2>1
    <3> QED
      BY <1>1, <1>6, <3>1, <3>2, HashesStay
  <2> QED
    BY <2>2, <2>3
<1> QED
  BY <1>4, <1>5, <1>7, <1>8, <1>9, <1>10, <1>11, <1>12 DEF WindowStep

LEMMA StepSavesHashes ==
  ASSUME StorageMayFail = FALSE, IInv, HashesSaved, [Next]_vars
  PROVE  HashesSaved'
<1>1. CASE UNCHANGED vars
  BY <1>1 DEF vars, HashesSaved
<1>2. ASSUME NEW a \in Attempts, Outside(a) PROVE HashesSaved'
  BY <1>2 DEF Outside, Approve, Refuse, Include, Become, HashesSaved
<1> QED
  BY <1>1, <1>2, WindowSavesHashes DEF Next

QueuedKeeps ==
  \A w \in Windows :
    dlg[w].state = "queued" /\ ~dlg[w].shown.sent /\ HashInHand(dlg[w].shown.id) /\ dlg'[w] = Closed
      => disk' = disk

\* A release that waited behind a send leaves the record of the hash that came meanwhile, for
\* any windows and attempts, as long as storage takes what it is given: a hash is then saved
\* before its window goes on, and the release no longer finds the record its dialog showed.
\* (With storage that fails it is not so: run write_hold_lost_hash.)
THEOREM QueuedReleaseKeepsHashAlways ==
  ASSUME StorageMayFail = FALSE PROVE Spec => QueuedReleaseKeepsHash
<1>1. Init => HashesSaved
  BY DEF Init, HashesSaved, NoRec
<1>2. IInv /\ HashesSaved /\ [Next]_vars => HashesSaved'
  BY StepSavesHashes
<1>3. IInv /\ HashesSaved /\ [Next]_vars => [QueuedKeeps]_vars
  <2> SUFFICES ASSUME IInv, HashesSaved, Next, NEW w \in Windows, dlg[w].state = "queued",
                      ~dlg[w].shown.sent, HashInHand(dlg[w].shown.id), dlg'[w] = Closed
               PROVE  disk' = disk
    BY DEF QueuedKeeps, vars
  <2>1. disk # dlg[w].shown
    BY DEF HashInHand, HashesSaved, NoRec
  <2>2. CASE DialogRelease(w)
    <3>1. ~Mine(w, dlg[w].shown)
      BY <2>1 DEF Mine, Read, Kept, HashesSaved
    <3> QED
      BY <2>2, <3>1 DEF DialogRelease, Remove, RemoveThrows
  <2>3. CASE Reload(w)
    BY <2>3 DEF Reload
  <2>4. CASE dlg'[w] = dlg[w]
    BY <2>4 DEF Closed
  <2>5. ASSUME NEW v \in Windows, WindowStep(v), v # w PROVE dlg'[w] = dlg[w]
    BY <2>5 DEF WindowStep, Start, Gate, GateRelease, GiveUp, Reserve, NotInvoked, Ask, Rejected,
         Unsure, Answered, Confirmed, TrackingLost, TrackRelease, Click, DialogRelease, Dismiss,
         Reload, OpenDialog, CloseDialog, ShowDialog, IInv, TypeOK
  <2>6. CASE WindowStep(w)
    <3>1. CASE DialogRelease(w) \/ Reload(w)
      BY <2>2, <2>3, <3>1
    <3>2. CASE Click(w) \/ Dismiss(w)
      BY <3>2 DEF Click, Dismiss
    <3>3. CASE GateRelease(w) \/ NotInvoked(w) \/ Rejected(w) \/ TrackRelease(w) \/ Reserve(w) \/ Answered(w)
      BY <2>4, <3>3 DEF GateRelease, NotInvoked, Rejected, TrackRelease, Reserve, Answered
    <3>4. CASE Start(w) \/ Gate(w) \/ GiveUp(w) \/ Ask(w) \/ Unsure(w) \/ Confirmed(w) \/ TrackingLost(w)
      BY <3>4 DEF Start, Gate, GiveUp, Ask, Unsure, Confirmed, TrackingLost
    <3> QED
      BY <2>6, <3>1, <3>2, <3>3, <3>4 DEF WindowStep
  <2>7. ASSUME NEW a \in Attempts, Outside(a) PROVE disk' = disk
    BY <2>7 DEF Outside, Approve, Refuse, Include, Become
  <2> QED
    BY <2>4, <2>5, <2>6, <2>7 DEF Next
<1> QED
  BY <1>1, <1>2, <1>3, InitIInv, NextIInv, PTL DEF Spec, QueuedReleaseKeepsHash, QueuedKeeps

----------------------------------------------------------------------------
(* The refinement: who is about to ask the wallet, and what moves.         *)

\* A window is about to ask the wallet for an attempt.
Asking(a) == \E w \in Windows : pc[w] = "wallet" /\ rec[w].id = a

AskingSame == \A a \in Attempts : Asking(a)' <=> Asking(a)

AllStages == [a \in Attempts |-> Stage(a)]

AbsStep == [Abs!AbsNext]_(Abs!avars)

\* Stage, in terms of Asking.
LEMMA StageIs ==
  ASSUME NEW a \in Attempts
  PROVE  Stage(a) = IF a >= next THEN "new"
                    ELSE IF a \in disowned \/ fate[a] \in Settled THEN "over"
                    ELSE IF fate[a] # "none" THEN "asked"
                    ELSE IF Asking(a) THEN "held" ELSE "over"
BY DEF Stage, Asking

\* Only the holder of the lock is about to ask, for an attempt that was reserved
\* and has not been asked for.
LEMMA OnlyAsker ==
  ASSUME IInv, NEW w \in Windows, pc[w] = "wallet"
  PROVE  /\ rec[w].id \in Attempts /\ rec[w].id < next /\ fate[rec[w].id] = "none"
         /\ \A a \in Attempts : Asking(a) <=> a = rec[w].id
<1>1. rec[w] # NoRec /\ rec[w] \in Records
  BY DEF IInv, TypeOK, FlowKnows
<1>2. \A v \in Windows : pc[v] = "wallet" => v = w
  BY DEF IInv, LockHeld
<1> QED
  BY <1>1, <1>2, RecordFacts DEF IInv, FlowKnows, IdsReserved, Asking

\* With the lock free nobody is about to ask.
LEMMA NobodyAsks ==
  ASSUME IInv, lock = NoWindow
  PROVE  \A v \in Windows : pc[v] # "wallet"
BY WriteHoldAssumption DEF IInv, LockHeld

\* A step of a window outside its critical section changes nothing about who asks.
LEMMA OthersAsk ==
  ASSUME NEW w \in Windows, pc[w] # "wallet", pc'[w] # "wallet",
         \A v \in Windows \ {w} : pc'[v] = pc[v] /\ rec'[v] = rec[v]
  PROVE  AskingSame
BY DEF AskingSame, Asking

\* When no attempt moves, the abstract state does not.
LEMMA NothingMoves ==
  ASSUME disk'.id = disk.id, UNCHANGED <<next, fate, disowned>>, AskingSame
  PROVE  AbsStep
<1>1. ASSUME NEW a \in Attempts PROVE Stage(a)' = Stage(a)
  BY DEF Stage, Asking, AskingSame
<1> QED
  BY <1>1 DEF AbsStep, Abs!avars

\* When one attempt moves, the others stay where they are.
LEMMA OneMoves ==
  ASSUME NEW a \in Attempts, NEW s, Stage(a)' = s,
         \A b \in Attempts \ {a} : Stage(b)' = Stage(b)
  PROVE  AllStages' = [AllStages EXCEPT ![a] = s]
BY DEF AllStages

\* An attempt that had been taken, and of which nothing can come any more, settles.
LEMMA Settles ==
  ASSUME NEW a \in Attempts, disk'.id = disk.id,
         Stage(a) # "new", Stage(a)' = "over",
         \A b \in Attempts \ {a} : Stage(b)' = Stage(b)
  PROVE  AbsStep
<1>1. AllStages' = [AllStages EXCEPT ![a] = "over"]
  BY OneMoves
<1>2. CASE Stage(a) = "over"
  <2>1. AllStages' = AllStages
    BY <1>1, <1>2 DEF AllStages
  <2> QED
    BY <2>1 DEF AbsStep, AllStages, Abs!avars
<1>3. CASE Stage(a) \in {"held", "asked"}
  <2>1. Abs!Settle(a)
    BY <1>1, <1>3 DEF AllStages, Abs!Settle
  <2> QED
    BY <2>1 DEF AbsStep, Abs!AbsNext, Abs!Attempts, Attempts
<1> QED
  BY <1>2, <1>3 DEF Stage

\* The slot is given back by an attempt that is over, if it is given back.
LEMMA Frees ==
  ASSUME IInv, NEW a \in Attempts, disk' = disk \/ (disk' = NoRec /\ disk.id = a),
         Stage(a) \in {"held", "over"}, Stage(a)' = "over",
         \A b \in Attempts \ {a} : Stage(b)' = Stage(b)
  PROVE  AbsStep
<1>1. CASE disk' = disk
  BY <1>1, Settles
<1>2. CASE disk' = NoRec /\ disk.id = a
  <2>1. AllStages' = [AllStages EXCEPT ![a] = "over"]
    BY OneMoves
  <2>2. Abs!Free(a)
    BY <1>2, <2>1, RecordFacts DEF AllStages, Abs!Free
  <2> QED
    BY <2>2 DEF AbsStep, Abs!AbsNext, Abs!Attempts, Attempts
<1> QED
  BY <1>1, <1>2

----------------------------------------------------------------------------
(* The refinement, action by action.                                       *)

\* Reads, reviews, answers and receipts move no attempt of the abstract hold.
LEMMA QuietStep ==
  ASSUME IInv, NEW w \in Windows,
         \/ Start(w) \/ Gate(w) \/ GiveUp(w) \/ Unsure(w) \/ Answered(w)
         \/ Confirmed(w) \/ TrackingLost(w) \/ Dismiss(w)
  PROVE  AbsStep
<1>1. UNCHANGED <<next, fate, disowned>>
  BY DEF Start, Gate, GiveUp, Unsure, Answered, Confirmed, TrackingLost, Dismiss
<1>2. disk'.id = disk.id
  <2>1. CASE Answered(w)
    BY <2>1, SavedHash DEF Answered, SaveHash
  <2> QED
    BY <2>1 DEF Start, Gate, GiveUp, Unsure, Confirmed, TrackingLost, Dismiss
<1>3. AskingSame
  <2>1. CASE Dismiss(w)
    BY <2>1 DEF Dismiss, AskingSame, Asking
  <2>2. CASE Start(w)
    <3>1. pc[w] # "wallet" /\ pc'[w] # "wallet"
          /\ \A v \in Windows \ {w} : pc'[v] = pc[v] /\ rec'[v] = rec[v]
      BY <2>2 DEF IInv, TypeOK, Start, Go
    <3> QED
      BY <3>1, OthersAsk
  <2>3. CASE Answered(w)
    <3>1. pc[w] # "wallet" /\ pc'[w] # "wallet"
          /\ \A v \in Windows \ {w} : pc'[v] = pc[v] /\ rec'[v] = rec[v]
      BY <2>3 DEF IInv, TypeOK, Answered, Go
    <3> QED
      BY <3>1, OthersAsk
  <2>4. CASE Gate(w) \/ GiveUp(w) \/ Unsure(w) \/ Confirmed(w) \/ TrackingLost(w)
    <3>1. pc[w] # "wallet" /\ pc'[w] # "wallet"
          /\ \A v \in Windows \ {w} : pc'[v] = pc[v] /\ rec'[v] = rec[v]
      BY <2>4 DEF IInv, TypeOK, Gate, GiveUp, Unsure, Confirmed, TrackingLost, Go
    <3> QED
      BY <3>1, OthersAsk
  <2> QED
    BY <2>1, <2>2, <2>3, <2>4
<1> QED
  BY <1>1, <1>2, <1>3, NothingMoves

\* What a release by a flow or a dialog may remove is over already.
LEMMA ReleaseStep ==
  ASSUME IInv, NEW w \in Windows, NEW e \in Records, ReleaseLocked(w, e),
         UNCHANGED <<next, fate, disowned>>, AskingSame,
         e # NoRec, e.id < next, e.id \in disowned \/ fate[e.id] \in Settled
  PROVE  AbsStep
<1>1. disk' = disk \/ (disk' = NoRec /\ disk.id = e.id)
  BY ReleaseRemovesOwn DEF IInv
<1>2. e.id \in Attempts /\ ~(e.id >= next)
  BY RecordFacts, WriteHoldAssumption DEF IInv, TypeOK, Attempts
<1>3. ASSUME NEW a \in Attempts PROVE Stage(a)' = Stage(a)
  BY DEF Stage, Asking, AskingSame
<1>4. Stage(e.id) = "over"
  BY <1>2, StageIs
<1> QED
  BY <1>1, <1>2, <1>3, <1>4, Frees

LEMMA FlowReleaseStep ==
  ASSUME IInv, NEW w \in Windows, GateRelease(w) \/ Rejected(w) \/ TrackRelease(w)
  PROVE  AbsStep
<1>1. /\ ReleaseLocked(w, rec[w])
      /\ UNCHANGED <<next, rec, fate, disowned>>
      /\ pc[w] # "wallet" /\ pc'[w] # "wallet"
      /\ \A v \in Windows \ {w} : pc'[v] = pc[v]
  BY DEF IInv, TypeOK, GateRelease, Rejected, TrackRelease, Go
<1>2. rec[w] \in Records /\ rec[w] # NoRec /\ rec[w].id < next /\ fate[rec[w].id] \in Settled
  BY DEF IInv, TypeOK, IdsReserved, FlowKnows, Settled, GateRelease, Rejected, TrackRelease
<1>3. AskingSame
  BY <1>1, OthersAsk
<1> QED
  BY <1>1, <1>2, <1>3, ReleaseStep

LEMMA DialogReleases ==
  ASSUME IInv, NEW w \in Windows, DialogRelease(w)
  PROVE  AbsStep
<1>1. /\ ReleaseLocked(w, dlg[w].shown)
      /\ UNCHANGED <<next, pc, rec, fate, disowned>>
  BY DEF DialogRelease, ReleaseLocked
<1>2. /\ dlg[w].shown \in Records /\ dlg[w].shown # NoRec
      /\ dlg[w].shown.id < next /\ dlg[w].shown.id \in disowned
  BY DEF IInv, TypeOK, Dialogs, IdsReserved, DialogKnows, DialogRelease
<1>3. AskingSame
  BY <1>1 DEF AskingSame, Asking
<1> QED
  BY <1>1, <1>2, <1>3, ReleaseStep

\* An attempt whose window gave up before the wallet was called is over in that step.
LEMMA WalletNotCalled ==
  ASSUME IInv, NEW w \in Windows, pc[w] = "wallet",
         disk' = disk \/ (disk' = NoRec /\ disk.id = rec[w].id),
         UNCHANGED <<next, fate, disowned>>,
         \A v \in Windows : pc'[v] # "wallet"
  PROVE  AbsStep
<1>1. PICK a \in Attempts : a = rec[w].id
  BY OnlyAsker
<1>2. /\ a < next /\ ~(a >= next) /\ fate[a] = "none"
      /\ \A b \in Attempts : Asking(b) <=> b = a
  BY <1>1, OnlyAsker, WriteHoldAssumption DEF IInv, TypeOK, Attempts
<1>3. ASSUME NEW b \in Attempts PROVE ~Asking(b)'
  BY DEF Asking
<1>4. Stage(a) \in {"held", "over"}
  BY <1>2, StageIs
<1>5. Stage(a)' = "over"
  BY <1>2, <1>3 DEF Stage, Asking
<1>6. ASSUME NEW b \in Attempts \ {a} PROVE Stage(b)' = Stage(b)
  BY <1>2, <1>3 DEF Stage, Asking
<1> QED
  BY <1>1, <1>4, <1>5, <1>6, Frees

\* The lock is held by the window whose wallet is next: no other is there.
LEMMA GivenUpStep ==
  ASSUME IInv, NEW w \in Windows, NotInvoked(w) \/ Reload(w)
  PROVE  AbsStep
<1>1. /\ UNCHANGED <<next, fate, disowned>>
      /\ pc'[w] = "idle"
      /\ \A v \in Windows \ {w} : pc'[v] = pc[v] /\ rec'[v] = rec[v]
  BY DEF IInv, TypeOK, NotInvoked, Reload, Go
<1>2. CASE pc[w] = "wallet"
  <2>1. \A v \in Windows : pc'[v] # "wallet"
    BY <1>1, <1>2 DEF IInv, LockHeld
  <2>2. disk' = disk \/ (disk' = NoRec /\ disk.id = rec[w].id)
    BY ReleaseRemovesOwn DEF IInv, TypeOK, NotInvoked, Reload
  <2> QED
    BY <1>1, <1>2, <2>1, <2>2, WalletNotCalled
<1>3. CASE pc[w] # "wallet"
  BY <1>1, <1>3, OthersAsk, NothingMoves DEF NotInvoked, Reload
<1> QED
  BY <1>2, <1>3

\* The wallet is asked for the attempt in the slot, or for one its user has disowned.
LEMMA AskRefines ==
  ASSUME IInv, NEW w \in Windows, Ask(w)
  PROVE  AbsStep
<1>1. PICK a \in Attempts : a = rec[w].id
  BY OnlyAsker DEF Ask
<1>2. /\ a < next /\ ~(a >= next) /\ fate[a] = "none" /\ pc[w] = "wallet"
      /\ \A b \in Attempts : Asking(b) <=> b = a
  BY <1>1, OnlyAsker, WriteHoldAssumption DEF IInv, TypeOK, Attempts, Ask
<1>3. /\ UNCHANGED <<disk, next, disowned>>
      /\ fate' = [fate EXCEPT ![a] = "prompt"]
  BY <1>1 DEF Ask
<1>4. ASSUME NEW b \in Attempts PROVE ~Asking(b)'
  BY <1>2 DEF IInv, TypeOK, LockHeld, Asking, Ask, Go
<1>5. ASSUME NEW b \in Attempts \ {a} PROVE Stage(b)' = Stage(b)
  BY <1>2, <1>3, <1>4 DEF IInv, TypeOK, Stage, Asking
<1>6. CASE a \in disowned
  <2>1. Stage(a) = "over" /\ Stage(a)' = "over"
    BY <1>2, <1>3, <1>6 DEF Stage
  <2> QED
    BY <1>3, <1>5, <2>1, Settles
<1>7. CASE a \notin disowned
  <2>1. Stage(a) = "held"
    BY <1>2, <1>7, StageIs DEF Settled
  <2>2. Stage(a)' = "asked"
    BY <1>2, <1>3, <1>7 DEF IInv, TypeOK, Stage, Settled
  <2>3. disk.id = a
    BY <1>1, <1>2, <1>7, WriteHoldAssumption
       DEF IInv, TypeOK, HeldUntilSettled, Settled, Attempts
  <2>4. Abs!Ask(a)
    BY <1>3, <1>5, <2>1, <2>2, <2>3, OneMoves DEF Abs!Ask, AllStages
  <2> QED
    BY <2>4 DEF AbsStep, Abs!AbsNext, Abs!Attempts, Attempts
<1> QED
  BY <1>6, <1>7

\* A new attempt takes the empty slot, or is over without it.
LEMMA ReserveRefines ==
  ASSUME IInv, NEW w \in Windows, Reserve(w)
  PROVE  AbsStep
<1>1. /\ UNCHANGED <<fate, disowned>> /\ pc[w] = "review"
      /\ \A v \in Windows : pc[v] # "wallet"
  BY NobodyAsks DEF Reserve
<1>2. CASE ReserveRefused(w)
  <2>1. /\ UNCHANGED <<disk, next, rec>> /\ pc'[w] # "wallet"
        /\ \A v \in Windows \ {w} : pc'[v] = pc[v] /\ rec'[v] = rec[v]
    BY <1>2 DEF IInv, TypeOK, ReserveRefused, Go
  <2> QED
    BY <1>1, <2>1, OthersAsk, NothingMoves
<1>3. CASE ReserveKept(w) \/ ReserveUndone(w)
  <2>1. PICK a \in Attempts : a = next
    BY <1>3 DEF ReserveKept, ReserveUndone
  <2>2. /\ next' = next + 1 /\ a >= next /\ ~(a >= next')
        /\ fate[a] = "none" /\ a \notin disowned
        /\ disk.id = 0
    BY <1>3, <2>1, ReadNamesStored, RecordFacts, WriteHoldAssumption
       DEF IInv, TypeOK, FutureUntouched, Attempts, ReserveKept, ReserveUndone
  <2>3. ASSUME NEW b \in Attempts \ {a} PROVE (b >= next') <=> (b >= next)
    BY <2>1, <2>2, WriteHoldAssumption DEF Attempts
  <2>4. Stage(a) = "new"
    BY <2>2 DEF Stage
  <2>5. CASE ReserveKept(w)
    <3>1. /\ disk' = [id |-> a, sent |-> FALSE]
          /\ rec' = [rec EXCEPT ![w] = disk'] /\ pc' = [pc EXCEPT ![w] = "wallet"]
      BY <2>1, <2>5 DEF ReserveKept, Go
    <3>2. pc'[w] = "wallet" /\ rec'[w].id = a /\ disk'.id = a
          /\ \A v \in Windows \ {w} : pc'[v] # "wallet"
      BY <1>1, <3>1 DEF IInv, TypeOK
    <3>3. ASSUME NEW b \in Attempts \ {a} PROVE Stage(b)' = Stage(b)
      BY <1>1, <2>3, <3>2 DEF Stage
    <3>4. Stage(a)' = "held"
      BY <1>1, <2>2, <3>2 DEF Stage, Settled
    <3>5. Abs!Take(a)
      BY <2>2, <2>4, <3>2, <3>3, <3>4, OneMoves DEF Abs!Take, AllStages
    <3> QED
      BY <3>5 DEF AbsStep, Abs!AbsNext, Abs!Attempts, Attempts
  <2>6. CASE ReserveUndone(w)
    <3>1. /\ disk' = disk \/ disk' = [id |-> a, sent |-> FALSE]
          /\ \A v \in Windows : pc'[v] # "wallet"
      BY <1>1, <2>1, <2>6 DEF IInv, TypeOK, ReserveUndone, Go
    <3>3. ASSUME NEW b \in Attempts \ {a} PROVE Stage(b)' = Stage(b)
      BY <1>1, <2>3, <3>1 DEF Stage
    <3>4. Stage(a)' = "over"
      BY <1>1, <2>2, <3>1 DEF Stage
    <3>5. disk' = disk => Abs!Skip(a)
      BY <2>4, <3>3, <3>4, OneMoves DEF Abs!Skip, AllStages
    <3>6. disk' = [id |-> a, sent |-> FALSE] => Abs!Take(a)
      BY <2>2, <2>4, <3>3, <3>4, OneMoves DEF Abs!Take, AllStages
    <3> QED
      BY <3>1, <3>5, <3>6 DEF AbsStep, Abs!AbsNext, Abs!Attempts, Attempts
  <2> QED
    BY <1>3, <2>5, <2>6
<1> QED
  BY <1>2, <1>3 DEF Reserve

\* A user who declares an attempt not sent settles it.
LEMMA ClickRefines ==
  ASSUME IInv, NEW w \in Windows, Click(w)
  PROVE  AbsStep
<1>1. UNCHANGED <<disk, next, pc, rec, fate>> /\ dlg[w].state = "open"
  BY DEF Click
<1>2. CASE UNCHANGED disowned
  BY <1>1, <1>2, NothingMoves DEF AskingSame, Asking
<1>3. CASE disowned' = disowned \cup {dlg[w].shown.id}
  <2>1. PICK a \in Attempts : a = dlg[w].shown.id
    BY <1>1, RecordFacts DEF IInv, TypeOK, Dialogs, DialogKnows
  <2>2. a < next /\ ~(a >= next)
    BY <2>1, WriteHoldAssumption DEF IInv, IdsReserved, TypeOK, Attempts
  <2>3. Stage(a) # "new" /\ Stage(a)' = "over"
    BY <1>1, <1>3, <2>1, <2>2 DEF Stage
  <2>4. ASSUME NEW b \in Attempts \ {a} PROVE Stage(b)' = Stage(b)
    BY <1>1, <1>3, <2>1 DEF Stage
  <2> QED
    BY <1>1, <2>3, <2>4, Settles
<1> QED
  BY <1>2, <1>3 DEF Click

\* An answer of the wallet or a block settles the attempt, or leaves it asked.
LEMMA OutsideRefines ==
  ASSUME IInv, NEW a \in Attempts, Outside(a)
  PROVE  AbsStep
<1>1. /\ UNCHANGED <<disk, next, pc, rec, disowned>>
      /\ fate[a] \in {"prompt", "pending"}
      /\ \E to \in Fates \ {"none", "prompt"} : fate' = [fate EXCEPT ![a] = to]
  BY DEF Outside, Approve, Refuse, Include, Become, Fates
<1>2. ~(a >= next)
  BY <1>1 DEF IInv, FutureUntouched
<1>3. ASSUME NEW b \in Attempts \ {a} PROVE Stage(b)' = Stage(b)
  BY <1>1 DEF IInv, TypeOK, Stage
<1>4. fate'[a] # "none"
  BY <1>1 DEF IInv, TypeOK
<1>5. CASE a \in disowned \/ fate'[a] \in Settled
  <2>1. Stage(a) # "new" /\ Stage(a)' = "over"
    BY <1>1, <1>2, <1>5 DEF Stage
  <2> QED
    BY <1>1, <1>3, <2>1, Settles
<1>6. CASE ~(a \in disowned \/ fate'[a] \in Settled)
  <2>1. Stage(a) = "asked" /\ Stage(a)' = "asked"
    BY <1>1, <1>2, <1>4, <1>6 DEF Stage, Settled
  <2>2. UNCHANGED Abs!avars
    BY <1>1, <1>3, <2>1 DEF Abs!avars
  <2> QED
    BY <2>2 DEF AbsStep
<1> QED
  BY <1>5, <1>6

\* Every step of the windows, the wallet and the chain is a step of the abstract hold
\* or none: one slot, one attempt, given back only when nothing can come of it.
THEOREM ImplementsAtMostOnceAlways == Spec => ImplementsAtMostOnce
<1>1. Init => Abs!AbsInit
  BY RecordFacts, WriteHoldAssumption
     DEF Init, Abs!AbsInit, Abs!Attempts, Attempts, Stage
<1>2. IInv /\ [Next]_vars => AbsStep
  <2> SUFFICES ASSUME IInv, [Next]_vars PROVE AbsStep
    OBVIOUS
  <2>1. ASSUME NEW w \in Windows, WindowStep(w) PROVE AbsStep
    BY <2>1, QuietStep, FlowReleaseStep, DialogReleases, GivenUpStep, AskRefines,
       ReserveRefines, ClickRefines DEF WindowStep
  <2>2. CASE UNCHANGED vars
    BY <2>2, NothingMoves DEF vars, AskingSame, Asking
  <2> QED
    BY <2>1, <2>2, OutsideRefines DEF Next
<1>3. IInv /\ [Next]_vars => [Abs!AbsNext]_(Abs!avars)
  BY <1>2 DEF AbsStep
<1> QED
  BY <1>1, <1>3, InitIInv, NextIInv, PTL DEF Spec, ImplementsAtMostOnce, Abs!AbsSpec
=============================================================================
