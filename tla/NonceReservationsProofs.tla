---------------------- MODULE NonceReservationsProofs ----------------------
(***************************************************************************)
(* Proofs about NonceReservations, for any windows, chains and bounds, and *)
(* about SendJournal, the contract of the other journals.                  *)
(*                                                                         *)
(* The properties say what the list in storage covers.  They are not       *)
(* inductive: between the read of the list and its save, the window that   *)
(* holds the publication lock works on a copy, while the chains move.  The *)
(* invariant therefore follows that copy: it lacks a reservation of the    *)
(* list, or a request already checked, only if the chain has shown it dead *)
(* (ViewCovers), and what is dead stays dead (MovesForward).               *)
(***************************************************************************)
EXTENDS NonceReservations, SendJournal, TLAPS

\* Every request named anywhere has been signed.
Signed ==
  /\ rows \subseteq 1 .. next - 1
  /\ posted \subseteq 1 .. next - 1
  /\ \A w \in Windows :
       /\ bundle[w] \subseteq 1 .. next - 1
       /\ left[w] \subseteq 1 .. next - 1
       /\ view[w] \subseteq 1 .. next - 1

\* Only the holder of the lock is between its read of the list and its answer.
LockHeld == \A w \in Windows : pc[w] \in {"check", "post", "answer"} => lock = w

Distinct(S) == \A i, j \in S : SameKey(i, j) => i = j

\* Neither the list nor the copy a window works on reserves a nonce twice.
KeysDistinct ==
  /\ Distinct(rows)
  /\ \A w \in Windows : pc[w] = "check" => Distinct(view[w])

\* The copy has each reservation and each checked request that is not dead.
ViewCovers ==
  \A w \in Windows : pc[w] = "check" =>
    \A i \in rows \cup (bundle[w] \ left[w]) : Dead(i) \/ i \in view[w]

\* What is about to be posted, or was, is in the list unless it is dead.
ListCovers ==
  /\ \A w \in Windows : pc[w] = "post" => \A i \in bundle[w] : Dead(i) \/ i \in rows
  /\ \A i \in posted : Dead(i) \/ i \in rows

IInv == TypeOK /\ Signed /\ LockHeld /\ KeysDistinct /\ ViewCovers /\ ListCovers

----------------------------------------------------------------------------
(* What one step may do to requests and chains.                            *)

\* The steps that leave every signed request and every chain as it is.
Still == UNCHANGED <<request, next, nonce, time>>

\* A request never changes once signed, and nothing revives a dead one.
LEMMA MovesForward ==
  ASSUME TypeOK, [Next]_vars
  PROVE  /\ next \in Nat /\ next' \in Nat /\ next <= next'
         /\ \A i \in 1 .. next - 1 : request'[i] = request[i] /\ (Dead(i) => Dead(i)')
<1>1. next \in Nat
  BY NonceReservationsAssumption DEF TypeOK
<1>2. ASSUME NEW i \in 1 .. next - 1
      PROVE  /\ request[i].chain \in Chains
             /\ request[i].nonce \in Nat
             /\ request[i].deadline \in Nat
  <2>1. request[i] \in Requests
    BY <1>2 DEF TypeOK
  <2> QED
    BY <2>1, NonceReservationsAssumption DEF Requests
<1>3. \A c \in Chains : nonce[c] \in Nat /\ time[c] \in Nat
  BY NonceReservationsAssumption DEF TypeOK
<1>4. CASE Still
  BY <1>1, <1>4 DEF Still, Dead
<1>5. CASE UNCHANGED vars
  BY <1>4, <1>5 DEF Still, vars, chain
<1>6. ASSUME NEW w \in Windows, Sign(w)
      PROVE  /\ next \in Nat /\ next' \in Nat /\ next <= next'
             /\ \A i \in 1 .. next - 1 : request'[i] = request[i] /\ (Dead(i) => Dead(i)')
  <2>1. next' = next + 1 /\ UNCHANGED <<nonce, time>>
    BY <1>6 DEF Sign, chain
  <2>2. \A i \in 1 .. next - 1 : request'[i] = request[i]
    BY <1>1, <1>6 DEF Sign
  <2> QED
    BY <1>1, <2>1, <2>2 DEF Dead
<1>7. ASSUME NEW c \in Chains, Advance(c) \/ Tick(c)
      PROVE  /\ next \in Nat /\ next' \in Nat /\ next <= next'
             /\ \A i \in 1 .. next - 1 : request'[i] = request[i] /\ (Dead(i) => Dead(i)')
  <2>1. UNCHANGED <<request, next>>
    BY <1>7 DEF Advance, Tick
  <2>2. /\ \A b \in Chains : nonce[b] <= nonce'[b] /\ time[b] <= time'[b]
        /\ \A b \in Chains : nonce'[b] \in Nat /\ time'[b] \in Nat
    <3>1. CASE Advance(c)
      BY <1>3, <3>1 DEF Advance, TypeOK
    <3>2. CASE Tick(c)
      BY <1>3, <3>2 DEF Tick, TypeOK
    <3> QED
      BY <1>7, <3>1, <3>2
  <2>3. ASSUME NEW i \in 1 .. next - 1, Dead(i)
        PROVE  Dead(i)'
    <3>1. /\ request'[i] = request[i]
          /\ request[i].chain \in Chains
          /\ request[i].nonce \in Nat
          /\ request[i].deadline \in Nat
      BY <1>2, <2>1
    <3>2. /\ nonce[request[i].chain] \in Nat /\ nonce'[request[i].chain] \in Nat
          /\ time[request[i].chain] \in Nat /\ time'[request[i].chain] \in Nat
          /\ nonce[request[i].chain] <= nonce'[request[i].chain]
          /\ time[request[i].chain] <= time'[request[i].chain]
      BY <1>3, <2>2, <3>1
    <3> QED
      BY <2>3, <3>1, <3>2 DEF Dead
  <2> QED
    BY <1>1, <2>1, <2>3
<1>8. ASSUME NEW w \in Windows, WindowStep(w), ~Sign(w)
      PROVE  Still
  BY <1>8 DEF WindowStep, Queue, TakeLock, Refuse, Reserve, Post, Answer, Reload, Check, Still, chain
<1> QED
  BY <1>4, <1>5, <1>6, <1>7, <1>8 DEF Next

\* The same, for a set of signed requests.
LEMMA DeadStays ==
  ASSUME TypeOK, [Next]_vars, NEW S, S \subseteq 1 .. next - 1
  PROVE  /\ \A i \in S : Dead(i) => Dead(i)'
         /\ \A i, j \in S : SameKey(i, j)' <=> SameKey(i, j)
<1>1. \A i \in 1 .. next - 1 : request'[i] = request[i] /\ (Dead(i) => Dead(i)')
  BY MovesForward
<1>2. \A i, j \in S : SameKey(i, j)' <=> SameKey(i, j)
  BY <1>1 DEF SameKey
<1> QED
  BY <1>1, <1>2

----------------------------------------------------------------------------
(* The invariant holds initially.                                          *)

\* No request is signed yet.
LEMMA InitHolds == Init => IInv
<1> SUFFICES ASSUME Init PROVE IInv
  OBVIOUS
<1> USE NonceReservationsAssumption DEF Init
<1>1. TypeOK
  BY DEF TypeOK, PCs, Requests, Ids
<1>2. Signed /\ LockHeld /\ KeysDistinct /\ ViewCovers /\ ListCovers
  BY DEF Signed, LockHeld, KeysDistinct, Distinct, ViewCovers, ListCovers
<1> QED
  BY <1>1, <1>2 DEF IInv

----------------------------------------------------------------------------
(* Each step keeps it.                                                     *)

\* A signature takes the next id; nothing else names it yet.
LEMMA SignKeeps ==
  ASSUME IInv, NEW w \in Windows, Sign(w)
  PROVE  IInv'
<1> USE DEF IInv, Sign, chain
<1>0. Next
  BY DEF Next, WindowStep
<1>1. TypeOK'
  <2>1. request' \in [1 .. next' - 1 -> Requests]
    <3>1. PICK c \in Chains, d \in 0 .. MaxTime :
            request' = [i \in 1 .. next |->
              IF i = next THEN [chain |-> c, nonce |-> nonce[c], deadline |-> d] ELSE request[i]]
      OBVIOUS
    <3>2. [chain |-> c, nonce |-> nonce[c], deadline |-> d] \in Requests
      BY NonceReservationsAssumption DEF TypeOK, Requests
    <3>3. next \in Nat /\ next' - 1 = next /\ \A i \in 1 .. next - 1 : request[i] \in Requests
      BY NonceReservationsAssumption DEF TypeOK
    <3> QED
      BY <3>1, <3>2, <3>3
  <2> QED
    <3>1. next' \in 1 .. MaxRequests + 1 /\ bundle' \in [Windows -> SUBSET Ids]
      BY NonceReservationsAssumption DEF TypeOK, Ids
    <3> QED
      BY <2>1, <3>1 DEF TypeOK
<1>2. Signed'
  BY NonceReservationsAssumption DEF Signed, TypeOK, Ids
<1>3. LockHeld'
  BY DEF LockHeld
<1>4. KeysDistinct'
  <2>1. Distinct(rows)'
    BY <1>0, DeadStays DEF KeysDistinct, Distinct, Signed
  <2>2. ASSUME NEW v \in Windows, pc'[v] = "check" PROVE Distinct(view[v])'
    BY <2>2, <1>0, DeadStays DEF KeysDistinct, Distinct, Signed
  <2> QED
    BY <2>1, <2>2 DEF KeysDistinct
<1>5. ViewCovers'
  <2> SUFFICES ASSUME NEW v \in Windows, pc'[v] = "check",
                      NEW i \in rows \cup (bundle[v] \ left[v])
               PROVE  Dead(i)' \/ i \in view[v]
    BY DEF ViewCovers, TypeOK
  <2>1. i \in 1 .. next - 1
    BY DEF Signed
  <2>2. Dead(i) => Dead(i)'
    BY <2>1, <1>0, MovesForward
  <2> QED
    BY <2>2 DEF ViewCovers
<1>6. ListCovers'
  <2>1. \A i \in 1 .. next - 1 : Dead(i) => Dead(i)'
    BY <1>0, MovesForward
  <2> QED
    BY <2>1 DEF ListCovers, Signed, TypeOK
<1> QED
  BY <1>1, <1>2, <1>3, <1>4, <1>5, <1>6

\* A window that queues, is refused, gets its answer or reloads leaves the list
\* and Relayr alone; all but the first forget the bundle.
LEMMA LeavingKeeps ==
  ASSUME IInv, NEW w \in Windows, Queue(w) \/ Refuse(w) \/ Answer(w) \/ Reload(w)
  PROVE  IInv'
<1>1. /\ UNCHANGED <<rows, request, next, posted, chain>>
      /\ \A v \in Windows \ {w} : /\ pc'[v] = pc[v] /\ bundle'[v] = bundle[v]
                                  /\ left'[v] = left[v] /\ view'[v] = view[v]
      /\ pc'[w] \in {"idle", "queued"}
      /\ bundle'[w] \in {{}, bundle[w]} /\ left'[w] \in {{}, left[w]} /\ view'[w] \in {{}, view[w]}
      /\ lock' = lock \/ (lock = w /\ lock' = None)
  <2> USE DEF IInv, TypeOK
  <2>1. CASE Queue(w)
    BY <2>1 DEF Queue
  <2>2. CASE Refuse(w) \/ Reload(w)
    BY <2>2 DEF Refuse, Reload, Rest
  <2>3. CASE Answer(w)
    BY <2>3 DEF Answer, Rest, LockHeld
  <2> QED
    BY <2>1, <2>2, <2>3
<1> USE DEF IInv
<1>2. TypeOK'
  <2>1. /\ pc' \in [Windows -> PCs] /\ bundle' \in [Windows -> SUBSET Ids]
        /\ left' \in [Windows -> SUBSET Ids] /\ view' \in [Windows -> SUBSET Ids]
    BY DEF Queue, Refuse, Answer, Reload, Rest, TypeOK, PCs
  <2> QED
    BY <1>1, <2>1 DEF TypeOK, chain
<1>3. Signed'
  BY <1>1 DEF Signed
<1>4. LockHeld'
  BY <1>1 DEF LockHeld
<1>5. KeysDistinct'
  BY <1>1 DEF KeysDistinct, Distinct, SameKey, chain
<1>6. ViewCovers'
  BY <1>1 DEF ViewCovers, Dead, chain
<1>7. ListCovers'
  BY <1>1 DEF ListCovers, Dead, chain
<1> QED
  BY <1>2, <1>3, <1>4, <1>5, <1>6, <1>7

\* The copy starts as the list, with every request still to be checked.
LEMMA TakeLockKeeps ==
  ASSUME IInv, NEW w \in Windows, TakeLock(w)
  PROVE  IInv'
<1> USE DEF IInv, TakeLock, TypeOK
<1>1. TypeOK'
  BY DEF PCs, chain
<1>2. Signed'
  BY DEF Signed
<1>3. LockHeld'
  BY NonceReservationsAssumption DEF LockHeld
<1>4. KeysDistinct'
  BY DEF KeysDistinct, Distinct, SameKey
<1>5. ViewCovers'
  BY DEF ViewCovers, Dead, chain
<1>6. ListCovers'
  BY DEF ListCovers, Dead, chain
<1> QED
  BY <1>1, <1>2, <1>3, <1>4, <1>5, <1>6

\* A checked request joins the copy; what it pushes out is dead.
LEMMA CheckKeeps ==
  ASSUME IInv, NEW w \in Windows, NEW i \in Ids, Check(w, i)
  PROVE  IInv'
<1> USE DEF IInv, Check
<1>1. TypeOK'
  BY DEF TypeOK, chain, Kept
<1>2. i \in 1 .. next - 1
  BY DEF Signed, TypeOK
<1>3. Signed'
  BY <1>2 DEF Signed, TypeOK, Kept
<1>4. LockHeld'
  BY DEF LockHeld
<1>5. KeysDistinct'
  <2>1. Distinct(view[w])
    BY DEF KeysDistinct
  <2>2. Distinct(Kept(w, i) \cup {i})
    BY <2>1 DEF Distinct, Kept, SameKey
  <2>3. view'[w] = Kept(w, i) \cup {i}
    BY DEF TypeOK
  <2>4. ASSUME NEW v \in Windows, pc'[v] = "check" PROVE Distinct(view[v])'
    BY <2>2, <2>3, <2>4 DEF KeysDistinct, Distinct, SameKey, TypeOK
  <2> QED
    BY <2>4 DEF KeysDistinct, Distinct, SameKey
<1>6. ViewCovers'
  <2> SUFFICES ASSUME NEW v \in Windows, pc[v] = "check",
                      NEW j \in rows \cup (bundle[v] \ left'[v])
               PROVE  Dead(j) \/ j \in view'[v]
    BY DEF ViewCovers, Dead, chain
  <2>1. CASE v # w
    BY <2>1 DEF ViewCovers, TypeOK
  <2>2. CASE v = w
    <3>1. view'[w] = Kept(w, i) \cup {i} /\ left'[w] = left[w] \ {i}
      BY DEF TypeOK
    <3>2. j = i \/ Dead(j) \/ j \in view[w]
      BY <2>2, <3>1 DEF ViewCovers
    <3> QED
      BY <2>2, <3>1, <3>2 DEF Kept
  <2> QED
    BY <2>1, <2>2
<1>7. ListCovers'
  BY DEF ListCovers, Dead, chain
<1> QED
  BY <1>1, <1>3, <1>4, <1>5, <1>6, <1>7

\* The saved copy covers the list and the bundle, and no other window has a copy.
LEMMA ReserveKeeps ==
  ASSUME IInv, NEW w \in Windows, Reserve(w)
  PROVE  IInv'
<1> USE DEF IInv, Reserve
<1>1. TypeOK'
  <2>1. /\ pc' \in [Windows -> PCs] /\ bundle' \in [Windows -> SUBSET Ids]
        /\ left' \in [Windows -> SUBSET Ids] /\ view' \in [Windows -> SUBSET Ids]
    BY DEF Rest, TypeOK, PCs
  <2> QED
    BY <2>1 DEF TypeOK, chain
<1>2. pc[w] = "check" /\ left[w] = {} /\ UNCHANGED <<request, next, posted, chain>>
  OBVIOUS
<1>3. lock = w /\ \A v \in Windows \ {w} : pc[v] \notin {"check", "post", "answer"}
  BY <1>2 DEF LockHeld
<1>4. CASE /\ rows' = view[w] /\ pc' = [pc EXCEPT ![w] = "post"]
           /\ UNCHANGED <<lock, bundle, left, view>>
  <2>1. Signed'
    BY <1>2, <1>4 DEF Signed
  <2>2. LockHeld'
    BY <1>3, <1>4 DEF LockHeld, TypeOK
  <2>3. pc'[w] = "post" /\ \A v \in Windows \ {w} : pc'[v] = pc[v]
    BY <1>4 DEF TypeOK
  <2>4. KeysDistinct'
    BY <1>2, <1>3, <1>4, <2>3 DEF KeysDistinct, Distinct, SameKey
  <2>5. ViewCovers'
    BY <1>3, <2>3 DEF ViewCovers
  <2>6. \A i \in rows \cup bundle[w] : Dead(i) \/ i \in rows'
    BY <1>2, <1>4 DEF ViewCovers
  <2>7. ListCovers'
    BY <1>2, <1>3, <1>4, <2>3, <2>6 DEF ListCovers, Dead, chain
  <2> QED
    BY <1>1, <2>1, <2>2, <2>4, <2>5, <2>7
<1>5. CASE Rest(w) /\ lock' = None /\ UNCHANGED rows
  <2>1. /\ pc'[w] = "idle" /\ bundle'[w] = {} /\ left'[w] = {} /\ view'[w] = {}
        /\ \A v \in Windows \ {w} : /\ pc'[v] = pc[v] /\ bundle'[v] = bundle[v]
                                    /\ left'[v] = left[v] /\ view'[v] = view[v]
    BY <1>5 DEF Rest, TypeOK
  <2>2. Signed'
    BY <1>2, <1>5, <2>1 DEF Signed
  <2>3. LockHeld'
    BY <1>3, <2>1 DEF LockHeld
  <2>4. KeysDistinct'
    BY <1>2, <1>5, <2>1 DEF KeysDistinct, Distinct, SameKey
  <2>5. ViewCovers'
    BY <1>3, <2>1 DEF ViewCovers
  <2>6. ListCovers'
    BY <1>2, <1>3, <1>5, <2>1 DEF ListCovers, Dead, chain
  <2> QED
    BY <1>1, <2>2, <2>3, <2>4, <2>5, <2>6
<1> QED
  BY <1>4, <1>5

\* What is posted was reserved when the list was saved, under the same lock.
LEMMA PostKeeps ==
  ASSUME IInv, NEW w \in Windows, Post(w)
  PROVE  IInv'
<1> USE DEF IInv, Post, TypeOK
<1>1. TypeOK'
  BY DEF PCs, chain
<1>2. Signed'
  BY DEF Signed
<1>3. LockHeld'
  BY DEF LockHeld
<1>4. KeysDistinct'
  BY DEF KeysDistinct, Distinct, SameKey
<1>5. ViewCovers'
  BY DEF ViewCovers, Dead, chain
<1>6. ListCovers'
  BY DEF ListCovers, Dead, chain
<1> QED
  BY <1>1, <1>2, <1>3, <1>4, <1>5, <1>6

\* The chains only move forward.
LEMMA ChainKeeps ==
  ASSUME IInv, NEW c \in Chains, Advance(c) \/ Tick(c)
  PROVE  IInv'
<1> USE DEF IInv
<1>1. Next
  BY DEF Next
<1>2. UNCHANGED <<rows, lock, pc, bundle, left, view, request, next, posted>>
  BY DEF Advance, Tick
<1>3. TypeOK'
  <2>1. CASE Advance(c)
    BY <2>1, NonceReservationsAssumption DEF TypeOK, Advance
  <2>2. CASE Tick(c)
    BY <2>2, NonceReservationsAssumption DEF TypeOK, Tick
  <2> QED
    BY <2>1, <2>2
<1>4. \A i \in 1 .. next - 1 : Dead(i) => Dead(i)'
  BY <1>1, MovesForward
<1>5. Signed' /\ LockHeld'
  BY <1>2 DEF Signed, LockHeld
<1>6. KeysDistinct'
  BY <1>2 DEF KeysDistinct, Distinct, SameKey
<1>7. ViewCovers'
  BY <1>2, <1>4 DEF ViewCovers, Signed
<1>8. ListCovers'
  BY <1>2, <1>4 DEF ListCovers, Signed
<1> QED
  BY <1>3, <1>5, <1>6, <1>7, <1>8

\* Every step, and every stutter, keeps the invariant.
LEMMA StepKeeps == IInv /\ [Next]_vars => IInv'
<1> SUFFICES ASSUME IInv, [Next]_vars PROVE IInv'
  OBVIOUS
<1>1. CASE UNCHANGED vars
  BY <1>1 DEF vars, IInv, TypeOK, Signed, LockHeld, KeysDistinct, Distinct, SameKey,
              ViewCovers, ListCovers, Dead
<1>2. CASE \E w \in Windows : WindowStep(w)
  <2> PICK w \in Windows : WindowStep(w)
    BY <1>2
  <2> QED
    BY SignKeeps, LeavingKeeps, TakeLockKeeps, CheckKeeps, ReserveKeeps, PostKeeps DEF WindowStep
<1>3. CASE \E c \in Chains : Advance(c) \/ Tick(c)
  BY <1>3, ChainKeeps
<1> QED
  BY <1>1, <1>2, <1>3 DEF Next

\* The invariant holds in every reachable state.
LEMMA Invariance == Spec => []IInv
BY InitHolds, StepKeeps, PTL DEF Spec

----------------------------------------------------------------------------
(* The theorems.                                                           *)

\* The variables of the publication protocol keep their types.
THEOREM TypeCorrect == Spec => []TypeOK
<1>1. IInv => TypeOK
  BY DEF IInv
<1> QED
  BY <1>1, Invariance, PTL

\* A request that can execute is not dead.
LEMMA ExecutableNotDead ==
  ASSUME IInv, NEW i \in posted, Executable(i)
  PROVE  ~Dead(i)
<1>1. i \in 1 .. next - 1
  BY DEF IInv, Signed
<1>2. /\ request[i].chain \in Chains
      /\ request[i].nonce \in Nat
      /\ request[i].deadline \in Nat
  <2>1. request[i] \in Requests
    BY <1>1 DEF IInv, TypeOK
  <2> QED
    BY <2>1, NonceReservationsAssumption DEF Requests
<1>3. nonce[request[i].chain] \in Nat /\ time[request[i].chain] \in Nat
  BY <1>2, NonceReservationsAssumption DEF IInv, TypeOK
<1> QED
  BY <1>2, <1>3 DEF Executable, Dead

\* Whatever Relayr may still execute is in the list of reservations: no reload, lost
\* answer, failed save or publication of another action takes it out.
THEOREM LiveReservedAlways == Spec => []LiveReserved
<1>1. IInv => LiveReserved
  BY ExecutableNotDead DEF IInv, ListCovers, LiveReserved
<1> QED
  BY <1>1, Invariance, PTL

\* No two requests in Relayr's hands can take the same nonce of the signer, whatever
\* the number of windows, chains, requests and blocks.
THEOREM OneLiveRequestPerNonceAlways == Spec => []OneLiveRequestPerNonce
<1>1. IInv => OneLiveRequestPerNonce
  BY ExecutableNotDead DEF IInv, ListCovers, KeysDistinct, Distinct, OneLiveRequestPerNonce
<1> QED
  BY <1>1, Invariance, PTL

\* A reservation leaves the list only when the chain has shown its request dead.
THEOREM ReservedUntilDeadAlways == Spec => ReservedUntilDead
<1>1. ASSUME IInv, [Next]_vars
      PROVE  [\A i \in rows \ rows' : Dead(i)]_vars
  <2>1. CASE \E w \in Windows : Reserve(w)
    <3> PICK w \in Windows : Reserve(w)
      BY <2>1
    <3> QED
      BY <1>1 DEF Reserve, IInv, ViewCovers
  <2>2. CASE UNCHANGED vars
    BY <2>2
  <2>3. CASE Next /\ ~ \E w \in Windows : Reserve(w)
    <3>1. UNCHANGED rows
      BY <2>3 DEF Next, WindowStep, Sign, Queue, TakeLock, Refuse, Check, Post, Answer, Reload,
                  Advance, Tick
    <3> QED
      BY <3>1
  <2> QED
    BY <1>1, <2>1, <2>2, <2>3
<1> QED
  BY <1>1, Invariance, PTL DEF Spec, ReservedUntilDead

----------------------------------------------------------------------------
(* The contract of the journals (SendJournal) by itself: its steps keep    *)
(* what is relied on, so each journal that implements it has that too.     *)

JournalInv ==
  /\ mark \in [of : Works \cup {NoWork}, stage : {"clear", "sending", "sent"}]
  /\ mark.stage = "clear" <=> mark.of = NoWork
  /\ prompt \in [Asks -> [of : Works \cup {NoWork}, stage : {"new", "live", "over"}]]
  /\ closed \subseteq Works /\ mark.of \notin closed
  /\ LiveIsMarked
  /\ HashIsOfWork

\* Marks and prompts.
LEMMA JournalAsks ==
  ASSUME NoWork \notin Works, JournalInv,
         NEW n \in Asks, Ask(n) \/ AskClosed(n) \/ Submit(n) \/ Settle(n)
  PROVE  JournalInv'
<1> USE DEF JournalInv, LiveIsMarked, HashIsOfWork
<1>1. CASE Ask(n)
  BY <1>1 DEF Ask, Idle, Unopened
<1>2. CASE AskClosed(n)
  BY <1>2 DEF AskClosed, Unopened
<1>3. CASE Submit(n)
  BY <1>3 DEF Submit
<1>4. CASE Settle(n)
  BY <1>4 DEF Settle, Clear
<1> QED
  BY <1>1, <1>2, <1>3, <1>4

\* Work that is begun, taken back or closed.
LEMMA JournalWorks ==
  ASSUME NoWork \notin Works, JournalInv, (\E k \in Works : Mark(k) \/ Close(k)) \/ Unmark
  PROVE  JournalInv'
<1> USE DEF JournalInv, LiveIsMarked, HashIsOfWork
<1>1. ASSUME NEW k \in Works, Mark(k) PROVE JournalInv'
  BY <1>1 DEF Mark, Idle, Clear
<1>2. ASSUME NEW k \in Works, Close(k) PROVE JournalInv'
  BY <1>2 DEF Close, Clear
<1>3. CASE Unmark
  BY <1>3 DEF Unmark, Idle, Clear
<1> QED
  BY <1>1, <1>2, <1>3

\* Whatever implements SendJournal never has two requests that count, has its journal marked
\* for the one it has, and holds no hash of anything that was not asked for: what the gates
\* of the sessions, batches and plans rely on (relayr.js 47-54, direct-batch.js 44-66).
THEOREM JournalPromises ==
  ASSUME NoWork \notin Works
  PROVE  JournalSpec => [](LiveIsMarked /\ HashIsOfWork)
<1>1. JournalInit => JournalInv
  BY DEF JournalInit, JournalInv, LiveIsMarked, HashIsOfWork, Clear, Unopened
<1>2. JournalInv /\ [JournalStep]_jvars => JournalInv'
  <2> SUFFICES ASSUME JournalInv, [JournalStep]_jvars PROVE JournalInv'
    OBVIOUS
  <2>1. CASE UNCHANGED jvars
    BY <2>1 DEF jvars, JournalInv, LiveIsMarked, HashIsOfWork
  <2>2. CASE JournalNext
    BY <2>2, JournalAsks, JournalWorks DEF JournalNext
  <2> QED
    BY <2>1, <2>2 DEF JournalStep
<1>3. JournalInv => LiveIsMarked /\ HashIsOfWork
  BY DEF JournalInv
<1> QED
  BY <1>1, <1>2, <1>3, PTL DEF JournalSpec
=============================================================================
