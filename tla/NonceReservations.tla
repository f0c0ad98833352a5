------------------------- MODULE NonceReservations -------------------------
(***************************************************************************)
(* The reservations of forwarder nonces: reserveForwardedPublication of    *)
(* src/relayr.js, and the part of buildForwardedTx and relayrPostBundle    *)
(* around it.                                                              *)
(*                                                                         *)
(* A Relayr bundle carries ERC-2771 requests, each signed for one nonce of *)
(* its signer on one chain.  A posted request is in Relayr's hands: while  *)
(* its nonce is the signer's next and its deadline has not passed it may   *)
(* be executed, paid for or not.  Two actions reviewed in two windows may  *)
(* sign the same nonce, so publication goes through one list of reserved   *)
(* nonces in browser storage, under one Web Lock for every action.         *)
(* One signer and its forwarder are modelled; others share only the list.  *)
(***************************************************************************)
EXTENDS Naturals, FiniteSets

CONSTANTS
  Windows,         \* the browser windows open on the site
  None,            \* nobody holds the publication lock
  Chains,          \* the destination chains
  MaxRequests,     \* bound: how many requests are ever signed
  MaxTime,         \* bound: how far the chains' clocks go
  MaxNonce,        \* bound: how far the signer's nonces go
  MaxRows,         \* how many reservations the list may hold (512 in the code)
  StorageMayFail   \* may a storage write fail?

ASSUME NonceReservationsAssumption ==
  /\ None \notin Windows
  /\ MaxRequests \in Nat \ {0}
  /\ MaxTime \in Nat
  /\ MaxNonce \in Nat
  /\ MaxRows \in Nat
  /\ StorageMayFail \in BOOLEAN

VARIABLES
  rows,      \* the reserved requests in localStorage
  lock,      \* who holds the publication lock
  pc,        \* where each window's publication stands
  bundle,    \* the signed requests of each window's action
  left,      \* those it has not checked yet
  view,      \* the reservations it works on (`rows` in the code)
  request,   \* each signed request
  next,      \* the next request to be signed
  posted,    \* outside: the requests Relayr may have
  nonce,     \* outside: the signer's nonce in each chain's forwarder
  time       \* outside: the timestamp of each chain's latest block

vars == <<rows, lock, pc, bundle, left, view, request, next, posted, nonce, time>>
chain == <<nonce, time>>

Ids == 1 .. MaxRequests
Requests == [chain : Chains, nonce : 0 .. MaxNonce, deadline : 0 .. MaxTime]
PCs == {"idle", "queued", "check", "post", "answer"}

TypeOK ==
  /\ rows \subseteq Ids
  /\ lock \in Windows \cup {None}
  /\ pc \in [Windows -> PCs]
  /\ bundle \in [Windows -> SUBSET Ids]
  /\ left \in [Windows -> SUBSET Ids]
  /\ view \in [Windows -> SUBSET Ids]
  /\ next \in 1 .. MaxRequests + 1
  /\ request \in [1 .. next - 1 -> Requests]
  /\ posted \subseteq Ids
  /\ nonce \in [Chains -> 0 .. MaxNonce]
  /\ time \in [Chains -> 0 .. MaxTime]

Init ==
  /\ rows = {}
  /\ lock = None
  /\ pc = [w \in Windows |-> "idle"]
  /\ bundle = [w \in Windows |-> {}]
  /\ left = [w \in Windows |-> {}]
  /\ view = [w \in Windows |-> {}]
  /\ next = 1
  /\ request = [i \in {} |-> {}]
  /\ posted = {}
  /\ nonce = [c \in Chains |-> 0]
  /\ time = [c \in Chains |-> 0]

----------------------------------------------------------------------------
(* What makes two requests compete, and what ends one.                     *)

\* nonceReservationKey.
SameKey(i, j) ==
  request[i].chain = request[j].chain /\ request[i].nonce = request[j].nonce

\* Mutant: the last second of the deadline counts as past.
Dead_AtDeadline(i) ==
  LET r == request[i]
  IN nonce[r.chain] > r.nonce \/ time[r.chain] >= r.deadline

\* The chain proves that the request can never execute.
Dead(i) ==
  LET r == request[i]
  IN nonce[r.chain] > r.nonce \/ time[r.chain] > r.deadline

\* The forwarder accepts a request of the next nonce up to its deadline.
Executable(i) ==
  LET r == request[i]
  IN nonce[r.chain] = r.nonce /\ time[r.chain] <= r.deadline

----------------------------------------------------------------------------
(* The window.                                                             *)

\* The publication ends, by a throw or by an answer; the signatures are not used again.
Rest(w) ==
  /\ pc' = [pc EXCEPT ![w] = "idle"]
  /\ bundle' = [bundle EXCEPT ![w] = {}]
  /\ left' = [left EXCEPT ![w] = {}]
  /\ view' = [view EXCEPT ![w] = {}]

\* buildForwardedTx: the request is signed for the nonce the forwarder shows now.
Sign(w) ==
  /\ pc[w] = "idle"
  /\ next \in Ids
  /\ \E c \in Chains, d \in 0 .. MaxTime :
       request' = [i \in 1 .. next |->
         IF i = next THEN [chain |-> c, nonce |-> nonce[c], deadline |-> d] ELSE request[i]]
  /\ next' = next + 1
  /\ bundle' = [bundle EXCEPT ![w] = @ \cup {next}]
  /\ UNCHANGED <<rows, lock, pc, left, view, posted, chain>>

\* relayrPostBundle asks for the lock and waits for it.
Queue(w) ==
  /\ pc[w] = "idle"
  /\ bundle[w] # {}
  /\ pc' = [pc EXCEPT ![w] = "queued"]
  /\ UNCHANGED <<rows, lock, bundle, left, view, request, next, posted, chain>>

\* Mutant: a lock per action lets two actions publish at once.
TakeLock_PerAction(w) ==
  /\ pc[w] = "queued"
  /\ pc' = [pc EXCEPT ![w] = "check"]
  /\ left' = [left EXCEPT ![w] = bundle[w]]
  /\ view' = [view EXCEPT ![w] = rows]
  /\ UNCHANGED <<rows, lock, bundle, request, next, posted, chain>>

\* Under the lock the list is read.
TakeLock(w) ==
  /\ pc[w] = "queued"
  /\ lock = None
  /\ lock' = w
  /\ pc' = [pc EXCEPT ![w] = "check"]
  /\ left' = [left EXCEPT ![w] = bundle[w]]
  /\ view' = [view EXCEPT ![w] = rows]
  /\ UNCHANGED <<rows, bundle, request, next, posted, chain>>

\* Nothing is posted: the account changed, the action has a saved request, a chain
\* or the list cannot be read, a request is stale, repeated or reserved already.
Refuse(w) ==
  /\ pc[w] \in {"queued", "check", "post"}
  /\ Rest(w)
  /\ lock' = IF lock = w THEN None ELSE lock
  /\ UNCHANGED <<rows, request, next, posted, chain>>

\* The reservations of the request's chain that its latest block shows dead are dropped.
Kept(w, i) == {j \in view[w] : request[j].chain # request[i].chain \/ ~Dead(j)}

\* One turn of the loop: the latest block is read, and its nonce reserved.
Check(w, i) ==
  /\ pc[w] = "check"
  /\ i \in left[w]
  /\ Executable(i)
  /\ \A j \in bundle[w] \ left[w] : ~SameKey(i, j)
  /\ \A j \in Kept(w, i) : ~SameKey(i, j)
  /\ view' = [view EXCEPT ![w] = Kept(w, i) \cup {i}]
  /\ left' = [left EXCEPT ![w] = @ \ {i}]
  /\ UNCHANGED <<rows, lock, pc, bundle, request, next, posted, chain>>

\* Mutant: only this bundle's reservations are saved.
Reserve_OwnOnly(w) ==
  /\ pc[w] = "check"
  /\ left[w] = {}
  /\ rows' = bundle[w]
  /\ pc' = [pc EXCEPT ![w] = "post"]
  /\ UNCHANGED <<lock, bundle, left, view, request, next, posted, chain>>

\* The list is saved, or nothing is posted.
Reserve(w) ==
  /\ pc[w] = "check"
  /\ left[w] = {}
  /\ \/ /\ Cardinality(view[w]) <= MaxRows
        /\ rows' = view[w]
        /\ pc' = [pc EXCEPT ![w] = "post"]
        /\ UNCHANGED <<lock, bundle, left, view>>
     \/ /\ StorageMayFail \/ Cardinality(view[w]) > MaxRows
        /\ Rest(w)
        /\ lock' = None
        /\ UNCHANGED rows
  /\ UNCHANGED <<request, next, posted, chain>>

\* The POST leaves; Relayr may have the requests whatever becomes of its answer.
Post(w) ==
  /\ pc[w] = "post"
  /\ posted' = posted \cup bundle[w]
  /\ pc' = [pc EXCEPT ![w] = "answer"]
  /\ UNCHANGED <<rows, lock, bundle, left, view, request, next, chain>>

\* Mutant: the publication ends in a state no later step continues from.
Answer_Stranded(w) ==
  /\ pc[w] = "answer"
  /\ pc' = [pc EXCEPT ![w] = "answered"]
  /\ UNCHANGED <<rows, lock, bundle, left, view, request, next, posted, chain>>

\* A quote, an error or a timeout: the lock goes back, the reservations stay.
Answer(w) ==
  /\ pc[w] = "answer"
  /\ Rest(w)
  /\ lock' = None
  /\ UNCHANGED <<rows, request, next, posted, chain>>

\* A reload or a crash forgets the signatures and gives the lock back.
Reload(w) ==
  /\ pc[w] # "idle" \/ bundle[w] # {}
  /\ Rest(w)
  /\ lock' = IF lock = w THEN None ELSE lock
  /\ UNCHANGED <<rows, request, next, posted, chain>>

----------------------------------------------------------------------------
(* Relayr, the chains, and whatever else uses the signer's nonces.         *)

Advance(c) ==
  /\ nonce[c] < MaxNonce
  /\ nonce' = [nonce EXCEPT ![c] = @ + 1]
  /\ UNCHANGED <<rows, lock, pc, bundle, left, view, request, next, posted, time>>

Tick(c) ==
  /\ time[c] < MaxTime
  /\ time' = [time EXCEPT ![c] = @ + 1]
  /\ UNCHANGED <<rows, lock, pc, bundle, left, view, request, next, posted, nonce>>

----------------------------------------------------------------------------
WindowStep(w) ==
  \/ Sign(w) \/ Queue(w) \/ TakeLock(w) \/ Refuse(w) \/ Reserve(w) \/ Post(w)
  \/ Answer(w) \/ Reload(w)
  \/ \E i \in Ids : Check(w, i)

Next ==
  \/ \E w \in Windows : WindowStep(w)
  \/ \E c \in Chains : Advance(c) \/ Tick(c)

Spec == Init /\ [][Next]_vars

----------------------------------------------------------------------------
(* Properties.                                                             *)

\* No two requests in Relayr's hands can take the same nonce: of two actions that
\* signed it in two windows, one is published, and a replacement only once the
\* chain shows the first can no longer execute.  Which of them ran would else be
\* decided by who pays first (relayr.js 369-404).
OneLiveRequestPerNonce ==
  \A i, j \in posted :
    Executable(i) /\ Executable(j) /\ SameKey(i, j) => i = j

\* Whatever may still execute is reserved: "Clearing an action's UI receipt does
\* not retire this guard" (relayr.js 370), nor does a reload, a lost answer or the
\* reservation of other actions on other chains.
LiveReserved == \A i \in posted : Executable(i) => i \in rows

\* "Only a chain-proven expired signature or consumed nonce" gives a reservation up
\* (relayr.js 371), also when the chain moves while another chain's block is read.
ReservedUntilDead == [][ \A i \in rows \ rows' : Dead(i) ]_vars
=============================================================================
