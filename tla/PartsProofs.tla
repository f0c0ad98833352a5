------------------------------ MODULE PartsProofs ------------------------------
(***************************************************************************)
(* The small parts, for every value of their constants: the Safe service's *)
(* request pool, the gas of a retry and the read of pending payments, the  *)
(* project-name hint, the wallet's boundary, the poll for a receipt.  They *)
(* share no state; each has its invariant.                                 *)
(***************************************************************************)
EXTENDS SafeFetch, ReceiptPoll, PendingPayments, ProjectIdHint, WalletSend,
        FiniteSetTheorems, TLAPS

----------------------------------------------------------------------------
(* The request pool (SafeFetch).  SlotsExact is not inductive: that the    *)
(* head of the queue is one waiter and is gone from its tail needs a queue *)
(* without repetition, and that a retry stays within its bound needs what  *)
(* a pausing request has left.                                             *)

Waiting == {r \in Fetches : fetching[r] = "wait"}

Queued == {waiters[i] : i \in DOMAIN waiters}

QueueInjective ==
  \A i, j \in 1 .. Len(waiters) : waiters[i] = waiters[j] => i = j

PausedHasRetries == \A r \in Fetches : fetching[r] = "pause" => attempt[r] < Retries

FetchInv ==
  /\ FetchTypeOK
  /\ SlotsExact
  /\ QueueInjective
  /\ PausedHasRetries

\* SlotsExact, in terms of Waiting and Queued.
Slots ==
  /\ safeActive = Cardinality(Running) /\ safeActive <= Cap
  /\ waiters # <<>> => safeActive = Cap
  /\ Queued = Waiting /\ Len(waiters) = Cardinality(Waiting)

LEMMA SlotsAre == (SlotsExact <=> Slots) /\ (SlotsExact' <=> Slots')
BY DEF SlotsExact, Slots, Queued, Waiting

----------------------------------------------------------------------------
(* Sets of requests, and the two ends of the queue.                        *)

\* Counting requests: one more, one less, one for another.
LEMMA Counts ==
  ASSUME NEW S \in SUBSET Fetches
  PROVE  /\ IsFiniteSet(S) /\ Cardinality(S) \in Nat
         /\ \A r \in Fetches \ S : Cardinality(S \cup {r}) = Cardinality(S) + 1
         /\ \A r \in S : Cardinality(S \ {r}) = Cardinality(S) - 1
<1>1. IsFiniteSet(S)
  BY SafeFetchAssumption, FS_Subset
<1> QED
  BY <1>1, FS_CardinalityType, FS_AddElement, FS_RemoveElement

\* A request that joins the queue.
LEMMA Joins ==
  ASSUME waiters \in Seq(Fetches), NEW r \in Fetches, r \notin Queued,
         QueueInjective, waiters' = Append(waiters, r)
  PROVE  /\ waiters' \in Seq(Fetches)
         /\ Queued' = Queued \cup {r}
         /\ QueueInjective'
         /\ Len(waiters') = Len(waiters) + 1
         /\ waiters' # <<>>
<1>1. /\ Len(waiters) \in Nat /\ DOMAIN waiters = 1 .. Len(waiters)
      /\ waiters' \in Seq(Fetches) /\ Len(waiters') = Len(waiters) + 1
      /\ DOMAIN waiters' = 1 .. Len(waiters) + 1
      /\ \A i \in 1 .. Len(waiters) : waiters'[i] = waiters[i]
      /\ waiters'[Len(waiters) + 1] = r
  OBVIOUS
<1>2. Queued' = Queued \cup {r}
  BY <1>1 DEF Queued
<1>3. QueueInjective'
  BY <1>1 DEF QueueInjective, Queued
<1> QED
  BY <1>1, <1>2, <1>3

\* The first of the queue leaves it.
LEMMA Leaves ==
  ASSUME waiters \in Seq(Fetches), waiters # <<>>,
         QueueInjective, waiters' = Tail(waiters)
  PROVE  /\ waiters' \in Seq(Fetches)
         /\ Head(waiters) \in Queued /\ Head(waiters) \in Fetches
         /\ Queued' = Queued \ {Head(waiters)}
         /\ QueueInjective'
         /\ Len(waiters') = Len(waiters) - 1
<1>1. /\ Len(waiters) \in Nat \ {0} /\ DOMAIN waiters = 1 .. Len(waiters)
      /\ waiters' \in Seq(Fetches) /\ Len(waiters') = Len(waiters) - 1
      /\ DOMAIN waiters' = 1 .. Len(waiters) - 1
      /\ \A i \in 1 .. Len(waiters) - 1 : waiters'[i] = waiters[i + 1]
      /\ Head(waiters) = waiters[1]
  OBVIOUS
<1>2. QueueInjective'
  BY <1>1 DEF QueueInjective
<1>3. Queued' = Queued \ {Head(waiters)}
  <2>1. ASSUME NEW q \in Queued' PROVE q \in Queued /\ q # Head(waiters)
    BY <1>1, <2>1 DEF Queued, QueueInjective
  <2>2. ASSUME NEW q \in Queued, q # Head(waiters) PROVE q \in Queued'
    <3>1. PICK i \in 1 .. Len(waiters) : q = waiters[i] /\ i # 1
      BY <1>1, <2>2 DEF Queued
    <3>2. i - 1 \in 1 .. Len(waiters) - 1 /\ waiters'[i - 1] = q
      BY <1>1, <3>1
    <3> QED
      BY <1>1, <3>2 DEF Queued
  <2> QED
    BY <2>1, <2>2
<1> QED
  BY <1>1, <1>2, <1>3 DEF Queued

----------------------------------------------------------------------------
(* The steps.                                                              *)

LEMMA InitFetch == FetchInit => FetchInv
<1> SUFFICES ASSUME FetchInit PROVE FetchInv
  OBVIOUS
<1>1. Running = {} /\ {r \in Fetches : fetching[r] = "wait"} = {}
  BY DEF FetchInit, Running
<1>2. SlotsExact
  BY <1>1, FS_EmptySet, SafeFetchAssumption DEF FetchInit, SlotsExact
<1> QED
  BY <1>2, SafeFetchAssumption
     DEF FetchInit, FetchInv, FetchTypeOK, QueueInjective, PausedHasRetries

\* A request takes a slot, or joins the queue when none is free.
LEMMA Enters ==
  ASSUME FetchInv, NEW r \in Fetches, fetching[r] \in {"new", "pause"}, Enter(r)
  PROVE  /\ SlotsExact' /\ QueueInjective'
         /\ waiters' \in Seq(Fetches) /\ safeActive' \in Nat
         /\ \A q \in Fetches : q # r => fetching'[q] = fetching[q]
         /\ fetching'[r] \in {"run", "wait"}
         /\ fetching' \in [Fetches -> {"new", "wait", "run", "pause", "done"}]
<1>1. /\ FetchTypeOK /\ r \notin Running /\ r \notin Waiting
      /\ Queued = Waiting /\ Len(waiters) = Cardinality(Waiting)
      /\ safeActive = Cardinality(Running) /\ safeActive <= Cap
      /\ (waiters # <<>> => safeActive = Cap)
  BY SlotsAre DEF FetchInv, Slots, Running, Waiting
<1>2. Running \in SUBSET Fetches /\ Waiting \in SUBSET Fetches
  BY DEF Running, Waiting
<1>3. CASE safeActive < Cap
  <2>1. /\ fetching' = [fetching EXCEPT ![r] = "run"]
        /\ safeActive' = safeActive + 1 /\ waiters' = waiters
    BY <1>3 DEF Enter
  <2>2. Running' = Running \cup {r} /\ Waiting' = Waiting /\ Queued' = Queued
    BY <1>1, <2>1 DEF FetchTypeOK, Running, Waiting, Queued
  <2>3. Cardinality(Running') = safeActive + 1
    BY <1>1, <1>2, <2>2, Counts
  <2>4. waiters = <<>>
    BY <1>1, <1>3, SafeFetchAssumption DEF FetchTypeOK
  <2>5. SlotsExact'
    BY <1>1, <1>3, <2>1, <2>2, <2>3, <2>4, SafeFetchAssumption, SlotsAre
       DEF FetchTypeOK, Slots
  <2> QED
    BY <1>1, <2>1, <2>5 DEF FetchInv, FetchTypeOK, QueueInjective
<1>4. CASE ~(safeActive < Cap)
  <2>1. /\ fetching' = [fetching EXCEPT ![r] = "wait"]
        /\ waiters' = Append(waiters, r) /\ safeActive' = safeActive
    BY <1>4 DEF Enter
  <2>2. Running' = Running /\ Waiting' = Waiting \cup {r}
    BY <1>1, <2>1 DEF FetchTypeOK, Running, Waiting
  <2>3. /\ waiters' \in Seq(Fetches) /\ Queued' = Queued \cup {r}
        /\ QueueInjective' /\ Len(waiters') = Len(waiters) + 1
    BY <1>1, <2>1, Joins DEF FetchInv, FetchTypeOK
  <2>4. Len(waiters') = Cardinality(Waiting')
    BY <1>1, <1>2, <2>2, <2>3, Counts
  <2>5. safeActive = Cap
    BY <1>1, <1>4, SafeFetchAssumption DEF FetchTypeOK
  <2>6. SlotsExact'
    BY <1>1, <2>1, <2>2, <2>3, <2>4, <2>5, SafeFetchAssumption, SlotsAre
       DEF Slots
  <2> QED
    BY <1>1, <2>1, <2>3, <2>6 DEF FetchTypeOK
<1> QED
  BY <1>3, <1>4

\* A slot is given back: to nobody, or to the first who waits.
LEMMA Releases ==
  ASSUME FetchInv, NEW r \in Fetches, fetching[r] = "run",
         NEW to \in {"done", "pause"}, Release(r, to)
  PROVE  /\ SlotsExact' /\ QueueInjective'
         /\ waiters' \in Seq(Fetches) /\ safeActive' \in Nat
         /\ \A q \in Fetches : q # r => \/ fetching'[q] = fetching[q]
                                         \/ fetching'[q] = "run"
         /\ fetching'[r] = to
         /\ fetching' \in [Fetches -> {"new", "wait", "run", "pause", "done"}]
<1>1. /\ FetchTypeOK /\ r \in Running /\ r \notin Waiting
      /\ Queued = Waiting /\ Len(waiters) = Cardinality(Waiting)
      /\ safeActive = Cardinality(Running) /\ safeActive <= Cap
      /\ (waiters # <<>> => safeActive = Cap)
  BY SlotsAre DEF FetchInv, Slots, Running, Waiting
<1>2. Running \in SUBSET Fetches /\ Waiting \in SUBSET Fetches
  BY DEF Running, Waiting
<1>3. CASE waiters = <<>>
  <2>1. /\ fetching' = [fetching EXCEPT ![r] = to]
        /\ safeActive' = safeActive - 1 /\ waiters' = waiters
    BY <1>3 DEF Release
  <2>2. Running' = Running \ {r} /\ Waiting' = Waiting /\ Queued' = Queued
    BY <1>1, <2>1 DEF FetchTypeOK, Running, Waiting, Queued
  <2>3. Cardinality(Running') = safeActive - 1 /\ safeActive - 1 \in Nat
    BY <1>1, <1>2, <2>2, Counts
  <2>4. SlotsExact'
    BY <1>1, <1>3, <2>1, <2>2, <2>3, SafeFetchAssumption, SlotsAre
       DEF FetchTypeOK, Slots
  <2> QED
    BY <1>1, <2>1, <2>3, <2>4 DEF FetchInv, FetchTypeOK, QueueInjective
<1>4. CASE waiters # <<>>
  <2>1. PICK h \in Fetches : h = Head(waiters)
    BY <1>1, <1>4 DEF FetchTypeOK
  <2>2. /\ waiters' \in Seq(Fetches) /\ Queued' = Queued \ {h}
        /\ QueueInjective' /\ Len(waiters') = Len(waiters) - 1
        /\ h \in Waiting
    BY <1>1, <1>4, <2>1, Leaves DEF FetchInv, FetchTypeOK, Release
  <2>3. /\ fetching' = [fetching EXCEPT ![r] = to, ![h] = "run"]
        /\ safeActive' = safeActive /\ h # r /\ h \notin Running
    BY <1>1, <1>4, <2>1, <2>2 DEF Release, Waiting, Running
  <2>4. Running' = (Running \ {r}) \cup {h} /\ Waiting' = Waiting \ {h}
    BY <1>1, <2>2, <2>3 DEF FetchTypeOK, Running, Waiting
  <2>5. Cardinality(Running') = safeActive
    <3>1. Cardinality(Running \ {r}) = safeActive - 1 /\ safeActive \in Nat
      BY <1>1, <1>2, Counts
    <3>2. Running \ {r} \in SUBSET Fetches /\ h \in Fetches \ (Running \ {r})
      BY <1>2, <2>3
    <3>3. Cardinality((Running \ {r}) \cup {h}) = Cardinality(Running \ {r}) + 1
      BY <3>2, Counts
    <3> QED
      BY <2>4, <3>1, <3>3
  <2>6. Len(waiters') = Cardinality(Waiting')
    BY <1>1, <1>2, <2>2, <2>4, Counts
  <2>7. SlotsExact'
    BY <1>1, <1>4, <2>2, <2>3, <2>4, <2>5, <2>6, SlotsAre DEF Slots
  <2> QED
    BY <1>1, <2>2, <2>3, <2>7 DEF FetchTypeOK
<1> QED
  BY <1>3, <1>4

LEMMA FetchStep == FetchInv /\ [FetchNext]_fetchVars => FetchInv'
<1> SUFFICES ASSUME FetchInv, [FetchNext]_fetchVars PROVE FetchInv'
  OBVIOUS
<1>1. ASSUME NEW r \in Fetches, Call(r) PROVE FetchInv'
  BY <1>1, Enters DEF Call, FetchInv, FetchTypeOK, PausedHasRetries
<1>2. ASSUME NEW r \in Fetches, Settle(r) PROVE FetchInv'
  BY <1>2, Releases DEF Settle, FetchInv, FetchTypeOK, PausedHasRetries
<1>3. ASSUME NEW r \in Fetches, Refused(r) PROVE FetchInv'
  BY <1>3, Releases DEF Refused, FetchInv, FetchTypeOK, PausedHasRetries
<1>4. ASSUME NEW r \in Fetches, Retry(r) PROVE FetchInv'
  <2>1. attempt' \in [Fetches -> 0 .. Retries]
    BY <1>4, SafeFetchAssumption DEF Retry, FetchInv, FetchTypeOK, PausedHasRetries
  <2> QED
    BY <1>4, <2>1, Enters DEF Retry, FetchInv, FetchTypeOK, PausedHasRetries
<1>5. CASE UNCHANGED fetchVars
  <2>1. Running' = Running /\ Waiting' = Waiting /\ Queued' = Queued
    BY <1>5 DEF fetchVars, Running, Waiting, Queued
  <2>2. SlotsExact'
    BY <1>5, <2>1, SlotsAre DEF fetchVars, FetchInv, Slots
  <2> QED
    BY <1>5, <2>2 DEF fetchVars, FetchInv, FetchTypeOK, QueueInjective, PausedHasRetries
<1> QED
  BY <1>1, <1>2, <1>3, <1>4, <1>5 DEF FetchNext

\* The count is the number of requests in flight and within the cap, whoever waits is in the
\* queue once, and nobody waits beside a free slot: for any load, cap and retries.
THEOREM SlotsExactAlways == FetchSpec => []SlotsExact
<1>1. FetchInv => SlotsExact
  BY DEF FetchInv
<1> QED
  BY <1>1, InitFetch, FetchStep, PTL DEF FetchSpec

\* The state of the pool keeps to its sets: no request tries more often than safeFetch
\* allows and the queue holds requests only (safe.js:70-93).
THEOREM FetchTypes == FetchSpec => []FetchTypeOK
<1>1. FetchInv => FetchTypeOK
  BY DEF FetchInv
<1> QED
  BY <1>1, InitFetch, FetchStep, PTL DEF FetchSpec

----------------------------------------------------------------------------
(* The gas of a retry (PendingPayments): the rounding of the retry gas     *)
(* against the rounding of what may be forwarded.                          *)

\* Divisions by constants, as the provers see them: the quotient and its remainder.
LEMMA By63 == ASSUME NEW n \in Nat PROVE /\ n \div 63 \in Nat
                                         /\ 63 * (n \div 63) <= n /\ n < 63 * (n \div 63) + 63
  OBVIOUS

LEMMA By64 == ASSUME NEW n \in Nat PROVE /\ n \div 64 \in Nat
                                         /\ 64 * (n \div 64) <= n /\ n < 64 * (n \div 64) + 64
  OBVIOUS

\* Above the reserve, the retry gas is the least that forwards q.
LEMMA ForwardsEnough == ASSUME NEW q \in Nat, q > 0
                        PROVE /\ RetryGas(q) \in Nat
                              /\ RetryGas(q) > TransactionGasReserve
                              /\ Executable(RetryGas(q)) >= q
<1> DEFINE up == (q * 64 + 62) \div 63
<1>1. up \in Nat /\ 63 * up <= q * 64 + 62 /\ q * 64 + 62 < 63 * up + 63
  BY By63, q * 64 + 62 \in Nat
<1>2. 63 * up >= 64 * q /\ up > 0
  BY <1>1
<1>3. RetryGas(q) = up + 1500000
  BY DEF RetryGas, TransactionGasReserve
<1>4. Executable(RetryGas(q)) = (up * 63) \div 64
  <2>1. RetryGas(q) > TransactionGasReserve /\ RetryGas(q) - TransactionGasReserve = up
    BY <1>1, <1>2, <1>3 DEF TransactionGasReserve
  <2>2. QED
    BY <2>1 DEF Executable
<1>5. up * 63 < 64 * ((up * 63) \div 64) + 64 /\ (up * 63) \div 64 \in Nat
  BY <1>1, By64, up * 63 \in Nat
<1> HIDE DEF up
<1>6. (up * 63) \div 64 >= q
  BY <1>1, <1>2, <1>5
<1>7. QED
  BY <1>1, <1>2, <1>3, <1>4, <1>6 DEF TransactionGasReserve

\* What fits the gateway's maximum fits the transaction.
LEMMA FitsCap == ASSUME NEW cap \in Nat, NEW q \in Nat, q > 0, q <= Executable(cap)
                 PROVE RetryGas(q) <= cap
<1>1. cap > 1500000 /\ Executable(cap) = ((cap - 1500000) * 63) \div 64
  BY DEF Executable, TransactionGasReserve
<1> DEFINE m == cap - 1500000
<1>2. m \in Nat /\ 64 * q <= m * 63
  <2>1. m \in Nat
    BY <1>1
  <2>2. 64 * ((m * 63) \div 64) <= m * 63 /\ (m * 63) \div 64 \in Nat
    BY <2>1, By64, m * 63 \in Nat
  <2>3. QED
    BY <1>1, <2>1, <2>2
<1> HIDE DEF m
<1>3. (q * 64 + 62) \div 63 <= m
  <2>1. 63 * ((q * 64 + 62) \div 63) <= q * 64 + 62 /\ (q * 64 + 62) \div 63 \in Nat
    BY By63, q * 64 + 62 \in Nat
  <2>2. QED
    BY <1>2, <2>1
<1>4. QED
  BY <1>1, <1>2, <1>3 DEF RetryGas, TransactionGasReserve, m

\* The states the verification accepts.
GasTypeOK ==
  /\ failure \in [block : Nat, count : Nat, exhausted : BOOLEAN, highest : Nat]
  /\ Executable(GasCap(failure.block)) >= BaseGas

GasInv == GasTypeOK /\ RetryGasEnough

LEMMA CapType == ASSUME NEW block \in Nat
                 PROVE GasCap(block) \in Nat /\ Executable(GasCap(block)) \in Nat
<1>1. GasCap(block) \in Nat
  BY DEF GasCap, Least, TransactionGasCap
<1>2. ASSUME NEW n \in Nat PROVE Executable(n) \in Nat
  <2>1. CASE n > TransactionGasReserve
    <3>1. (n - TransactionGasReserve) * 63 \in Nat
      BY <2>1 DEF TransactionGasReserve
    <3>2. QED
      BY <2>1, <3>1, By64 DEF Executable
  <2>2. CASE ~(n > TransactionGasReserve)
    BY <2>2 DEF Executable
  <2>3. QED
    BY <2>1, <2>2
<1>3. QED
  BY <1>1, <1>2

\* The qualified gas lies between the base and the gateway's maximum.
LEMMA QualifiedBounds == ASSUME GasTypeOK
                         PROVE /\ Qualified \in Nat
                               /\ Qualified >= BaseGas
                               /\ Qualified <= Executable(GasCap(failure.block))
<1>1. failure.block \in Nat /\ failure.count \in Nat /\ failure.highest \in Nat
  BY DEF GasTypeOK
<1>2. Executable(GasCap(failure.block)) \in Nat /\ Executable(GasCap(failure.block)) >= BaseGas
  BY <1>1, CapType DEF GasTypeOK
<1> DEFINE scaled == BaseGas * (IF failure.exhausted THEN failure.count + 1 ELSE 1)
<1>3. scaled \in Nat /\ scaled >= BaseGas
  BY <1>1 DEF BaseGas
<1> HIDE DEF scaled
<1>4. Qualified = Least(Most(scaled, failure.highest), Executable(GasCap(failure.block)))
  BY DEF Qualified, scaled
<1>5. BaseGas \in Nat
  BY DEF BaseGas
<1>6. QED
  BY <1>1, <1>2, <1>3, <1>4, <1>5 DEF Least, Most

LEMMA ComputeKeepsInv == GasInv /\ ComputeGas => GasInv'
<1> SUFFICES ASSUME GasInv, ComputeGas PROVE GasInv'
  OBVIOUS
<1> DEFINE q == Qualified
           cap == GasCap(failure.block)
<1>1. failure.block \in Nat /\ cap \in Nat
  BY CapType DEF GasInv, GasTypeOK
<1>2. q \in Nat /\ q >= BaseGas /\ q <= Executable(cap) /\ q > 0
  BY QualifiedBounds DEF GasInv, BaseGas
<1> HIDE DEF q
<1>3. RetryGas(q) \in Nat /\ RetryGas(q) > 0 /\ RetryGas(q) <= cap /\ Executable(RetryGas(q)) >= q
  <2>1. RetryGas(q) \in Nat /\ RetryGas(q) > TransactionGasReserve /\ Executable(RetryGas(q)) >= q
    BY <1>2, ForwardsEnough
  <2>2. RetryGas(q) <= cap
    BY <1>1, <1>2, FitsCap
  <2>3. QED
    BY <2>1, <2>2 DEF TransactionGasReserve
<1>4. retry' = [gas |-> RetryGas(q), qualified |-> q] /\ failure' = failure
  BY <1>3 DEF ComputeGas, q
<1>5. GasTypeOK'
  BY <1>4 DEF GasInv, GasTypeOK
<1>6. retry'.gas \in 1 .. cap /\ Executable(retry'.gas) >= retry'.qualified /\ retry'.qualified >= BaseGas
  <2>1. retry'.gas = RetryGas(q) /\ retry'.qualified = q
    BY <1>4
  <2>2. QED
    BY <1>1, <1>2, <1>3, <2>1
<1>7. RetryGasEnough'
  BY <1>4, <1>6 DEF RetryGasEnough
<1>8. QED
  BY <1>5, <1>7 DEF GasInv

\* A verified pending payment can always be retried, with gas that forwards what it
\* qualifies for, whatever the block's gas limit and the earlier failures (pending-payments.js:137-149).
THEOREM RetryGasEnoughAlways == GasSpec => []RetryGasEnough
<1>1. GasInit => GasInv
  <2> SUFFICES ASSUME GasInit PROVE GasInv
    OBVIOUS
  <2>1. GasTypeOK
    <3>1. BlockGas \subseteq Nat /\ UsedGas \subseteq Nat /\ 0 .. MaxFailures \subseteq Nat
      BY PendingPaymentsAssumption
    <3>2. {0} \cup UsedGas \subseteq Nat
      BY <3>1
    <3>3. failure \in [block : BlockGas, count : 0 .. MaxFailures, exhausted : BOOLEAN, highest : {0} \cup UsedGas]
      BY DEF GasInit
    <3>4. failure \in [block : Nat, count : Nat, exhausted : BOOLEAN, highest : Nat]
      BY <3>1, <3>2, <3>3
    <3>5. QED
      BY <3>4 DEF GasInit, GasTypeOK
  <2>2. RetryGasEnough
    BY DEF GasInit, RetryGasEnough
  <2>3. QED
    BY <2>1, <2>2 DEF GasInv
<1>2. GasInv /\ [ComputeGas]_gasVars => GasInv'
  BY ComputeKeepsInv DEF gasVars, GasInv, GasTypeOK, RetryGasEnough
<1>3. GasInv => RetryGasEnough
  BY DEF GasInv
<1>4. QED
  BY <1>1, <1>2, <1>3, PTL DEF GasSpec

----------------------------------------------------------------------------
(* The project-name hint (ProjectIdHint).  HintFresh is not inductive: an  *)
(* answer under way must be one that may be shown, or one that will be     *)
(* dropped.                                                                *)

\* The last lookup begun is the one for the input, unless the user typed since.
LastIsTyped == \A l \in lookups : l.token = token => (l.id = typed \/ timer)
NoneAhead == \A l \in lookups : l.token <= token

HintInv == HintTypeOK /\ LastIsTyped /\ NoneAhead /\ HintFresh

LEMMA HintInitInv == HintInit => HintInv
  BY ProjectIdHintAssumption DEF HintInit, HintInv, HintTypeOK, LastIsTyped, NoneAhead, HintFresh, Texts

LEMMA TypeKeepsInv == HintInv /\ Type => HintInv'
  BY DEF Type, HintInv, HintTypeOK, LastIsTyped, NoneAhead, HintFresh, Texts

\* A lookup gets a token of its own, so no answer to an older one is current any more.
LEMMA ResolveKeepsInv == HintInv /\ Resolve => HintInv'
<1> SUFFICES ASSUME HintInv, Resolve PROVE HintInv'
  OBVIOUS
<1> USE ProjectIdHintAssumption
<1>1. token \in Nat /\ token' = token + 1 /\ token' \in 1 .. MaxLookups
  BY DEF Resolve, HintInv, HintTypeOK
<1>2. \A l \in lookups' : (l \in lookups /\ l.token <= token) \/ (l.token = token + 1 /\ l.id = typed /\ typed # Empty)
  BY DEF Resolve, HintInv, NoneAhead
<1>3. HintTypeOK'
  <2>1. lookups' \subseteq [token : 1 .. MaxLookups, id : Ids]
    BY <1>1 DEF Resolve, HintInv, HintTypeOK, Texts
  <2>2. typed' \in Texts /\ timer' \in BOOLEAN /\ hint' \in Texts
    BY DEF Resolve, HintInv, HintTypeOK, Texts
  <2>3. token' \in 0 .. MaxLookups
    BY <1>1
  <2>4. QED
    BY <2>1, <2>2, <2>3 DEF HintTypeOK
<1>4. LastIsTyped' /\ NoneAhead'
  <2>1. \A l \in lookups : l.token \in Nat
    BY DEF HintInv, HintTypeOK
  <2>2. QED
    BY <1>1, <1>2, <2>1 DEF Resolve, LastIsTyped, NoneAhead
<1>5. HintFresh'
  BY DEF Resolve, HintFresh
<1>6. QED
  BY <1>3, <1>4, <1>5 DEF HintInv

LEMMA LookedUpKeepsInv == HintInv /\ LookedUp => HintInv'
<1> SUFFICES ASSUME HintInv, LookedUp PROVE HintInv'
  OBVIOUS
<1>1. PICK l \in lookups : /\ lookups' = lookups \ {l}
                           /\ hint' = IF l.token = token THEN l.id ELSE hint
                           /\ UNCHANGED <<typed, timer, token>>
  BY DEF LookedUp
<1>2. HintTypeOK'
  BY <1>1 DEF HintInv, HintTypeOK, Texts
<1>3. LastIsTyped' /\ NoneAhead'
  BY <1>1 DEF HintInv, LastIsTyped, NoneAhead
<1>4. HintFresh'
  BY <1>1 DEF HintInv, LastIsTyped, HintFresh
<1>5. QED
  BY <1>2, <1>3, <1>4 DEF HintInv

LEMMA HintStep == HintInv /\ [HintNext]_hintVars => HintInv'
<1> SUFFICES ASSUME HintInv, [HintNext]_hintVars PROVE HintInv'
  OBVIOUS
<1>1. CASE Type
  BY <1>1, TypeKeepsInv
<1>2. CASE Resolve
  BY <1>2, ResolveKeepsInv
<1>3. CASE LookedUp
  BY <1>3, LookedUpKeepsInv
<1>4. CASE UNCHANGED hintVars
  BY <1>4 DEF hintVars, HintInv, HintTypeOK, LastIsTyped, NoneAhead, HintFresh
<1>5. QED
  BY <1>1, <1>2, <1>3, <1>4 DEF HintNext

\* A name on screen belongs to the id in the input, or the timer is about to look again,
\* however lookups overlap and in whatever order they answer (project-id-resolver.js:100-125).
THEOREM HintFreshAlways == HintSpec => []HintFresh
<1>1. HintInv => HintFresh
  BY DEF HintInv
<1> QED
  BY <1>1, HintInitInv, HintStep, PTL DEF HintSpec

\* Every lookup under way has a token that was handed out and asks for an id
\* (project-id-resolver.js:98-130).
THEOREM HintTypes == HintSpec => []HintTypeOK
<1>1. HintInv => HintTypeOK
  BY DEF HintInv
<1> QED
  BY <1>1, HintInitInv, HintStep, PTL DEF HintSpec

----------------------------------------------------------------------------
(* The read of pending payments (PendingPayments).  AllPending is not      *)
(* inductive: the pages must have been cut from one list.  No history of   *)
(* the list is needed to say so: while it only grew, or only shrank, one   *)
(* list of the counted size holds every row taken, and an equal count      *)
(* later means that the list is that one still.                            *)

\* L is a list the pages may have been cut from.
CutFrom(L) ==
  /\ Cardinality(L) = list.total
  /\ list.rows \subseteq L /\ throughout \subseteq L
  /\ ~shrank => L \subseteq listed
  /\ ~grew => listed \subseteq L

OneList == list.total # -1 /\ ~(grew /\ shrank) => \E L \in SUBSET Rows : CutFrom(L)

ListCounts ==
  /\ Cardinality(list.rows) = list.offset
  /\ list.at = "done" => list.total = list.offset
  /\ list.total = -1 => list.rows = {} /\ list.at # "done"

ListInv == ListTypeOK /\ ListCounts /\ OneList

LEMMA RowSets ==
  ASSUME NEW S \in SUBSET Rows
  PROVE  IsFiniteSet(S) /\ Cardinality(S) \in Nat
BY PendingPaymentsAssumption, FS_Subset, FS_CardinalityType

\* A list with as many rows as one that holds it, or that it holds, is the same list.
LEMMA SameSize ==
  ASSUME NEW S \in SUBSET Rows, NEW T \in SUBSET Rows, S \subseteq T,
         Cardinality(S) = Cardinality(T)
  PROVE  S = T
BY RowSets, FS_Subset

LEMMA ListInitInv == ListInit => ListInv
<1> SUFFICES ASSUME ListInit PROVE ListInv
  OBVIOUS
<1>1. Cardinality({}) = 0
  BY FS_EmptySet
<1> QED
  BY <1>1 DEF ListInit, ListInv, ListTypeOK, ListCounts, OneList

LEMMA ListChanges ==
  ASSUME ListInv, ListGrows \/ ListShrinks
  PROVE  ListInv'
<1>1. ListTypeOK'
  BY DEF ListInv, ListTypeOK, ListGrows, ListShrinks
<1>2. ListCounts'
  BY DEF ListInv, ListCounts, ListGrows, ListShrinks
<1>3. ASSUME list.total # -1, ~(grew' /\ shrank')
      PROVE  \E L \in SUBSET Rows : CutFrom(L)'
  <2>1. PICK L \in SUBSET Rows : CutFrom(L)
    BY <1>3 DEF ListInv, ListTypeOK, OneList, ListGrows, ListShrinks
  <2>2. CutFrom(L)'
    BY <1>3, <2>1 DEF CutFrom, ListGrows, ListShrinks
  <2> QED
    BY <2>2
<1>4. OneList'
  BY <1>3 DEF OneList, ListGrows, ListShrinks
<1> QED
  BY <1>1, <1>2, <1>4 DEF ListInv

LEMMA ListReads ==
  ASSUME ListInv, ReadPage
  PROVE  ListInv'
<1> DEFINE page == PageAt(list.offset)
           total == Cardinality(listed)
           offset == list.offset + Cardinality(page)
<1>1. /\ ListTypeOK /\ list.at = "read" /\ UNCHANGED <<listed, throughout, grew, shrank>>
      /\ page \subseteq listed /\ listed \in SUBSET Rows /\ page \in SUBSET Rows
  BY DEF ReadPage, ListInv, ListTypeOK, PageAt
<1>2. total \in Nat /\ Cardinality(page) \in Nat /\ list.offset \in Nat /\ offset \in Nat
  BY <1>1, RowSets DEF ListTypeOK
<1>3. CASE list' = [list EXCEPT !.at = "refused"]
  <2>1. list'.rows = list.rows /\ list'.offset = list.offset /\ list'.total = list.total
        /\ list'.at = "refused"
    BY <1>1, <1>3 DEF ListTypeOK
  <2>2. ListTypeOK'
    BY <1>1, <1>3 DEF ListTypeOK
  <2>3. ListCounts' /\ OneList'
    BY <1>1, <2>1 DEF ListInv, ListCounts, OneList, CutFrom
  <2> QED
    BY <2>2, <2>3 DEF ListInv
<1>4. CASE /\ ~Changed(page, total) /\ offset <= total
           /\ list' = [at |-> IF offset < total THEN "read" ELSE "done",
                       rows |-> list.rows \cup page, offset |-> offset, total |-> total]
  <2>1. /\ list.total = -1 \/ list.total = total
        /\ page \cap list.rows = {}
    BY <1>4 DEF Changed
  <2> HIDE DEF page, total, offset
  <2>2. list.rows \in SUBSET Rows
    BY <1>1 DEF ListTypeOK
  <2>3. Cardinality(list.rows \cup page) = offset
    <3>1. IsFiniteSet(list.rows) /\ IsFiniteSet(page)
      BY <1>1, <2>2, RowSets
    <3>2. Cardinality(list.rows \cup page)
            = Cardinality(list.rows) + Cardinality(page) - Cardinality(list.rows \cap page)
      BY <3>1, FS_Union
    <3>3. Cardinality(list.rows \cap page) = 0
      BY <2>1, FS_EmptySet
    <3> QED
      BY <1>2, <3>2, <3>3 DEF ListInv, ListCounts, offset
  <2>4. ListTypeOK'
    BY <1>1, <1>2, <1>4, <2>2 DEF ListTypeOK
  <2>5. ListCounts'
    BY <1>2, <1>4, <2>3 DEF ListCounts
  <2>6. ASSUME ~(grew /\ shrank) PROVE \E L \in SUBSET Rows : CutFrom(L)'
    <3>1. CASE list.total = -1
      <4>1. list.rows = {}
        BY <3>1 DEF ListInv, ListCounts
      <4>2. CutFrom(listed)'
        BY <1>1, <1>4, <4>1 DEF CutFrom, ListTypeOK, total
      <4> QED
        BY <1>1, <4>2
    <3>2. CASE list.total # -1
      <4>1. PICK L \in SUBSET Rows : CutFrom(L)
        BY <2>6, <3>2 DEF ListInv, OneList
      <4>2. Cardinality(L) = Cardinality(listed)
        BY <2>1, <3>2, <4>1 DEF CutFrom, total
      <4>3. L = listed
        BY <1>1, <2>6, <4>1, <4>2, SameSize DEF CutFrom
      <4>4. CutFrom(L)'
        BY <1>1, <1>4, <4>1, <4>3 DEF CutFrom, total
      <4> QED
        BY <4>4
    <3> QED
      BY <3>1, <3>2
  <2>7. OneList'
    BY <1>1, <2>6 DEF OneList
  <2> QED
    BY <2>4, <2>5, <2>7 DEF ListInv
<1> QED
  BY <1>3, <1>4 DEF ReadPage, RefuseRetry

LEMMA ListStep == ListInv /\ [ListNext]_listVars => ListInv'
<1> SUFFICES ASSUME ListInv, [ListNext]_listVars PROVE ListInv'
  OBVIOUS
<1>1. CASE QueryFails
  <2>1. /\ list'.rows = list.rows /\ list'.offset = list.offset /\ list'.total = list.total
        /\ list'.at = "refused" /\ UNCHANGED <<listed, throughout, grew, shrank>>
    BY <1>1 DEF QueryFails, RefuseRetry, ListInv, ListTypeOK
  <2>2. ListTypeOK'
    BY <1>1 DEF QueryFails, RefuseRetry, ListInv, ListTypeOK
  <2> QED
    BY <2>1, <2>2 DEF ListInv, ListCounts, OneList, CutFrom
<1>2. CASE UNCHANGED listVars
  BY <1>2 DEF listVars, ListInv, ListTypeOK, ListCounts, OneList, CutFrom
<1> QED
  BY <1>1, <1>2, ListChanges, ListReads DEF ListNext

\* Every payment that was pending during the whole read is in the answer, for any lists, any
\* page size and any limit, unless the list both grew and shrank meanwhile: a count that
\* comes back is then the count of the same list, and rows that repeat are refused, so the
\* rows taken are as many as the list has (fetchPendingPaymentRows, pending-payments.js:72-106).
THEOREM AllPendingAlways == ListSpec => []AllPending
<1>1. ListInv => AllPending
  <2> SUFFICES ASSUME ListInv, list.at = "done", ~(grew /\ shrank)
               PROVE  throughout \subseteq list.rows
    BY DEF AllPending
  <2>1. list.total # -1 /\ Cardinality(list.rows) = list.total
    BY DEF ListInv, ListCounts
  <2>2. PICK L \in SUBSET Rows : CutFrom(L)
    BY <2>1 DEF ListInv, OneList
  <2>3. list.rows \in SUBSET Rows
    BY DEF ListInv, ListTypeOK
  <2>4. list.rows = L
    BY <2>1, <2>2, <2>3, SameSize DEF CutFrom
  <2> QED
    BY <2>2, <2>4 DEF CutFrom
<1> QED
  BY <1>1, ListInitInv, ListStep, PTL DEF ListSpec

\* The rows taken are rows the indexer has, and a count is one that was read or none
\* (fetchPendingPaymentRows, pending-payments.js:72-106).
THEOREM ListTypes == ListSpec => []ListTypeOK
<1>1. ListInv => ListTypeOK
  BY DEF ListInv
<1> QED
  BY <1>1, ListInitInv, ListStep, PTL DEF ListSpec

----------------------------------------------------------------------------
(* The wallet's boundary (WalletSend).  What was captured is what is       *)
(* connected as long as no new client was made, and the chain that was     *)
(* read is stale only while the page was not told, or has no account.      *)

CapturedIsCurrent ==
  call.at \in {"read", "check"} =>
    call.from \in Providers /\ (call.same => client = call.from)

ReadIsCurrent ==
  call.at = "check" /\ call.same =>
    network[active] = call.read \/ active \in untold \/ call.anew \/ account = Nobody

SendInv ==
  /\ SendTypeOK
  /\ client \in {active, Nobody}
  /\ CapturedIsCurrent
  /\ ReadIsCurrent

LEMMA SendInitInv == SendInit => SendInv
<1> SUFFICES ASSUME SendInit PROVE SendInv
  OBVIOUS
<1>1. ConnectedViaSafe \in BOOLEAN
  BY DEF ConnectedViaSafe
<1>2. 0 \in 0 .. Tries
  BY WalletSendAssumption
<1>3. call \in SendCalls /\ call.at = "idle"
  BY <1>1, <1>2, WalletSendAssumption DEF SendInit, SendCalls
<1>4. SendTypeOK
  BY <1>3, WalletSendAssumption DEF SendInit, SendTypeOK
<1> QED
  BY <1>3, <1>4 DEF SendInit, SendInv, CapturedIsCurrent, ReadIsCurrent

\* The invocation's own steps.
LEMMA CallSteps ==
  ASSUME SendInv, Invoke \/ ChainRead \/ Check
  PROVE  SendInv'
<1>1. /\ UNCHANGED <<network, untold, active, client, bound, account, asking, viewAs>>
      /\ SendTypeOK /\ client \in {active, Nobody}
  BY DEF Invoke, ChainRead, Check, SendInv
<1>2. ASSUME NEW a \in {"sent", "refused"}, call' = [call EXCEPT !.at = a] PROVE SendInv'
  <2>1. call' \in SendCalls /\ call'.at = a
    BY <1>1, <1>2 DEF SendTypeOK, SendCalls
  <2> QED
    BY <1>1, <2>1 DEF SendInv, SendTypeOK, CapturedIsCurrent, ReadIsCurrent
<1>3. ASSUME NEW n \in 1 .. Tries, Begin(n) PROVE SendInv'
  <2>1. CASE client = Nobody
    BY <1>2, <1>3, <2>1 DEF Begin
  <2>2. CASE client # Nobody
    <3>1. n \in 0 .. Tries /\ client \in Providers
      BY <1>1, <2>2, WalletSendAssumption DEF SendTypeOK
    <3>2. call' = [call EXCEPT !.at = "read", !.try = n, !.from = client, !.same = TRUE]
      BY <1>3, <2>2 DEF Begin
    <3>3. call' \in SendCalls
      BY <1>1, <3>1, <3>2 DEF SendTypeOK, SendCalls
    <3>4. call'.at = "read" /\ call'.from = client
      BY <1>1, <3>2 DEF SendTypeOK, SendCalls
    <3> QED
      BY <1>1, <3>1, <3>3, <3>4 DEF SendInv, SendTypeOK, CapturedIsCurrent, ReadIsCurrent
  <2> QED
    BY <2>1, <2>2
<1>4. CASE Invoke
  <2>1. 1 \in 1 .. Tries
    BY WalletSendAssumption
  <2> QED
    BY <1>3, <1>4, <2>1 DEF Invoke
<1>5. CASE ChainRead
  <2>1. CASE call' = [call EXCEPT !.at = "check", !.read = network[call.from]]
    <3>1. call.from \in Providers /\ (call.same => client = call.from)
      BY <1>5 DEF ChainRead, SendInv, CapturedIsCurrent
    <3>2. network[call.from] \in Networks
      BY <1>1, <3>1 DEF SendTypeOK
    <3>3. /\ call' \in SendCalls /\ call'.at = "check" /\ call'.from = call.from
          /\ call'.same = call.same /\ call'.read = network[call.from]
      BY <1>1, <2>1, <3>2 DEF SendTypeOK, SendCalls
    <3>4. call.same => call.from = active
      BY <1>1, <3>1, WalletSendAssumption
    <3> QED
      BY <1>1, <3>1, <3>3, <3>4 DEF SendInv, SendTypeOK, CapturedIsCurrent, ReadIsCurrent
  <2>2. CASE call' = [call EXCEPT !.at = "refused"]
    BY <1>2, <2>2
  <2> QED
    BY <1>5, <2>1, <2>2 DEF ChainRead
<1>6. CASE Check
  <2>1. ASSUME call.try < Tries PROVE call.try + 1 \in 1 .. Tries
    BY <1>1, <2>1, WalletSendAssumption DEF SendTypeOK, SendCalls
  <2> QED
    BY <1>2, <1>3, <1>6, <2>1 DEF Check
<1> QED
  BY <1>4, <1>5, <1>6

\* A new client is not the one that was captured.
LEMMA Replaced ==
  ASSUME SendInv, call' = [call EXCEPT !.same = FALSE],
         active' \in Providers, client' \in {active', Nobody},
         network' \in [Providers -> Networks], untold' \subseteq Providers,
         bound' \in Providers \cup {Nobody}, account' \in Accounts \cup {Nobody},
         asking' \subseteq Providers, viewAs' \in BOOLEAN
  PROVE  SendInv'
<1>1. /\ call' \in SendCalls /\ call'.at = call.at /\ call'.from = call.from /\ ~call'.same
  BY DEF SendInv, SendTypeOK, SendCalls
<1> QED
  BY <1>1 DEF SendInv, SendTypeOK, CapturedIsCurrent, ReadIsCurrent

\* What changes the wallet.
LEMMA WalletSteps ==
  ASSUME SendInv, NEW p \in Providers, NEW n \in Networks,
         \/ Disconnect \/ AccountsChanged \/ ChainChanged \/ SetViewAs
         \/ Connect(p) \/ Connected(p) \/ SwitchChain(p, n) \/ WalletMoves(p, n)
  PROVE  SendInv'
<1>1. SendTypeOK /\ client \in {active, Nobody}
  BY DEF SendInv
<1>2. CASE Disconnect
  BY <1>1, <1>2, Replaced DEF Disconnect, SendTypeOK
<1>3. CASE AccountsChanged
  BY <1>1, <1>3, Replaced DEF AccountsChanged, NewClient, SendTypeOK
<1>4. CASE ChainChanged
  <2>1. CASE account # Nobody
    BY <1>1, <1>4, <2>1, Replaced DEF ChainChanged, NewClient, SendTypeOK
  <2>2. CASE account = Nobody
    BY <1>1, <1>4, <2>2
       DEF ChainChanged, SendInv, SendTypeOK, CapturedIsCurrent, ReadIsCurrent
  <2> QED
    BY <2>1, <2>2
<1>5. CASE SetViewAs
  BY <1>5 DEF SetViewAs, SendInv, SendTypeOK, CapturedIsCurrent, ReadIsCurrent
<1>6. CASE Connect(p)
  BY <1>1, <1>6, Replaced DEF Connect, NewClient, SendTypeOK
<1>7. CASE Connected(p)
  <2>1. CASE call' = call /\ account' = account /\ bound' = bound
    BY <1>7, <2>1 DEF Connected, SendInv, SendTypeOK, CapturedIsCurrent, ReadIsCurrent
  <2>2. CASE /\ account' \in Accounts \cup {Nobody} /\ bound' = active
             /\ call' = [call EXCEPT !.anew = TRUE]
    <3>1. /\ call' \in SendCalls /\ call'.at = call.at /\ call'.from = call.from
          /\ call'.same = call.same /\ call'.anew
      BY <1>1, <2>2 DEF SendTypeOK, SendCalls
    <3> QED
      BY <1>7, <2>2, <3>1 DEF Connected, SendInv, SendTypeOK, CapturedIsCurrent, ReadIsCurrent
  <2> QED
    BY <1>7, <2>1, <2>2 DEF Connected
<1>8. CASE SwitchChain(p, n)
  BY <1>1, <1>8, Replaced DEF SwitchChain, NewClient, SendTypeOK
<1>9. CASE WalletMoves(p, n)
  BY <1>1, <1>9 DEF WalletMoves, SendInv, SendTypeOK, CapturedIsCurrent, ReadIsCurrent
<1> QED
  BY <1>2, <1>3, <1>4, <1>5, <1>6, <1>7, <1>8, <1>9

LEMMA SendStep == SendInv /\ [SendNext]_sendVars => SendInv'
<1> SUFFICES ASSUME SendInv, [SendNext]_sendVars PROVE SendInv'
  OBVIOUS
<1>1. CASE UNCHANGED sendVars
  BY <1>1 DEF sendVars, SendInv, SendTypeOK, CapturedIsCurrent, ReadIsCurrent
<1>2. CASE SendNext
  BY <1>2, CallSteps, WalletSteps, WalletSendAssumption DEF SendNext
<1> QED
  BY <1>1, <1>2

\* A request reaches only the provider that is connected now, by the reviewed route, for the
\* reviewed account and on the reviewed chain, unless the wallet moved and the page was not
\* told: whatever the user and any number of wallets do while invokeWallet reads the chain,
\* and however often it tries again (wallet.js:145-147).
THEOREM SentWhereReviewedAlways == SendSpec => SentWhereReviewed
<1> DEFINE Sends ==
      call.at = "check" /\ call'.at = "sent" =>
        /\ call.from = active /\ client = active
        /\ account = ReviewedAccount /\ ConnectedViaSafe = call.safe /\ ~viewAs
        /\ network[active] = ReviewedNetwork \/ active \in untold \/ call.anew
<1>1. SendInv /\ [SendNext]_sendVars => [Sends]_sendVars
  <2> SUFFICES ASSUME SendInv, SendNext, call.at = "check", call'.at = "sent" PROVE Sends
    OBVIOUS
  <2>1. SendTypeOK /\ call \in SendCalls
    BY DEF SendInv, SendTypeOK
  <2>2. Check
    BY <2>1 DEF SendNext, Invoke, ChainRead, Disconnect, AccountsChanged, ChainChanged, SetViewAs,
       Connect, Connected, SwitchChain, WalletMoves, NewClient, SendCalls
  <2>3. call.same /\ AsReviewed
    BY <2>1, <2>2 DEF Check, Begin, SendCalls
  <2>4. call.from = active /\ client = active
    BY <2>3, WalletSendAssumption DEF SendInv, CapturedIsCurrent
  <2> QED
    BY <2>3, <2>4, WalletSendAssumption DEF AsReviewed, SendInv, ReadIsCurrent
<1> QED
  BY <1>1, SendInitInv, SendStep, PTL DEF SendSpec, SentWhereReviewed

\* An invocation never tries more often than invokeWallet allows, and what it captured is a
\* provider or nothing (wallet.js:145-168).
THEOREM SendTypes == SendSpec => []SendTypeOK
<1>1. SendInv => SendTypeOK
  BY DEF SendInv
<1> QED
  BY <1>1, SendInitInv, SendStep, PTL DEF SendSpec

----------------------------------------------------------------------------
(* The poll for a receipt (ReceiptPoll).  That the attempts left are never *)
(* negative needs that a poll which goes on has one left: it is given up   *)
(* at the miss of its last.                                                *)

AttemptLeft == poll \in {"new", "attempt", "pause"} => remaining >= 1

PollInv == PollTypeOK /\ AttemptLeft

LEMMA PollInitInv == PollInit => PollInv
BY ReceiptPollAssumption DEF PollInit, PollInv, PollTypeOK, AttemptLeft

LEMMA MissKeepsInv == PollInv /\ poll = "attempt" /\ Miss => PollInv'
<1> SUFFICES ASSUME PollInv, poll = "attempt", Miss PROVE PollInv'
  OBVIOUS
<1>1. remaining \in 1 .. MaxAttempts /\ MaxAttempts \in Nat
  BY ReceiptPollAssumption DEF PollInv, PollTypeOK, AttemptLeft
<1>2. remaining' \in 0 .. MaxAttempts /\ (poll' = "pause" => remaining' >= 1)
  BY <1>1 DEF Miss
<1> QED
  BY <1>2 DEF Miss, PollInv, PollTypeOK, AttemptLeft

LEMMA PollStep == PollInv /\ [PollNext]_pollVars => PollInv'
<1> SUFFICES ASSUME PollInv, [PollNext]_pollVars PROVE PollInv'
  OBVIOUS
<1>1. CASE StartPoll \/ PauseOver \/ Found \/ Mined \/ UNCHANGED pollVars
  BY <1>1 DEF StartPoll, PauseOver, AskReceipt, Found, Mined, pollVars, PollInv, PollTypeOK, AttemptLeft
<1>2. CASE TimedOut
  BY <1>2, MissKeepsInv DEF TimedOut
<1>3. ASSUME NEW s \in Sources, Missed(s) PROVE PollInv'
  BY <1>3, MissKeepsInv DEF Missed, PollInv, PollTypeOK, AttemptLeft
<1> QED
  BY <1>1, <1>2, <1>3 DEF PollNext

\* The attempts left of a poll never fall below none, whichever of the two sources or the
\* timer ends an attempt: a miss ends it once (component-base.js:1768-1824).
THEOREM PollTypes == PollSpec => []PollTypeOK
<1>1. PollInv => PollTypeOK
  BY DEF PollInv
<1> QED
  BY <1>1, PollInitInv, PollStep, PTL DEF PollSpec

=============================================================================
