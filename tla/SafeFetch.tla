----------------------------- MODULE SafeFetch -----------------------------
(***************************************************************************)
(* The pool of requests to the Safe service: safeFetch and safeFetchOnce   *)
(* of src/safe.js.  At most Cap requests are in flight; the others wait in *)
(* order, and a slot that is given back starts the first of them at once.  *)
(* A request answered with 429 pauses and enters the pool again.           *)
(***************************************************************************)
EXTENDS Naturals, Sequences, FiniteSets

CONSTANTS
  Fetches,   \* the calls of safeFetch
  Cap,        \* SAFE_MAX_CONCURRENT
  Retries     \* how often a 429 is tried again

ASSUME SafeFetchAssumption ==
  /\ IsFiniteSet(Fetches)
  /\ Cap \in Nat \ {0}
  /\ Retries \in Nat

VARIABLES
  fetching,   \* where each request stands
  attempt,    \* its attempt
  safeActive, \* _safeActive
  waiters     \* _safeWaiters

fetchVars == <<fetching, attempt, safeActive, waiters>>

Running == {r \in Fetches : fetching[r] = "run"}

FetchTypeOK ==
  /\ fetching \in [Fetches -> {"new", "wait", "run", "pause", "done"}]
  /\ attempt \in [Fetches -> 0 .. Retries]
  /\ safeActive \in Nat
  /\ waiters \in Seq(Fetches)

FetchInit ==
  /\ fetching = [r \in Fetches |-> "new"]
  /\ attempt = [r \in Fetches |-> 0]
  /\ safeActive = 0
  /\ waiters = <<>>

\* safeFetchOnce takes a free slot or waits for one.
Enter(r) ==
  IF safeActive < Cap
  THEN /\ fetching' = [fetching EXCEPT ![r] = "run"]
       /\ safeActive' = safeActive + 1
       /\ UNCHANGED waiters
  ELSE /\ fetching' = [fetching EXCEPT ![r] = "wait"]
       /\ waiters' = Append(waiters, r)
       /\ UNCHANGED safeActive

Call(r) ==
  /\ fetching[r] = "new"
  /\ Enter(r)
  /\ UNCHANGED attempt

\* Mutant: a request keeps its slot while it pauses.
Release_Kept(r, to) ==
  /\ fetching' = [fetching EXCEPT ![r] = to]
  /\ safeActive' = IF to = "pause" THEN safeActive ELSE safeActive - 1
  /\ UNCHANGED waiters

\* Mutant: the count goes down, but nobody is told.
Release_Silent(r, to) ==
  /\ fetching' = [fetching EXCEPT ![r] = to]
  /\ safeActive' = safeActive - 1
  /\ UNCHANGED waiters

\* release: the slot goes to the first waiter, within the same step.
Release(r, to) ==
  IF waiters = <<>>
  THEN /\ fetching' = [fetching EXCEPT ![r] = to]
       /\ safeActive' = safeActive - 1
       /\ UNCHANGED waiters
  ELSE /\ fetching' = [fetching EXCEPT ![r] = to, ![Head(waiters)] = "run"]
       /\ waiters' = Tail(waiters)
       /\ UNCHANGED safeActive

\* The service answered, or beforeSend or the request failed.
Settle(r) ==
  /\ fetching[r] = "run"
  /\ Release(r, "done")
  /\ UNCHANGED attempt

\* A 429, while attempts are left.
Refused(r) ==
  /\ fetching[r] = "run" /\ attempt[r] < Retries
  /\ Release(r, "pause")
  /\ UNCHANGED attempt

\* The pause is over.
Retry(r) ==
  /\ fetching[r] = "pause"
  /\ Enter(r)
  /\ attempt' = [attempt EXCEPT ![r] = @ + 1]

FetchNext == \E r \in Fetches : Call(r) \/ Settle(r) \/ Refused(r) \/ Retry(r)

\* The browser ends every request, with an answer or an error, and timers fire.
FetchFair == \A r \in Fetches : WF_fetchVars(Settle(r) \/ Refused(r)) /\ WF_fetchVars(Retry(r))

FetchSpec == FetchInit /\ [][FetchNext]_fetchVars /\ FetchFair

----------------------------------------------------------------------------
(* Properties.                                                             *)

\* The count is the number of requests in flight and never exceeds the cap; whoever waits
\* is in the queue exactly once, and nobody waits while a slot is free (safe.js:70-94).
SlotsExact ==
  /\ safeActive = Cardinality(Running)
  /\ safeActive <= Cap
  /\ waiters # <<>> => safeActive = Cap
  /\ {waiters[i] : i \in DOMAIN waiters} = {r \in Fetches : fetching[r] = "wait"}
  /\ Len(waiters) = Cardinality({r \in Fetches : fetching[r] = "wait"})

\* Every request that was made is settled: no slot is lost to a failure or a 429, and
\* retries do not starve those who wait (safe.js:82-94).
FetchEnds == \A r \in Fetches : (fetching[r] # "new") ~> (fetching[r] = "done")
=============================================================================
