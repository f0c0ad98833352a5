-------------------------- MODULE PendingPayments --------------------------
(***************************************************************************)
(* src/pending-payments.js: fetchPendingPaymentRows reads a project's      *)
(* pending payments page by page from the indexer while payments are       *)
(* queued and processed, and readPendingPayment computes the gas of a      *)
(* retry.  Amounts of gas are the ones of the code.                        *)
(***************************************************************************)
EXTENDS Integers, FiniteSets

CONSTANTS
  Rows,        \* the payments, by pendingCallId, which orders the list (a hash: a new one comes anywhere)
  PageSize,    \* PAGE_SIZE
  MaxTotal,    \* the largest totalCount read
  BlockGas,    \* the block gas limits
  UsedGas,     \* the gas limits earlier failures recorded
  MaxFailures  \* bound: failure.count

ASSUME PendingPaymentsAssumption ==
  /\ Rows \subseteq Int /\ IsFiniteSet(Rows)
  /\ PageSize \in Nat \ {0} /\ MaxTotal \in Nat /\ MaxFailures \in Nat
  /\ BlockGas \subseteq Nat /\ UsedGas \subseteq Nat

VARIABLES
  listed,      \* outside: the payments the indexer lists now
  throughout,  \* history: those listed ever since the read began
  grew,        \* history: was a payment listed during the read?
  shrank,      \* history: was one taken off?
  list         \* the read: at, rows (seenRows), offset, total (-1: none yet)

listVars == <<listed, throughout, grew, shrank, list>>

ListTypeOK ==
  /\ listed \subseteq Rows /\ throughout \subseteq listed
  /\ grew \in BOOLEAN /\ shrank \in BOOLEAN
  /\ list \in [at : {"read", "done", "refused"}, rows : SUBSET Rows,
               offset : Nat, total : Nat \cup {-1}]

ListInit ==
  /\ listed \in SUBSET Rows
  /\ throughout = listed
  /\ grew = FALSE /\ shrank = FALSE
  /\ list = [at |-> "read", rows |-> {}, offset |-> 0, total |-> -1]

\* A payment is queued or fails again, or is settled.
ListGrows ==
  /\ list.at = "read"
  /\ \E p \in Rows \ listed : listed' = listed \cup {p}
  /\ grew' = TRUE
  /\ UNCHANGED <<throughout, shrank, list>>

ListShrinks ==
  /\ list.at = "read"
  /\ \E p \in listed : listed' = listed \ {p} /\ throughout' = throughout \ {p}
  /\ shrank' = TRUE
  /\ UNCHANGED <<grew, list>>

RefuseRetry == list' = [list EXCEPT !.at = "refused"]

\* The indexer's answer: the rows after the first `offset`, in order.
PageAt(offset) ==
  {p \in listed : Cardinality({q \in listed : q <= p}) \in offset + 1 .. offset + PageSize}

\* Mutant: the count of the page before is not compared.
Changed_Ignored(page, total) == total > MaxTotal \/ page \cap list.rows # {}

\* The read is refused: another count than before, too many rows, or one repeated.
Changed(page, total) ==
  total > MaxTotal \/ (list.total # -1 /\ list.total # total) \/ page \cap list.rows # {}

\* A page arrives, its rows are taken, and the read goes on while rows are missing.
ReadPage ==
  /\ list.at = "read"
  /\ LET page   == PageAt(list.offset)
         total  == Cardinality(listed)
         offset == list.offset + Cardinality(page)
     IN  \/ /\ Changed(page, total) \/ offset > total \/ (page = {} /\ offset < total)
            /\ RefuseRetry
         \/ /\ ~Changed(page, total) /\ offset <= total /\ (page # {} \/ offset >= total)
            /\ list' = [at |-> IF offset < total THEN "read" ELSE "done",
                        rows |-> list.rows \cup page, offset |-> offset, total |-> total]
  /\ UNCHANGED <<listed, throughout, grew, shrank>>

QueryFails == list.at = "read" /\ RefuseRetry /\ UNCHANGED <<listed, throughout, grew, shrank>>

ListNext == ListGrows \/ ListShrinks \/ ReadPage \/ QueryFails
ListSpec == ListInit /\ [][ListNext]_listVars

\* Rows are returned only as a whole: every payment that was pending during the whole read
\* is among them, although the pages are cut from a list that shifts (pending-payments.js:72-106).
\* A read during which the list both grew and shrank is exempt: its count may come back to
\* what it was, and a row that moved to an earlier page is then missed without notice.
AllPending == list.at = "done" /\ ~(grew /\ shrank) => throughout \subseteq list.rows

----------------------------------------------------------------------------
(* The gas of a retry.                                                     *)

TransactionGasCap == 16777216
TransactionGasReserve == 1500000
BaseGas == 5000000

Least(a, b) == IF a < b THEN a ELSE b
Most(a, b) == IF a > b THEN a ELSE b

GasCap(block) == Least(block, TransactionGasCap)

\* What the gateway may forward: all but a 64th of what is left above the reserve.
Executable(gas) == IF gas > TransactionGasReserve THEN ((gas - TransactionGasReserve) * 63) \div 64 ELSE 0

VARIABLES
  failure,   \* the gateway's failure state and the block: [block, count, exhausted, highest]
  retry      \* the answer: [gas, qualified]; 0, 0: not computed; -1, -1: the throw of line 149

gasVars == <<failure, retry>>

\* States the verification in lines 140-142 accepts; the gateway's maximum is Executable.
\* A failure recorded under a larger block limit may have used more than the present maximum.
GasInit ==
  /\ failure \in [block : BlockGas, count : 0 .. MaxFailures, exhausted : BOOLEAN, highest : {0} \cup UsedGas]
  /\ Executable(GasCap(failure.block)) >= BaseGas
  /\ IF failure.count = 0 THEN ~failure.exhausted /\ failure.highest = 0 ELSE failure.highest >= BaseGas
  /\ retry = [gas |-> 0, qualified |-> 0]

Qualified ==
  Least(Most(BaseGas * (IF failure.exhausted THEN failure.count + 1 ELSE 1), failure.highest),
        Executable(GasCap(failure.block)))

\* Mutant: the division rounds down.
RetryGas_Floor(qualified) == (qualified * 64) \div 63 + TransactionGasReserve

RetryGas(qualified) == (qualified * 64 + 62) \div 63 + TransactionGasReserve

ComputeGas ==
  /\ retry.gas = 0
  /\ retry' = IF RetryGas(Qualified) <= GasCap(failure.block)
              THEN [gas |-> RetryGas(Qualified), qualified |-> Qualified]
              ELSE [gas |-> -1, qualified |-> -1]
  /\ UNCHANGED failure

GasSpec == GasInit /\ [][ComputeGas]_gasVars

\* With the gas computed the gateway can forward what the payment qualifies for, within what
\* a transaction may spend; the scaling, which rounds up after the clamp, never exceeds the
\* cap: a payment whose state was verified can always be retried (pending-payments.js:137-149).
RetryGasEnough ==
  retry.gas # 0 =>
    /\ retry.gas \in 1 .. GasCap(failure.block)
    /\ Executable(retry.gas) >= retry.qualified
    /\ retry.qualified >= BaseGas
=============================================================================
