------------------------------ MODULE MCParts ------------------------------
(***************************************************************************)
(* Instances of the small parts for TLC.  The parts share no state, so a   *)
(* behaviour is one of a single part and the others stay as they are: TLC  *)
(* explores each part by itself.                                           *)
(***************************************************************************)
EXTENDS SafeFetch, ReceiptPoll, WalletSend, ProjectIdHint, ViewCache,
        PendingPayments, DistributionReceipt, RulesetSchedule, DirectBatch, SafeBatch

VARIABLE part

\* A gas limit below which no retry is possible, and the one at which a transaction's own
\* limit takes over, each with the remainders of a division by 64 around it.
BlockGasChoices == 6579300 .. 6579430 \cup TransactionGasCap - 70 .. TransactionGasCap + 1

\* What was used before: the least, one more, and the maximum of a small, a larger and a full block.
UsedGasChoices ==
  {BaseGas, BaseGas + 1, TransactionGasCap, Executable(6579365), Executable(6579366), Executable(TransactionGasCap)}

ParentChoices ==
  {Unset} \cup
  [start : {3}, duration : {0, 4}, notice : {Unset, 0, 2}, latestId : {0, Now + 2},
   validUntil : {Unset, Now + 3}, automatic : BOOLEAN]

StageChoices ==
  [date : {0}, cycles : {2}, duration : {0, 3}, notice : {0, 2}]
    \cup [date : {Now + 11}, cycles : {0}, duration : {3}, notice : {Unset, 5}]

OnePool == <<"native">>

PartInit ==
  /\ part \in {"direct", "batch", "fetch", "poll", "send", "hint", "cache", "list", "gas", "receipt", "schedule"}
  /\ Init /\ BatchInit /\ FetchInit /\ CacheInit /\ ReceiptInit
  /\ PollInit /\ (part # "poll" => ~mined)
  /\ SendInit /\ (part # "send" => active = SafeProvider /\ \A p \in Providers : network[p] = ReviewedNetwork)
  /\ HintInit /\ (part # "hint" => typed = Empty)
  /\ ListInit /\ (part # "list" => listed = {})
  /\ IF part = "gas" THEN GasInit
     ELSE /\ failure = [block |-> 0, count |-> 0, exhausted |-> FALSE, highest |-> 0]
          /\ retry = [gas |-> 0, qualified |-> 0]
  /\ IF part = "schedule" THEN ScheduleInit
     ELSE /\ plan = [parent |-> Unset, stages |-> <<>>, firstStart |-> 0]
          /\ schedule = NoSchedule

PartNext ==
  \/ part = "direct" /\ Next
       /\ UNCHANGED <<batchVars, fetchVars, pollVars, sendVars, hintVars, cacheVars, listVars, gasVars, receiptVars, scheduleVars>>
  \/ part = "batch" /\ BatchNext
       /\ UNCHANGED <<vars, fetchVars, pollVars, sendVars, hintVars, cacheVars, listVars, gasVars, receiptVars, scheduleVars>>
  \/ part = "fetch" /\ FetchNext
       /\ UNCHANGED <<vars, batchVars, pollVars, sendVars, hintVars, cacheVars, listVars, gasVars, receiptVars, scheduleVars>>
  \/ part = "poll" /\ PollNext
       /\ UNCHANGED <<vars, batchVars, fetchVars, sendVars, hintVars, cacheVars, listVars, gasVars, receiptVars, scheduleVars>>
  \/ part = "send" /\ SendNext
       /\ UNCHANGED <<vars, batchVars, fetchVars, pollVars, hintVars, cacheVars, listVars, gasVars, receiptVars, scheduleVars>>
  \/ part = "hint" /\ HintNext
       /\ UNCHANGED <<vars, batchVars, fetchVars, pollVars, sendVars, cacheVars, listVars, gasVars, receiptVars, scheduleVars>>
  \/ part = "cache" /\ CacheNext
       /\ UNCHANGED <<vars, batchVars, fetchVars, pollVars, sendVars, hintVars, listVars, gasVars, receiptVars, scheduleVars>>
  \/ part = "list" /\ ListNext
       /\ UNCHANGED <<vars, batchVars, fetchVars, pollVars, sendVars, hintVars, cacheVars, gasVars, receiptVars, scheduleVars>>
  \/ part = "gas" /\ ComputeGas
       /\ UNCHANGED <<vars, batchVars, fetchVars, pollVars, sendVars, hintVars, cacheVars, listVars, receiptVars, scheduleVars>>
  \/ part = "receipt" /\ ReceiptNext
       /\ UNCHANGED <<vars, batchVars, fetchVars, pollVars, sendVars, hintVars, cacheVars, listVars, gasVars, scheduleVars>>
  \/ part = "schedule" /\ OrderedRulesetSchedule
       /\ UNCHANGED <<vars, batchVars, fetchVars, pollVars, sendVars, hintVars, cacheVars, listVars, gasVars, receiptVars>>

partVars == <<part, vars, batchVars, fetchVars, pollVars, sendVars, hintVars, cacheVars, listVars, gasVars, receiptVars, scheduleVars>>

\* Every other part may have come to its end; a direct batch that is stuck is a deadlock.
PartStops == part # "direct" /\ UNCHANGED partVars

PartsSpec == PartInit /\ [][(PartNext \/ PartStops) /\ UNCHANGED part]_partVars /\ FetchFair /\ PollFair
===========================================================================
