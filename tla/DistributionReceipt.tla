------------------------ MODULE DistributionReceipt ------------------------
(***************************************************************************)
(* verifyDistributionReceipt of src/distribution-plan.js: whether a        *)
(* confirmed distribution reached its recipients is read from the logs of  *)
(* its receipt.  The transaction is built log by log, with distributions   *)
(* that split hooks begin inside it, and the verdict compared with what    *)
(* really happened.  The contracts are modelled from the order of events   *)
(* the code relies on.                                                     *)
(***************************************************************************)
EXTENDS Naturals, Sequences

CONSTANTS
  MaxLogs,   \* bound: the logs of a receipt
  Counts     \* the token counts of a split

ASSUME DistributionReceiptAssumption == MaxLogs \in Nat /\ Counts \subseteq Nat \ {0}

VARIABLES
  logs,     \* receipt.logs of the reviewed target and its token manager
  scope,    \* whose distribution runs: the reviewed call's, or one a hook began ("own": of the same project)
  harmed,   \* history: did a recipient of the reviewed call not receive its part?
  ended     \* the transaction is confirmed

receiptVars == <<logs, scope, harmed, ended>>

\* to: what the split names; count: tokenCount, or the count of a Burn of the controller's own
\* tokens; caller: args.caller is the reviewed sender; own: args.projectId is the reviewed one.
Log(event, to, count) ==
  [event |-> event, to |-> to, count |-> count, caller |-> scope = "reviewed", own |-> scope # "other"]

ReceiptTypeOK ==
  /\ logs \in Seq([event : {"Burn", "Split", "Reverted", "HookReverted", "Finished"},
                   to : {"hook", "dead", "plain"}, count : Counts \cup {0},
                   caller : BOOLEAN, own : BOOLEAN])
  /\ scope \in {"reviewed", "own", "other"}
  /\ harmed \in BOOLEAN /\ ended \in BOOLEAN

ReceiptInit == logs = <<>> /\ scope = "reviewed" /\ harmed = FALSE /\ ended = FALSE

Emit(more) ==
  /\ ~ended /\ Len(logs) + Len(more) < MaxLogs
  /\ logs' = logs \o more
  /\ UNCHANGED <<scope, ended>>

Harm(bad) == harmed' = (harmed \/ (bad /\ scope = "reviewed"))

\* A split without a hook: paid out, to 0xdead (burnt as reviewed), or burnt unasked.
PlainSplit(n) ==
  \/ Emit(<<Log("Split", "plain", n)>>) /\ Harm(FALSE)
  \/ Emit(<<Log("Burn", "dead", n), Log("Split", "dead", n)>>) /\ Harm(FALSE)
  \/ Emit(<<Log("Burn", "plain", n), Log("Split", "plain", n)>>) /\ Harm(TRUE)

\* A payment to a project reverts and goes to the fallback recipient.
SplitReverts(n) == Emit(<<Log("Reverted", "plain", n), Log("Split", "plain", n)>>) /\ Harm(TRUE)

\* A hook takes all, reverts, or leaves k tokens that are burnt before the split is logged.
HookSplit(n) ==
  \/ Emit(<<Log("Split", "hook", n)>>) /\ Harm(FALSE)
  \/ Emit(<<Log("HookReverted", "hook", n), Log("Burn", "hook", n), Log("Split", "hook", n)>>) /\ Harm(TRUE)
  \/ \E k \in Counts : k <= n /\ Emit(<<Log("Burn", "hook", k), Log("Split", "hook", n)>>) /\ Harm(TRUE)

\* A hook of the reviewed call begins a distribution, which ends before the hook returns.
BeginNested ==
  /\ ~ended /\ scope = "reviewed"
  /\ scope' \in {"own", "other"}
  /\ UNCHANGED <<logs, harmed, ended>>

EndNested ==
  /\ ~ended /\ scope # "reviewed" /\ Len(logs) + 1 < MaxLogs
  /\ logs' = Append(logs, Log("Finished", "plain", 0))
  /\ scope' = "reviewed"
  /\ UNCHANGED <<harmed, ended>>

Confirm ==
  /\ ~ended /\ scope = "reviewed" /\ Len(logs) < MaxLogs
  /\ logs' = Append(logs, Log("Finished", "plain", 0))
  /\ ended' = TRUE
  /\ UNCHANGED <<scope, harmed>>

ReceiptNext ==
  \/ BeginNested \/ EndNested \/ Confirm
  \/ \E n \in Counts : PlainSplit(n) \/ SplitReverts(n) \/ HookSplit(n)

ReceiptSpec == ReceiptInit /\ [][ReceiptNext]_receiptVars

----------------------------------------------------------------------------
(* The verification.                                                       *)

\* burn: pendingBurn; failed: incompleteDistribution was thrown.
ScanStart == [finished |-> FALSE, burn |-> 0, failed |-> FALSE]

\* Mutant: only the splits of the reviewed call settle a burn.
Scan_NestedBurn(log, scan) ==
  CASE ~log.own -> scan
    [] log.own /\ log.event = "Burn" -> [scan EXCEPT !.burn = @ + log.count]
    [] log.own /\ log.event # "Burn" /\ ~log.caller -> scan
    [] log.own /\ log.caller /\ log.event \in {"Reverted", "HookReverted"} -> [scan EXCEPT !.failed = TRUE]
    [] log.own /\ log.caller /\ log.event = "Split" ->
         [scan EXCEPT !.failed = @ \/ (scan.burn > 0 /\ ~(log.to = "dead" /\ scan.burn = log.count)), !.burn = 0]
    [] log.own /\ log.caller /\ log.event = "Finished" -> [scan EXCEPT !.finished = TRUE]

\* One turn of the loop.
Scan(log, scan) ==
  CASE ~log.own -> scan
    [] log.own /\ log.event = "Burn" -> [scan EXCEPT !.burn = @ + log.count]
    [] log.own /\ log.event # "Burn" /\ ~log.caller ->
         IF log.event = "Split" THEN [scan EXCEPT !.burn = 0] ELSE scan
    [] log.own /\ log.caller /\ log.event \in {"Reverted", "HookReverted"} -> [scan EXCEPT !.failed = TRUE]
    [] log.own /\ log.caller /\ log.event = "Split" ->
         [scan EXCEPT !.failed = @ \/ (scan.burn > 0 /\ ~(log.to = "dead" /\ scan.burn = log.count)), !.burn = 0]
    [] log.own /\ log.caller /\ log.event = "Finished" -> [scan EXCEPT !.finished = TRUE]

\* What the loop knows after the first i logs.
Scans ==
  LET scans[i \in 0 .. Len(logs)] == IF i = 0 THEN ScanStart ELSE Scan(logs[i], scans[i - 1])
  IN  scans

Verified ==
  LET scan == Scans[Len(logs)]
  IN  ~scan.failed /\ scan.burn = 0 /\ scan.finished

\* A confirmed distribution is accepted exactly if every recipient of the reviewed call got
\* its part: an unconsumed or unasked burn is never taken for the burn of another split, and
\* the burns of nested distributions are not held against it (distribution-plan.js:47-84).
BurnsMatched == ended => (Verified <=> ~harmed)
=============================================================================
