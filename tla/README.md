# juicescan: the journals of what was sent, in TLA+

juicescan is a browser application for Juicebox V6 projects. It has no server of its own: it reads
chains over RPC, asks the user's wallet to send transactions, hands signed requests to the Relayr
service, proposes transactions to Safes, and remembers what it did in `localStorage`. One user may
have the site open in several windows, close one while a wallet prompt is open, run out of storage,
or get no answer at all. What can be lost is not availability but money: the same payment, payout or
ruleset sent twice, or sent and forgotten. The code answers with *durable at-most-once journals*,
records written before the wallet or a service is asked and removed only when the outcome is known.
This project models those journals and the small mechanisms around them that are hard to test, checks
them on small instances with TLC and proves with TLAPS, for every number of windows, attempts, calls and
requests, that each of them keeps its promise.

## The system

| part | state it keeps | operations | what is hard | what makes it correct |
|---|---|---|---|---|
| Write holds (`write-hold.js`, used by `component-base.js`) | one record per action in storage, a copy in window memory when a save fails | gate, reserve, submitted, release | two windows, reloads with a prompt open, unclear wallet errors, failed saves, a release queued on the Web Lock | held until settled; at most one attempt can land |
| Relayr requests (`relayr.js`, driven by `discover.js`) | one session per action: publication record, quote, payment marker, payment hash; a memory copy | post, quote, fund, pay, monitor, verify, clear, retire | stale copies saved over newer ones, browsers without locks, rejected and unclear prompts | one live payment, always journaled; a hash is final |
| Forwarder nonces (`relayr.js`) | one list of reserved nonces for all actions | reserve, replace a dead one | two actions sign the same nonce; chains move while others are read | never two executable requests for one nonce |
| Direct batches (`direct-batch.js`) | the hashes of a batch's calls, `sending` markers; a memory copy | run, resume, clear unsubmitted | interruption between request and hash, failed saves, rejection of a later call | each call sent once, in order, always journaled |
| Action plans (`action-plan.js`, `executeRound` in `discover.js`) | the prepared rounds and how many are checkpointed | run, resume, refresh, checkpoint, discard, acknowledge | two journals that must agree across a crash; discards and acknowledgements that race | no round sent twice or forgotten or counted early |
| Wallet (`wallet.js`) | connector, account | connect, switch, `invokeWallet` | the account or chain changes before the prompt | the request goes to the reviewed account and chain |
| Safes (`safe.js`, `safe-app.js`; `proposeSafeAcrossChains` in `discover.js`) | proposals, the request pool | propose, sign, approve, execute, recover | a nonce read before signing, co-owners, uncertain execution, a pool with retries | one request per call, never forgotten, nothing called executed that was not |
| Batches of owner steps (`safe-batch.js`, `safe-batch-ui.js`, `safe-batch-presets.js`) | one tray of steps per chain in storage; the dialog's copy | add, preset, mirror, edit, clear, propose, send | trays shared by pages and read again at the send; a copy to other chains that takes its time; a saved request under the same scope | a pool goes after, and never without, the hook of its batch; what is called sent was sent |
| Receipts (`component-base.js`) | an open poll | ask, miss, find | a source that never answers | the poll ends |
| Distributions and pending payments (`distribution-plan.js`, `pending-payments.js`) | none (folds over logs and pages) | verify, list, retry | event pairing through nested calls, a list that shifts while read, gas rounding at the cap | a partial distribution of reserved tokens never counts as complete; no pending payment is missed; a retry has the gas it needs |
| Ruleset schedules (`ruleset-schedule.js`) | none | derive starts and the inclusion window | the block time is not known yet | every notice is kept in the whole window |
| Lookups (`cache.js`, `project-id-resolver.js`, `bendystraw-client.js`) | cached reads | validate, load, refresh | late answers, reads that interleave with the chain | what is shown belongs to what was asked |
| Forms and pages (`discover.js`, `create-flow.js`, `app.js`, the `*-component.js`) | form values | build one call | | they send through the parts above |

The parts meet in three ways. `executeTransaction` wraps a single transaction in a write hold.
`runRelayrAcrossChains` sends one call per chain either as a direct batch or as a Relayr request,
with the journal of the one it chose. `runSelectedProjectCallRounds` strings rounds of such sends
together under an action plan, which hands each round a journal of its own (its scope is the plan's
id and the round's index) and passes `checkpoint` down, to be called before that journal is removed.
They share `localStorage` and the Web Locks of the origin; a window's memory is its own.

## The modules

Every module models one storage key, because keys share nothing (the list of reserved nonces is one
key for all actions, and `NonceReservations` models it so). A window is a single-threaded event loop: an action of a
module is one run of it from one `await` to the next, with everything the handler changes in it.
`Reload` is a reload, a closed tab or a crash: memory, locks and what the code was about to do are
gone, storage and the wallet's prompt are not. The wallet, the user and the chain are the
actions `Approve`, `Refuse`, `Include` (`Answer`, `Execute`, `Expire`, `Advance`, `Tick`) and the
variable that records the truth about each request (`fate`, `asks`, `posted`), which only the
properties and the receipt checks read. History variables are marked as such and no guard reads them
(`disowned` is read by `Approve` when `UserKeepsWord`).

`UserKeepsWord` is an assumption on the user, who is the only witness of the wallet. A user who keeps it says
"it was not sent" only of an attempt they have not approved, or whose transaction is settled (the guard of `Click`,
to which nothing in `offerHeldRelease` corresponds), and refuses a prompt of it that is still open (`Approve`).
The run `write_hold` and the theorem `AtMostOneCanLandAlways` assume it; `write_hold_queue` and
`write_hold_lost_hash` do not.

- `WriteHold` models `write-hold.js` and its callers in `component-base.js`: `Start`/`Gate`/`GateRelease`
  (the gate that settles an earlier attempt), `Reserve`, the wallet request (`NotInvoked`, `Ask`,
  `Rejected`, `Unsure`, `Answered`), tracking, and the release dialog (`Click`, `DialogRelease`).
  `AtMostOnce` is what a hold promises with no window, lock or storage in it: one slot, and an attempt
  leaves it only when nothing can come of it any more.
- `SendJournal` is what the parts rely on in one another's journals, again with no window, lock or storage in
  it: the subject is marked before a wallet is asked, asked for only under its mark and with no other prompt
  live, a hash is recorded only of what was asked for, and the mark goes with a rejection or when the subject is
  done with. The payment of `RelayrSession` (`Payment`), every slot of `DirectBatch` (`Slot(i)`) and every
  round of `ActionPlan` (`RoundOf(p, r)`) implement it. `ActionPlan` reduces the journal of a round to what the
  other two write there; that all three keep one contract is what makes the reduction a fair one.
- `RelayrSession` models the session of one request. Its flows are the runs of the feature and may
  share a window (`WindowOf` of the chosen `world`), since a window's memory and the quote on screen
  are shared by them. A *world* says where a behaviour takes place (which flows share a window,
  whether the browser has Web Locks, whether storage may fail, which bundles have a schedule that
  expires); it is chosen once, so one run covers several kinds of browser. `Save` is the whole merge of
  `saveRelayrPendingSession`, refusals and stage ranking included.
- `NonceReservations` models the list of reserved nonces and the publication lock.
- `DirectBatch` models a batch of calls, one prompt each. `Failing` names the journal writes that
  storage may refuse, so a run or a theorem can say which failure it allows.
- `ActionPlan` models plans whose rounds the user's own wallet sends. What happens inside a round's
  journal is `DirectBatch` and `RelayrSession`; here a journal only says whether the wallet was asked.
- `SafePlan` models a plan whose round goes through a Safe: `runSavedActionPlan`'s Safe side, the
  review of `proposeSafeAcrossChains` with one row per chain, and the requests of `safe.js`. Rows are
  read, chosen (`Choices`), signed (`SignRow`: the queue is read again), posted or approved onchain
  (`Publish`), recorded (`Record`), executed (`Execute`, `Executed`, `ExecuteReady`), and the review is
  clicked again, closed or lost. This browser's requests arrive however late (`Land`). Co-owners queue or
  approve the same call at any moment and any nonce, on any chain (`OwnersQueue`), and execute what is queued
  (`OwnersExecute`); other calls use the Safe's nonce, someone else consumes what the call was for, and
  `Reconcile` decides what is done. The queue of a hosted Safe is read at the review, the click and the row,
  which only saves a signature, and once more after the wallet signed, which is the read `QueuedOnce` rests on.
  Two things the code cannot keep out, and `QueuedOnce` does not claim: a co-owner who queues the call between that
  read and the post, and, without a service, a co-owner's approval at another nonce, which "starts a separate
  tx" (`discover.js:13234`).
- `SafeFetch` models the pool of three requests to the Safe service with its queue and its 429 retries.
- `ReceiptPoll` models the 120 attempts to find a receipt, each a race of the RPC client, the wallet
  and a timer.
- `WalletSend` models `invokeWallet` among everything that may happen between its reading of the chain
  and the call: `Connect`/`Connected`, `Disconnect`, `SwitchChain`, the provider's two events, "view as".
- `ProjectIdHint` models the debounced lookup under an id field; `ViewCache` the validated cache of a
  project's ruleset history.
- `PendingPayments` models the paged read of a list that changes meanwhile, and the gas of a retry;
  `DistributionReceipt` the fold that judges a distribution by its logs, over logs that are generated
  split by split with distributions nested in hooks; `RulesetSchedule` the starts of rulesets queued
  together.
- `SafeBatch` models the trays and their dialog: what any page does to them (`AddToBatch`, `AddPreset`,
  `ClearTray`, `MirrorStart`/`Mirrored` with an await per chain), the dialog from its route to its
  confirmation (`OpenBatch`, `BatchRouted`, `EditBatch`, `ConfirmBatch`), the Safe's route (`Proposed`),
  and a wallet's batch: gathered again from the trays (`Gathered`), resumed, published or sent directly
  (`ResumeBatch`, `PublishBatch`, `SendBatchDirect`), until `BatchSent` clears the trays. How a send
  itself goes is `RelayrSession` and `DirectBatch`.
- `MC*` give these modules small sets; `MCParts` runs `DirectBatch`, `SafeBatch` and the eight small
  modules (they share no state, so each behaviour is one of a single part and the rest stands still); `MCNonces` runs
  `NonceReservations` and `SafePlan` in the same way.
- `*Proofs` hold theorems and their proofs: one module per journal (`NonceReservationsProofs` also has those of `SendJournal`), `PartsProofs` for the pool, the gas, the
  paged list, the hint, the wallet's boundary and the poll, and `DataProofs` for what is computed step by step (the
  ruleset history, the verdict on a receipt, the schedule, the trays).

Left out inside these modules, and harmless to their properties: texts, gas and simulation, the confirmation
modals beyond "may give up", and fields no property tells apart. So are these differences from the code:

- `ViewCache.Validated` reads the chain's latest id and the stored entry in one step, where the code has an
  `await` between them (`cache.js:119`); what is served is still the entry of the id that was read.
- `WalletSend` changes `connectedViaSafe` with the provider; the silent reconnection at start
  (`wallet.js:344`), which sets a provider alone, is not modelled.
- `DirectBatch.Checked` has no failed receipt read of a saved hash whose transaction reverted
  (`direct-batch.js:85`); the slot stays as it is then, as after a reload.
- `SafePlan` does not approve a known request once more with another owner's wallet (`discover.js:13428`, the
  click "Approve as another signer"): it is the request the plan knows, so nothing is marked or recorded.
- `RelayrSession` lets forwarded requests be published without Web Locks, which the code refuses
  (`relayr.js:413`): the model does more than the code.
- `DistributionReceipt` nests one distribution in a hook, not several in one another; each level adds the same logs.

Left out and not yet covered: a
record that does not parse in `RelayrSession` and `ActionPlan`, adoption of records an older version saved
under an account-less key, several flows of one window in `WriteHold`, `DirectBatch` and `ActionPlan`,
a Safe plan of several rounds, and the payouts branch of the distribution's verdict (`distribution-plan.js:70`,
which compares each log with the reviewed split). `DirectBatch` assumes Web Locks (the code runs unlocked where a browser
has none); `RelayrSession` is checked with and without. `ViewCache` assumes that two reads of one call
see the chain in order: RPC nodes lag behind each other (`wallet.js` retries only reads pinned to a
block), and a validator from a newer node than the list's would be stored with an older list and trusted
until the next ruleset is queued. `WalletSend` compares the account the page knows; between choosing
another wallet and its answer that is still the old wallet's.

## The runs

| run | question | result |
|---|---|---|
| `write_hold` | Two windows, two attempts, failing storage, reloads, a user true to the release dialog: is an attempt held until settled, can two land, does the record only advance, is `AtMostOnce` implemented? | holds |
| `write_hold_queue` | Working storage, any user, fair wallets and locks: does a queued release leave the hash it waited behind alone, and does it run? | holds |
| `relayr_session` | Two flows, two bundles, two prompts, in three worlds: two windows without Web Locks and storage that comes and goes; two windows that contend for locks, one bundle's schedule expiring; one window: is a live payment journaled, is there at most one, is `SendJournal` implemented, is every posted bundle marked where storage works? | holds (678,000 states) |
| `nonces` | Two windows, three requests, two chains, a list of two rows: one executable request per nonce, reserved until provably dead. A Safe's call on a hosted chain and one without service, and a co-owner who queues the same call at any moment: one request of this browser, and not beside a co-owner's it could have read | holds (1.8 million states) |
| `action_plan` | A wallet's plan (two windows, two rounds, a plan and its successor, two prompts, one refresh) or a Safe's (a hosted chain and one without service, two Safe nonces), plan saves failing: every send in the plan, nothing twice, each round's journal a `SendJournal`, nothing counted early, no known proposal lost | holds (2.3 million states) |
| `parts` | A direct batch (two windows, two rival batches of two calls, four prompts, every write after the wallet's answer but the emptying of a reverted slot may fail): journaled, once, in order, each slot a `SendJournal`. The batch trays: no pool before or without its hook. The eight small modules: slots of the pool exact and every request ended; every poll ended; a request sent where it was reviewed; no stale hint; no cached list older than the call; no pending payment missed; enough gas for a retry; burns matched to splits; notices kept in the whole window | holds (375,000 states) |
| `write_hold_lost_hash` | Does the queued release keep the hash also when its save failed? | violated |
| `relayr_rejection` | Does a definite rejection stand when a monitor of another window is open? | violated |
| `relayr_marker` | Is there a marker of the signed requests at every moment? | violated |
| `direct_batch_marker` | Is a call sent once also when a pre-send save failed? | violated |
| `safe_plan_unknown` | Does a Safe request of unknown outcome stay marked while its review goes on? | violated |
| `batch_resumed` | Is a batch that the page calls sent the one that was sent? | violated |

**Bounds.** Two windows are what a race needs, and the properties relate two requests, so two of
each (three reservations in `nonces`, where one may be replaced while a third is kept; four prompts for the two
calls of a batch, each sent again once) already contain every shape of counterexample the authors
could name. Counters (`MaxAttempts`, `MaxBundles`, `MaxAsks`, `MaxPlans`, `MaxVersions`,
`MaxRequests`, `MaxNonce`, `MaxSafeNonce`, `MaxTheirs`, `MaxTime`) only bound how often a user starts over. `MaxRows` is 512 in
the code and 2 here, so that a full list occurs. `action_plan` was also explored with three prompts
over more than eight million states, without a violation, before it was cut to its present size. The
runs that end because a counter is spent are checked for deadlock where a window can always reload;
in `nonces` every counter may run out, so it is not. In `parts` every part but the direct
batch ends, and `PartStops` lets those stand still, so that a stuck direct batch still shows.
A Safe plan may also stop for good, at a mark that waits for inspection, which `SafeStops` spells out.
A Safe plan is explored twice, with failing saves and no co-owner's requests in `action_plan` (`MaxTheirs` 0) and with
one co-owner's request and working storage in `nonces`: both together are too many states for TLC, and the theorems
cover both together.
Windows (and flows, chains) are symmetric in the runs that check no liveness.

In `parts` the numbers are those of the code where TLC allows it: 120 attempts of a poll, and the gas
constants, with 131 block limits around the least at which a retry is possible and 72 around the
transaction's own limit, so every remainder of the division by 64 occurs at both ends. The pool has 2 slots for 4
requests with 2 retries (3, and 3 retries, in the code: what matters is more requests than slots), a
replaced client is tried twice (3), pages have 2 rows of at most 6 (250), or 1 ruleset of 3 (100), and
times of a schedule are small numbers with every inclusion time of the window tried, where 600 and 15
seconds became 8 and 2. A receipt has at most six logs: a burn and its split nested in a hook, the
hook's own left-over burn and split, and both completions. The trays are those of two chains, with one
pool and two changes by the user; `SafeBatch` by itself was also explored with two pools, which share a
step's key, and with three changes.

**Fairness** (`FairSpec` of `WriteHold`). A wallet request that was started is answered or fails
(`WF` on `NotInvoked \/ Ask` and on `Rejected \/ Unsure \/ Answered`): the code awaits a promise
that the connector settles, and an answer that never comes is the reload or the dialog's business.
The release waiting for the lock is strongly fair (`SF` on `DialogRelease`): Web Locks are granted
in request order, so a queued release is not overtaken forever by other windows that take the lock
again and again. Nothing is assumed of users, storage or the chain.
In `parts`, `FetchFair` says that the browser ends every request, with an answer or an error, and that
the timer of a retry fires; `PollFair` that the timer of an attempt and the one of a pause fire. Nothing is
assumed of the sources of a receipt, which is what the timer of an attempt is for.

## What the violated runs show

- **`write_hold_lost_hash`** (`write-hold.js:55`). Window A's wallet answers and the hash cannot be
  saved; A keeps it in memory. The release window B queued behind the send compares the record it
  showed with the one on disk, finds them equal, and removes it: the action can be sent again though
  A's transaction is on its way. B's user had declared the attempt not sent, so the cost is a
  declaration the code promises to overrule (`write-hold.js:50`).
- **`relayr_rejection`** (`discover.js:11720`). A monitor opened elsewhere while the prompt was open
  writes `sending` back over the quote that a definite rejection restored, because a later stage
  wins a merge. The quote can no longer be funded. Nothing is paid twice.
- **`relayr_marker`** (`relayr.js:511`). The publication record is cleared before the quote that
  replaces it is saved. If that save fails, a reload finds nothing. The reserved nonces still keep a
  second executable request out, so what is lost is the route back to the first one.
- **`direct_batch_marker`** (`direct-batch.js:53`). A journal kept in memory after a failed pre-send
  save outlives what another window then wrote, and is trusted on retry: the call is sent twice.
- **`safe_plan_unknown`** (`discover.js:13516`). A proposal is posted and its answer lost: the plan is
  marked as pending, which `RISKS.md:13` promises to keep for inspection, but the review stays open. The
  user clicks again and declines the wallet's next signature; the review reports a request that was not submitted, and
  `safeCancelled` clears the mark although the first proposal may stand. The plan can then be
  discarded. (If the save inside that report throws, the review also stays stuck.)
- **`batch_resumed`** (`safe-batch-ui.js:349`). The scope of a batch names the project and the chains. A
  batch is published and its page stops waiting; a step is added or replaced; the next send resumes the
  saved request, whose calls are the old ones, then clears the trays and says "Sent n transactions." of
  the new ones. The other callers of `runRelayrAcrossChains` look at `resumed` and say that an earlier
  request was confirmed. No call is sent that was not reviewed; what is lost is the queued step.

The passing runs and the theorems state the assumption each of these breaks: `StorageMayFail = FALSE` in
`write_hold_queue`, `Failing` without `"marker"` and `"revert"` in the direct batch, and `~retried` (no
further click in a review with a request left unrecorded) in `Accounted` and `QueuedOnce`; `QueuedOnce` also
exempts what a co-owner queues after the last read of the queue (`late`).

`AllPending` has an exemption of its own: a list that lost one row and gained another between two pages
has its old count again, and a row that moved to an earlier page is then missed without notice.
`SentWhereReviewed` exempts the chain when a connection completed during the same call, because the
page does not follow a provider's chain while it has no account.

## What is proved

Eight modules hold complete proofs, for any sets of windows, flows, requests, chains, rounds, steps and ids
and any bounds. Every safety property of the passing runs is a theorem, and so is the type correctness of
every module but `RulesetSchedule`, whose result is all in `WindowKeepsOrder`, and the retry gas, whose
bounds are in `RetryGasEnough`. Hardly a property is inductive as it stands: most depend on what the windows,
between two awaits, remember of a state that others change. So each component has an inductive invariant that says
what is remembered, and one lemma per action or group of actions that keeps it.

- **Write hold** (`WriteHoldProofs`): `TypeCorrect`; `HeldUntilSettledAlways` with no assumption on
  storage or users; `AtMostOneCanLandAlways` under `UserKeepsWord`. `IInv` adds that ids are reserved in
  order (`IdsReserved`, `FutureUntouched`), that a window in its critical section holds the lock
  (`LockHeld`), that the record a flow works with is about its own attempt (`FlowKnows`), and that a
  dialog shows a record that existed (`DialogKnows`). `QueuedReleaseKeepsHashAlways` assumes that storage
  does not fail: `HashesSaved` says that the record of an attempt whose window tracks it has its hash, and that
  nothing stays in memory, so a release that waited finds another record than its dialog showed. Without that assumption `write_hold_lost_hash` is a
  counterexample.
- **Write hold, refinement** (same module): `RecordOnlyAdvancesAlways` and `ImplementsAtMostOnceAlways`,
  with no assumption on storage or users, from the same `IInv`: only the holder of the lock asks a wallet
  (`OnlyAsker`), so every step settles (`Settles`), frees (`Frees`) or changes the fate of one attempt
  (`OneMoves`), which is a step of `AtMostOnce`, or stutters.
- **The journals of sends, refinement** (`PaymentKeepsJournal`, `SlotsKeepJournals` under `Durable`,
  `RoundsKeepJournals`): a Relayr payment, a slot of a batch and a round of a plan implement `SendJournal`.
  Each proof takes the invariant of its module and says of every step that it moves the abstract mark and
  prompts in one of the ways the journal allows, or not at all. Two of the invariants had to be
  strengthened. That a hash is recorded only of what was asked for needs, in a
  session, that each hash on disk, in memory or in a flow's copy is of a bundle whose payment was sent (`HashesBacked`); in a
  plan, that a prompt which a window waits for is for the calls of the journal it was opened under (`PromptCalls`),
  since a refreshed round has other calls. Where a step closes a subject together with its prompts (`Finish` of a batch, a checkpoint of a plan,
  a cleared receipt) the lemmas say that nothing else of the journal moves with it.
  That the contract is enough is a theorem of its own, `JournalPromises` (in `NonceReservationsProofs`):
  whatever implements it has at most one request that counts, is marked for that one, and holds no hash of work
  that was not asked for.
- **Relayr sessions** (`RelayrSessionProofs`): `TypeCorrect`, `PaymentsJournaled`, `NeverPaidTwice`,
  `HashFinal`, `MarkedDurably`, in every world: with and without Web Locks, with storage that fails at
  any step, and with windows that save stale copies. The invariant does not follow the locks at all. `Sound`
  says which bundle a flow works on and that nothing stays in memory where storage works; `Attempts` says
  that an open bundle has at most one attempt at paying it (a flow that is about to ask, or a prompt that
  may answer), and that while it has one the disk shows its mark, so that nobody but that flow can take it
  back. The lemmas about the merge (`Advances`, `Empties`) say what one save may do to the disk, whoever saves.
- **Direct batch** (`DirectBatchProofs`): `TypeCorrect`, `SendJournaledAlways`, `SentOnceAlways`,
  `InOrderAlways`, each under `Durable`: the marker and the emptying of a reverted slot can be saved.
  Without the first, `direct_batch_marker` is a counterexample. `IInv` says of every journal, on disk or
  in memory, that it is *sound* (`Sound`: its hashes are sends of its own calls, in order, and it covers
  every live send), that windows between two awaits look at the journal they loaded, and that a slot
  marked as sending belongs to at most one prompt.
- **Nonce reservations** (`NonceReservationsProofs`): `TypeCorrect`, `LiveReservedAlways`,
  `OneLiveRequestPerNonceAlways`, `ReservedUntilDeadAlways`. `IInv` carries what a window has read
  through its loop over the chains: its filtered list still covers every live request (`ViewCovers`), no
  two rows have one key (`KeysDistinct`), and only the lock holder is inside (`LockHeld`).
- **Saved plans** (`ActionPlanProofs`): `TypeCorrect`, `SendRecordedAlways`, `RoundOnceAlways`,
  `RoundsDoneAlways`, with no assumption: a save that fails may fail at any step. `IInv` adds what the
  stored state says of itself (`WorldInv`: ids are given out in order, a hash in a journal is one of its
  own round, a quote is of the calls the plan has) and what each window knows (`WindowInv`: inside the
  lock the plan it runs is the saved one, and the journal is as its last read or write left it; who waits
  for an answer is at its own prompt; a discard on offer is of a plan that was saved).
- **Safe plans** (`SafePlanProofs`): `SafeTypeCorrect`, `AlwaysAccounted`, `AlwaysQueuedOnce`,
  `AlwaysExecutedTrue`, `KnownStays`, for any chains, hosted or not, any nonces, co-owners who queue the same
  call and execute at any moment, and saves that fail anywhere; `Accounted` and `QueuedOnce` keep their condition `~retried`.
  `SafeInv` has three layers. `Frame`: the plan in memory knows every proposal the saved one knows, the
  marks of the rows are true, and what is called executed executed onchain. `Account`: between two requests
  of a click the plan in memory knows every request made; while one is made only its own row is exempt; a
  row left without its record can be told by its mark and the review that tried it. `SafeTypeCorrect`
  states the first of these, `KnownAgree`, beside the types. `Queue`: at most one request of this browser per
  chain is waiting (`OneAsked`); the one that a row is about to make is beside no co-owner's but those its last read could not show
  (`Beside`), from the read after the signature on, and stays so when it is asked (`AskedBeside`): what
  a co-owner queues later is `late`.
- **Safe requests** (`PartsProofs`): `SlotsExactAlways`. `FetchInv` adds that the queue has no
  repetition, so that waking its head leaves the others queued once, and that a pausing request has
  retries left.
- **Retry gas** (`PartsProofs`): `RetryGasEnoughAlways`, for every block gas limit and failure state: the
  retry gas, rounded up, forwards at least what qualifies (`ForwardsEnough`), and what fits the gateway's
  share of the cap, rounded down, fits the cap once scaled back (`FitsCap`).
- **Pending payments** (`PartsProofs`): `AllPendingAlways`, for any list, page size and limit. `ListInv`
  says that while the list only grew, or only shrank, one list of the counted size has every row taken
  (`CutFrom`), and an equal count later means that the list is that one still; rows that repeat are
  refused, so as many rows as the count are all rows.
- **Project id hint** (`PartsProofs`): `HintFreshAlways`. `HintInv` adds that the lookup with the
  current token is for the typed id or the timer runs, and that no lookup has a token ahead of the counter.
- **Wallet boundary** (`PartsProofs`): `SentWhereReviewedAlways`, for any wallets and networks. `SendInv`
  says that the captured provider is the connected one as long as no new client was made
  (`CapturedIsCurrent`), and that the chain that was read is stale only while the page was not told, or has no
  account, or a connection completed during the call (`ReadIsCurrent`).
- **View cache** (`DataProofs`): `CacheHonestAlways`. The history of a ruleset never changes once that
  ruleset is queued; an entry is stored for an id that is at most the one its rows end with (`StoredHonest`),
  so it is served only while nothing was queued since.
- **Distribution receipts** (`DataProofs`): `BurnsMatchedAlways`, for receipts of any length. `ReceiptInv`
  says that the verdict on the logs so far is exactly the harm so far (`VerdictIs`) and that no burn is
  open between two splits, nested ones included.
- **Ruleset schedules** (`DataProofs`): `WindowKeepsOrderAlways`, for any parent, dates, cycles and
  notices. A start leaves the notice counted from the block time and counted from the next free id, and
  the end of the window is at most what each stage allows; that a start is a boundary of the cycle before
  it is a lemma on division (`DeriveFacts`).
- **Batches of owner steps** (`DataProofs`): `HookBeforePoolAlways`, for any chains, pools and changes.
  `BatchInv` says that every list of steps names a kind once, in trays, the dialog, a mirror's copy and
  saved sends, so that the checked order leaves no second hook behind a pool; merging, editing and
  filtering a list keep that (`UpsertAllKeeps`, `EditKeeps`, `OnlyIs`).

Assumptions: those of the modules on their constants, which TLC evaluates in every run, and the three
named above (`UserKeepsWord`, `Durable`, storage that works for `QueuedReleaseKeepsHash`).

Induction over the recursive functions `History`, `Scans`, `Starts`, `UpsertAll` and `Only` is done by
hand in `DataProofs`: the set of arguments at which a claim fails is a set of numbers and, were it not
empty, would have a least element (`LeastIn`); that such a function exists at all is `StepByStep`.

Only model-checked, because liveness under fairness is out of the prover's reach: `QueuedReleaseRuns`,
`FetchEnds`, `PollSettles`. Proved and not in a run: `HashStays` and the type invariants of the small parts (`FetchTypes`, `SendTypes`,
`PollTypes`, `HintTypes`, `ListTypes`, `CacheTypes`, `ReceiptTypes`, `BatchTypes`, and `TypeCorrect` of the
direct batch and of the saved plans). For two of those the invariant of the properties was not enough: `AttemptLeft` says that a
poll which goes on has an attempt left, and `BatchNames` that an open dialog has a chain and every send and record a scope.

## The plan

Done: `WriteHold` with `AtMostOnce`, `RelayrSession`, `DirectBatch`, `NonceReservations`, `ActionPlan`,
`SafePlan`, `SafeBatch`, and the eight small modules of `parts`; proofs of all their safety properties; one
abstract journal, `SendJournal`, that sessions, batches and plans implement.

Next, in this order:

1. The retries of `relayrPoll`, and a reservation that outlives a failed save (`relayr.js:453`).
2. The merge of receipts and the review of queued rulesets (`ruleset-queue-lifecycle.js`).

## Not modelled

Of the batches: the MultiSend codec and the simulation (pure, and compared literally by the tests), and
the steps without a dependency. Two things the model made visible are no property of it. A preset
that carries a native and a USDC pool lists both, but a step is named by kind and target, so the tray
keeps the second only (`safe-batch.js:79`, `safe-batch-ui.js:512`). And a comment says that calls of one chain
keep their order in a bundle by virtual nonces (`safe-batch-ui.js:171`), while the reservation of nonces
refuses a bundle with two requests of one chain (`relayr.js:383`): `PublishBatch` does what the code does.

Pages, forms and encoding (`create-flow.js`, the `*-component.js`, most of `discover.js`, `app.js`): they
build one call and send it through the parts above, and what could be wrong in them is layout, wording
or call data, which the tests of the repository compare literally. `cacheStale`: display data that is
confirmed whenever it is shown. The generated `abi-registry.js`, `abi-natspec.js` and `abi-sources.js`
are more than two thirds of the lines under `src/` and have no behaviour; together with the pages they
are why the models stand for a small share of the lines, though for most of those that decide
whether something is sent, sent again or forgotten. The composition of the publication record
with the reserved nonces (`relayr.js:453`) is out of TLC's reach at sizes where both are interesting;
what it would show is a reservation that outlives a failed save, until its deadline.
