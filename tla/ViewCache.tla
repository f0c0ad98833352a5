----------------------------- MODULE ViewCache -----------------------------
(***************************************************************************)
(* cacheValidated of src/cache.js, as readAllRulesetsCached of             *)
(* src/discover.js uses it: the ruleset history of a project is served     *)
(* from storage while its latest ruleset id is the stored one, and read    *)
(* page by page otherwise.  Calls and windows share the storage.  A read   *)
(* sees the chain as it is: RPC nodes that lag behind each other are not   *)
(* modelled.                                                               *)
(***************************************************************************)
EXTENDS Naturals, FiniteSets

CONSTANTS
  Readers,   \* the calls, of any window
  MaxId,     \* bound: the rulesets queued onchain
  Page       \* rows of a page

ASSUME ViewCacheAssumption == MaxId \in Nat \ {0} /\ Page \in Nat \ {0}

VARIABLES
  latest,    \* outside: latestRulesetIdOf
  basedOn,   \* outside: basedOnId of every ruleset (0: none), which may skip rejected ones
  stored,    \* the entry in localStorage: its validator (0: there is none) and rows
  reads      \* the calls

cacheVars == <<latest, basedOn, stored, reads>>

RulesetIds == 1 .. MaxId

\* began: the latest id when the call was made (a history variable); validator: 0 when its
\* read failed; next: where the next page starts.
Reads == [at : {"new", "asked", "load", "served", "failed"}, began : 0 .. MaxId,
          validator : 0 .. MaxId, rows : SUBSET RulesetIds, next : 0 .. MaxId]

CacheTypeOK ==
  /\ latest \in RulesetIds
  /\ basedOn \in [RulesetIds -> 0 .. MaxId]
  /\ stored \in [validator : 0 .. MaxId, rows : SUBSET RulesetIds]
  /\ reads \in [Readers -> Reads]

NothingStored == [validator |-> 0, rows |-> {}]

CacheInit ==
  /\ latest = 1
  /\ basedOn = [i \in RulesetIds |-> 0]
  /\ stored = NothingStored
  /\ reads = [r \in Readers |-> [at |-> "new", began |-> 0, validator |-> 0, rows |-> {}, next |-> 0]]

\* The history that ends with ruleset k, as allOf walks it.
History(k) ==
  LET from[i \in 0 .. k] == IF i = 0 THEN {} ELSE {i} \cup from[basedOn[i]] IN from[k]

QueueRuleset ==
  /\ latest < MaxId
  /\ latest' = latest + 1
  /\ basedOn' \in {[basedOn EXCEPT ![latest + 1] = b] : b \in 1 .. latest}
  /\ UNCHANGED <<stored, reads>>

AskValidator(r) ==
  /\ reads[r].at = "new"
  /\ reads' = [reads EXCEPT ![r].at = "asked", ![r].began = latest]
  /\ UNCHANGED <<latest, basedOn, stored>>

\* The entry stored for this very validator is served; otherwise, or when the validator
\* could not be read, the history is loaded.
Validated(r) ==
  /\ reads[r].at = "asked"
  /\ \E v \in {0, latest} :
       \/ /\ v # 0 /\ stored.validator = v
          /\ reads' = [reads EXCEPT ![r].at = "served", ![r].validator = v, ![r].rows = stored.rows]
       \/ /\ v = 0 \/ stored.validator # v
          /\ reads' = [reads EXCEPT ![r].at = "load", ![r].validator = v]
  /\ UNCHANGED <<latest, basedOn, stored>>

\* cacheSet: a full storage is emptied and tried again, and may refuse even that.
CacheSet(v, rows) == stored' \in {[validator |-> v, rows |-> rows], NothingStored, stored}

\* Mutant: the entry is stored for the id that is the latest when the load ends.
StoreLoaded_Late(r, rows) == CacheSet(latest, rows)

StoreLoaded(r, rows) ==
  IF reads[r].validator # 0 THEN CacheSet(reads[r].validator, rows) ELSE UNCHANGED stored

\* allOf: one page of the walk.  The last row names the start of the next.
LoadPage(r) ==
  /\ reads[r].at = "load"
  /\ LET walk == History(IF reads[r].next = 0 THEN latest ELSE reads[r].next)
         page == {i \in walk : Cardinality({j \in walk : j >= i}) <= Page}
         last == CHOOSE i \in page : \A j \in page : i <= j
         rows == reads[r].rows \cup page
     IN  \/ /\ basedOn[last] # 0
            /\ reads' = [reads EXCEPT ![r].rows = rows, ![r].next = basedOn[last]]
            /\ UNCHANGED stored
         \/ /\ basedOn[last] = 0
            /\ reads' = [reads EXCEPT ![r].at = "served", ![r].rows = rows]
            /\ StoreLoaded(r, rows)
  /\ UNCHANGED <<latest, basedOn>>

LoadFails(r) ==
  /\ reads[r].at = "load"
  /\ reads' = [reads EXCEPT ![r].at = "failed"]
  /\ UNCHANGED <<latest, basedOn, stored>>

CacheNext ==
  \/ QueueRuleset
  \/ \E r \in Readers : AskValidator(r) \/ Validated(r) \/ LoadPage(r) \/ LoadFails(r)

CacheSpec == CacheInit /\ [][CacheNext]_cacheVars

----------------------------------------------------------------------------
\* What a call returns, stored or loaded, is the whole history of one moment at or after
\* the call: an entry is never stored for a later id than the one its rows were read for,
\* however pages, calls and new rulesets interleave (cache.js:116-135, discover.js:5474-5503).
CacheHonest ==
  \A r \in Readers : reads[r].at = "served" =>
    \E k \in reads[r].began .. latest : reads[r].rows = History(k)
=============================================================================
