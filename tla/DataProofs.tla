------------------------------ MODULE DataProofs ------------------------------
(***************************************************************************)
(* The parts whose promise is about what is computed step by step, for     *)
(* every value of their constants: the ruleset history and its cache, the  *)
(* verdict on a distribution's receipt, the schedule of queued rulesets,   *)
(* the trays of owner steps.  What a recursive function is at one argument *)
(* is shown by the least argument at which it would not be so.             *)
(***************************************************************************)
EXTENDS ViewCache, DistributionReceipt, RulesetSchedule, SafeBatch,
        FiniteSetTheorems, WellFoundedInduction, TLAPS

----------------------------------------------------------------------------
(* Least elements, and values computed step by step.                       *)

LEMMA LeastIn ==
  ASSUME NEW S \in SUBSET Nat, S # {}
  PROVE  \E m \in S : \A n \in S : m <= n
<1>1. PICK m \in S : \A n \in S : ~(<<n, m>> \in OpToRel(<, Nat))
  BY NatLessThanWellFounded, WFMin, Zenon
<1>2. \A n \in S : ~(n < m)
  BY <1>1, Zenon DEF OpToRel
<1>3. \A n \in S : n \in Nat
  OBVIOUS
<1> QED
  BY <1>2, <1>3

\* A value computed step by step from one before it exists.
Stepwise(m, n, V, first, G, f) ==
  /\ f \in [m .. n -> V]
  /\ \A i \in m .. n : f[i] = IF i = m THEN first ELSE G[<<i, f[i - 1]>>]

LEMMA StepByStep ==
  ASSUME NEW m \in Nat, NEW n \in Nat, m <= n, NEW V, NEW first \in V, NEW G \in [Nat \X V -> V]
  PROVE  \E f : Stepwise(m, n, V, first, G, f)
<1> USE DEF Stepwise
<1> DEFINE InSteps(k, f) == Stepwise(m, k, V, first, G, f)
           Bad == {k \in Nat : m <= k /\ ~(\E f : InSteps(k, f))}
<1> SUFFICES ASSUME Bad # {} PROVE FALSE
  OBVIOUS
<1>1. PICK k \in Bad : \A j \in Bad : k <= j
  BY LeastIn
<1>2. CASE k = m
  <2>1. InSteps(m, [i \in m .. m |-> first])
    OBVIOUS
  <2> QED
    BY <1>1, <1>2, <2>1
<1>3. CASE k # m
  <2>1. k \in Nat /\ k - 1 \in Nat /\ m <= k - 1 /\ k - 1 < k
    BY <1>1, <1>3
  <2>2. PICK f : InSteps(k - 1, f)
    BY <1>1, <2>1
  <2> DEFINE g == [i \in m .. k |-> IF i = k THEN G[<<k, f[k - 1]>>] ELSE f[i]]
  <2>3. k - 1 \in m .. k - 1 /\ f[k - 1] \in V
    BY <2>1, <2>2
  <2>4. G[<<k, f[k - 1]>>] \in V
    BY <2>1, <2>3
  <2>5. g \in [m .. k -> V]
    <3>1. \A i \in m .. k : i # k => i \in m .. k - 1
      BY <2>1
    <3> QED
      BY <2>2, <2>4, <3>1
  <2>6. ASSUME NEW i \in m .. k
        PROVE  g[i] = IF i = m THEN first ELSE G[<<i, g[i - 1]>>]
    <3>1. CASE i = k
      <4>1. g[k - 1] = f[k - 1] /\ k # m
        BY <1>3, <2>1
      <4> QED
        BY <3>1, <4>1
    <3>2. CASE i # k
      <4>1. i \in m .. k - 1 /\ g[i] = f[i]
        BY <2>1, <3>2
      <4>2. i # m => g[i - 1] = f[i - 1]
        BY <2>1, <4>1
      <4> HIDE DEF g
      <4> QED
        BY <2>2, <4>1, <4>2
    <3> QED
      BY <3>1, <3>2
  <2> HIDE DEF g
  <2> QED
    BY <1>1, <2>5, <2>6
<1> QED
  BY <1>2, <1>3

----------------------------------------------------------------------------
(* The ruleset history (ViewCache).  What a call returns is a history of   *)
(* one moment because a walk from a ruleset never changes once that        *)
(* ruleset is queued, and because an entry is stored for an id that is at  *)
(* most the one it was read from: served for the latest id, it is that.    *)

\* Every ruleset is based on an earlier one.
Descends(B) == B \in [RulesetIds -> 0 .. MaxId] /\ \A i \in RulesetIds : B[i] < i

\* f lists the histories of the rulesets up to k, when rulesets are based on others as B says.
Walks(B, k, f) == f = [i \in 0 .. k |-> IF i = 0 THEN {} ELSE {i} \cup f[B[i]]]

HistoryBy(B, k) ==
  LET from[i \in 0 .. k] == IF i = 0 THEN {} ELSE {i} \cup from[B[i]] IN from[k]

LEMMA HistoryIs ==
  /\ \A k : History(k) = HistoryBy(basedOn, k)
  /\ \A k : History(k)' = HistoryBy(basedOn', k)
BY DEF History, HistoryBy

LEMMA IdFacts ==
  /\ MaxId \in Nat /\ 0 \in 0 .. MaxId /\ RulesetIds \subseteq 0 .. MaxId
  /\ \A k \in 0 .. MaxId : k \in Nat /\ 0 .. k \subseteq 0 .. MaxId
  /\ \A k \in 0 .. MaxId : k # 0 => k \in RulesetIds /\ k - 1 \in 0 .. MaxId
BY ViewCacheAssumption DEF RulesetIds

LEMMA WalkExists ==
  ASSUME NEW B, Descends(B)
  PROVE  \A k \in 0 .. MaxId : \E f : Walks(B, k, f)
<1> DEFINE Bad == {k \in Nat : k \in 0 .. MaxId /\ ~(\E f : Walks(B, k, f))}
<1> SUFFICES ASSUME Bad # {} PROVE FALSE
  BY IdFacts
<1>1. PICK k \in Bad : \A n \in Bad : k <= n
  BY LeastIn
<1>2. CASE k = 0
  <2>1. Walks(B, 0, [i \in 0 .. 0 |-> {}])
    BY DEF Walks
  <2> QED
    BY <1>2, <2>1
<1>3. CASE k # 0
  <2>1. k \in RulesetIds /\ k - 1 \in 0 .. MaxId /\ k - 1 \in Nat /\ k \in Nat
    BY <1>3, IdFacts
  <2>2. k - 1 \notin Bad
    BY <1>1, <2>1
  <2>3. PICK f : Walks(B, k - 1, f)
    BY <2>1, <2>2
  <2> DEFINE g == [i \in 0 .. k |-> IF i = k THEN {k} \cup f[B[k]] ELSE f[i]]
  <2>4. ASSUME NEW i \in 0 .. k
        PROVE  g[i] = IF i = 0 THEN {} ELSE {i} \cup g[B[i]]
    <3>1. CASE i = 0
      BY <1>3, <2>1, <2>3, <3>1 DEF Walks
    <3>2. CASE i # 0
      <4>1. i \in RulesetIds
        BY <2>1, <3>2, IdFacts
      <4>2. B[i] \in 0 .. MaxId /\ B[i] < i
        BY <4>1 DEF Descends
      <4>3. B[i] \in 0 .. k /\ B[i] # k
        BY <2>1, <4>2
      <4>4. g[B[i]] = f[B[i]]
        BY <4>3
      <4>5. CASE i = k
        BY <3>2, <4>4, <4>5
      <4>6. CASE i # k
        <5>1. i \in 0 .. k - 1
          BY <2>1, <4>6
        <5>2. f[i] = {i} \cup f[B[i]]
          BY <2>3, <3>2, <5>1 DEF Walks
        <5> QED
          BY <3>2, <4>4, <4>6, <5>2
      <4> QED
        BY <4>5, <4>6
    <3> QED
      BY <3>1, <3>2
  <2> HIDE DEF g
  <2>5. g = [i \in 0 .. k |-> g[i]]
    BY DEF g
  <2>6. Walks(B, k, g)
    BY <2>4, <2>5 DEF Walks
  <2> QED
    BY <2>6
<1> QED
  BY <1>2, <1>3

\* Two walks agree as far as the rulesets are based on the same ones.
LEMMA WalksAgree ==
  ASSUME NEW B, Descends(B), NEW C, NEW n \in 0 .. MaxId, \A i \in 1 .. n : B[i] = C[i],
         NEW k \in 0 .. MaxId, NEW m \in 0 .. MaxId, n <= k, n <= m,
         NEW f, Walks(B, k, f), NEW g, Walks(C, m, g)
  PROVE  \A i \in 0 .. n : f[i] = g[i]
<1> DEFINE Bad == {i \in Nat : i \in 0 .. n /\ f[i] # g[i]}
<1> SUFFICES ASSUME Bad # {} PROVE FALSE
  BY IdFacts
<1>1. PICK i \in Bad : \A j \in Bad : i <= j
  BY LeastIn
<1>2. n \in Nat /\ k \in Nat /\ m \in Nat /\ i \in Nat /\ i \in 0 .. k /\ i \in 0 .. m /\ f[i] # g[i]
  BY <1>1, IdFacts
<1>3. /\ f[i] = IF i = 0 THEN {} ELSE {i} \cup f[B[i]]
      /\ g[i] = IF i = 0 THEN {} ELSE {i} \cup g[C[i]]
  BY <1>2 DEF Walks
<1>4. i \in 1 .. n /\ i \in RulesetIds
  BY <1>1, <1>2, <1>3, IdFacts
<1>5. B[i] \in 0 .. MaxId /\ B[i] < i /\ C[i] = B[i]
  BY <1>4 DEF Descends
<1>6. B[i] \in Nat /\ B[i] \in 0 .. n /\ B[i] \notin Bad
  BY <1>1, <1>2, <1>4, <1>5
<1> QED
  BY <1>2, <1>3, <1>5, <1>6

LEMMA HistoryUnfolds ==
  ASSUME NEW B, Descends(B)
  PROVE  /\ HistoryBy(B, 0) = {}
         /\ \A k \in RulesetIds : /\ B[k] \in 0 .. MaxId /\ B[k] < k
                                  /\ HistoryBy(B, k) = {k} \cup HistoryBy(B, B[k])
<1> DEFINE F(k) == CHOOSE f : Walks(B, k, f)
<1>1. \A k \in 0 .. MaxId : Walks(B, k, F(k)) /\ HistoryBy(B, k) = F(k)[k]
  BY WalkExists DEF HistoryBy, Walks
<1> HIDE DEF F
<1>2. HistoryBy(B, 0) = {}
  <2>1. Walks(B, 0, F(0)) /\ HistoryBy(B, 0) = F(0)[0]
    BY <1>1, IdFacts
  <2> QED
    BY <2>1 DEF Walks
<1>3. ASSUME NEW k \in RulesetIds
      PROVE  /\ B[k] \in 0 .. MaxId /\ B[k] < k
             /\ HistoryBy(B, k) = {k} \cup HistoryBy(B, B[k])
  <2>1. /\ B[k] \in 0 .. MaxId /\ B[k] < k /\ k \in 0 .. MaxId /\ k \in Nat /\ k # 0
    BY IdFacts DEF Descends, RulesetIds
  <2>2. HistoryBy(B, k) = {k} \cup F(k)[B[k]]
    <3>1. Walks(B, k, F(k)) /\ HistoryBy(B, k) = F(k)[k] /\ k \in 0 .. k
      BY <1>1, <2>1
    <3> QED
      BY <2>1, <3>1 DEF Walks
  <2>3. F(k)[B[k]] = F(B[k])[B[k]]
    <3>1. Walks(B, k, F(k)) /\ Walks(B, B[k], F(B[k]))
      BY <1>1, <2>1
    <3>2. B[k] \in 0 .. B[k] /\ B[k] <= k /\ B[k] <= B[k]
      BY <2>1, IdFacts
    <3> QED
      BY <2>1, <3>1, <3>2, WalksAgree
  <2> QED
    BY <1>1, <2>1, <2>2, <2>3
<1> QED
  BY <1>2, <1>3

\* A history stays when later rulesets are queued.
LEMMA HistoryStays ==
  ASSUME NEW B, Descends(B), NEW C, Descends(C), NEW k \in 0 .. MaxId,
         \A i \in 1 .. k : B[i] = C[i]
  PROVE  HistoryBy(B, k) = HistoryBy(C, k)
<1> DEFINE F(D) == CHOOSE f : Walks(D, k, f)
<1>1. /\ Walks(B, k, F(B)) /\ HistoryBy(B, k) = F(B)[k]
      /\ Walks(C, k, F(C)) /\ HistoryBy(C, k) = F(C)[k]
  BY WalkExists DEF HistoryBy, Walks
<1> HIDE DEF F
<1>2. k \in 0 .. k /\ k <= k
  BY IdFacts
<1> QED
  BY <1>1, <1>2, WalksAgree

\* A history goes down from its ruleset.
LEMMA HistoryBelow ==
  ASSUME NEW B, Descends(B)
  PROVE  \A k \in 0 .. MaxId : HistoryBy(B, k) \subseteq 1 .. k
<1> DEFINE Bad == {k \in Nat : k \in 0 .. MaxId /\ ~(HistoryBy(B, k) \subseteq 1 .. k)}
<1> SUFFICES ASSUME Bad # {} PROVE FALSE
  BY IdFacts
<1>1. PICK k \in Bad : \A n \in Bad : k <= n
  BY LeastIn
<1>2. k \in RulesetIds /\ k \in Nat
  BY HistoryUnfolds, IdFacts
<1>3. B[k] \in 0 .. MaxId /\ B[k] < k /\ HistoryBy(B, k) = {k} \cup HistoryBy(B, B[k])
  BY <1>2, HistoryUnfolds
<1>4. B[k] \in Nat /\ B[k] \notin Bad
  BY <1>1, <1>2, <1>3
<1>5. HistoryBy(B, B[k]) \subseteq 1 .. B[k]
  BY <1>3, <1>4
<1>6. 1 .. B[k] \subseteq 1 .. k /\ k \in 1 .. k
  BY <1>2, <1>3, <1>4 DEF RulesetIds
<1> QED
  BY <1>3, <1>5, <1>6

\* Below any of its rulesets a history is the history of what that one is based on.
LEMMA HistoryCut ==
  ASSUME NEW B, Descends(B)
  PROVE  \A k \in 0 .. MaxId : \A j \in HistoryBy(B, k) :
           {i \in HistoryBy(B, k) : i < j} = HistoryBy(B, B[j])
<1> DEFINE Cut(k) == \A j \in HistoryBy(B, k) : {i \in HistoryBy(B, k) : i < j} = HistoryBy(B, B[j])
           Bad == {k \in Nat : k \in 0 .. MaxId /\ ~Cut(k)}
<1> SUFFICES ASSUME Bad # {} PROVE FALSE
  BY IdFacts
<1>1. PICK k \in Bad : \A n \in Bad : k <= n
  BY LeastIn
<1>2. k \in RulesetIds /\ k \in Nat /\ ~Cut(k)
  BY HistoryUnfolds, IdFacts
<1>3. B[k] \in 0 .. MaxId /\ B[k] < k /\ HistoryBy(B, k) = {k} \cup HistoryBy(B, B[k])
  BY <1>2, HistoryUnfolds
<1>4. B[k] \in Nat /\ B[k] \notin Bad
  BY <1>1, <1>2, <1>3
<1>5. Cut(B[k])
  BY <1>3, <1>4
<1>6. \A i \in HistoryBy(B, B[k]) : i \in Nat /\ i < k
  BY <1>2, <1>3, <1>4, HistoryBelow
<1>7. ASSUME NEW j \in HistoryBy(B, k)
      PROVE  {i \in HistoryBy(B, k) : i < j} = HistoryBy(B, B[j])
  <2>1. CASE j = k
    <3>1. \A i : i \in HistoryBy(B, k) /\ i < k <=> i \in HistoryBy(B, B[k])
      BY <1>2, <1>3, <1>6
    <3> QED
      BY <2>1, <3>1
  <2>2. CASE j # k
    <3>1. j \in HistoryBy(B, B[k])
      BY <1>3, <2>2
    <3>2. {i \in HistoryBy(B, k) : i < j} = {i \in HistoryBy(B, B[k]) : i < j}
      BY <1>2, <1>3, <1>6, <3>1
    <3> QED
      BY <1>5, <3>1, <3>2
  <2> QED
    BY <2>1, <2>2
<1> QED
  BY <1>2, <1>7

PageOf(walk) == {i \in walk : Cardinality({j \in walk : j >= i}) <= Page}
LastOf(page) == CHOOSE i \in page : \A j \in page : i <= j

\* A page: the rows of a walk that have at most Page rows at or above them.
LEMMA PageCuts ==
  ASSUME NEW B, Descends(B), NEW start \in RulesetIds
  PROVE  LET walk == HistoryBy(B, start)
             page == PageOf(walk)
             last == LastOf(page)
         IN  /\ last \in RulesetIds /\ last <= start /\ page \subseteq RulesetIds
             /\ walk = page \cup HistoryBy(B, B[last])
<1> SUFFICES ASSUME NEW walk, walk = HistoryBy(B, start), NEW page, page = PageOf(walk),
                    NEW last, last = LastOf(page)
             PROVE  /\ last \in RulesetIds /\ last <= start /\ page \subseteq RulesetIds
                    /\ walk = page \cup HistoryBy(B, B[last])
  OBVIOUS
<1> USE DEF PageOf, LastOf
<1>1. /\ start \in Nat /\ start \in 0 .. MaxId /\ start \in 1 .. start
      /\ walk \subseteq 1 .. start /\ start \in walk
  BY HistoryBelow, HistoryUnfolds, IdFacts DEF RulesetIds
<1>2. walk \subseteq Nat /\ walk \subseteq RulesetIds
  BY <1>1, ViewCacheAssumption DEF RulesetIds
<1>3. \A i \in walk : /\ IsFiniteSet({j \in walk : j >= i})
                      /\ Cardinality({j \in walk : j >= i}) \in Nat
  <2>1. IsFiniteSet(1 .. start)
    BY <1>1, FS_Interval
  <2> QED
    BY <1>1, <2>1, FS_Subset, FS_CardinalityType
<1>4. start \in page
  <2>1. {j \in walk : j >= start} = {start}
    BY <1>1
  <2>2. Cardinality({start}) = 1
    BY FS_Singleton
  <2> QED
    BY <1>1, <2>1, <2>2, ViewCacheAssumption
<1>5. last \in page /\ \A j \in page : last <= j
  <2>1. page \in SUBSET Nat
    BY <1>2
  <2>2. \E i \in page : \A j \in page : i <= j
    BY <1>4, <2>1, LeastIn
  <2> QED
    BY <2>2
<1> DEFINE Above(i) == {j \in walk : j >= i}
<1>6. last \in walk /\ last \in Nat /\ Cardinality(Above(last)) <= Page
  BY <1>2, <1>5
<1>7. \A i \in walk : i >= last <=> i \in page
  <2>1. ASSUME NEW i \in walk, i >= last PROVE i \in page
    <3>1. Above(i) \subseteq Above(last)
      <4>1. \A j \in walk : j >= i => j >= last
        BY <1>2, <1>6, <2>1
      <4> QED
        BY <4>1
    <3>2. IsFiniteSet(Above(last)) /\ Cardinality(Above(i)) \in Nat /\ Cardinality(Above(last)) \in Nat
      BY <1>3, <1>6
    <3> HIDE DEF Above
    <3>3. Cardinality(Above(i)) <= Cardinality(Above(last))
      BY <3>1, <3>2, FS_Subset
    <3>4. Cardinality(Above(i)) <= Page
      BY <1>6, <3>2, <3>3, ViewCacheAssumption
    <3> QED
      BY <3>4 DEF Above
  <2>2. ASSUME NEW i \in page PROVE i >= last
    BY <1>2, <1>5
  <2> QED
    BY <2>1, <2>2
<1>8. walk = page \cup {i \in walk : i < last}
  <2>1. \A i \in walk : i >= last \/ i < last
    BY <1>2, <1>6
  <2>2. page \subseteq walk
    OBVIOUS
  <2> QED
    BY <1>7, <2>1, <2>2
<1>9. {i \in walk : i < last} = HistoryBy(B, B[last])
  <2>1. last \in HistoryBy(B, start)
    BY <1>6
  <2>2. {i \in HistoryBy(B, start) : i < last} = HistoryBy(B, B[last])
    BY <1>1, <2>1, HistoryCut
  <2> QED
    BY <2>2
<1>10. last \in RulesetIds /\ last <= start
  <2>1. last \in 1 .. start
    BY <1>1, <1>6
  <2> QED
    BY <1>1, <1>2, <1>6, <2>1
<1>11. page \subseteq RulesetIds
  BY <1>2
<1> QED
  BY <1>8, <1>9, <1>10, <1>11

Based == \A i \in RulesetIds : basedOn[i] < i

\* An entry was stored for an id that is at most the one its rows end with.
StoredHonest ==
  stored.validator # 0 => \E k \in stored.validator .. latest : stored.rows = History(k)

\* What a call has, with what is below its next page, is a history since the call.
Honest(q) ==
  /\ q.began <= latest /\ q.validator <= latest /\ q.next <= latest
  /\ q.at \in {"new", "asked"} => q.next = 0
  /\ q.at \in {"new", "asked", "load"} /\ q.next = 0 => q.rows = {}
  /\ q.at = "load" /\ q.next # 0 =>
       \E k \in q.began .. latest : k >= q.validator /\ q.rows \cup History(q.next) = History(k)
  /\ q.at = "served" => \E k \in q.began .. latest : q.rows = History(k)

CacheInv ==
  /\ CacheTypeOK
  /\ Based
  /\ StoredHonest
  /\ \A r \in Readers : Honest(reads[r])

LEMMA BasedDescends == ASSUME CacheInv PROVE Descends(basedOn)
BY DEF CacheInv, CacheTypeOK, Based, Descends

LEMMA CacheInitInv == CacheInit => CacheInv
<1> SUFFICES ASSUME CacheInit PROVE CacheInv
  OBVIOUS
<1>1. CacheTypeOK
  BY ViewCacheAssumption DEF CacheInit, CacheTypeOK, Reads, NothingStored, RulesetIds
<1>2. Based /\ StoredHonest
  BY ViewCacheAssumption DEF CacheInit, Based, StoredHonest, NothingStored, RulesetIds
<1>3. \A r \in Readers : Honest(reads[r])
  BY DEF CacheInit, Honest
<1> QED
  BY <1>1, <1>2, <1>3 DEF CacheInv

\* Nothing that a step leaves alone can become dishonest.
LEMMA HonestStays ==
  ASSUME CacheInv, latest' = latest, basedOn' = basedOn
  PROVE  /\ \A k : History(k)' = History(k)
         /\ stored' = stored => StoredHonest'
         /\ \A r \in Readers : reads'[r] = reads[r] => Honest(reads[r])'
<1>1. \A k : History(k)' = History(k)
  BY HistoryIs
<1>2. stored' = stored => StoredHonest'
  BY <1>1 DEF CacheInv, StoredHonest
<1>3. ASSUME NEW r \in Readers, reads'[r] = reads[r] PROVE Honest(reads[r])'
  BY <1>1, <1>3 DEF CacheInv, Honest
<1> QED
  BY <1>1, <1>2, <1>3

\* A new ruleset leaves every history there is as it was.
LEMMA QueueKeeps ==
  ASSUME CacheInv, QueueRuleset
  PROVE  CacheInv'
<1>1. /\ latest < MaxId /\ latest' = latest + 1 /\ latest \in Nat /\ latest' \in RulesetIds
      /\ stored' = stored /\ reads' = reads
      /\ CacheTypeOK /\ Descends(basedOn)
  BY BasedDescends, ViewCacheAssumption DEF QueueRuleset, CacheInv, CacheTypeOK, RulesetIds
<1>2. PICK b \in 1 .. latest : basedOn' = [basedOn EXCEPT ![latest + 1] = b]
  BY DEF QueueRuleset
<1>3. b \in Nat /\ b \in 0 .. MaxId /\ b < latest + 1
  BY <1>1, <1>2, ViewCacheAssumption
<1>4. \A i \in RulesetIds : basedOn'[i] = IF i = latest + 1 THEN b ELSE basedOn[i]
  BY <1>1, <1>2 DEF CacheTypeOK
<1>5. CacheTypeOK'
  BY <1>1, <1>2, <1>3 DEF CacheTypeOK
<1>6. Based' /\ Descends(basedOn')
  BY <1>1, <1>3, <1>4, <1>5 DEF Descends, Based, CacheTypeOK
<1>7. ASSUME NEW k \in 0 .. latest PROVE History(k)' = History(k)
  <2>1. k \in 0 .. MaxId
    BY <1>1, ViewCacheAssumption
  <2>2. \A i \in 1 .. k : basedOn[i] = basedOn'[i]
    <3>1. \A i \in 1 .. k : i \in RulesetIds /\ i # latest + 1
      BY <1>1, <2>1, ViewCacheAssumption DEF RulesetIds
    <3> QED
      BY <1>4, <3>1
  <2>3. HistoryBy(basedOn, k) = HistoryBy(basedOn', k)
    BY <1>1, <1>6, <2>1, <2>2, HistoryStays
  <2> QED
    BY <2>3, HistoryIs
<1>8. StoredHonest'
  <2>1. ASSUME stored.validator # 0
        PROVE  \E k \in stored.validator .. latest' : stored.rows = History(k)'
    <3>1. PICK k \in stored.validator .. latest : stored.rows = History(k)
      BY <2>1 DEF CacheInv, StoredHonest
    <3>2. stored.validator \in Nat
      BY <1>1 DEF CacheTypeOK
    <3> QED
      BY <1>1, <1>7, <3>1, <3>2
  <2> QED
    BY <1>1, <2>1 DEF StoredHonest
<1>9. ASSUME NEW r \in Readers PROVE Honest(reads[r])'
  <2>1. PICK q \in Reads : q = reads[r]
    BY <1>1 DEF CacheTypeOK
  <2>2. /\ q.began \in Nat /\ q.validator \in Nat /\ q.next \in Nat /\ Honest(q) /\ reads'[r] = q
    BY <1>1, <2>1 DEF Reads, CacheInv
  <2>3. ASSUME q.at = "load", q.next # 0
        PROVE  \E k \in q.began .. latest' :
                 k >= q.validator /\ q.rows \cup History(q.next)' = History(k)'
    <3>1. PICK k \in q.began .. latest :
            k >= q.validator /\ q.rows \cup History(q.next) = History(k)
      BY <2>2, <2>3 DEF Honest
    <3>2. q.next \in 0 .. latest /\ k \in 0 .. latest /\ k \in q.began .. latest'
      BY <1>1, <2>2, <3>1 DEF Honest
    <3> QED
      BY <1>7, <3>1, <3>2
  <2>4. ASSUME q.at = "served"
        PROVE  \E k \in q.began .. latest' : q.rows = History(k)'
    <3>1. PICK k \in q.began .. latest : q.rows = History(k)
      BY <2>2, <2>4 DEF Honest
    <3>2. k \in 0 .. latest /\ k \in q.began .. latest'
      BY <1>1, <2>2, <3>1
    <3> QED
      BY <1>7, <3>1, <3>2
  <2>5. q.began <= latest' /\ q.validator <= latest' /\ q.next <= latest'
    BY <1>1, <2>2 DEF Honest
  <2> QED
    BY <2>1, <2>2, <2>3, <2>4, <2>5 DEF Honest
<1> QED
  BY <1>5, <1>6, <1>8, <1>9 DEF CacheInv

\* The call's own steps change nobody else's read.
LEMMA ReadKeeps ==
  ASSUME CacheInv, NEW r \in Readers, NEW q \in Reads, reads' = [reads EXCEPT ![r] = q],
         latest' = latest, basedOn' = basedOn,
         stored' \in [validator : 0 .. MaxId, rows : SUBSET RulesetIds],
         StoredHonest', Honest(q)
  PROVE  CacheInv'
<1>1. \A k : History(k)' = History(k)
  BY HonestStays
<1>2. CacheTypeOK' /\ Based'
  BY DEF CacheInv, CacheTypeOK, Based
<1>3. ASSUME NEW s \in Readers PROVE Honest(reads[s])'
  <2>1. CASE s = r
    <3>1. reads'[s] = q
      BY <2>1 DEF CacheInv, CacheTypeOK
    <3> QED
      BY <1>1, <3>1 DEF Honest
  <2>2. CASE s # r
    <3>1. reads'[s] = reads[s]
      BY <2>2 DEF CacheInv, CacheTypeOK
    <3> QED
      BY <3>1, HonestStays
  <2> QED
    BY <2>1, <2>2
<1> QED
  BY <1>2, <1>3 DEF CacheInv

LEMMA AskKeeps ==
  ASSUME CacheInv, NEW r \in Readers, AskValidator(r) \/ Validated(r) \/ LoadFails(r)
  PROVE  CacheInv'
<1> DEFINE old == reads[r]
<1>1. /\ old \in Reads /\ Honest(old) /\ latest \in 0 .. MaxId /\ latest \in Nat
      /\ UNCHANGED <<latest, basedOn, stored>>
      /\ stored \in [validator : 0 .. MaxId, rows : SUBSET RulesetIds]
      /\ reads \in [Readers -> Reads]
  BY ViewCacheAssumption
     DEF AskValidator, Validated, LoadFails, CacheInv, CacheTypeOK, RulesetIds
<1>2. StoredHonest'
  BY <1>1, HonestStays
<1> SUFFICES \E q \in Reads : reads' = [reads EXCEPT ![r] = q] /\ Honest(q)
  BY <1>1, <1>2, ReadKeeps
<1>3. CASE AskValidator(r)
  <2> DEFINE q == [old EXCEPT !.at = "asked", !.began = latest]
  <2>1. old.at = "new" /\ reads' = [reads EXCEPT ![r] = q]
    BY <1>1, <1>3 DEF AskValidator
  <2>2. /\ q \in Reads /\ q.at = "asked" /\ q.began = latest /\ q.next = old.next
        /\ q.rows = old.rows /\ q.validator = old.validator
    BY <1>1 DEF Reads
  <2> HIDE DEF q
  <2>3. Honest(q)
    BY <1>1, <2>1, <2>2 DEF Honest
  <2> QED
    BY <2>1, <2>2, <2>3
<1>4. CASE LoadFails(r)
  <2> DEFINE q == [old EXCEPT !.at = "failed"]
  <2>1. reads' = [reads EXCEPT ![r] = q]
    BY <1>1, <1>4 DEF LoadFails
  <2>2. /\ q \in Reads /\ q.at = "failed" /\ q.began = old.began /\ q.next = old.next
        /\ q.rows = old.rows /\ q.validator = old.validator
    BY <1>1 DEF Reads
  <2> QED
    BY <1>1, <2>1, <2>2 DEF Honest
<1>5. CASE Validated(r)
  <2>1. old.at = "asked" /\ old.next = 0 /\ old.rows = {} /\ old.began <= latest /\ old.began \in Nat
    BY <1>1, <1>5 DEF Validated, Honest, Reads
  <2>2. PICK v \in {0, latest} :
          \/ /\ v # 0 /\ stored.validator = v
             /\ reads' = [reads EXCEPT ![r] =
                            [old EXCEPT !.at = "served", !.validator = v, !.rows = stored.rows]]
          \/ reads' = [reads EXCEPT ![r] = [old EXCEPT !.at = "load", !.validator = v]]
    BY <1>1, <1>5 DEF Validated
  <2>3. v \in 0 .. MaxId /\ v <= latest /\ v \in Nat
    BY <1>1, <2>2, IdFacts
  <2>4. CASE /\ v # 0 /\ stored.validator = v
             /\ reads' = [reads EXCEPT ![r] =
                            [old EXCEPT !.at = "served", !.validator = v, !.rows = stored.rows]]
    <3> DEFINE q == [old EXCEPT !.at = "served", !.validator = v, !.rows = stored.rows]
    <3>1. /\ q \in Reads /\ q.at = "served" /\ q.began = old.began /\ q.next = old.next
          /\ q.rows = stored.rows /\ q.validator = v
      BY <1>1, <2>3 DEF Reads
    <3>2. stored.validator = latest
      BY <2>2, <2>4
    <3>3. stored.rows = History(latest)
      <4>1. PICK k \in stored.validator .. latest : stored.rows = History(k)
        BY <2>4 DEF CacheInv, StoredHonest
      <4>2. k = latest
        BY <1>1, <3>2, <4>1
      <4> QED
        BY <4>1, <4>2
    <3>4. latest \in old.began .. latest
      BY <1>1, <2>1
    <3> QED
      BY <1>1, <2>1, <2>3, <2>4, <3>1, <3>3, <3>4 DEF Honest
  <2>5. CASE reads' = [reads EXCEPT ![r] = [old EXCEPT !.at = "load", !.validator = v]]
    <3> DEFINE q == [old EXCEPT !.at = "load", !.validator = v]
    <3>1. /\ q \in Reads /\ q.at = "load" /\ q.began = old.began /\ q.next = 0
          /\ q.rows = {} /\ q.validator = v
      BY <1>1, <2>1, <2>3 DEF Reads
    <3> QED
      BY <1>1, <2>1, <2>3, <2>5, <3>1 DEF Honest
  <2> QED
    BY <2>2, <2>4, <2>5
<1> QED
  BY <1>3, <1>4, <1>5

\* A page takes from the walk what the next page will not hold.
LEMMA LoadKeeps ==
  ASSUME CacheInv, NEW r \in Readers, LoadPage(r)
  PROVE  CacheInv'
<1> DEFINE old == reads[r]
           start == IF old.next = 0 THEN latest ELSE old.next
           walk == History(start)
           page == {i \in walk : Cardinality({j \in walk : j >= i}) <= Page}
           last == CHOOSE i \in page : \A j \in page : i <= j
           rows == old.rows \cup page
<1>1. /\ old \in Reads /\ Honest(old) /\ old.at = "load" /\ Descends(basedOn)
      /\ latest \in Nat /\ latest \in RulesetIds /\ UNCHANGED <<latest, basedOn>>
      /\ stored \in [validator : 0 .. MaxId, rows : SUBSET RulesetIds]
      /\ reads \in [Readers -> Reads]
  BY BasedDescends, ViewCacheAssumption
     DEF LoadPage, CacheInv, CacheTypeOK, RulesetIds
<1>2. /\ old.next \in 0 .. MaxId /\ old.began \in Nat /\ old.validator \in Nat
      /\ old.validator \in 0 .. MaxId /\ old.rows \subseteq RulesetIds /\ old.next \in Nat
  BY <1>1, IdFacts DEF Reads
<1>3. start \in RulesetIds /\ start <= latest
  BY <1>1, <1>2, IdFacts DEF Honest
<1>4. /\ last \in RulesetIds /\ last <= start /\ page \subseteq RulesetIds
      /\ walk = page \cup History(basedOn[last])
  <2>1. walk = HistoryBy(basedOn, start) /\ History(basedOn[last]) = HistoryBy(basedOn, basedOn[last])
    BY HistoryIs
  <2>2. page = PageOf(walk) /\ last = LastOf(page)
    BY DEF PageOf, LastOf
  <2>3. LET w == HistoryBy(basedOn, start)
            g == PageOf(w)
            l == LastOf(g)
        IN  /\ l \in RulesetIds /\ l <= start /\ g \subseteq RulesetIds
            /\ w = g \cup HistoryBy(basedOn, basedOn[l])
    <3> HIDE DEF start
    <3> QED
      BY <1>1, <1>3, PageCuts
  <2> HIDE DEF start, walk, page, last
  <2> QED
    BY <2>1, <2>2, <2>3
<1>5. /\ \/ /\ basedOn[last] # 0 /\ stored' = stored
            /\ reads' = [reads EXCEPT ![r] = [old EXCEPT !.rows = rows, !.next = basedOn[last]]]
         \/ /\ basedOn[last] = 0 /\ StoreLoaded(r, rows)
            /\ reads' = [reads EXCEPT ![r] = [old EXCEPT !.at = "served", !.rows = rows]]
  BY <1>1 DEF LoadPage
<1>6. basedOn[last] \in 0 .. MaxId /\ basedOn[last] < last /\ last \in Nat /\ basedOn[last] \in Nat
  BY <1>1, <1>4, IdFacts DEF Descends
<1>7. PICK k \in old.began .. latest : k >= old.validator /\ old.rows \cup walk = History(k)
  <2>1. CASE old.next = 0
    BY <1>1, <1>2, <2>1 DEF Honest
  <2>2. CASE old.next # 0
    BY <1>1, <2>2 DEF Honest
  <2> QED
    BY <2>1, <2>2
<1>8. rows \cup History(basedOn[last]) = History(k) /\ rows \subseteq RulesetIds
  BY <1>2, <1>4, <1>7
<1> HIDE DEF walk, page, last, rows, start
<1>9. CASE /\ basedOn[last] # 0 /\ stored' = stored
           /\ reads' = [reads EXCEPT ![r] = [old EXCEPT !.rows = rows, !.next = basedOn[last]]]
  <2> DEFINE q == [old EXCEPT !.rows = rows, !.next = basedOn[last]]
  <2>1. /\ q \in Reads /\ q.at = "load" /\ q.began = old.began /\ q.next = basedOn[last]
        /\ q.rows = rows /\ q.validator = old.validator
    BY <1>1, <1>6, <1>8 DEF Reads
  <2>2. q.next <= latest
    <3>1. start \in Nat
      BY <1>3, IdFacts
    <3> QED
      BY <1>1, <1>3, <1>4, <1>6, <2>1, <3>1
  <2>3. Honest(q)
    BY <1>1, <1>7, <1>8, <1>9, <2>1, <2>2 DEF Honest
  <2>4. StoredHonest'
    BY <1>1, <1>9, HonestStays
  <2> QED
    BY <1>1, <1>9, <2>1, <2>3, <2>4, ReadKeeps
<1>10. CASE /\ basedOn[last] = 0 /\ StoreLoaded(r, rows)
            /\ reads' = [reads EXCEPT ![r] = [old EXCEPT !.at = "served", !.rows = rows]]
  <2> DEFINE q == [old EXCEPT !.at = "served", !.rows = rows]
  <2>1. /\ q \in Reads /\ q.at = "served" /\ q.began = old.began /\ q.next = old.next
        /\ q.rows = rows /\ q.validator = old.validator
    BY <1>1, <1>8 DEF Reads
  <2>2. rows = History(k)
    <3>1. History(0) = {}
      BY <1>1, HistoryIs, HistoryUnfolds
    <3> QED
      BY <1>8, <1>10, <3>1
  <2>3. Honest(q)
    BY <1>1, <1>7, <2>1, <2>2 DEF Honest
  <2>4. /\ stored' \in [validator : 0 .. MaxId, rows : SUBSET RulesetIds]
        /\ \/ stored' = stored
           \/ stored'.validator = 0
           \/ stored'.validator = old.validator /\ stored'.rows = rows
    BY <1>1, <1>2, <1>8, <1>10, IdFacts DEF StoreLoaded, CacheSet, NothingStored
  <2>5. StoredHonest'
    <3>1. CASE stored' = stored
      BY <1>1, <3>1, HonestStays
    <3>2. CASE stored'.validator = 0
      BY <3>2 DEF StoredHonest
    <3>3. CASE stored'.validator = old.validator /\ stored'.rows = rows
      <4>1. k \in old.validator .. latest /\ History(k)' = History(k)
        BY <1>1, <1>2, <1>7, HonestStays
      <4> QED
        BY <1>1, <2>2, <3>3, <4>1 DEF StoredHonest
    <3> QED
      BY <2>4, <3>1, <3>2, <3>3
  <2> QED
    BY <1>1, <1>10, <2>1, <2>3, <2>4, <2>5, ReadKeeps
<1> QED
  BY <1>5, <1>9, <1>10

LEMMA CacheStep == CacheInv /\ [CacheNext]_cacheVars => CacheInv'
<1> SUFFICES ASSUME CacheInv, [CacheNext]_cacheVars PROVE CacheInv'
  OBVIOUS
<1>1. CASE UNCHANGED cacheVars
  <2>1. /\ latest' = latest /\ basedOn' = basedOn /\ stored' = stored /\ reads' = reads
    BY <1>1 DEF cacheVars
  <2>2. CacheTypeOK' /\ Based'
    BY <2>1 DEF CacheInv, CacheTypeOK, Based
  <2> QED
    BY <2>1, <2>2, HonestStays DEF CacheInv
<1> QED
  BY <1>1, QueueKeeps, AskKeeps, LoadKeeps DEF CacheNext

\* What a call returns, stored or loaded, is the whole history of one moment at or after the
\* call, for any number of rulesets that skip any of their forerunners, any page size and any
\* calls and windows at once: an entry is stored for the id read before its rows, so it is
\* served only while nothing was queued since (cache.js:116-135, discover.js:5474-5503).
THEOREM CacheHonestAlways == CacheSpec => []CacheHonest
<1>1. CacheInv => CacheHonest
  BY DEF CacheInv, CacheHonest, Honest
<1> QED
  BY <1>1, CacheInitInv, CacheStep, PTL DEF CacheSpec

\* What is stored and read are rulesets that were queued, or nothing (cache.js:42-66).
THEOREM CacheTypes == CacheSpec => []CacheTypeOK
<1>1. CacheInv => CacheTypeOK
  BY DEF CacheInv
<1> QED
  BY <1>1, CacheInitInv, CacheStep, PTL DEF CacheSpec

----------------------------------------------------------------------------
(* The receipt of a distribution (DistributionReceipt).  Between two       *)
(* settled splits no burn is open, whoever's distribution runs: the        *)
(* verdict so far is exactly the harm so far.                              *)

Logs == [event : {"Burn", "Split", "Reverted", "HookReverted", "Finished"},
         to : {"hook", "dead", "plain"}, count : Counts \cup {0},
         caller : BOOLEAN, own : BOOLEAN]

Verdicts == [finished : BOOLEAN, burn : Nat, failed : BOOLEAN]

LEMMA LogCount == ASSUME NEW l \in Logs PROVE l.count \in Nat
<1>1. l.count \in Counts \cup {0}
  BY DEF Logs
<1>2. Counts \cup {0} \subseteq Nat
  <2>1. Counts \subseteq Nat
    BY DistributionReceiptAssumption
  <2> QED
    BY <2>1
<1> QED
  BY <1>1, <1>2

\* A turn of the loop leaves the other parts of what it knows.
Same(w, v) == (w.finished <=> v.finished) /\ (w.failed <=> v.failed)

\* One turn of the loop: another project's log, a burn, and the logs of a nested distribution
\* and of the reviewed call.
LEMMA ScanOther == ASSUME NEW l \in Logs, NEW v \in Verdicts, ~l.own PROVE Scan(l, v) = v
BY DEF Scan

LEMMA ScanBurn ==
  ASSUME NEW l \in Logs, NEW v \in Verdicts, l.own, l.event = "Burn"
  PROVE  LET w == Scan(l, v) IN w \in Verdicts /\ Same(w, v) /\ w.burn = v.burn + l.count
<1>1. Scan(l, v) = [v EXCEPT !.burn = v.burn + l.count]
  BY DEF Scan
<1>2. v.burn + l.count \in Nat
  BY LogCount DEF Verdicts
<1> QED
  BY <1>1, <1>2 DEF Verdicts, Same

LEMMA ScanNested ==
  ASSUME NEW l \in Logs, NEW v \in Verdicts, l.own, ~l.caller, l.event # "Burn"
  PROVE  LET w == Scan(l, v) IN
         w \in Verdicts /\ Same(w, v) /\ w.burn = IF l.event = "Split" THEN 0 ELSE v.burn
<1>1. Scan(l, v) = IF l.event = "Split" THEN [v EXCEPT !.burn = 0] ELSE v
  BY DEF Scan
<1> QED
  BY <1>1 DEF Verdicts, Same

LEMMA ScanRevert ==
  ASSUME NEW l \in Logs, NEW v \in Verdicts, l.own, l.caller, l.event \in {"Reverted", "HookReverted"}
  PROVE  LET w == Scan(l, v) IN
         w \in Verdicts /\ (w.finished <=> v.finished) /\ w.failed /\ w.burn = v.burn
<1>1. Scan(l, v) = [v EXCEPT !.failed = TRUE]
  BY DEF Scan
<1> QED
  BY <1>1 DEF Verdicts

LEMMA ScanSplit ==
  ASSUME NEW l \in Logs, NEW v \in Verdicts, l.own, l.caller, l.event = "Split"
  PROVE  LET w == Scan(l, v) IN
         /\ w \in Verdicts /\ (w.finished <=> v.finished) /\ w.burn = 0
         /\ w.failed <=> v.failed \/ (v.burn > 0 /\ ~(l.to = "dead" /\ v.burn = l.count))
<1> DEFINE bad == v.failed \/ (v.burn > 0 /\ ~(l.to = "dead" /\ v.burn = l.count))
<1>1. Scan(l, v) = [v EXCEPT !.failed = bad, !.burn = 0]
  BY DEF Scan
<1>2. PICK b \in BOOLEAN : b = bad
  OBVIOUS
<1> HIDE DEF bad
<1> DEFINE u == [v EXCEPT !.failed = b]
<1>3. u \in Verdicts /\ u.failed = b /\ u.finished = v.finished
  BY DEF Verdicts
<1>4. Scan(l, v) = [u EXCEPT !.burn = 0]
  BY <1>1, <1>2
<1> HIDE DEF u
<1>5. LET w == Scan(l, v) IN w \in Verdicts /\ w.finished = v.finished /\ w.burn = 0 /\ w.failed = b
  BY <1>3, <1>4 DEF Verdicts
<1> QED
  BY <1>2, <1>5 DEF bad

LEMMA ScanFinished ==
  ASSUME NEW l \in Logs, NEW v \in Verdicts, l.own, l.caller, l.event = "Finished"
  PROVE  LET w == Scan(l, v) IN
         w \in Verdicts /\ w.finished /\ (w.failed <=> v.failed) /\ w.burn = v.burn
<1>1. Scan(l, v) = [v EXCEPT !.finished = TRUE]
  BY DEF Scan
<1> QED
  BY <1>1 DEF Verdicts

LEMMA ScanType == ASSUME NEW l \in Logs, NEW v \in Verdicts PROVE Scan(l, v) \in Verdicts
<1>1. /\ l.own \in BOOLEAN /\ l.caller \in BOOLEAN
      /\ l.event \in {"Burn", "Split", "Reverted", "HookReverted", "Finished"}
  BY DEF Logs
<1>2. CASE ~l.own
  BY <1>2, ScanOther
<1>3. CASE l.own /\ l.event = "Burn"
  BY <1>3, ScanBurn
<1>4. CASE l.own /\ ~l.caller /\ l.event # "Burn"
  BY <1>4, ScanNested
<1>5. CASE l.own /\ l.caller /\ l.event \in {"Reverted", "HookReverted"}
  BY <1>5, ScanRevert
<1>6. CASE l.own /\ l.caller /\ l.event = "Split"
  BY <1>6, ScanSplit
<1>7. CASE l.own /\ l.caller /\ l.event = "Finished"
  BY <1>7, ScanFinished
<1> QED
  BY <1>1, <1>2, <1>3, <1>4, <1>5, <1>6, <1>7

\* A log of this moment.
LEMMA LogIs ==
  ASSUME NEW e \in {"Burn", "Split", "Reverted", "HookReverted", "Finished"},
         NEW to \in {"hook", "dead", "plain"}, NEW n \in Counts \cup {0}
  PROVE  LET l == Log(e, to, n) IN
         /\ l \in Logs /\ l.event = e /\ l.to = to /\ l.count = n
         /\ l.caller <=> scope = "reviewed"
         /\ l.own <=> scope # "other"
BY DEF Log, Logs

\* f is what the loop knows after each log of s.
Scanned(s, f) == f = [i \in 0 .. Len(s) |-> IF i = 0 THEN ScanStart ELSE Scan(s[i], f[i - 1])]

ScansOf(s) ==
  LET scans[i \in 0 .. Len(s)] == IF i = 0 THEN ScanStart ELSE Scan(s[i], scans[i - 1])
  IN  scans

VerdictOn(s) == ScansOf(s)[Len(s)]

LEMMA ScansExist ==
  ASSUME NEW s \in Seq(Logs)
  PROVE  Scanned(s, ScansOf(s)) /\ \A i \in 0 .. Len(s) : ScansOf(s)[i] \in Verdicts
<1> DEFINE G == [x \in Nat \X Verdicts |-> IF x[1] \in 1 .. Len(s) THEN Scan(s[x[1]], x[2]) ELSE ScanStart]
<1>1. ScanStart \in Verdicts
  BY DEF ScanStart, Verdicts
<1>2. G \in [Nat \X Verdicts -> Verdicts]
  BY <1>1, ScanType
<1>3. Len(s) \in Nat /\ 0 \in Nat /\ 0 <= Len(s)
  OBVIOUS
<1> DEFINE InSteps(f) == Stepwise(0, Len(s), Verdicts, ScanStart, G, f)
<1>4. \E f : InSteps(f)
  <2> HIDE DEF G
  <2> QED
    BY <1>1, <1>2, <1>3, StepByStep
<1> USE DEF Stepwise
<1>5. ASSUME NEW f, InSteps(f) PROVE Scanned(s, f)
  <2>1. ASSUME NEW i \in 0 .. Len(s) PROVE f[i] = IF i = 0 THEN ScanStart ELSE Scan(s[i], f[i - 1])
    <3>1. CASE i = 0
      BY <1>5, <3>1
    <3>2. CASE i # 0
      <4>1. i \in 1 .. Len(s) /\ i \in Nat /\ i - 1 \in 0 .. Len(s)
        BY <1>3, <3>2
      <4>2. f[i - 1] \in Verdicts
        BY <1>5, <4>1
      <4>3. G[<<i, f[i - 1]>>] = Scan(s[i], f[i - 1])
        BY <4>1, <4>2
      <4> HIDE DEF G
      <4> QED
        BY <1>5, <3>2, <4>3
    <3> QED
      BY <3>1, <3>2
  <2>2. f = [i \in 0 .. Len(s) |-> f[i]]
    BY <1>5
  <2> QED
    BY <2>1, <2>2 DEF Scanned
<1> HIDE DEF InSteps
<1>6. Scanned(s, ScansOf(s))
  <2>1. \E f : Scanned(s, f)
    BY <1>4, <1>5
  <2>2. ScansOf(s) = CHOOSE f : Scanned(s, f)
    BY DEF ScansOf, Scanned
  <2> QED
    BY <2>1, <2>2
<1>7. ASSUME NEW i \in 0 .. Len(s) PROVE ScansOf(s)[i] \in Verdicts
  <2> DEFINE Bad == {k \in Nat : k \in 0 .. Len(s) /\ ScansOf(s)[k] \notin Verdicts}
  <2> SUFFICES ASSUME Bad # {} PROVE FALSE
    BY <1>3
  <2>1. PICK k \in Bad : \A n \in Bad : k <= n
    BY LeastIn
  <2>2. ScansOf(s)[k] = IF k = 0 THEN ScanStart ELSE Scan(s[k], ScansOf(s)[k - 1])
    BY <1>6, <2>1 DEF Scanned
  <2>3. k # 0
    BY <1>1, <2>1, <2>2
  <2>4. k - 1 \in Nat /\ k - 1 \in 0 .. Len(s) /\ k \in 1 .. Len(s) /\ s[k] \in Logs
    BY <1>3, <2>1, <2>3
  <2>5. ScansOf(s)[k - 1] \in Verdicts
    BY <2>1, <2>4
  <2> QED
    BY <2>1, <2>2, <2>3, <2>4, <2>5, ScanType
<1> QED
  BY <1>6, <1>7

LEMMA ScansAre == Verified <=> LET v == VerdictOn(logs) IN ~v.failed /\ v.burn = 0 /\ v.finished
BY DEF Verified, Scans, VerdictOn, ScansOf

\* One more log is one more turn of the loop.
LEMMA VerdictGrows ==
  ASSUME NEW s \in Seq(Logs), NEW l \in Logs
  PROVE  /\ VerdictOn(s) \in Verdicts
         /\ Append(s, l) \in Seq(Logs)
         /\ VerdictOn(Append(s, l)) = Scan(l, VerdictOn(s))
<1> DEFINE t == Append(s, l)
           f == ScansOf(s)
           g == ScansOf(t)
<1>1. /\ t \in Seq(Logs) /\ Len(t) = Len(s) + 1 /\ Len(s) \in Nat /\ t[Len(s) + 1] = l
      /\ \A i \in 1 .. Len(s) : t[i] = s[i]
  OBVIOUS
<1>2. Scanned(s, f) /\ Scanned(t, g) /\ VerdictOn(s) \in Verdicts
  <2>1. Len(s) \in 0 .. Len(s)
    BY <1>1
  <2>2. Scanned(t, ScansOf(t))
    <3> HIDE DEF t
    <3> QED
      BY <1>1, ScansExist
  <2> QED
    BY <2>1, <2>2, ScansExist DEF VerdictOn
<1> HIDE DEF f, g, t
<1>3. \A i \in 0 .. Len(s) : f[i] = g[i]
  <2> DEFINE Bad == {i \in Nat : i \in 0 .. Len(s) /\ f[i] # g[i]}
  <2> SUFFICES ASSUME Bad # {} PROVE FALSE
    BY <1>1
  <2>1. PICK i \in Bad : \A j \in Bad : i <= j
    BY LeastIn
  <2>2. i \in 0 .. Len(s) /\ i \in 0 .. Len(t) /\ f[i] # g[i] /\ i \in Nat
    BY <1>1, <2>1
  <2>3. /\ f[i] = IF i = 0 THEN ScanStart ELSE Scan(s[i], f[i - 1])
        /\ g[i] = IF i = 0 THEN ScanStart ELSE Scan(t[i], g[i - 1])
    BY <1>2, <2>2 DEF Scanned
  <2>4. i # 0
    BY <2>2, <2>3
  <2>5. i \in 1 .. Len(s) /\ i - 1 \in Nat /\ i - 1 \in 0 .. Len(s) /\ i - 1 < i
    BY <1>1, <2>2, <2>4
  <2>6. f[i - 1] = g[i - 1]
    BY <2>1, <2>2, <2>5
  <2> QED
    BY <1>1, <2>2, <2>3, <2>4, <2>5, <2>6
<1>4. g[Len(s) + 1] = Scan(t[Len(s) + 1], g[Len(s) + 1 - 1])
  BY <1>1, <1>2 DEF Scanned
<1>5. g[Len(s) + 1 - 1] = f[Len(s)]
  BY <1>1, <1>3
<1> QED
  BY <1>1, <1>2, <1>4, <1>5 DEF VerdictOn, f, g, t

LEMMA VerdictStarts == VerdictOn(<<>>) = ScanStart
<1>1. Scanned(<<>>, ScansOf(<<>>)) /\ 0 \in 0 .. Len(<<>>) /\ Len(<<>>) = 0
  <2>1. <<>> \in Seq(Logs) /\ Len(<<>>) = 0
    OBVIOUS
  <2>2. Scanned(<<>>, ScansOf(<<>>))
    BY <2>1, ScansExist, Zenon
  <2> QED
    BY <2>1, <2>2
<1> QED
  BY <1>1 DEF VerdictOn, Scanned

\* Finished or not, harmed or not, and no open burn.
VerdictIs(v, finish, harm) ==
  v \in Verdicts /\ v.burn = 0 /\ (v.finished <=> finish) /\ (v.failed <=> harm)

ReceiptInv ==
  /\ ReceiptTypeOK
  /\ ended => scope = "reviewed"
  /\ VerdictIs(VerdictOn(logs), ended, harmed)

LEMMA ReceiptInitInv == ReceiptInit => ReceiptInv
<1> SUFFICES ASSUME ReceiptInit PROVE ReceiptInv
  OBVIOUS
<1>1. ReceiptTypeOK /\ scope = "reviewed"
  <2>1. <<>> \in Seq(Logs)
    OBVIOUS
  <2> QED
    BY <2>1 DEF ReceiptInit, ReceiptTypeOK, Logs
<1>2. logs = <<>> /\ ended = FALSE /\ harmed = FALSE
  BY DEF ReceiptInit
<1>3. VerdictIs(VerdictOn(<<>>), FALSE, FALSE)
  <2>1. ScanStart \in Verdicts /\ ScanStart.burn = 0 /\ ~ScanStart.finished /\ ~ScanStart.failed
    BY DEF ScanStart, Verdicts
  <2> QED
    BY <2>1, VerdictStarts DEF VerdictIs
<1> QED
  BY <1>1, <1>2, <1>3 DEF ReceiptInv

\* What the verdict becomes with the two or three logs of a split.
LEMMA VerdictOfMore ==
  ASSUME NEW s \in Seq(Logs), NEW a \in Logs, NEW b \in Logs, NEW c \in Logs
  PROVE  /\ s \o <<a>> \in Seq(Logs) /\ VerdictOn(s \o <<a>>) = Scan(a, VerdictOn(s))
         /\ s \o <<a, b>> \in Seq(Logs) /\ VerdictOn(s \o <<a, b>>) = Scan(b, Scan(a, VerdictOn(s)))
         /\ s \o <<a, b, c>> \in Seq(Logs)
         /\ VerdictOn(s \o <<a, b, c>>) = Scan(c, Scan(b, Scan(a, VerdictOn(s))))
<1>1. /\ s \o <<a>> = Append(s, a) /\ s \o <<a, b>> = Append(Append(s, a), b)
      /\ s \o <<a, b, c>> = Append(Append(Append(s, a), b), c)
  OBVIOUS
<1>2. Append(s, a) \in Seq(Logs) /\ VerdictOn(Append(s, a)) = Scan(a, VerdictOn(s))
  BY VerdictGrows
<1> DEFINE t == Append(s, a)
           u == Append(t, b)
<1> HIDE DEF t
<1>3. t \in Seq(Logs)
  BY <1>2 DEF t
<1>4. u \in Seq(Logs) /\ VerdictOn(u) = Scan(b, VerdictOn(t))
  BY <1>3, VerdictGrows
<1> HIDE DEF u
<1>5. Append(u, c) \in Seq(Logs) /\ VerdictOn(Append(u, c)) = Scan(c, VerdictOn(u))
  BY <1>4, VerdictGrows
<1> QED
  BY <1>1, <1>2, <1>3, <1>4, <1>5 DEF t, u

\* What is burnt for a split of whoever's distribution is settled by that split: it fails the
\* verdict if it is the reviewed call's and was not burnt as reviewed.
LEMMA BurnThenSplit ==
  ASSUME scope \in {"reviewed", "own", "other"}, NEW to \in {"plain", "dead", "hook"},
         NEW m \in Counts, NEW n \in Counts, to = "dead" => m = n,
         NEW v, NEW harm \in BOOLEAN, VerdictIs(v, FALSE, harm)
  PROVE  VerdictIs(Scan(Log("Split", to, n), Scan(Log("Burn", to, m), v)), FALSE,
                   harm \/ (to # "dead" /\ scope = "reviewed"))
<1> DEFINE a == Log("Burn", to, m)
           b == Log("Split", to, n)
           u == Scan(a, v)
<1>1. /\ a \in Logs /\ a.event = "Burn" /\ a.count = m /\ (a.own <=> scope # "other")
      /\ b \in Logs /\ b.event = "Split" /\ b.to = to /\ b.count = n
      /\ (b.caller <=> scope = "reviewed") /\ (b.own <=> scope # "other")
  BY LogIs
<1>2. v \in Verdicts /\ v.burn = 0 /\ ~v.finished /\ (v.failed <=> harm)
  BY DEF VerdictIs
<1>3. m \in Nat /\ m > 0
  BY DistributionReceiptAssumption
<1> HIDE DEF a, b
<1>4. CASE scope = "other"
  <2>1. u = v /\ Scan(b, u) = v
    BY <1>1, <1>2, <1>4, ScanOther
  <2> QED
    BY <1>2, <1>4, <2>1 DEF VerdictIs, a, b
<1>5. CASE scope # "other"
  <2>1. u \in Verdicts /\ ~u.finished /\ (u.failed <=> harm) /\ u.burn = m
    BY <1>1, <1>2, <1>3, <1>5, ScanBurn DEF Same
  <2> HIDE DEF u
  <2>2. CASE scope = "own"
    <3>1. LET w == Scan(b, u) IN w \in Verdicts /\ ~w.finished /\ (w.failed <=> harm) /\ w.burn = 0
      BY <1>1, <2>1, <2>2, ScanNested DEF Same
    <3> QED
      BY <2>2, <3>1 DEF VerdictIs, a, b, u
  <2>3. CASE scope = "reviewed"
    <3>1. LET w == Scan(b, u) IN
          w \in Verdicts /\ ~w.finished /\ w.burn = 0
            /\ (w.failed <=> harm \/ (m > 0 /\ ~(to = "dead" /\ m = n)))
      BY <1>1, <2>1, <2>3, ScanSplit
    <3>2. (m > 0 /\ ~(to = "dead" /\ m = n)) <=> to # "dead"
      BY <1>3
    <3> QED
      BY <2>3, <3>1, <3>2 DEF VerdictIs, a, b, u
  <2> QED
    BY <1>5, <2>2, <2>3
<1> QED
  BY <1>4, <1>5

\* The other logs of a split: one that is paid, and a reverted one.
LEMMA SplitAlone ==
  ASSUME scope \in {"reviewed", "own", "other"}, NEW to \in {"plain", "dead", "hook"}, NEW n \in Counts,
         NEW v, NEW harm \in BOOLEAN, VerdictIs(v, FALSE, harm)
  PROVE  VerdictIs(Scan(Log("Split", to, n), v), FALSE, harm)
<1> DEFINE b == Log("Split", to, n)
<1>1. /\ b \in Logs /\ b.event = "Split" /\ (b.caller <=> scope = "reviewed") /\ (b.own <=> scope # "other")
  BY LogIs
<1>2. v \in Verdicts /\ v.burn = 0 /\ ~v.finished /\ (v.failed <=> harm)
  BY DEF VerdictIs
<1> HIDE DEF b
<1>3. CASE scope = "other"
  BY <1>1, <1>2, <1>3, ScanOther DEF VerdictIs, b
<1>4. CASE scope = "own"
  BY <1>1, <1>2, <1>4, ScanNested DEF VerdictIs, Same, b
<1>5. CASE scope = "reviewed"
  <2>1. LET w == Scan(b, v) IN
        w \in Verdicts /\ ~w.finished /\ w.burn = 0 /\ (w.failed <=> harm)
    BY <1>1, <1>2, <1>5, ScanSplit
  <2> QED
    BY <2>1 DEF VerdictIs, b
<1> QED
  BY <1>3, <1>4, <1>5

LEMMA Reverts ==
  ASSUME scope \in {"reviewed", "own", "other"}, NEW e \in {"Reverted", "HookReverted"},
         NEW to \in {"plain", "dead", "hook"}, NEW n \in Counts,
         NEW v, NEW harm \in BOOLEAN, VerdictIs(v, FALSE, harm)
  PROVE  VerdictIs(Scan(Log(e, to, n), v), FALSE, harm \/ scope = "reviewed")
<1> DEFINE b == Log(e, to, n)
<1>1. /\ b \in Logs /\ b.event = e /\ (b.caller <=> scope = "reviewed") /\ (b.own <=> scope # "other")
  BY LogIs
<1>2. v \in Verdicts /\ v.burn = 0 /\ ~v.finished /\ (v.failed <=> harm)
  BY DEF VerdictIs
<1> HIDE DEF b
<1>3. CASE scope = "other"
  BY <1>1, <1>2, <1>3, ScanOther DEF VerdictIs, b
<1>4. CASE scope = "own"
  BY <1>1, <1>2, <1>4, ScanNested DEF VerdictIs, Same, b
<1>5. CASE scope = "reviewed"
  BY <1>1, <1>2, <1>5, ScanRevert DEF VerdictIs, b
<1> QED
  BY <1>3, <1>4, <1>5

\* Every split leaves the verdict at what was harmed.
LEMMA SplitKeeps ==
  ASSUME ReceiptInv, NEW n \in Counts, PlainSplit(n) \/ SplitReverts(n) \/ HookSplit(n)
  PROVE  ReceiptInv'
<1> DEFINE v == VerdictOn(logs)
<1>1. /\ ReceiptTypeOK /\ ~ended /\ ended' = ended /\ scope' = scope /\ logs \in Seq(Logs)
      /\ scope \in {"reviewed", "own", "other"} /\ harmed \in BOOLEAN /\ VerdictIs(v, FALSE, harmed)
  BY DEF ReceiptInv, ReceiptTypeOK, PlainSplit, SplitReverts, HookSplit, Emit, Logs, VerdictIs
<1>2. \A e \in {"Burn", "Split", "Reverted", "HookReverted"}, to \in {"hook", "dead", "plain"}, m \in Counts :
         Log(e, to, m) \in Logs
  BY LogIs
<1> HIDE DEF v
<1> DEFINE Good == logs' \in Seq(Logs) /\ harmed' \in BOOLEAN /\ VerdictIs(VerdictOn(logs'), FALSE, harmed')
<1> SUFFICES Good
  BY <1>1 DEF ReceiptInv, ReceiptTypeOK, Logs, VerdictIs
<1>3. ASSUME NEW to \in {"plain", "hook"}, Emit(<<Log("Split", to, n)>>), Harm(FALSE) PROVE Good
  <2>1. logs' = logs \o <<Log("Split", to, n)>> /\ harmed' = harmed
    BY <1>1, <1>3 DEF Emit, Harm
  <2>2. logs' \in Seq(Logs) /\ VerdictOn(logs') = Scan(Log("Split", to, n), v)
    BY <1>1, <1>2, <2>1, VerdictOfMore DEF v
  <2>3. VerdictIs(Scan(Log("Split", to, n), v), FALSE, harmed)
    BY <1>1, SplitAlone
  <2> QED
    BY <1>1, <2>1, <2>2, <2>3
<1>4. ASSUME NEW to \in {"plain", "dead", "hook"}, NEW m \in Counts, to = "dead" => m = n,
             Emit(<<Log("Burn", to, m), Log("Split", to, n)>>), Harm(to # "dead")
      PROVE  Good
  <2>1. /\ logs' = logs \o <<Log("Burn", to, m), Log("Split", to, n)>>
        /\ harmed' = (harmed \/ (to # "dead" /\ scope = "reviewed"))
    BY <1>4 DEF Emit, Harm
  <2>2. /\ logs' \in Seq(Logs)
        /\ VerdictOn(logs') = Scan(Log("Split", to, n), Scan(Log("Burn", to, m), v))
    BY <1>1, <1>2, <2>1, VerdictOfMore DEF v
  <2>3. VerdictIs(Scan(Log("Split", to, n), Scan(Log("Burn", to, m), v)), FALSE,
                  harmed \/ (to # "dead" /\ scope = "reviewed"))
    <3>1. to = "dead" => m = n
      BY <1>4
    <3> QED
      BY <1>1, <3>1, BurnThenSplit DEF VerdictIs
  <2> QED
    BY <2>1, <2>2, <2>3
<1>5. CASE SplitReverts(n)
  <2> DEFINE a == Log("Reverted", "plain", n)
  <2>1. logs' = logs \o <<a, Log("Split", "plain", n)>> /\ harmed' = (harmed \/ scope = "reviewed")
    BY <1>5 DEF SplitReverts, Emit, Harm
  <2>2. logs' \in Seq(Logs) /\ VerdictOn(logs') = Scan(Log("Split", "plain", n), Scan(a, v))
    BY <1>1, <1>2, <2>1, VerdictOfMore DEF v
  <2>3. VerdictIs(Scan(a, v), FALSE, harmed')
    BY <1>1, <2>1, Reverts
  <2> HIDE DEF a
  <2>4. harmed' \in BOOLEAN
    BY <2>1
  <2>5. VerdictIs(Scan(Log("Split", "plain", n), Scan(a, v)), FALSE, harmed')
    BY <1>1, <2>3, <2>4, SplitAlone
  <2> QED
    BY <2>2, <2>4, <2>5
<1>6. CASE Emit(<<Log("HookReverted", "hook", n), Log("Burn", "hook", n), Log("Split", "hook", n)>>) /\ Harm(TRUE)
  <2> DEFINE a == Log("HookReverted", "hook", n)
             b == Log("Burn", "hook", n)
             c == Log("Split", "hook", n)
             u == Scan(a, v)
  <2>1. logs' = logs \o <<a, b, c>> /\ harmed' = (harmed \/ scope = "reviewed")
    BY <1>6 DEF Emit, Harm
  <2>2. logs' \in Seq(Logs) /\ VerdictOn(logs') = Scan(c, Scan(b, u))
    <3>1. a \in Logs /\ b \in Logs /\ c \in Logs
      BY <1>2
    <3> HIDE DEF a, b, c
    <3> QED
      BY <1>1, <2>1, <3>1, VerdictOfMore DEF v, u
  <2>3. VerdictIs(u, FALSE, harmed') /\ harmed' \in BOOLEAN
    BY <1>1, <2>1, Reverts
  <2> HIDE DEF u
  <2>4. VerdictIs(Scan(c, Scan(b, u)), FALSE, harmed' \/ ("hook" # "dead" /\ scope = "reviewed"))
    BY <1>1, <2>3, BurnThenSplit
  <2>5. VerdictIs(Scan(c, Scan(b, u)), FALSE, harmed')
    BY <2>1, <2>4 DEF VerdictIs
  <2> QED
    BY <2>2, <2>3, <2>5
<1>7. CASE PlainSplit(n)
  BY <1>3, <1>4, <1>7 DEF PlainSplit, Harm
<1>8. CASE HookSplit(n)
  BY <1>3, <1>4, <1>6, <1>8 DEF HookSplit, Harm
<1> QED
  BY <1>5, <1>7, <1>8

\* The end of a distribution is seen for the reviewed call only.
LEMMA EndKeeps ==
  ASSUME ReceiptInv, EndNested \/ Confirm
  PROVE  ReceiptInv'
<1> DEFINE l == Log("Finished", "plain", 0)
           v == VerdictOn(logs)
<1>1. /\ ReceiptTypeOK /\ ~ended /\ logs \in Seq(Logs) /\ logs' = Append(logs, l)
      /\ scope' = "reviewed" /\ harmed' = harmed
      /\ scope \in {"reviewed", "own", "other"} /\ ended' \in BOOLEAN /\ (ended' <=> scope = "reviewed")
      /\ v \in Verdicts /\ v.burn = 0 /\ ~v.finished /\ (v.failed <=> harmed)
  <2>1. /\ ReceiptTypeOK /\ ~ended /\ logs' = Append(logs, l) /\ scope' = "reviewed" /\ harmed' = harmed
        /\ \/ ended' = ended /\ scope # "reviewed"
           \/ ended' = TRUE /\ scope = "reviewed"
    <3>1. CASE EndNested
      BY <3>1 DEF ReceiptInv, EndNested
    <3>2. CASE Confirm
      BY <3>2 DEF ReceiptInv, Confirm
    <3> QED
      BY <3>1, <3>2
  <2>2. logs \in Seq(Logs) /\ scope \in {"reviewed", "own", "other"} /\ ended \in BOOLEAN
    BY <2>1 DEF ReceiptTypeOK, Logs
  <2>3. v \in Verdicts /\ v.burn = 0 /\ ~v.finished /\ (v.failed <=> harmed)
    BY <2>1 DEF ReceiptInv, VerdictIs
  <2> HIDE DEF l, v
  <2>4. ended' \in BOOLEAN /\ (ended' <=> scope = "reviewed")
    <3>1. ended = FALSE
      BY <2>1, <2>2
    <3>2. CASE scope = "reviewed"
      <4>1. ended' = TRUE
        BY <2>1, <3>2
      <4> QED
        BY <3>2, <4>1
    <3>3. CASE scope # "reviewed"
      <4>1. ended' = FALSE
        BY <2>1, <3>1, <3>3
      <4> QED
        BY <3>3, <4>1
    <3> QED
      BY <3>2, <3>3
  <2> QED
    BY <2>1, <2>2, <2>3, <2>4
<1>2. /\ l \in Logs /\ l.event = "Finished" /\ (l.caller <=> scope = "reviewed") /\ (l.own <=> scope # "other")
  BY LogIs
<1> HIDE DEF l
<1>3. logs' \in Seq(Logs) /\ VerdictOn(logs') = Scan(l, v)
  BY <1>1, <1>2, VerdictGrows
<1> HIDE DEF v
<1>4. LET w == Scan(l, v) IN
      w \in Verdicts /\ w.burn = 0 /\ (w.finished <=> scope = "reviewed") /\ (w.failed <=> harmed)
  <2>1. CASE scope = "other"
    BY <1>1, <1>2, <2>1, ScanOther
  <2>2. CASE scope = "own"
    BY <1>1, <1>2, <2>2, ScanNested DEF Same
  <2>3. CASE scope = "reviewed"
    BY <1>1, <1>2, <2>3, ScanFinished
  <2> QED
    BY <1>1, <2>1, <2>2, <2>3
<1> QED
  BY <1>1, <1>3, <1>4 DEF ReceiptInv, ReceiptTypeOK, Logs, VerdictIs

LEMMA ReceiptStep == ReceiptInv /\ [ReceiptNext]_receiptVars => ReceiptInv'
<1> SUFFICES ASSUME ReceiptInv, [ReceiptNext]_receiptVars PROVE ReceiptInv'
  OBVIOUS
<1>1. CASE UNCHANGED receiptVars
  BY <1>1 DEF receiptVars, ReceiptInv, ReceiptTypeOK
<1>2. CASE BeginNested
  BY <1>2 DEF BeginNested, ReceiptInv, ReceiptTypeOK
<1> QED
  BY <1>1, <1>2, SplitKeeps, EndKeeps DEF ReceiptNext

\* The verdict on a confirmed distribution is right for any splits, hooks and nested
\* distributions of any length and any counts: a burn is held against the split it was logged
\* for and no other (distribution-plan.js:47-84).
THEOREM BurnsMatchedAlways == ReceiptSpec => []BurnsMatched
<1>1. ReceiptInv => BurnsMatched
  BY ScansAre DEF ReceiptInv, BurnsMatched, VerdictIs
<1> QED
  BY <1>1, ReceiptInitInv, ReceiptStep, PTL DEF ReceiptSpec

\* The logs of a receipt are sequences of the events the scan knows
\* (DISTRIBUTION_RECEIPT_ABI, distribution-plan.js:6-12).
THEOREM ReceiptTypes == ReceiptSpec => []ReceiptTypeOK
<1>1. ReceiptInv => ReceiptTypeOK
  BY DEF ReceiptInv
<1> QED
  BY <1>1, ReceiptInitInv, ReceiptStep, PTL DEF ReceiptSpec

----------------------------------------------------------------------------
(* The schedule of queued rulesets (RulesetSchedule).  Every start is at   *)
(* least what the notice asks for at the time of the computation, and the  *)
(* end of the window is at most what it asks for at any later one.         *)

LEMMA GreatestIn ==
  ASSUME NEW S \in SUBSET Nat, S # {}, NEW bound \in Nat, \A y \in S : y <= bound
  PROVE  Max(S) \in S /\ \A y \in S : y <= Max(S)
<1> DEFINE Bounds == {b \in Nat : \A y \in S : y <= b}
<1>1. PICK m \in Bounds : \A b \in Bounds : m <= b
  <2>1. Bounds # {} /\ Bounds \in SUBSET Nat
    OBVIOUS
  <2> HIDE DEF Bounds
  <2> QED
    BY <2>1, LeastIn
<1>2. m \in Nat /\ \A y \in S : y <= m
  OBVIOUS
<1>3. m \in S
  <2> SUFFICES ASSUME m \notin S PROVE FALSE
    OBVIOUS
  <2>1. \A y \in S : y \in Nat /\ y < m
    BY <1>2
  <2>2. m > 0 /\ m - 1 \in Nat
    <3>1. PICK y \in S : TRUE
      OBVIOUS
    <3> QED
      BY <1>2, <2>1, <3>1
  <2>3. m - 1 \in Bounds
    BY <2>1, <2>2
  <2> QED
    BY <1>1, <1>2, <2>3
<1>4. \E x \in S : \A y \in S : x >= y
  BY <1>2, <1>3
<1>5. Max(S) \in S /\ \A y \in S : Max(S) >= y
  BY <1>4 DEF Max
<1> QED
  BY <1>5

LEMMA GreaterOf ==
  ASSUME NEW a \in Nat, NEW b \in Nat
  PROVE  Max({a, b}) \in Nat /\ Max({a, b}) >= a /\ Max({a, b}) >= b
<1> DEFINE S == {a, b}
<1>1. S \in SUBSET Nat /\ S # {} /\ a + b \in Nat /\ \A y \in S : y <= a + b
  OBVIOUS
<1>2. a \in S /\ b \in S
  OBVIOUS
<1> HIDE DEF S
<1>3. Max(S) \in S /\ \A y \in S : y <= Max(S)
  BY <1>1, GreatestIn
<1>4. Max(S) \in Nat /\ Max(S) >= a /\ Max(S) >= b
  BY <1>1, <1>2, <1>3
<1> QED
  BY <1>4 DEF S

\* A derived start is a boundary of its base, at or after what it must be.
LEMMA DeriveFacts ==
  ASSUME NEW start \in Nat, NEW duration \in Nat, NEW must \in Nat, must >= start + duration
  PROVE  LET d == DeriveStartFrom(start, duration, must) IN
         /\ d \in Nat /\ d >= must
         /\ duration > 0 => (d - start) % duration = 0
<1> DEFINE next == start + duration
           rest == (must - next) % duration
           d == DeriveStartFrom(start, duration, must)
<1>1. CASE duration = 0
  <2>1. d = must
    BY <1>1 DEF DeriveStartFrom
  <2> QED
    BY <1>1, <2>1
<1>2. CASE duration > 0 /\ next >= must
  <2>1. d = next
    BY <1>2 DEF DeriveStartFrom
  <2>2. next - start = duration /\ duration % duration = 0
    BY <1>2
  <2> QED
    BY <1>2, <2>1, <2>2
<1>3. CASE duration > 0 /\ next < must
  <2> DEFINE turns == (must - next) \div duration
  <2>1. /\ must - next = duration * turns + rest /\ rest \in 0 .. duration - 1
        /\ turns \in Int /\ must - next \in Nat
    <3>1. must - next \in Nat
      BY <1>3
    <3> DEFINE m == must - next
    <3> HIDE DEF m
    <3>2. m \in Nat => m = duration * (m \div duration) + (m % duration) /\ m % duration \in 0 .. duration - 1
                       /\ m \div duration \in Int
      BY <1>3
    <3> QED
      BY <3>1, <3>2 DEF m
  <2>2. d = IF must > must - rest THEN must - rest + duration ELSE must - rest
    BY <1>3 DEF DeriveStartFrom
  <2> HIDE DEF d, turns, rest
  <2>3. d \in Int /\ d >= must /\ d \in Nat
    BY <1>3, <2>1, <2>2
  <2>4. d - start = duration * turns + duration \/ d - start = duration * turns + duration + duration
    BY <1>3, <2>1, <2>2
  <2>5. duration * (turns + 1) = duration * turns + duration
        /\ duration * (turns + 2) = duration * turns + duration + duration
    BY <2>1
  <2>6. (duration * (turns + 1)) % duration = 0 /\ (duration * (turns + 2)) % duration = 0
    <3>1. \A k \in Int : (duration * k) % duration = 0
      BY <1>3
    <3> QED
      BY <2>1, <3>1
  <2>7. (d - start) % duration = 0
    BY <2>4, <2>5, <2>6
  <2> QED
    BY <2>3, <2>7 DEF d
<1> QED
  BY <1>1, <1>2, <1>3

Plans == [parent : Parents, stages : UNION {[1 .. n -> Stages] : n \in 1 .. MaxStages},
          firstStart : FirstStarts]

LEMMA PlanFacts ==
  ASSUME plan \in Plans, ~Throws
  PROVE  /\ \E n \in Nat : n >= 1 /\ DOMAIN plan.stages = 1 .. n
         /\ \A i \in DOMAIN plan.stages :
              plan.stages[i] \in [date : Nat, cycles : Nat, duration : Nat, notice : Nat \cup {Unset}]
         /\ \A i \in DOMAIN plan.stages : HasBase(i) => NoticeOf(i) \in Nat
         /\ Child => /\ plan.parent \in [start : Nat, duration : Nat, notice : Nat, latestId : Nat,
                                         validUntil : Nat \cup {Unset}, automatic : BOOLEAN]
                     /\ plan.parent.validUntil # Unset => plan.parent.validUntil \in Nat
         /\ plan.firstStart \in Nat
         /\ LatestId \in Nat /\ QueueId \in Nat /\ QueueId >= Now /\ QueueId >= LatestId + 1
<1>1. PICK n \in 1 .. MaxStages : plan.stages \in [1 .. n -> Stages]
  BY DEF Plans
<1>2. n \in Nat /\ n >= 1 /\ DOMAIN plan.stages = 1 .. n /\ 1 \in DOMAIN plan.stages
  BY <1>1, RulesetScheduleAssumption
<1>3. \A i \in DOMAIN plan.stages :
        plan.stages[i] \in [date : Nat, cycles : Nat, duration : Nat, notice : Nat \cup {Unset}]
  BY <1>1, <1>2, RulesetScheduleAssumption
<1>4. Child => plan.parent \in [start : Nat, duration : Nat, notice : Nat \cup {Unset}, latestId : Nat,
                                validUntil : Nat \cup {Unset}, automatic : BOOLEAN]
  BY RulesetScheduleAssumption DEF Child, Plans
<1>5. \A i \in DOMAIN plan.stages : HasBase(i) => NoticeOf(i) # Unset
  BY DEF Throws
<1>6. \A i \in DOMAIN plan.stages : HasBase(i) => NoticeOf(i) \in Nat
  <2> SUFFICES ASSUME NEW i \in DOMAIN plan.stages, HasBase(i) PROVE NoticeOf(i) \in Nat
    OBVIOUS
  <2>1. CASE i = 1
    <3>1. Child /\ plan.parent.notice \in Nat \cup {Unset}
      BY <1>4, <2>1 DEF HasBase
    <3> QED
      BY <1>5, <2>1, <3>1 DEF NoticeOf
  <2>2. CASE i # 1
    <3>1. i - 1 \in DOMAIN plan.stages
      BY <1>2, <2>2
    <3>2. plan.stages[i - 1].notice \in Nat \cup {Unset}
      BY <1>3, <3>1
    <3> QED
      BY <1>5, <2>2, <3>2 DEF NoticeOf
  <2> QED
    BY <2>1, <2>2
<1>7. Child => plan.parent.notice \in Nat
  BY <1>2, <1>6 DEF HasBase, NoticeOf
<1>8. LatestId \in Nat
  BY <1>4 DEF LatestId
<1>9. QueueId \in Nat /\ QueueId >= Now /\ QueueId >= LatestId + 1
  <2>1. Now \in Nat /\ LatestId + 1 \in Nat
    BY <1>8, RulesetScheduleAssumption
  <2> QED
    BY <2>1, GreaterOf DEF QueueId
<1>10. plan.firstStart \in Nat
  BY RulesetScheduleAssumption DEF Plans
<1> QED
  BY <1>2, <1>3, <1>4, <1>6, <1>7, <1>8, <1>9, <1>10

LEMMA DerivedFacts ==
  ASSUME NEW base, base.start \in Nat, base.duration \in Nat, base.notice \in Nat,
         NEW requested \in Nat, NEW i \in Nat, i >= 1, QueueId \in Nat
  PROVE  LET d == Derived(base, requested, i) IN
         /\ d \in Nat /\ d >= base.start + base.duration
         /\ base.duration > 0 => (d - base.start) % base.duration = 0
         /\ base.notice > 0 => d >= QueueId + i - 1 + base.notice
<1> DEFINE asked == {requested, base.start + base.duration}
                      \cup IF base.notice > 0 THEN {QueueId + i - 1 + base.notice} ELSE {}
           must == Max(asked)
<1>1. base.start + base.duration \in Nat /\ QueueId + i - 1 + base.notice \in Nat
  OBVIOUS
<1>2. /\ asked \in SUBSET Nat /\ asked # {} /\ base.start + base.duration \in asked
      /\ base.notice > 0 => QueueId + i - 1 + base.notice \in asked
  BY <1>1
<1>3. \E b \in Nat : \A y \in asked : y <= b
  <2> DEFINE b == requested + (base.start + base.duration) + (QueueId + i - 1 + base.notice)
  <2>1. b \in Nat /\ \A y \in asked : y <= b
    BY <1>1
  <2> QED
    BY <2>1
<1>4. Derived(base, requested, i) = DeriveStartFrom(base.start, base.duration, must)
  BY DEF Derived
<1> HIDE DEF asked
<1>5. must \in asked /\ \A y \in asked : y <= must
  BY <1>2, <1>3, GreatestIn
<1>6. must \in Nat /\ must >= base.start + base.duration
      /\ (base.notice > 0 => must >= QueueId + i - 1 + base.notice)
  BY <1>1, <1>2, <1>5
<1> HIDE DEF must
<1>7. LET d == DeriveStartFrom(base.start, base.duration, must) IN
      d \in Nat /\ d >= must /\ (base.duration > 0 => (d - base.start) % base.duration = 0)
  BY <1>6, DeriveFacts
<1> QED
  BY <1>1, <1>4, <1>6, <1>7

FirstOf == IF Child THEN Derived(plan.parent, First, 1) ELSE First

Requested(before, i) ==
  IF plan.stages[i].date # 0 THEN plan.stages[i].date
  ELSE before + Max({plan.stages[i].cycles, 1}) * Base(before, i).duration

NextOf(before, i) == Derived(Base(before, i), Requested(before, i), i)

LEMMA FirstType ==
  ASSUME plan \in Plans, ~Throws
  PROVE  First \in Nat /\ FirstOf \in Nat
<1> DEFINE asked == IF plan.firstStart # 0 THEN plan.firstStart ELSE IF Child THEN Now ELSE Now + Lead
<1>1. asked \in Nat
  BY PlanFacts, RulesetScheduleAssumption
<1>2. First = asked \/ (Child /\ First = Max({asked, Now + Lead + plan.parent.notice}))
  BY DEF First
<1>3. Child => Now + Lead + plan.parent.notice \in Nat
  BY PlanFacts, RulesetScheduleAssumption
<1> HIDE DEF asked
<1>4. First \in Nat
  <2>1. CASE First = asked
    BY <1>1, <2>1
  <2>2. CASE Child /\ First = Max({asked, Now + Lead + plan.parent.notice})
    BY <1>1, <1>3, <2>2, GreaterOf
  <2> QED
    BY <1>2, <2>1, <2>2
<1>5. ASSUME Child PROVE Derived(plan.parent, First, 1) \in Nat
  <2>1. /\ plan.parent.start \in Nat /\ plan.parent.duration \in Nat /\ plan.parent.notice \in Nat
        /\ QueueId \in Nat
    BY <1>5, PlanFacts
  <2>2. 1 \in Nat /\ 1 >= 1
    OBVIOUS
  <2> QED
    BY <1>4, <2>1, <2>2, DerivedFacts
<1> QED
  BY <1>4, <1>5 DEF FirstOf

\* What a later ruleset is based on.
LEMMA BaseIs ==
  ASSUME plan \in Plans, ~Throws, NEW before \in Nat, NEW i \in DOMAIN plan.stages, i # 1
  PROVE  /\ i \in Nat /\ i >= 1 /\ i - 1 \in DOMAIN plan.stages
         /\ Base(before, i).start = before
         /\ Base(before, i).duration \in Nat
         /\ Base(before, i).notice = NoticeOf(i) /\ NoticeOf(i) \in Nat
         /\ Requested(before, i) \in Nat
<1>1. PICK n \in Nat : n >= 1 /\ DOMAIN plan.stages = 1 .. n
  BY PlanFacts
<1>2. i \in Nat /\ i > 1 /\ i - 1 \in DOMAIN plan.stages
  BY <1>1
<1>3. /\ plan.stages[i - 1].duration \in Nat
      /\ plan.stages[i].date \in Nat /\ plan.stages[i].cycles \in Nat
  BY <1>2, PlanFacts
<1>4. /\ Base(before, i).start = before /\ Base(before, i).duration = plan.stages[i - 1].duration
      /\ Base(before, i).notice = NoticeOf(i)
  BY DEF Base, NoticeOf
<1>5. NoticeOf(i) \in Nat
  BY <1>2, PlanFacts DEF HasBase
<1>6. Requested(before, i) \in Nat
  <2>1. Max({plan.stages[i].cycles, 1}) \in Nat
    BY <1>3, GreaterOf
  <2>2. \A c, d \in Nat : before + c * d \in Nat
    OBVIOUS
  <2>3. before + Max({plan.stages[i].cycles, 1}) * Base(before, i).duration \in Nat
    BY <1>3, <1>4, <2>1, <2>2
  <2> QED
    BY <1>3, <2>3 DEF Requested
<1> QED
  BY <1>2, <1>3, <1>4, <1>5, <1>6

LEMMA NextType ==
  ASSUME plan \in Plans, ~Throws, NEW before \in Nat, NEW i \in DOMAIN plan.stages, i # 1
  PROVE  NextOf(before, i) \in Nat
<1>1. QueueId \in Nat
  BY PlanFacts
<1> QED
  BY <1>1, BaseIs, DerivedFacts DEF NextOf

\* f is the starts of the rulesets.
Scheduled(f) == f = [i \in DOMAIN plan.stages |-> IF i = 1 THEN FirstOf ELSE NextOf(f[i - 1], i)]

LEMMA StartsAre ==
  ASSUME plan \in Plans, ~Throws
  PROVE  Scheduled(Starts) /\ \A i \in DOMAIN plan.stages : Starts[i] \in Nat
<1>1. PICK n \in Nat : n >= 1 /\ DOMAIN plan.stages = 1 .. n
  BY PlanFacts
<1> DEFINE G == [x \in Nat \X Nat |-> IF x[1] \in 2 .. n THEN NextOf(x[2], x[1]) ELSE 0]
           InSteps(f) == Stepwise(1, n, Nat, FirstOf, G, f)
<1>2. G \in [Nat \X Nat -> Nat]
  <2>1. \A i \in 2 .. n : i \in DOMAIN plan.stages /\ i # 1
    BY <1>1
  <2> QED
    BY <2>1, NextType
<1>3. \E f : InSteps(f)
  <2> HIDE DEF G
  <2>1. 1 \in Nat /\ 1 <= n
    BY <1>1
  <2> QED
    BY <1>2, <2>1, FirstType, StepByStep
<1>4. ASSUME NEW f, InSteps(f) PROVE Scheduled(f)
  <2> USE DEF Stepwise
  <2>1. ASSUME NEW i \in 1 .. n PROVE f[i] = IF i = 1 THEN FirstOf ELSE NextOf(f[i - 1], i)
    <3>1. CASE i = 1
      BY <1>4, <3>1
    <3>2. CASE i # 1
      <4>1. i \in 2 .. n /\ i \in Nat /\ i - 1 \in 1 .. n
        BY <1>1, <3>2
      <4>2. f[i - 1] \in Nat
        BY <1>4, <4>1
      <4>3. G[<<i, f[i - 1]>>] = NextOf(f[i - 1], i)
        BY <4>1, <4>2
      <4> HIDE DEF G
      <4> QED
        BY <1>4, <3>2, <4>3
    <3> QED
      BY <3>1, <3>2
  <2>2. f = [i \in 1 .. n |-> f[i]]
    BY <1>4
  <2> QED
    BY <1>1, <2>1, <2>2 DEF Scheduled
<1> HIDE DEF InSteps
<1>5. Scheduled(Starts)
  <2>1. \E f : Scheduled(f)
    BY <1>3, <1>4
  <2>2. Starts = CHOOSE f : Scheduled(f)
    BY DEF Starts, Scheduled, FirstOf, NextOf, Requested
  <2> QED
    BY <2>1, <2>2
<1>6. ASSUME NEW i \in DOMAIN plan.stages PROVE Starts[i] \in Nat
  <2> DEFINE Bad == {k \in Nat : k \in 1 .. n /\ Starts[k] \notin Nat}
  <2> SUFFICES ASSUME Bad # {} PROVE FALSE
    BY <1>1
  <2>1. PICK k \in Bad : \A j \in Bad : k <= j
    BY LeastIn
  <2>2. k \in DOMAIN plan.stages /\ Starts[k] = IF k = 1 THEN FirstOf ELSE NextOf(Starts[k - 1], k)
    BY <1>1, <1>5, <2>1 DEF Scheduled
  <2>3. k # 1
    BY <2>1, <2>2, FirstType
  <2>4. k - 1 \in Nat /\ k - 1 \in 1 .. n
    BY <1>1, <2>1, <2>3
  <2>5. Starts[k - 1] \in Nat
    BY <2>1, <2>4
  <2> QED
    BY <2>1, <2>2, <2>3, <2>5, NextType
<1> QED
  BY <1>5, <1>6

\* What every start keeps, of its base and of the notice.
LEMMA StartsKeep ==
  ASSUME plan \in Plans, ~Throws, NEW i \in DOMAIN plan.stages, HasBase(i)
  PROVE  LET base == Base(Starts[IF i = 1 THEN 1 ELSE i - 1], i) IN
         /\ Starts[i] \in Nat /\ Starts[i] >= base.start + base.duration
         /\ base.duration > 0 => (Starts[i] - base.start) % base.duration = 0
         /\ base.notice = NoticeOf(i) /\ base.notice \in Nat
         /\ base.notice > 0 => Starts[i] >= QueueId + i - 1 + base.notice
<1>1. QueueId \in Nat /\ Starts[i] \in Nat /\ Scheduled(Starts)
  BY PlanFacts, StartsAre
<1>2. i \in Nat /\ i >= 1
  BY PlanFacts
<1>3. CASE i = 1
  <2>1. /\ Child /\ plan.parent.start \in Nat /\ plan.parent.duration \in Nat /\ plan.parent.notice \in Nat
        /\ First \in Nat
    BY <1>3, PlanFacts, FirstType DEF HasBase
  <2>2. Starts[i] = Derived(plan.parent, First, i)
    BY <1>1, <1>3, <2>1 DEF Scheduled, FirstOf
  <2>3. Base(Starts[IF i = 1 THEN 1 ELSE i - 1], i) = plan.parent /\ plan.parent.notice = NoticeOf(i)
    BY <1>3 DEF Base, NoticeOf
  <2>4. LET d == Derived(plan.parent, First, i) IN
        /\ d \in Nat /\ d >= plan.parent.start + plan.parent.duration
        /\ plan.parent.duration > 0 => (d - plan.parent.start) % plan.parent.duration = 0
        /\ plan.parent.notice > 0 => d >= QueueId + i - 1 + plan.parent.notice
    BY <1>1, <1>2, <2>1, DerivedFacts
  <2> QED
    BY <1>1, <2>1, <2>2, <2>3, <2>4
<1>4. CASE i # 1
  <2> DEFINE before == Starts[i - 1]
             base == Base(before, i)
  <2>1. i - 1 \in DOMAIN plan.stages
    BY <1>2, <1>4, PlanFacts
  <2>2. before \in Nat
    BY <2>1, StartsAre
  <2>3. Starts[i] = NextOf(before, i)
    BY <1>1, <1>4 DEF Scheduled
  <2> HIDE DEF before
  <2>4. /\ base.start \in Nat /\ base.duration \in Nat /\ base.notice \in Nat /\ base.notice = NoticeOf(i)
        /\ Requested(before, i) \in Nat
    BY <1>4, <2>2, BaseIs
  <2> HIDE DEF base
  <2>5. LET d == Derived(base, Requested(before, i), i) IN
        /\ d \in Nat /\ d >= base.start + base.duration
        /\ base.duration > 0 => (d - base.start) % base.duration = 0
        /\ base.notice > 0 => d >= QueueId + i - 1 + base.notice
    BY <1>1, <1>2, <2>4, DerivedFacts
  <2>6. Starts[i] = Derived(base, Requested(before, i), i)
    BY <2>3 DEF NextOf, base
  <2>7. Base(Starts[IF i = 1 THEN 1 ELSE i - 1], i) = base
    BY <1>4 DEF base, before
  <2> QED
    BY <1>1, <2>4, <2>5, <2>6, <2>7
<1> QED
  BY <1>3, <1>4

Limits == {Limit(Starts, i) : i \in {j \in DOMAIN plan.stages : Noticed(j)}}
            \cup (IF Child THEN {plan.parent.validUntil} \ {Unset} ELSE {})

Until == IF Limits = {} THEN Unset ELSE Min(Limits)

\* No limit is before the time of the computation, so that one is the least.
LEMMA LimitsAre ==
  ASSUME plan \in Plans, ~Throws
  PROVE  \A x \in Limits : Until \in Nat /\ Until <= x
<1>1. ASSUME NEW i \in DOMAIN plan.stages, Noticed(i) PROVE Limit(Starts, i) \in Nat
  <2>1. HasBase(i) /\ NoticeOf(i) # 0 /\ i \in Nat /\ i >= 1 /\ QueueId \in Nat
    BY <1>1, PlanFacts DEF Noticed
  <2>2. Starts[i] \in Nat /\ NoticeOf(i) \in Nat /\ (NoticeOf(i) > 0 => Starts[i] >= QueueId + i - 1 + NoticeOf(i))
    BY <2>1, StartsKeep
  <2>3. Limit(Starts, i) = Starts[i] - NoticeOf(i) - (i - 1)
    BY DEF Limit
  <2> QED
    BY <2>1, <2>2, <2>3
<1>2. Limits \in SUBSET Nat
  <2>1. Child => {plan.parent.validUntil} \ {Unset} \subseteq Nat
    BY PlanFacts
  <2> QED
    BY <1>1, <2>1 DEF Limits
<1> SUFFICES ASSUME NEW x \in Limits PROVE Until \in Nat /\ Until <= x
  OBVIOUS
<1>3. \E m \in Limits : \A n \in Limits : m <= n
  BY <1>2, LeastIn
<1>4. Min(Limits) \in Limits /\ \A n \in Limits : Min(Limits) <= n
  BY <1>3 DEF Min
<1>5. Until = Min(Limits)
  BY DEF Until
<1> QED
  BY <1>2, <1>4, <1>5

\* What the order needs of starts and of an end of the window.
InOrderFrom(starts, until) ==
  /\ \A i \in DOMAIN plan.stages : HasBase(i) =>
       LET base == Base(starts[IF i = 1 THEN 1 ELSE i - 1], i) IN
       /\ starts[i] >= base.start + base.duration
       /\ base.duration > 0 => (starts[i] - base.start) % base.duration = 0
       /\ base.notice > 0 => \A t \in Now .. until :
            starts[i] - (Max({t, LatestId + 1}) + i - 1) >= base.notice
  /\ (Child /\ plan.parent.validUntil # Unset) => until <= plan.parent.validUntil

LEMMA WindowIs ==
  WindowKeepsOrder <=> (schedule # NoSchedule => InOrderFrom(schedule.starts, schedule.validUntil))
BY DEF WindowKeepsOrder, InOrderFrom

LEMMA StartsOrdered ==
  ASSUME plan \in Plans, ~Throws
  PROVE  InOrderFrom(Starts, Until)
<1>1. ASSUME NEW i \in DOMAIN plan.stages, HasBase(i), NoticeOf(i) > 0, NEW t \in Now .. Until
      PROVE  Starts[i] - (Max({t, LatestId + 1}) + i - 1) >= NoticeOf(i)
  <2>1. /\ NoticeOf(i) \in Nat /\ Starts[i] \in Nat /\ Starts[i] >= QueueId + i - 1 + NoticeOf(i)
    BY <1>1, StartsKeep
  <2>2. /\ i \in Nat /\ i >= 1 /\ QueueId \in Nat /\ LatestId + 1 \in Nat /\ QueueId >= LatestId + 1
    BY PlanFacts
  <2>3. Limit(Starts, i) \in Limits
    BY <1>1, <2>1 DEF Limits, Noticed
  <2>4. Until \in Nat /\ Until <= Starts[i] - NoticeOf(i) - (i - 1)
    BY <2>3, LimitsAre DEF Limit
  <2>5. t \in Nat /\ t <= Until
    BY <2>4, RulesetScheduleAssumption
  <2>6. Max({t, LatestId + 1}) \in {t, LatestId + 1}
    <3>1. \A y \in {t, LatestId + 1} : y <= t + (LatestId + 1)
      BY <2>2, <2>5
    <3> QED
      BY <2>2, <2>5, <3>1, GreatestIn
  <2> QED
    BY <2>1, <2>2, <2>4, <2>5, <2>6
<1>2. ASSUME Child, plan.parent.validUntil # Unset PROVE Until <= plan.parent.validUntil
  <2>1. plan.parent.validUntil \in Limits
    BY <1>2 DEF Limits
  <2> QED
    BY <2>1, LimitsAre
<1> QED
  BY <1>1, <1>2, StartsKeep DEF InOrderFrom

ScheduleInv == plan \in Plans /\ WindowKeepsOrder

LEMMA ScheduleInitInv == ScheduleInit => ScheduleInv
BY DEF ScheduleInit, ScheduleInv, Plans, WindowKeepsOrder

LEMMA ScheduleStep == ScheduleInv /\ [OrderedRulesetSchedule]_scheduleVars => ScheduleInv'
<1> SUFFICES ASSUME ScheduleInv, [OrderedRulesetSchedule]_scheduleVars PROVE ScheduleInv'
  OBVIOUS
<1>1. plan' = plan /\ plan \in Plans
  BY DEF OrderedRulesetSchedule, scheduleVars, ScheduleInv
<1>2. /\ Child' <=> Child
      /\ LatestId' = LatestId
      /\ \A i : (HasBase(i)' <=> HasBase(i)) /\ \A before : Base(before, i)' = Base(before, i)
  BY <1>1 DEF HasBase, Child, Base, LatestId
<1>3. WindowKeepsOrder' <=> (schedule' # NoSchedule => InOrderFrom(schedule'.starts, schedule'.validUntil))
  BY <1>1, <1>2 DEF WindowKeepsOrder, InOrderFrom, NoSchedule
<1>4. CASE schedule' = schedule
  BY <1>1, <1>3, <1>4, WindowIs DEF ScheduleInv
<1>5. CASE OrderedRulesetSchedule
  <2>1. ~Throws /\ schedule' = [starts |-> Starts, validUntil |-> Until]
    BY <1>5 DEF OrderedRulesetSchedule, Until, Limits
  <2>2. InOrderFrom(schedule'.starts, schedule'.validUntil)
    BY <1>1, <2>1, StartsOrdered
  <2> QED
    BY <1>1, <1>3, <2>2 DEF ScheduleInv
<1> QED
  BY <1>4, <1>5 DEF scheduleVars

\* A transaction mined at any time of its window queues what was reviewed, for any parents,
\* any number of stages, any dates, cycles, durations and notices: every start is a boundary
\* of the one before it and, since the earlier of the block's time and of the next free id
\* both leave the notice, so does whichever is the id (ruleset-schedule.js:14-51).
THEOREM WindowKeepsOrderAlways == ScheduleSpec => []WindowKeepsOrder
<1>1. ScheduleInv => WindowKeepsOrder
  BY DEF ScheduleInv
<1> QED
  BY <1>1, ScheduleInitInv, ScheduleStep, PTL DEF ScheduleSpec

----------------------------------------------------------------------------
(* The trays of owner steps (SafeBatch).  A step is named by its kind, so  *)
(* a list has one hook and one pool: with its order checked, the hook is   *)
(* before the pool.  Whatever merges, edits and filters lists keeps that.  *)

OncePerKind(s) == \A i, j \in DOMAIN s : s[i].kind = s[j].kind => i = j

Trays == {s \in Seq(Steps) : OncePerKind(s)}
OrderedTrays == {s \in Trays : KeepsItsPools(s)}

LEMMA StepFacts ==
  /\ Hook \in Steps /\ Hook.kind = "setHookFor"
  /\ \A t \in Tokens : PoolOf(t) \in Steps /\ PoolOf(t).kind = "setPoolFor"
  /\ \A x \in Steps : x.kind \in {"setHookFor", "setPoolFor"}
  /\ <<>> \in OrderedTrays
<1>1. <<>> \in Seq(Steps) /\ \A i \in DOMAIN <<>> : FALSE
  OBVIOUS
<1>2. <<>> \in OrderedTrays
  BY <1>1, Zenon DEF OrderedTrays, Trays, OncePerKind, KeepsItsPools
<1>3. Hook \in Steps /\ \A t \in Tokens : PoolOf(t) \in Steps
  BY DEF Steps
<1>4. Hook.kind = "setHookFor" /\ \A t : PoolOf(t).kind = "setPoolFor"
  BY DEF Hook, PoolOf
<1>5. \A x \in Steps : x = Hook \/ \E t \in Tokens : x = PoolOf(t)
  BY DEF Steps
<1> QED
  BY <1>2, <1>3, <1>4, <1>5

\* What is checked is what is meant.
LEMMA OrderedKeepsPools ==
  ASSUME NEW s \in Trays, Ordered(s)
  PROVE  s \in OrderedTrays
<1> SUFFICES ASSUME NEW i \in DOMAIN s, NEW j \in DOMAIN s, s[i].kind = "setHookFor", s[j].kind = "setPoolFor"
             PROVE  i < j
  BY DEF OrderedTrays, KeepsItsPools
<1> DEFINE before == SubSeq(s, 1, j - 1)
<1>1. s \in Seq(Steps) /\ OncePerKind(s) /\ DOMAIN s = 1 .. Len(s) /\ Len(s) \in Nat
  BY DEF Trays
<1>2. /\ DOMAIN before = 1 .. (j - 1)
      /\ \A k \in 1 .. (j - 1) : before[k] = s[k] /\ k \in DOMAIN s
  BY <1>1
<1>3. HasHook(before)
  BY DEF Ordered, HasHook
<1> HIDE DEF before
<1>4. PICK k \in 1 .. (j - 1) : s[k].kind = "setHookFor"
  BY <1>2, <1>3 DEF HasHook
<1>5. k = i
  BY <1>1, <1>2, <1>4 DEF OncePerKind
<1> QED
  BY <1>1, <1>4, <1>5

\* A step added to a list replaces the one of its kind or is the last.
LEMMA UpsertKeeps ==
  ASSUME NEW s \in Trays, NEW x \in Steps
  PROVE  /\ Upsert(s, x) \in Trays
         /\ HasHook(s) \/ x.kind = "setHookFor" => HasHook(Upsert(s, x))
<1> DEFINE u == Upsert(s, x)
<1>1. s \in Seq(Steps) /\ OncePerKind(s) /\ DOMAIN s = 1 .. Len(s) /\ Len(s) \in Nat
  BY DEF Trays
<1>2. CASE \E i \in DOMAIN s : s[i].kind = x.kind
  <2>1. u = [i \in DOMAIN s |-> IF s[i].kind = x.kind THEN x ELSE s[i]]
    BY <1>2 DEF Upsert
  <2> HIDE DEF u
  <2>2. u \in Seq(Steps) /\ DOMAIN u = DOMAIN s /\ \A i \in DOMAIN s : u[i].kind = s[i].kind
    <3>1. u \in [1 .. Len(s) -> Steps]
      BY <1>1, <2>1
    <3> QED
      BY <1>1, <2>1, <3>1
  <2>3. OncePerKind(u)
    BY <1>1, <2>2 DEF OncePerKind
  <2>4. HasHook(s) \/ x.kind = "setHookFor" => HasHook(u)
    BY <1>2, <2>2 DEF HasHook
  <2> QED
    BY <2>2, <2>3, <2>4 DEF Trays, u
<1>3. CASE ~\E i \in DOMAIN s : s[i].kind = x.kind
  <2>1. u = Append(s, x)
    BY <1>3 DEF Upsert
  <2> HIDE DEF u
  <2>2. /\ u \in Seq(Steps) /\ DOMAIN u = 1 .. (Len(s) + 1) /\ u[Len(s) + 1] = x
        /\ \A i \in 1 .. Len(s) : u[i] = s[i]
    BY <1>1, <2>1
  <2>3. OncePerKind(u)
    BY <1>1, <1>3, <2>2 DEF OncePerKind
  <2>4. HasHook(s) \/ x.kind = "setHookFor" => HasHook(u)
    BY <1>1, <2>2 DEF HasHook
  <2> QED
    BY <2>2, <2>3, <2>4 DEF Trays, u
<1> QED
  BY <1>2, <1>3

\* A list that the others are merged into, one after the other.
Merged(s, xs, f) == f = [i \in 0 .. Len(xs) |-> IF i = 0 THEN s ELSE Upsert(f[i - 1], xs[i])]

LEMMA UpsertAllKeeps ==
  ASSUME NEW s \in Trays, NEW xs \in Seq(Steps)
  PROVE  /\ UpsertAll(s, xs) \in Trays
         /\ xs = <<>> => UpsertAll(s, xs) = s
         /\ HasHook(xs) => HasHook(UpsertAll(s, xs))
<1> DEFINE G == [x \in Nat \X Trays |-> IF x[1] \in 1 .. Len(xs) THEN Upsert(x[2], xs[x[1]]) ELSE s]
           InSteps(f) == Stepwise(0, Len(xs), Trays, s, G, f)
<1>1. Len(xs) \in Nat /\ 0 \in Nat /\ 0 <= Len(xs) /\ \A i \in 1 .. Len(xs) : xs[i] \in Steps
  OBVIOUS
<1>2. G \in [Nat \X Trays -> Trays]
  BY <1>1, UpsertKeeps
<1>3. PICK f : InSteps(f)
  <2> HIDE DEF G
  <2> QED
    BY <1>1, <1>2, StepByStep
<1>4. f \in [0 .. Len(xs) -> Trays] /\ f[0] = s
  BY <1>1, <1>3 DEF Stepwise
<1>5. \A i \in 1 .. Len(xs) : f[i] = Upsert(f[i - 1], xs[i])
  <2> SUFFICES ASSUME NEW i \in 1 .. Len(xs) PROVE f[i] = Upsert(f[i - 1], xs[i])
    OBVIOUS
  <2>1. i \in 0 .. Len(xs) /\ i # 0 /\ i \in Nat /\ i - 1 \in 0 .. Len(xs)
    BY <1>1
  <2>2. f[i - 1] \in Trays
    BY <1>4, <2>1
  <2>3. G[<<i, f[i - 1]>>] = Upsert(f[i - 1], xs[i])
    BY <2>1, <2>2
  <2>4. f[i] = G[<<i, f[i - 1]>>]
    BY <1>3, <2>1 DEF Stepwise
  <2> QED
    BY <2>3, <2>4
<1> HIDE DEF G, InSteps
<1>6. Merged(s, xs, f)
  <2>1. \A i \in 0 .. Len(xs) : i # 0 => i \in 1 .. Len(xs)
    BY <1>1
  <2>2. \A i \in 0 .. Len(xs) : f[i] = IF i = 0 THEN s ELSE Upsert(f[i - 1], xs[i])
    BY <1>4, <1>5, <2>1
  <2>3. f = [i \in 0 .. Len(xs) |-> f[i]]
    BY <1>4
  <2> QED
    BY <2>2, <2>3 DEF Merged
<1> DEFINE g == CHOOSE g : Merged(s, xs, g)
<1>7. UpsertAll(s, xs) = g[Len(xs)]
  BY DEF UpsertAll, Merged
<1>8. Merged(s, xs, g)
  BY <1>6
<1> HIDE DEF g
<1>9. g[0] = s /\ \A i \in 1 .. Len(xs) : g[i] = Upsert(g[i - 1], xs[i])
  BY <1>1, <1>8 DEF Merged
<1>10. ASSUME NEW n \in 0 .. Len(xs)
       PROVE  g[n] \in Trays /\ ((\E i \in 1 .. n : xs[i].kind = "setHookFor") => HasHook(g[n]))
  <2> DEFINE Good(k) == g[k] \in Trays /\ ((\E i \in 1 .. k : xs[i].kind = "setHookFor") => HasHook(g[k]))
             Bad == {k \in Nat : k <= Len(xs) /\ ~Good(k)}
  <2> SUFFICES ASSUME Bad # {} PROVE FALSE
    BY <1>1
  <2>1. PICK k \in Bad : \A m \in Bad : k <= m
    BY LeastIn
  <2>2. Good(0)
    BY <1>9
  <2>3. k # 0 /\ k \in 1 .. Len(xs) /\ k - 1 \in Nat /\ k - 1 <= Len(xs) /\ k - 1 < k
    BY <1>1, <2>1, <2>2
  <2>4. Good(k - 1)
    BY <2>1, <2>3
  <2>5. g[k] = Upsert(g[k - 1], xs[k]) /\ xs[k] \in Steps
    BY <1>1, <1>9, <2>3
  <2>6. \A i \in 1 .. k : i = k \/ i \in 1 .. (k - 1)
    BY <2>3
  <2> QED
    BY <2>1, <2>4, <2>5, <2>6, UpsertKeeps
<1>11. Len(xs) \in 0 .. Len(xs) /\ (xs = <<>> => Len(xs) = 0) /\ DOMAIN xs = 1 .. Len(xs)
  BY <1>1
<1> QED
  BY <1>7, <1>9, <1>10, <1>11 DEF HasHook

\* The elements of s taken from the first i, in their order.
Taken(s, S, f) ==
  f = [i \in 0 .. Len(s) |->
         IF i = 0 THEN <<>> ELSE IF s[i] \in S THEN Append(f[i - 1], s[i]) ELSE f[i - 1]]

LEMMA OnlyIs ==
  ASSUME NEW T, NEW s \in Seq(T), NEW S
  PROVE  Only(s, S) \in Seq(S \cap T)
<1> DEFINE V == Seq(S \cap T)
           G == [x \in Nat \X V |->
                   IF x[1] \in 1 .. Len(s) /\ s[x[1]] \in S THEN Append(x[2], s[x[1]]) ELSE x[2]]
           none == <<>>
           InSteps(f) == Stepwise(0, Len(s), V, none, G, f)
<1>1. Len(s) \in Nat /\ 0 \in Nat /\ 0 <= Len(s) /\ (\A i \in 1 .. Len(s) : s[i] \in T) /\ none \in V
  OBVIOUS
<1>2. G \in [Nat \X V -> V]
  BY <1>1
<1>3. PICK f : InSteps(f)
  <2> HIDE DEF G, V, none
  <2> QED
    BY <1>1, <1>2, StepByStep
<1>4. f \in [0 .. Len(s) -> V] /\ f[0] = none
  <2>1. 0 \in 0 .. Len(s)
    BY <1>1
  <2> HIDE DEF G, V, none
  <2>2. /\ f \in [0 .. Len(s) -> V]
        /\ \A i \in 0 .. Len(s) : f[i] = IF i = 0 THEN none ELSE G[<<i, f[i - 1]>>]
    BY <1>3, Zenon DEF Stepwise
  <2>3. f[0] = none
    BY <2>1, <2>2, Zenon
  <2> QED
    BY <2>2, <2>3
<1>5. \A i \in 1 .. Len(s) : f[i] = IF s[i] \in S THEN Append(f[i - 1], s[i]) ELSE f[i - 1]
  <2> SUFFICES ASSUME NEW i \in 1 .. Len(s)
               PROVE  f[i] = IF s[i] \in S THEN Append(f[i - 1], s[i]) ELSE f[i - 1]
    OBVIOUS
  <2> HIDE DEF V
  <2>1. i \in 0 .. Len(s) /\ i # 0 /\ i \in Nat /\ i - 1 \in 0 .. Len(s)
    BY <1>1
  <2>2. f[i - 1] \in V
    BY <1>4, <2>1
  <2>3. G[<<i, f[i - 1]>>] = IF s[i] \in S THEN Append(f[i - 1], s[i]) ELSE f[i - 1]
    BY <2>1, <2>2
  <2>4. f[i] = G[<<i, f[i - 1]>>]
    <3> HIDE DEF G
    <3> QED
      BY <1>3, <2>1 DEF Stepwise
  <2> QED
    BY <2>3, <2>4
<1> HIDE DEF G, InSteps, V, none
<1>6. Taken(s, S, f)
  <2>1. \A i \in 0 .. Len(s) : i # 0 => i \in 1 .. Len(s)
    BY <1>1
  <2>2. \A i \in 0 .. Len(s) :
          f[i] = IF i = 0 THEN none ELSE IF s[i] \in S THEN Append(f[i - 1], s[i]) ELSE f[i - 1]
    BY <1>4, <1>5, <2>1
  <2>3. f = [i \in 0 .. Len(s) |-> f[i]]
    BY <1>4
  <2> QED
    BY <2>2, <2>3 DEF Taken, none
<1> DEFINE g == CHOOSE g : Taken(s, S, g)
<1>7. Only(s, S) = g[Len(s)]
  BY DEF Only, Taken
<1>8. Taken(s, S, g)
  BY <1>6
<1> HIDE DEF g
<1>9. /\ g[0] = none
      /\ \A i \in 1 .. Len(s) : g[i] = IF s[i] \in S THEN Append(g[i - 1], s[i]) ELSE g[i - 1]
  <2>1. \A i \in 0 .. Len(s) :
          g[i] = IF i = 0 THEN none ELSE IF s[i] \in S THEN Append(g[i - 1], s[i]) ELSE g[i - 1]
    BY <1>8, Zenon DEF Taken, none
  <2> QED
    BY <1>1, <2>1
<1>10. g[Len(s)] \in V
  <2> DEFINE Bad == {k \in Nat : k <= Len(s) /\ g[k] \notin V}
  <2> SUFFICES ASSUME Bad # {} PROVE FALSE
    BY <1>1
  <2>1. PICK k \in Bad : \A m \in Bad : k <= m
    BY LeastIn
  <2>2. k \in 1 .. Len(s) /\ k - 1 \in Nat /\ k - 1 <= Len(s) /\ k - 1 < k
    BY <1>1, <1>9, <2>1
  <2>3. g[k - 1] \in V
    BY <2>1, <2>2
  <2>4. s[k] \in S => s[k] \in S \cap T
    BY <1>1, <2>2
  <2>5. Append(g[k - 1], s[k]) \in V \/ s[k] \notin S
    BY <2>3, <2>4 DEF V
  <2> QED
    BY <1>9, <2>1, <2>2, <2>3, <2>5
<1> QED
  BY <1>7, <1>10 DEF V

\* A mirror adds nothing, or gives the hook of its source.
LEMMA MirrorGives ==
  ASSUME NEW source \in Seq(Steps), NEW S \in SUBSET Steps
  PROVE  LET out == WithDependency(source, Only(source, S)) IN
         /\ out \in Seq(Steps)
         /\ HasHook(source) => out = <<>> \/ HasHook(out)
<1> DEFINE resolved == Only(source, S)
           Others == {x \in Steps : x.kind # "setPoolFor"}
           There == {resolved[i] : i \in DOMAIN resolved}
           out == WithDependency(source, resolved)
<1>1. resolved \in Seq(S \cap Steps)
  BY OnlyIs
<1>2. S \cap Steps = S /\ Seq(S) \subseteq Seq(Steps)
  OBVIOUS
<1>3. resolved \in Seq(Steps)
  BY <1>1, <1>2
<1> HIDE DEF resolved
<1>4. resolved \in Seq(There) /\ There \subseteq Steps
  BY <1>3
<1>5. CASE HasHook(source) /\ ~HasHook(resolved)
  <2>1. out = Only(resolved, Others)
    BY <1>5 DEF WithDependency
  <2>2. out \in Seq(Others \cap There)
    BY <1>4, <2>1, OnlyIs
  <2>3. Others \cap There = {}
    BY <1>4, <1>5, StepFacts DEF HasHook
  <2>4. out \in Seq({})
    BY <2>2, <2>3
  <2>5. out = <<>>
    BY <2>4
  <2> QED
    BY <2>5 DEF resolved
<1>6. CASE ~(HasHook(source) /\ ~HasHook(resolved))
  <2>1. out = resolved
    BY <1>6 DEF WithDependency
  <2> QED
    BY <1>3, <1>6, <2>1 DEF resolved
<1> QED
  BY <1>5, <1>6

LEMMA PresetIsSteps == \A carried : PresetSteps(carried) \in Seq(Steps)
<1> SUFFICES ASSUME NEW carried PROVE PresetSteps(carried) \in Seq(Steps)
  OBVIOUS
<1> DEFINE pools == Only(Pools, carried)
           calls == [i \in DOMAIN pools |-> PoolOf(pools[i])]
<1>1. pools \in Seq(carried \cap Tokens)
  BY OnlyIs, SafeBatchAssumption DEF Tokens
<1> HIDE DEF pools
<1>2. DOMAIN pools = 1 .. Len(pools) /\ Len(pools) \in Nat /\ \A i \in DOMAIN pools : pools[i] \in Tokens
  BY <1>1
<1>3. calls \in [1 .. Len(pools) -> Steps]
  BY <1>2, StepFacts
<1>4. calls \in Seq(Steps)
  BY <1>2, <1>3
<1>5. <<Hook>> \in Seq(Steps)
  BY StepFacts
<1>6. PresetSteps(carried) = <<Hook>> \o calls
  BY DEF PresetSteps, pools
<1> QED
  BY <1>4, <1>5, <1>6

LEMMA JoinIs ==
  ASSUME NEW T, NEW u \in Seq(T), NEW v \in Seq(T)
  PROVE  /\ u \o v \in Seq(T) /\ Len(u \o v) = Len(u) + Len(v)
         /\ \A j \in 1 .. (Len(u) + Len(v)) : (u \o v)[j] = IF j <= Len(u) THEN u[j] ELSE v[j - Len(u)]
OBVIOUS

\* What the dialog does to the steps it shows.
LEMMA EditKeeps ==
  ASSUME NEW s \in Trays, NEW i \in DOMAIN s
  PROVE  /\ RemoveAt(s, i) \in Trays
         /\ i < Len(s) => [s EXCEPT ![i] = s[i + 1], ![i + 1] = s[i]] \in Trays
<1>1. s \in Seq(Steps) /\ OncePerKind(s) /\ DOMAIN s = 1 .. Len(s) /\ Len(s) \in Nat
  BY DEF Trays
<1>2. RemoveAt(s, i) \in Trays
  <2> DEFINE r == RemoveAt(s, i)
  <2>1. /\ r \in Seq(Steps) /\ DOMAIN r = 1 .. (Len(s) - 1)
        /\ \A j \in DOMAIN r : r[j] = s[IF j < i THEN j ELSE j + 1]
    <3> DEFINE before == SubSeq(s, 1, i - 1)
               after == SubSeq(s, i + 1, Len(s))
    <3>1. /\ before \in Seq(Steps) /\ Len(before) = i - 1 /\ i - 1 \in Nat
          /\ \A j \in 1 .. (i - 1) : before[j] = s[j]
      BY <1>1
    <3>2. /\ after \in Seq(Steps) /\ Len(after) = Len(s) - i /\ Len(s) - i \in Nat
          /\ \A j \in 1 .. (Len(s) - i) : after[j] = s[i + j]
      BY <1>1
    <3>3. r = before \o after
      BY DEF RemoveAt
    <3> HIDE DEF before, after, r
    <3>4. /\ r \in Seq(Steps) /\ DOMAIN r = 1 .. (Len(s) - 1)
          /\ \A j \in 1 .. (Len(s) - 1) : r[j] = IF j < i THEN before[j] ELSE after[j - (i - 1)]
      <4>1. r \in Seq(Steps) /\ Len(r) = Len(before) + Len(after)
        BY <3>1, <3>2, <3>3, JoinIs
      <4>2. Len(before) + Len(after) = Len(s) - 1 /\ Len(s) - 1 \in Nat
        BY <1>1, <3>1, <3>2
      <4>3. \A j \in 1 .. (Len(before) + Len(after)) :
              r[j] = IF j <= Len(before) THEN before[j] ELSE after[j - Len(before)]
        BY <3>1, <3>2, <3>3, JoinIs
      <4>4. \A j \in 1 .. (Len(s) - 1) : j <= i - 1 <=> j < i
        BY <1>1
      <4> QED
        BY <3>1, <4>1, <4>2, <4>3, <4>4
    <3>5. ASSUME NEW j \in 1 .. (Len(s) - 1) PROVE r[j] = s[IF j < i THEN j ELSE j + 1]
      <4>1. CASE j < i
        BY <1>1, <3>1, <3>4, <4>1
      <4>2. CASE ~(j < i)
        <5>1. j - (i - 1) \in 1 .. (Len(s) - i) /\ i + (j - (i - 1)) = j + 1
          BY <1>1, <4>2
        <5> QED
          BY <3>2, <3>4, <4>2, <5>1
      <4> QED
        BY <4>1, <4>2
    <3> QED
      BY <3>4, <3>5
  <2> HIDE DEF r
  <2>2. \A j \in DOMAIN r : j \in Nat /\ j \in DOMAIN s /\ j + 1 \in DOMAIN s
    BY <1>1, <2>1
  <2>3. \A j, k \in DOMAIN r :
          s[IF j < i THEN j ELSE j + 1].kind = s[IF k < i THEN k ELSE k + 1].kind => j = k
    BY <1>1, <2>2 DEF OncePerKind
  <2>4. OncePerKind(r)
    BY <2>1, <2>3 DEF OncePerKind
  <2> QED
    BY <2>1, <2>4 DEF Trays, r
<1>3. ASSUME i < Len(s) PROVE [s EXCEPT ![i] = s[i + 1], ![i + 1] = s[i]] \in Trays
  <2> DEFINE r == [s EXCEPT ![i] = s[i + 1], ![i + 1] = s[i]]
             from(j) == IF j = i THEN i + 1 ELSE IF j = i + 1 THEN i ELSE j
  <2>1. i + 1 \in DOMAIN s /\ i + 1 # i /\ \A j \in DOMAIN s : from(j) \in DOMAIN s
    BY <1>1, <1>3
  <2>2. DOMAIN r = DOMAIN s /\ \A j \in DOMAIN s : r[j] = s[from(j)]
    BY <1>1, <2>1
  <2>3. r \in Seq(Steps)
    BY <1>1, <2>1
  <2> HIDE DEF r
  <2>4. \A j, k \in DOMAIN s : from(j) = from(k) => j = k
    BY <1>1
  <2> HIDE DEF from
  <2>5. OncePerKind(r)
    BY <1>1, <2>1, <2>2, <2>4 DEF OncePerKind
  <2> QED
    BY <2>3, <2>5 DEF Trays, r
<1> QED
  BY <1>2, <1>3

\* Every list names a kind once; what is proposed, sent or saved has its order checked.
BatchInv ==
  /\ tray \in [TrayChains -> Trays]
  /\ mirror.steps \in Seq(Steps)
  /\ dlg \in [at : {"none", "checking", "open", "proposing", "account"}, chain : TrayChains \cup {0},
              steps : Trays, route : {"none", "safe", "eoa"}, others : SUBSET TrayChains]
  /\ dlg.at = "proposing" => dlg.steps \in OrderedTrays
  /\ \A x \in sends : x.did \in [TrayChains -> OrderedTrays]
  /\ \A x \in saved : x.calls \in [TrayChains -> OrderedTrays]

\* A mirror brings no pool without the hook of its source.
Mirrors ==
  mirror' # mirror /\ HasHook(mirror.steps)
    => \A c \in TrayChains : PoolsOf(tray'[c]) \subseteq PoolsOf(tray[c]) \/ HasHook(tray'[c])

\* A step of HookBeforePool.
PoolStep ==
  /\ dlg'.at = "proposing" => KeepsItsPools(dlg'.steps)
  /\ \A x \in sends', c \in TrayChains : KeepsItsPools(x.did[c])
  /\ Mirrors

LEMMA BatchInitInv == BatchInit => BatchInv
BY StepFacts DEF BatchInit, BatchInv, NoMirror, NoDialog, OrderedTrays, Trays

\* The pages that change trays.
LEMMA TraysKeep ==
  ASSUME BatchInv, AddToBatch \/ AddPreset \/ ClearTray \/ MirrorStart
  PROVE  BatchInv' /\ Mirrors
<1>1. <<>> \in Trays
  BY StepFacts DEF OrderedTrays
<1>2. CASE AddToBatch
  BY <1>2, UpsertKeeps DEF BatchInv, AddToBatch, Altered, Mirrors
<1>3. CASE AddPreset
  BY <1>3, UpsertAllKeeps, PresetIsSteps DEF BatchInv, AddPreset, Altered, Mirrors
<1>4. CASE ClearTray
  BY <1>1, <1>4 DEF BatchInv, ClearTray, Altered, Mirrors
<1>5. CASE MirrorStart
  BY <1>5 DEF BatchInv, MirrorStart, Altered, Mirrors, NoMirror, HasHook, Trays
<1> QED
  BY <1>2, <1>3, <1>4, <1>5

LEMMA MirrorKeeps ==
  ASSUME BatchInv, Mirrored
  PROVE  BatchInv' /\ Mirrors
<1>1. PICK to \in mirror.left, allowed \in BOOLEAN, carried \in SUBSET Tokens :
        LET out == Only(mirror.steps, {x \in Steps : Resolves(x, allowed, carried)}) IN
        /\ tray' = [tray EXCEPT ![to] = UpsertAll(@, WithDependency(mirror.steps, out))]
        /\ mirror' = IF mirror.left = {to} THEN NoMirror ELSE [mirror EXCEPT !.left = @ \ {to}]
        /\ UNCHANGED <<changes, dlg, sends, saved, outcome>>
  BY DEF Mirrored
<1> DEFINE S == {x \in Steps : Resolves(x, allowed, carried)}
           out == WithDependency(mirror.steps, Only(mirror.steps, S))
<1>2. mirror.steps \in Seq(Steps) /\ S \subseteq Steps
  BY DEF BatchInv
<1>3. out \in Seq(Steps) /\ (HasHook(mirror.steps) => out = <<>> \/ HasHook(out))
  BY <1>2, MirrorGives
<1>4. tray' = [tray EXCEPT ![to] = UpsertAll(@, out)]
  BY <1>1
<1> HIDE DEF S, out
<1>5. tray \in [TrayChains -> Trays]
  BY DEF BatchInv
<1>6. \A c \in TrayChains : tray'[c] = IF c = to THEN UpsertAll(tray[c], out) ELSE tray[c]
  BY <1>4, <1>5
<1>7. tray' \in [TrayChains -> Trays]
  BY <1>3, <1>4, <1>5, UpsertAllKeeps
<1>8. Mirrors
  BY <1>3, <1>5, <1>6, UpsertAllKeeps DEF Mirrors
<1>9. mirror'.steps \in Seq(Steps)
  <2>1. CASE mirror.left = {to}
    BY <1>1, <2>1 DEF NoMirror
  <2>2. CASE mirror.left # {to}
    BY <1>1, <1>2, <2>2
  <2> QED
    BY <2>1, <2>2
<1> QED
  BY <1>1, <1>7, <1>8, <1>9 DEF BatchInv

\* The dialog.
LEMMA DialogKeeps ==
  ASSUME BatchInv, OpenBatch \/ BatchRouted \/ ConfirmBatch \/ Proposed \/ BatchFails \/ BatchReload
  PROVE  BatchInv' /\ Mirrors
<1>1. <<>> \in Trays /\ NoDialog.steps = <<>> /\ NoDialog.at = "none" /\ NoMirror.steps = <<>>
  BY StepFacts DEF OrderedTrays, NoDialog, NoMirror
<1>2. CASE OpenBatch
  BY <1>2 DEF BatchInv, OpenBatch, NoDialog, Mirrors
<1>3. CASE BatchRouted
  BY <1>3 DEF BatchInv, BatchRouted, Mirrors
<1>4. CASE ConfirmBatch
  BY <1>4, OrderedKeepsPools DEF BatchInv, ConfirmBatch, Mirrors
<1>5. CASE Proposed
  BY <1>1, <1>5 DEF BatchInv, Proposed, NoDialog, Mirrors
<1>6. CASE BatchFails
  BY <1>1, <1>6 DEF BatchInv, BatchFails, NoDialog, Mirrors
<1>7. CASE BatchReload
  BY <1>1, <1>7 DEF BatchInv, BatchReload, NoDialog, NoMirror, Mirrors
<1> QED
  BY <1>2, <1>3, <1>4, <1>5, <1>6, <1>7

LEMMA EditBatchKeeps ==
  ASSUME BatchInv, EditBatch
  PROVE  BatchInv' /\ Mirrors
<1>1. PICK s : /\ s \in {RemoveAt(dlg.steps, i) : i \in DOMAIN dlg.steps}
                    \cup {[dlg.steps EXCEPT ![i] = dlg.steps[i + 1], ![i + 1] = dlg.steps[i]] :
                            i \in 1 .. Len(dlg.steps) - 1}
               /\ Altered([tray EXCEPT ![dlg.chain] = s]) \/ UNCHANGED <<tray, changes>>
               /\ dlg' = [dlg EXCEPT !.steps = s]
  BY DEF EditBatch
<1>2. dlg.steps \in Trays /\ DOMAIN dlg.steps = 1 .. Len(dlg.steps) /\ Len(dlg.steps) \in Nat
  BY DEF BatchInv, Trays
<1>3. \A i \in 1 .. Len(dlg.steps) - 1 : i \in DOMAIN dlg.steps /\ i < Len(dlg.steps)
  BY <1>2
<1>4. s \in Trays
  BY <1>1, <1>2, <1>3, EditKeeps
<1>5. tray' \in [TrayChains -> Trays]
  BY <1>1, <1>4 DEF BatchInv, Altered
<1>6. dlg.at = "open" /\ UNCHANGED <<mirror, sends, saved>>
  BY DEF EditBatch
<1> QED
  BY <1>1, <1>4, <1>5, <1>6 DEF BatchInv, Mirrors

\* A wallet's batch: what is submitted was gathered and its order checked, now or when it was saved.
LEMMA GatheredOrdered ==
  ASSUME BatchInv, Gathered
  PROVE  BatchCalls \in [TrayChains -> OrderedTrays]
<1>1. \A c \in TrayChains : BatchCalls[c] \in Trays /\ Ordered(BatchCalls[c])
  BY StepFacts DEF BatchInv, Gathered, BatchCalls, OrderedTrays
<1> QED
  BY <1>1, OrderedKeepsPools DEF BatchCalls

LEMMA SubmittingKeeps ==
  ASSUME BatchInv, NEW by, NEW did \in [TrayChains -> OrderedTrays], Submitting(by, did),
         \A x \in saved' : x.calls \in [TrayChains -> OrderedTrays]
  PROVE  BatchInv' /\ Mirrors
<1>1. NoDialog.steps \in Trays /\ NoDialog.at = "none"
  BY StepFacts DEF OrderedTrays, NoDialog
<1>2. \A x \in sends' : x.did \in [TrayChains -> OrderedTrays]
  BY DEF BatchInv, Submitting
<1> QED
  BY <1>1, <1>2 DEF BatchInv, Submitting, NoDialog, Mirrors

LEMMA SendsKeep ==
  ASSUME BatchInv,
         ResumeBatch \/ PublishBatch \/ SendBatchDirect \/ BatchSent \/ BatchSendFails \/ ForgetSession
  PROVE  BatchInv' /\ Mirrors
<1>1. CASE ResumeBatch
  <2>1. PICK s \in saved : Submitting("relayr", s.calls)
    BY <1>1 DEF ResumeBatch, SavedFor
  <2> QED
    BY <1>1, <2>1, SubmittingKeeps DEF BatchInv, ResumeBatch
<1>2. CASE PublishBatch
  <2>1. Gathered /\ Submitting("relayr", BatchCalls)
        /\ saved' = saved \cup {[scope |-> BatchScope, by |-> "relayr", calls |-> BatchCalls]}
    BY <1>2 DEF PublishBatch
  <2>2. BatchCalls \in [TrayChains -> OrderedTrays]
    BY <2>1, GatheredOrdered
  <2>3. \A x \in saved' : x.calls \in [TrayChains -> OrderedTrays]
    BY <2>1, <2>2 DEF BatchInv
  <2> QED
    BY <2>1, <2>2, <2>3, SubmittingKeeps
<1>3. CASE SendBatchDirect
  <2>1. Gathered /\ Submitting("direct", BatchCalls)
        /\ saved' = saved \cup {[scope |-> BatchScope, by |-> "direct", calls |-> BatchCalls]}
    BY <1>3 DEF SendBatchDirect
  <2>2. BatchCalls \in [TrayChains -> OrderedTrays]
    BY <2>1, GatheredOrdered
  <2>3. \A x \in saved' : x.calls \in [TrayChains -> OrderedTrays]
    BY <2>1, <2>2 DEF BatchInv
  <2> QED
    BY <2>1, <2>2, <2>3, SubmittingKeeps
<1>4. CASE BatchSent
  BY <1>4, StepFacts DEF BatchInv, BatchSent, SavedFor, Mirrors, OrderedTrays
<1>5. CASE BatchSendFails
  BY <1>5 DEF BatchInv, BatchSendFails, Mirrors
<1>6. CASE ForgetSession
  BY <1>6 DEF BatchInv, ForgetSession, Mirrors
<1> QED
  BY <1>1, <1>2, <1>3, <1>4, <1>5, <1>6

LEMMA BatchNextInv ==
  ASSUME BatchInv, [BatchNext]_batchVars
  PROVE  BatchInv' /\ Mirrors
<1>1. CASE UNCHANGED batchVars
  BY <1>1 DEF BatchInv, batchVars, Mirrors
<1> QED
  BY <1>1, TraysKeep, MirrorKeeps, DialogKeeps, EditBatchKeeps, SendsKeep DEF BatchNext

\* A pool is registered after, and not without, the hook its batch selects, for any chains,
\* pools and changes, however trays are edited, mirrored and read again before a send: a list
\* names each kind once, so the order that is checked leaves no second hook behind a pool
\* (safe-batch.js:100-131, 201-211).
THEOREM HookBeforePoolAlways == BatchSpec => HookBeforePool
<1>1. BatchInv' /\ Mirrors => PoolStep
  BY DEF BatchInv, Mirrors, PoolStep, OrderedTrays
<1>2. BatchInv /\ [BatchNext]_batchVars => BatchInv' /\ [PoolStep]_batchVars
  BY <1>1, BatchNextInv
<1> QED
  BY <1>2, BatchInitInv, PTL DEF BatchSpec, HookBeforePool, PoolStep, Mirrors

\* What a batch is stored under: an open dialog has a chain, and a send a scope.
BatchNames ==
  /\ changes \in 0 .. MaxChanges
  /\ mirror.left \subseteq TrayChains
  /\ dlg.at # "none" => dlg.chain \in TrayChains
  /\ \A x \in saved \cup sends : x.scope \in Scopes /\ x.by \in {"relayr", "direct"}

LEMMA NamesInit == BatchInit => BatchNames
BY SafeBatchAssumption DEF BatchInit, BatchNames, NoMirror, NoDialog

LEMMA NamesStep ==
  ASSUME BatchInv, BatchNames, [BatchNext]_batchVars
  PROVE  BatchNames'
<1> USE DEF BatchNames
<1>1. ASSUME NEW t, Altered(t) PROVE changes' \in 0 .. MaxChanges
  BY <1>1, SafeBatchAssumption DEF Altered
<1>2. CASE AddToBatch \/ AddPreset \/ ClearTray
  BY <1>1, <1>2 DEF AddToBatch, AddPreset, ClearTray
<1>3. CASE MirrorStart
  BY <1>1, <1>3 DEF MirrorStart
<1>4. CASE Mirrored
  BY <1>4 DEF Mirrored, NoMirror
<1>5. CASE OpenBatch \/ BatchRouted \/ ConfirmBatch \/ Proposed \/ BatchFails
  <2>1. CASE OpenBatch
    BY <2>1 DEF OpenBatch, NoDialog
  <2>2. CASE BatchRouted \/ ConfirmBatch
    <3>1. UNCHANGED <<changes, mirror, sends, saved>> /\ dlg'.chain = dlg.chain /\ dlg.at # "none"
      BY <2>2 DEF BatchInv, BatchRouted, ConfirmBatch
    <3> QED
      BY <3>1
  <2>3. CASE Proposed \/ BatchFails
    BY <2>3 DEF Proposed, BatchFails, NoDialog
  <2> QED
    BY <1>5, <2>1, <2>2, <2>3
<1>6. CASE EditBatch
  <2>1. PICK s :
          /\ Altered([tray EXCEPT ![dlg.chain] = s]) \/ UNCHANGED <<tray, changes>>
          /\ dlg' = [dlg EXCEPT !.steps = s]
    BY <1>6 DEF EditBatch
  <2>2. dlg'.at = dlg.at /\ dlg'.chain = dlg.chain
    BY <2>1 DEF BatchInv
  <2> QED
    BY <1>1, <1>6, <2>1, <2>2 DEF EditBatch
<1>7. ASSUME dlg.at = "account", NEW by \in {"relayr", "direct"}, NEW did, Submitting(by, did),
             \A x \in saved' : x.scope \in Scopes /\ x.by \in {"relayr", "direct"}
      PROVE  BatchNames'
  <2>1. BatchScope \in Scopes
    BY <1>7 DEF BatchInv, BatchScope, Scopes
  <2> QED
    BY <1>7, <2>1 DEF Submitting, NoDialog
<1>8. dlg.at = "account" => BatchScope \in Scopes
  BY DEF BatchInv, BatchScope, Scopes
<1>9. CASE ResumeBatch
  <2>1. PICK s \in saved : Submitting("relayr", s.calls)
    BY <1>9 DEF ResumeBatch, SavedFor
  <2> QED
    BY <1>7, <1>9, <2>1 DEF ResumeBatch, Gathered
<1>10. CASE PublishBatch
  BY <1>7, <1>8, <1>10 DEF PublishBatch, Gathered
<1>11. CASE SendBatchDirect
  BY <1>7, <1>8, <1>11 DEF SendBatchDirect, Gathered
<1>12. CASE BatchSent \/ BatchSendFails \/ ForgetSession
  BY <1>12 DEF BatchSent, BatchSendFails, ForgetSession
<1>13. CASE BatchReload
  BY <1>13 DEF BatchReload, NoMirror, NoDialog
<1>14. CASE UNCHANGED batchVars
  BY <1>14 DEF batchVars
<1> QED
  BY <1>2, <1>3, <1>4, <1>5, <1>6, <1>9, <1>10, <1>11, <1>12, <1>13, <1>14 DEF BatchNext

\* Trays, the dialog and a mirror hold steps of batches, and every send and every record is
\* kept under a scope of the project's chains (safe-batch.js:277-295, safe-batch-ui.js:345-348).
THEOREM BatchTypes == BatchSpec => []BatchTypeOK
<1>1. BatchInv /\ BatchNames => BatchTypeOK
  BY DEF BatchInv, BatchNames, BatchTypeOK, Trays
<1>2. BatchInv /\ [BatchNext]_batchVars => BatchInv'
  BY BatchNextInv
<1> QED
  BY <1>1, <1>2, BatchInitInv, NamesInit, NamesStep, PTL DEF BatchSpec
=============================================================================
