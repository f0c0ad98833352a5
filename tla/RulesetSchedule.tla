-------------------------- MODULE RulesetSchedule --------------------------
(***************************************************************************)
(* src/ruleset-schedule.js: the explicit starts of rulesets that are       *)
(* queued together, and the last time at which the transaction may still   *)
(* be mined for every notice to be kept.  Times are seconds.               *)
(***************************************************************************)
EXTENDS Integers, FiniteSetsExt

CONSTANTS
  Parents,      \* the rulesets queued on, and Unset for a launch
  Stages,       \* a stage: date (0: none), cycles, duration, notice
  MaxStages,    \* bound: how many are queued together
  FirstStarts,  \* the first start asked for (0: none)
  Unset,        \* no parent, unknown notice, no limit
  Now,          \* the time of the computation
  Lead,         \* the time a user gets: 600
  Margin        \* what scheduleIsFresh asks for: 15

ASSUME RulesetScheduleAssumption ==
  /\ Parents \subseteq {Unset} \cup
       [start : Nat, duration : Nat, notice : Nat \cup {Unset}, latestId : Nat,
        validUntil : Nat \cup {Unset}, automatic : BOOLEAN]
  /\ Stages \subseteq [date : Nat, cycles : Nat, duration : Nat, notice : Nat \cup {Unset}]
  /\ MaxStages \in Nat \ {0} /\ FirstStarts \subseteq Nat
  /\ Now \in Nat \ {0} /\ Lead \in Nat /\ Margin \in Nat /\ Unset \notin Nat

VARIABLES
  plan,      \* the arguments: parent, stages, firstStart
  schedule   \* the result: starts (which are the musts) and validUntil; no starts before, and for a throw

scheduleVars == <<plan, schedule>>

NoSchedule == [starts |-> <<>>, validUntil |-> Unset]

ScheduleInit ==
  /\ plan \in [parent : Parents, stages : UNION {[1 .. n -> Stages] : n \in 1 .. MaxStages},
               firstStart : FirstStarts]
  /\ schedule = NoSchedule

\* The first cycle boundary of the base at or after must; must itself without cycles.
DeriveStartFrom(baseStart, baseDuration, must) ==
  LET next == baseStart + baseDuration
      down == must - ((must - next) % baseDuration)
  IN  CASE baseDuration = 0 -> must
        [] baseDuration > 0 /\ next >= must -> next
        [] baseDuration > 0 /\ next < must -> IF must > down THEN down + baseDuration ELSE down

ScheduleIsFresh(validUntil) == validUntil = Unset \/ validUntil > Now + Margin

Child == plan.parent # Unset
LatestId == IF Child THEN plan.parent.latestId ELSE 0
QueueId == Max({Now, LatestId + 1})

\* What ruleset i is based on: the one before it, with its start, or the parent.
Base(before, i) ==
  IF i = 1 THEN plan.parent
  ELSE [start |-> before, duration |-> plan.stages[i - 1].duration, notice |-> plan.stages[i - 1].notice]

HasBase(i) == i > 1 \/ Child
NoticeOf(i) == IF i = 1 THEN plan.parent.notice ELSE plan.stages[i - 1].notice
Noticed(i) == HasBase(i) /\ NoticeOf(i) # 0

\* derived, but for its throw and its limit.
Derived(base, requested, i) ==
  DeriveStartFrom(base.start, base.duration,
    Max({requested, base.start + base.duration}
          \cup IF base.notice > 0 THEN {QueueId + i - 1 + base.notice} ELSE {}))

\* An automatic append whose window would close at once asks for a later start.
First ==
  LET asked == IF plan.firstStart # 0 THEN plan.firstStart ELSE IF Child THEN Now ELSE Now + Lead IN
  IF Child /\ plan.parent.automatic /\ plan.parent.notice > 0
       /\ ~ScheduleIsFresh(Derived(plan.parent, asked, 1) - plan.parent.notice)
  THEN Max({asked, Now + Lead + plan.parent.notice}) ELSE asked

Starts ==
  LET starts[i \in DOMAIN plan.stages] ==
        IF i = 1 THEN IF Child THEN Derived(plan.parent, First, 1) ELSE First
        ELSE LET base == Base(starts[i - 1], i)
                 stage == plan.stages[i]
             IN  Derived(base, IF stage.date # 0 THEN stage.date
                               ELSE starts[i - 1] + Max({stage.cycles, 1}) * base.duration, i)
  IN  starts

\* Mutant: the ids of the rulesets queued before it in the same transaction are not counted.
Limit_Same(starts, i) == starts[i] - NoticeOf(i)

\* The last second at which ruleset i, the i-th id of the transaction, keeps the notice.
Limit(starts, i) == starts[i] - NoticeOf(i) - (i - 1)

\* The window has expired, or an approval condition is not known.
Throws ==
  \/ Child /\ plan.parent.validUntil # Unset /\ QueueId > plan.parent.validUntil
  \/ \E i \in DOMAIN plan.stages : HasBase(i) /\ NoticeOf(i) = Unset

OrderedRulesetSchedule ==
  /\ schedule = NoSchedule /\ ~Throws
  /\ LET starts == Starts
         limits == {Limit(starts, i) : i \in {j \in DOMAIN plan.stages : Noticed(j)}}
                     \cup (IF Child THEN {plan.parent.validUntil} \ {Unset} ELSE {})
     IN  schedule' = [starts |-> starts, validUntil |-> IF limits = {} THEN Unset ELSE Min(limits)]
  /\ UNCHANGED plan

ScheduleSpec == ScheduleInit /\ [][OrderedRulesetSchedule]_scheduleVars

----------------------------------------------------------------------------
\* A transaction mined at any time up to validUntil queues what was reviewed: every ruleset
\* starts on a cycle boundary of the one before it, after it, and its id (the block's time,
\* or the next free one, plus its place in the transaction) leaves the notice the approval
\* condition demands; a limit of the parent is kept (ruleset-schedule.js:14-51).
WindowKeepsOrder ==
  schedule # NoSchedule =>
    /\ \A i \in DOMAIN plan.stages : HasBase(i) =>
         LET base == Base(schedule.starts[IF i = 1 THEN 1 ELSE i - 1], i)
             start == schedule.starts[i] IN
         /\ start >= base.start + base.duration
         /\ base.duration > 0 => (start - base.start) % base.duration = 0
         /\ base.notice > 0 => \A t \in Now .. schedule.validUntil :
              start - (Max({t, LatestId + 1}) + i - 1) >= base.notice
    /\ (Child /\ plan.parent.validUntil # Unset) => schedule.validUntil <= plan.parent.validUntil
=============================================================================
