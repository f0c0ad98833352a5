--------------------------- MODULE ActionPlanProofs ---------------------------
(***************************************************************************)
(* Proofs about ActionPlan, for any windows, rounds, plans, prompts and    *)
(* refreshes, and storage that may or may not fail.                        *)
(***************************************************************************)
EXTENDS ActionPlan, TLAPS

\* An ask of the current round of plan s.
At(n, s) == asks[n].id = s.id /\ asks[n].round = s.round

NoneLive(s) == \A n \in Asks : Live(n) => ~At(n, s)

----------------------------------------------------------------------------
(* What holds of the plan, the journals and the asks.                      *)

\* Ids are given out in order, and an id not given out yet has no trace.
IdsReserved ==
  /\ plan.id < next
  /\ \A p \in Plans : p >= next => p \notin over /\ \A r \in Round : journal[p][r] = NoJournal

\* An ask that was made names its plan.
AsksNamed ==
  \A n \in Asks : asks[n].fate # "none" => asks[n].id \in Plans /\ asks[n].id < next

\* A hash in a journal is the hash of an ask of its own round.
HashesOwn ==
  \A p \in Plans, r \in Round, n \in Asks :
    journal[p][r].sent = n =>
      asks[n].fate # "none" /\ asks[n].id = p /\ asks[n].round = r

\* A quote of the saved plan is of the calls the plan has.
QuotesCurrent ==
  \A r \in Round : plan # NoPlan /\ journal[plan.id][r].kind = "relayr"
                     => journal[plan.id][r].calls = plan.calls[r]

\* The saved plan was not acknowledged.
NotOver == plan # NoPlan => plan.id \notin over

WorldInv ==
  /\ IdsReserved /\ AsksNamed /\ HashesOwn /\ QuotesCurrent /\ NotOver
  /\ SendRecorded /\ RoundOnce /\ RoundsDone

----------------------------------------------------------------------------
(* What each window knows.                                                 *)

Off == {"idle", "completed"}

\* Where a run works on the plan that is saved.
Running == {"round", "refresh", "send", "called", "prompt", "track", "verified",
            "discard", "drop"}

Knows(w) ==
  /\ pc[w] \notin Off => lock = w
  /\ pc[w] = "prepare" => plan = NoPlan
  /\ pc[w] \in Running => plan # NoPlan /\ mine[w] = plan /\ plan.round < Rounds
  /\ pc[w] \in {"refresh", "drop"} => Here(w) = NoJournal
  /\ pc[w] = "called" => Here(w).calls = Reviewed(w) /\ NoneLive(mine[w])
  /\ pc[w] \in {"called", "prompt"} => Here(w).sent = Sending
  /\ pc[w] = "prompt" => \A n \in Asks : Live(n) /\ At(n, mine[w]) => asks[n].to = w
  /\ pc[w] = "track" => Here(w).sent \in Asks
  /\ pc[w] = "verified" => \E n \in Asks : At(n, mine[w]) /\ asks[n].fate = "ok"
  /\ pc[w] = "saved" =>
       /\ mine[w] \in SavedPlans /\ mine[w].round < Rounds
       /\ plan = NextRound(w) \/ (plan = NoPlan /\ mine[w].round + 1 = Rounds)
  /\ pc[w] \in {"discard", "drop"} => plan.round = 0 /\ offer[w].round = 0
  /\ pc[w] = "discard" => Here(w).kind # "relayr"

\* Who waits for an answer is at its prompt, and waits for one answer.
Heard ==
  /\ \A n \in Asks : asks[n].to # None =>
       /\ asks[n].fate # "none"
       /\ pc[asks[n].to] = "prompt" /\ At(n, mine[asks[n].to])
  /\ \A m, n \in Asks : asks[m].to # None /\ asks[m].to = asks[n].to => m = n

\* A plan offered for discard was refused at a round it has reached.
OffersBehind ==
  \A w \in Windows :
    /\ offer[w].id < next
    /\ offer[w].id = 0 => offer[w] = NoOffer
    /\ plan # NoPlan /\ offer[w].id = plan.id => offer[w].round <= plan.round

WindowInv == (\A w \in Windows : Knows(w)) /\ Heard /\ OffersBehind

IInv == TypeOK /\ WorldInv /\ WindowInv

----------------------------------------------------------------------------
(* Plans and journals.                                                     *)

\* The parts of a plan and of a journal.
LEMMA Facts ==
  /\ 0 \in Round /\ Rounds \in Nat \ {0} /\ 0 \in Calls /\ 1 \in Plans
  /\ NoPlan.id = 0 /\ NoPlan.round = 0 /\ NoPlan.calls \in [Round -> Calls]
  /\ NoJournal \in Journals /\ NoJournal.kind = "none" /\ NoJournal.sent = 0
  /\ \A s \in SavedPlans : /\ s.id \in Plans /\ s.round \in 0 .. Rounds
                           /\ s.calls \in [Round -> Calls] /\ s # NoPlan
                           /\ s.round < Rounds => s.round \in Round
<1>1. 0 \in Round /\ Rounds \in Nat \ {0} /\ 0 \in Calls /\ 1 \in Plans
  BY ActionPlanAssumption DEF Round, Calls, Plans
<1>2. NoPlan.id = 0 /\ NoPlan.round = 0 /\ NoPlan.calls \in [Round -> Calls]
  BY <1>1 DEF NoPlan
<1>3. NoJournal \in Journals /\ NoJournal.kind = "none" /\ NoJournal.sent = 0
  BY DEF NoJournal, Journals, Unsent
<1>4. ASSUME NEW s \in SavedPlans
      PROVE  /\ s.id \in Plans /\ s.round \in 0 .. Rounds
             /\ s.calls \in [Round -> Calls] /\ s # NoPlan
             /\ s.round < Rounds => s.round \in Round
  <2>1. s.id \in Plans /\ s.round \in 0 .. Rounds /\ s.calls \in [Round -> Calls]
    BY DEF SavedPlans
  <2>2. s # NoPlan
    BY <1>2, <2>1 DEF Plans
  <2> QED
    BY <1>1, <2>1, <2>2 DEF Round
<1> QED
  BY <1>1, <1>2, <1>3, <1>4

LEMMA JournalFacts ==
  ASSUME NEW j \in Journals
  PROVE  /\ j.kind \in {"none", "direct", "relayr"} /\ j.calls \in Calls
         /\ j.sent = 0 \/ j.sent = Sending \/ j.sent \in Asks
         /\ j.kind = "none" <=> j = NoJournal
         /\ j # NoJournal => j \in [kind : {"direct", "relayr"}, calls : Calls, sent : -1 .. MaxAsks]
BY ActionPlanAssumption DEF Journals, NoJournal, Unsent, Sending, Asks, Calls

\* A run at work: its plan is saved, and its round has a journal and calls.
LEMMA AtWork ==
  ASSUME IInv, NEW w \in Windows, pc[w] \in Running
  PROVE  /\ lock = w /\ plan # NoPlan /\ mine[w] = plan /\ plan \in SavedPlans
         /\ plan.id \in Plans /\ plan.round \in Round /\ plan.id < next
         /\ Here(w) = journal[plan.id][plan.round] /\ Here(w) \in Journals
         /\ Reviewed(w) = plan.calls[plan.round] /\ Reviewed(w) \in Calls
<1>1. Knows(w) /\ pc[w] \notin Off
  BY DEF IInv, WindowInv, Running, Off
<1>2. plan \in SavedPlans /\ mine[w] = plan /\ plan.round < Rounds /\ lock = w
  BY <1>1 DEF Knows, IInv, TypeOK
<1>3. plan.id \in Plans /\ plan.round \in Round /\ plan.calls \in [Round -> Calls]
  BY <1>2, Facts
<1>4. journal[plan.id][plan.round] \in Journals
  BY <1>3 DEF IInv, TypeOK
<1> QED
  BY <1>2, <1>3, <1>4, Facts DEF Here, Reviewed, IInv, WorldInv, IdsReserved

\* While a window has the lock, or nobody has, the others are off.
LEMMA OthersOff ==
  ASSUME IInv, NEW w \in Windows, lock \in {w, None}
  PROVE  \A v \in Windows \ {w} : pc[v] \in Off
BY ActionPlanAssumption DEF IInv, WindowInv, Knows

LEMMA OffKnows ==
  ASSUME NEW v \in Windows, pc'[v] \in Off
  PROVE  Knows(v)'
BY DEF Knows, Off, Running

----------------------------------------------------------------------------
(* Where a run goes.                                                       *)

LEMMA RestSets ==
  ASSUME TypeOK, NEW w \in Windows, Rest(w)
  PROVE  /\ pc' \in [Windows -> PCs] /\ mine' \in [Windows -> SavedPlans \cup {NoPlan}]
         /\ fresh' \subseteq Windows /\ seen' \subseteq Windows
         /\ lock' \in Windows \cup {None} /\ lock' # w
         /\ pc'[w] = "idle"
         /\ \A v \in Windows \ {w} : pc'[v] = pc[v] /\ mine'[v] = mine[v]
BY ActionPlanAssumption DEF Rest, TypeOK, PCs

LEMMA GoSets ==
  ASSUME TypeOK, NEW w \in Windows, NEW to \in PCs, NEW s \in SavedPlans \cup {NoPlan},
         Go(w, to, s)
  PROVE  /\ pc' \in [Windows -> PCs] /\ mine' \in [Windows -> SavedPlans \cup {NoPlan}]
         /\ lock' \in Windows \cup {None} /\ lock' = w
         /\ pc'[w] = to /\ mine'[w] = s
         /\ \A v \in Windows \ {w} : pc'[v] = pc[v] /\ mine'[v] = mine[v]
BY DEF Go, TypeOK

LEMMA ContinueSets ==
  ASSUME TypeOK, NEW w \in Windows, NEW s \in SavedPlans, Continue(w, s)
  PROVE  /\ pc' \in [Windows -> PCs] /\ mine' \in [Windows -> SavedPlans \cup {NoPlan}]
         /\ fresh' \subseteq Windows /\ seen' \subseteq Windows
         /\ lock' \in Windows \cup {None}
         /\ \/ pc'[w] = "completed"
            \/ s.round < Rounds /\ pc'[w] = "round" /\ mine'[w] = s /\ lock' = w
         /\ \A v \in Windows \ {w} : pc'[v] = pc[v] /\ mine'[v] = mine[v]
<1>1. CASE s.round < Rounds
  BY <1>1, GoSets DEF Continue, PCs, TypeOK
<1>2. CASE ~(s.round < Rounds)
  BY <1>2 DEF Continue, TypeOK, PCs
<1> QED
  BY <1>1, <1>2

\* One journal is set.
LEMMA JournalSet ==
  ASSUME TypeOK, NEW p \in Plans, NEW r \in Round, NEW j \in Journals, SetJournal(p, r, j)
  PROVE  /\ journal' \in [Plans -> [Round -> Journals]]
         /\ journal'[p][r] = j
         /\ \A q \in Plans, t \in Round : q # p \/ t # r => journal'[q][t] = journal[q][t]
BY DEF TypeOK, SetJournal

----------------------------------------------------------------------------
(* What keeps the world.                                                   *)

\* The asks are the same but for who hears them.
AsksSame ==
  \A n \in Asks : /\ asks'[n].id = asks[n].id /\ asks'[n].round = asks[n].round
                  /\ asks'[n].calls = asks[n].calls /\ asks'[n].fate = asks[n].fate

\* Steps between windows only.
LEMMA WorldSame ==
  ASSUME IInv, AsksSame, UNCHANGED <<plan, journal, next, skipped, over>>
  PROVE  WorldInv'
<1>1. \A n \in Asks : Live(n)' <=> Live(n)
  BY DEF AsksSame, Live
<1>2. IdsReserved' /\ AsksNamed' /\ HashesOwn' /\ QuotesCurrent' /\ NotOver'
  BY DEF IInv, WorldInv, IdsReserved, AsksNamed, HashesOwn, QuotesCurrent, NotOver, AsksSame
<1>3. SendRecorded' /\ RoundOnce' /\ RoundsDone'
  BY <1>1 DEF IInv, WorldInv, SendRecorded, RoundOnce, RoundsDone, AsksSame
<1> QED
  BY <1>2, <1>3 DEF WorldInv

\* A step that sets one journal: it may not lose a live ask of the current round.
LEMMA WorldJournal ==
  ASSUME IInv, AsksSame, UNCHANGED <<plan, next, skipped, over>>,
         NEW p \in Plans, NEW r \in Round, NEW j \in Journals, SetJournal(p, r, j),
         p < next \/ j = NoJournal,
         \A n \in Asks : j.sent = n => asks[n].fate # "none" /\ asks[n].id = p /\ asks[n].round = r,
         plan # NoPlan /\ p = plan.id /\ j.kind = "relayr" => j.calls = plan.calls[r],
         p = plan.id /\ r = plan.round =>
           \A n \in Asks : Live(n) /\ At(n, plan) => j.sent \in {Sending, n}
  PROVE  WorldInv'
<1>1. /\ journal'[p][r] = j
      /\ \A q \in Plans, t \in Round : q # p \/ t # r => journal'[q][t] = journal[q][t]
  BY JournalSet DEF IInv
<1>2. \A n \in Asks : Live(n)' <=> Live(n)
  BY DEF AsksSame, Live
<1>3. IdsReserved'
  BY <1>1 DEF IInv, TypeOK, WorldInv, IdsReserved, Plans
<1>4. AsksNamed' /\ NotOver'
  BY DEF IInv, WorldInv, AsksNamed, NotOver, AsksSame
<1>5. HashesOwn'
  BY <1>1 DEF IInv, WorldInv, HashesOwn, AsksSame
<1>6. QuotesCurrent'
  <2>1. plan # NoPlan => plan.id \in Plans
    BY Facts DEF IInv, TypeOK
  <2> QED
    BY <1>1, <2>1 DEF IInv, WorldInv, QuotesCurrent
<1>7. SendRecorded'
  <2> SUFFICES ASSUME NEW n \in Asks, Live(n)
               PROVE  /\ plan.id = asks[n].id
                      /\ plan.calls[asks[n].round] = asks[n].calls
                      /\ \/ asks[n].round < plan.round /\ asks[n].fate = "ok"
                         \/ /\ asks[n].round = plan.round
                            /\ journal'[plan.id][plan.round].sent \in {Sending, n}
    BY <1>2 DEF SendRecorded, AsksSame
  <2>1. /\ plan.id = asks[n].id /\ plan.calls[asks[n].round] = asks[n].calls
        /\ \/ asks[n].round < plan.round /\ asks[n].fate = "ok"
           \/ /\ asks[n].round = plan.round
              /\ journal[plan.id][plan.round].sent \in {Sending, n}
    BY DEF IInv, WorldInv, SendRecorded
  <2>2. asks[n].id \in Plans /\ asks[n].round \in Round
    BY DEF IInv, TypeOK, WorldInv, AsksNamed, Live
  <2> QED
    BY <1>1, <2>1, <2>2 DEF At
<1>8. RoundOnce' /\ RoundsDone'
  BY <1>2 DEF IInv, WorldInv, RoundOnce, RoundsDone, AsksSame
<1> QED
  BY <1>3, <1>4, <1>5, <1>6, <1>7, <1>8 DEF WorldInv

----------------------------------------------------------------------------
(* What keeps the windows.                                                 *)

\* One window acts with the lock, or takes it: only what it knows is in question.
LEMMA OneActs ==
  ASSUME IInv, NEW w \in Windows, lock \in {w, None},
         \A v \in Windows \ {w} : pc'[v] = pc[v],
         Knows(w)'
  PROVE  \A v \in Windows : Knows(v)'
<1>1. ASSUME NEW v \in Windows \ {w} PROVE Knows(v)'
  BY OthersOff, OffKnows
<1> QED
  BY <1>1

\* A run that ends knows nothing.
LEMMA OneEnds ==
  ASSUME IInv, NEW w \in Windows, lock \in {w, None}, Rest(w)
  PROVE  \A v \in Windows : Knows(v)'
<1>1. pc'[w] \in Off /\ \A v \in Windows \ {w} : pc'[v] = pc[v]
  BY RestSets DEF IInv, Off
<1> QED
  BY <1>1, OneActs, OffKnows

\* A window that waits for no answer moves.
LEMMA HeardKept ==
  ASSUME IInv, UNCHANGED asks, NEW w \in Windows, pc[w] # "prompt",
         \A v \in Windows \ {w} : pc'[v] = pc[v] /\ mine'[v] = mine[v]
  PROVE  Heard'
<1>1. ASSUME NEW n \in Asks, asks[n].to # None
      PROVE  asks[n].to \in Windows \ {w}
  BY <1>1 DEF IInv, TypeOK, WindowInv, Heard
<1> QED
  BY <1>1 DEF IInv, WindowInv, Heard, At

\* A window hears its answer and leaves the prompt.
LEMMA HeardEnds ==
  ASSUME IInv, NEW w \in Windows, NEW n \in Asks, Hears(w, n),
         \A v \in Windows \ {w} : pc'[v] = pc[v] /\ mine'[v] = mine[v]
  PROVE  Heard' /\ AsksSame /\ asks[n].fate # "none" /\ At(n, mine[w])
<1>1. /\ asks[n].to = w /\ asks' = [asks EXCEPT ![n].to = None]
      /\ asks[n].to # None
  BY ActionPlanAssumption DEF Hears
<1>2. /\ asks'[n].to = None
      /\ \A m \in Asks \ {n} : asks'[m] = asks[m]
      /\ AsksSame
  BY <1>1 DEF IInv, TypeOK, AsksSame
<1>3. ASSUME NEW m \in Asks \ {n}, asks[m].to # None
      PROVE  asks[m].to \in Windows \ {w}
  BY <1>1, <1>3 DEF IInv, TypeOK, WindowInv, Heard
<1>4. Heard'
  BY <1>2, <1>3 DEF IInv, WindowInv, Heard, At
<1> QED
  BY <1>1, <1>2, <1>4 DEF IInv, WindowInv, Heard

\* The plan only moves on, and offers only go.
LEMMA OffersKept ==
  ASSUME IInv, next' \in {next, next + 1},
         \/ plan' = NoPlan
         \/ plan'.id = next
         \/ plan # NoPlan /\ plan'.id = plan.id /\ plan'.round \in {plan.round, plan.round + 1},
         \A w \in Windows : offer'[w] \in {offer[w], NoOffer}
  PROVE  OffersBehind'
<1> SUFFICES ASSUME NEW w \in Windows
             PROVE  /\ offer'[w].id < next'
                    /\ offer'[w].id = 0 => offer'[w] = NoOffer
                    /\ plan' # NoPlan /\ offer'[w].id = plan'.id => offer'[w].round <= plan'.round
  BY DEF OffersBehind
<1>1. /\ next \in Nat \ {0} /\ offer[w].id \in Nat /\ offer[w].round \in Nat
      /\ plan.round \in Nat /\ plan.id \in Nat
  BY Facts, ActionPlanAssumption DEF IInv, TypeOK, Offers, Plans, Round
<1>2. NoOffer.id = 0 /\ NoOffer.round = 0
  BY DEF NoOffer
<1>3. /\ offer[w].id < next
      /\ offer[w].id = 0 => offer[w] = NoOffer
      /\ (plan # NoPlan /\ offer[w].id = plan.id => offer[w].round <= plan.round)
  BY DEF IInv, WindowInv, OffersBehind
<1>4. CASE offer'[w] = offer[w]
  BY <1>1, <1>3, <1>4
<1>5. CASE offer'[w] = NoOffer
  <2>1. plan' # NoPlan => plan'.id # 0
    BY <1>1, Facts DEF IInv, TypeOK, Plans
  <2> QED
    BY <1>1, <1>2, <1>5, <2>1
<1> QED
  BY <1>4, <1>5

LEMMA NoOfferFits == NoOffer \in Offers
BY Facts, ActionPlanAssumption DEF NoOffer, Offers, Plans

----------------------------------------------------------------------------
(* Steps of a run that change no plan, journal or ask.                     *)

\* A run starts: it takes the lock, and what is saved.
LEMMA StartStep ==
  ASSUME IInv, NEW w \in Windows, Start(w)
  PROVE  IInv'
<1>1. /\ lock = None /\ pc[w] = "idle"
      /\ UNCHANGED <<plan, journal, next, refreshes, asks, skipped, over>>
      /\ offer' \in [Windows -> Offers]
      /\ \A v \in Windows : offer'[v] \in {offer[v], NoOffer}
  BY NoOfferFits DEF Start, IInv, TypeOK
<1>2. CASE plan = NoPlan
  <2>1. Go(w, "prepare", NoPlan) /\ UNCHANGED <<fresh, seen>>
    BY <1>2 DEF Start
  <2>2. /\ pc' \in [Windows -> PCs] /\ mine' \in [Windows -> SavedPlans \cup {NoPlan}]
        /\ lock' = w /\ pc'[w] = "prepare"
        /\ \A v \in Windows \ {w} : pc'[v] = pc[v] /\ mine'[v] = mine[v]
    BY <2>1, GoSets DEF IInv, PCs
  <2>3. Knows(w)'
    BY <1>1, <1>2, <2>2 DEF Knows, Off, Running
  <2> QED
    BY <1>1, <1>2, <2>1, <2>2, <2>3, OneActs, HeardKept, OffersKept, WorldSame
       DEF IInv, TypeOK, WindowInv, AsksSame
<1>3. CASE plan # NoPlan
  <2>1. plan \in SavedPlans /\ Continue(w, plan)
    BY <1>3 DEF Start, IInv, TypeOK
  <2>2. /\ pc' \in [Windows -> PCs] /\ mine' \in [Windows -> SavedPlans \cup {NoPlan}]
        /\ fresh' \subseteq Windows /\ seen' \subseteq Windows
        /\ lock' \in Windows \cup {None}
        /\ \/ pc'[w] = "completed"
           \/ plan.round < Rounds /\ pc'[w] = "round" /\ mine'[w] = plan /\ lock' = w
        /\ \A v \in Windows \ {w} : pc'[v] = pc[v] /\ mine'[v] = mine[v]
    BY <2>1, ContinueSets DEF IInv
  <2>3. Knows(w)'
    BY <1>1, <1>3, <2>2 DEF Knows, Off, Running
  <2> QED
    BY <1>1, <1>3, <2>2, <2>3, OneActs, HeardKept, OffersKept, WorldSame
       DEF IInv, TypeOK, WindowInv, AsksSame
<1> QED
  BY <1>2, <1>3

\* A run ends and leaves everything saved as it is.
LEMMA EndsStep ==
  ASSUME IInv, NEW w \in Windows, lock = w, pc[w] # "prompt", Rest(w),
         UNCHANGED <<plan, journal, next, refreshes, asks, skipped, over>>,
         offer' \in [Windows -> Offers], OffersBehind'
  PROVE  IInv'
<1>1. TypeOK'
  BY RestSets DEF IInv, TypeOK
<1>2. WorldInv'
  BY WorldSame DEF AsksSame
<1>3. Heard' /\ \A v \in Windows : Knows(v)'
  BY OneEnds, HeardKept, RestSets DEF IInv
<1> QED
  BY <1>1, <1>2, <1>3 DEF IInv, WindowInv

LEMMA GiveUpStep ==
  ASSUME IInv, NEW w \in Windows, GiveUp(w)
  PROVE  IInv'
<1>1. lock = w /\ pc[w] # "prompt"
  BY DEF GiveUp, IInv, WindowInv, Knows, Off
<1>2. OffersBehind' /\ offer' \in [Windows -> Offers]
  BY DEF GiveUp, IInv, TypeOK, WindowInv, OffersBehind
<1> QED
  BY <1>1, <1>2, EndsStep DEF GiveUp

\* The refused round is offered for discard.
LEMMA RefusedStep ==
  ASSUME IInv, NEW w \in Windows, Refused(w)
  PROVE  IInv'
<1>1. /\ lock = w /\ mine[w] = plan /\ plan.id \in Plans /\ plan.round \in Round
      /\ plan.id < next /\ Reviewed(w) \in Calls
  BY AtWork DEF Refused, Running
<1>2. offer' \in [Windows -> Offers]
  BY <1>1, ActionPlanAssumption DEF Refused, IInv, TypeOK, Offers, Plans
<1>3. ASSUME NEW v \in Windows
      PROVE  \/ offer'[v] = offer[v]
             \/ offer'[v].id = plan.id /\ offer'[v].round = plan.round
  BY <1>1 DEF Refused, IInv, TypeOK
<1>4. OffersBehind'
  BY <1>1, <1>3, ActionPlanAssumption
     DEF Refused, IInv, WindowInv, OffersBehind, Round, Plans
<1> QED
  BY <1>1, <1>2, <1>4, EndsStep DEF Refused

\* A run goes on with the same plan, and what it knows there is shown by the step.
LEMMA GoesStep ==
  ASSUME IInv, NEW w \in Windows, lock \in {w, None}, pc[w] # "prompt",
         NEW to \in PCs, Go(w, to, plan),
         UNCHANGED <<plan, journal, next, fresh, seen, offer, refreshes, asks, skipped, over>>,
         Knows(w)'
  PROVE  IInv'
<1>1. plan \in SavedPlans \cup {NoPlan}
  BY DEF IInv, TypeOK
<1>2. /\ pc' \in [Windows -> PCs] /\ mine' \in [Windows -> SavedPlans \cup {NoPlan}]
      /\ lock' = w
      /\ \A v \in Windows \ {w} : pc'[v] = pc[v] /\ mine'[v] = mine[v]
  BY <1>1, GoSets DEF IInv
<1>3. TypeOK'
  BY <1>2 DEF IInv, TypeOK
<1>4. WorldInv'
  BY WorldSame DEF AsksSame
<1>5. Heard' /\ \A v \in Windows : Knows(v)'
  BY <1>2, OneActs, HeardKept
<1>6. OffersBehind'
  BY DEF IInv, WindowInv, OffersBehind
<1> QED
  BY <1>3, <1>4, <1>5, <1>6 DEF IInv, WindowInv

\* A run that found a receipt with verified effects knows of an ask that succeeded.
LEMMA VerifiedStep ==
  ASSUME IInv, NEW w \in Windows, pc[w] \in {"send", "track"},
         NEW n \in Asks, At(n, mine[w]), asks[n].fate = "ok",
         Go(w, "verified", mine[w]),
         UNCHANGED <<plan, journal, next, fresh, seen, offer, refreshes, asks, skipped, over>>
  PROVE  IInv'
<1>1. /\ lock = w /\ mine[w] = plan /\ plan # NoPlan /\ plan \in SavedPlans
      /\ pc[w] # "prompt" /\ "verified" \in PCs
      /\ plan.round < Rounds
  BY AtWork DEF Running, PCs, IInv, WindowInv, Knows
<1>2. pc'[w] = "verified" /\ mine'[w] = plan /\ lock' = w
  BY <1>1, GoSets DEF IInv
<1>3. At(n, mine[w])' /\ asks'[n].fate = "ok"
  BY <1>1, <1>2 DEF At
<1>4. Knows(w)'
  BY <1>1, <1>2, <1>3 DEF Knows, Off, Running
<1> QED
  BY <1>1, <1>4, GoesStep

LEMMA TrackedStep ==
  ASSUME IInv, NEW w \in Windows, Tracked(w)
  PROVE  IInv'
<1>1. /\ lock = w /\ pc[w] = "track" /\ mine[w] = plan
      /\ plan.id \in Plans /\ plan.round \in Round
      /\ Here(w) = journal[plan.id][plan.round] /\ Here(w).sent \in Asks
  BY AtWork DEF Tracked, Running, IInv, WindowInv, Knows
<1>2. CASE Go(w, "verified", mine[w]) /\ UNCHANGED <<fresh, seen>> /\ asks[Here(w).sent].fate = "ok"
  <2>1. At(Here(w).sent, mine[w])
    BY <1>1 DEF IInv, WorldInv, HashesOwn, At
  <2> QED
    BY <1>1, <1>2, <2>1, VerifiedStep DEF Tracked
<1>3. CASE Rest(w)
  <2>1. OffersBehind' /\ offer' \in [Windows -> Offers]
    BY DEF Tracked, IInv, TypeOK, WindowInv, OffersBehind
  <2> QED
    BY <1>1, <1>3, <2>1, EndsStep DEF Tracked
<1> QED
  BY <1>2, <1>3 DEF Tracked

\* An empty slot, and no plan, leave nothing live.
LEMMA EmptyNoneLive ==
  ASSUME IInv, NEW w \in Windows, pc[w] \in Running, Here(w).sent = Unsent
  PROVE  NoneLive(plan)
<1>1. /\ plan.id \in Plans /\ plan.round \in Round
      /\ Here(w) = journal[plan.id][plan.round]
  BY AtWork
<1> QED
  BY <1>1 DEF NoneLive, At, IInv, WorldInv, SendRecorded, Round, Asks, Unsent, Sending

LEMMA NoPlanNoneLive ==
  ASSUME IInv, plan = NoPlan
  PROVE  \A n \in Asks : ~Live(n)
BY Facts DEF IInv, WorldInv, SendRecorded, AsksNamed, Live, Plans

\* What was sent before is only looked up; a direct send that reverted empties its slot.
LEMMA RecheckStep ==
  ASSUME IInv, NEW w \in Windows, Recheck(w)
  PROVE  IInv'
<1>1. /\ lock = w /\ pc[w] = "send" /\ mine[w] = plan /\ plan # NoPlan
      /\ plan.id \in Plans /\ plan.round \in Round /\ plan.id < next
      /\ Here(w) = journal[plan.id][plan.round] /\ Here(w) \in Journals
      /\ UNCHANGED <<plan, next, offer, refreshes, asks, skipped, over>>
  BY AtWork DEF Recheck, Running
<1>o. OffersBehind' /\ offer' \in [Windows -> Offers]
  BY <1>1 DEF IInv, TypeOK, WindowInv, OffersBehind
<1>2. CASE /\ \E n \in Asks : At(n, mine[w]) /\ asks[n].fate = "ok"
           /\ Go(w, "verified", mine[w])
           /\ UNCHANGED <<journal, fresh, seen>>
  BY <1>1, <1>2, VerifiedStep
<1>3. CASE /\ Here(w).kind = "direct"
           /\ Here(w).sent \in Asks /\ asks[Here(w).sent].fate = "reverted"
           /\ SetHere(w, [Here(w) EXCEPT !.sent = Unsent]) /\ Rest(w)
  <2> DEFINE j == [Here(w) EXCEPT !.sent = Unsent]
  <2>1. /\ SetJournal(plan.id, plan.round, j)
        /\ j \in Journals /\ j.sent = 0 /\ j.kind = "direct"
    <3>1. Here(w) \in [kind : {"direct", "relayr"}, calls : Calls, sent : -1 .. MaxAsks]
      BY <1>1, <1>3, JournalFacts, Facts
    <3> QED
      BY <1>1, <1>3, <3>1, ActionPlanAssumption DEF SetHere, Journals, Unsent
  <2> HIDE DEF j
  <2>2. ASSUME NEW n \in Asks, Live(n) PROVE ~At(n, plan)
    BY <1>1, <1>3, <2>2 DEF At, Live, IInv, WorldInv, SendRecorded, Round, Sending, Asks
  <2>3. \A n \in Asks : j.sent # n
    BY <2>1 DEF Asks
  <2>4. AsksSame
    BY <1>1 DEF AsksSame
  <2>5. WorldInv'
    BY <1>1, <2>1, <2>2, <2>3, <2>4, WorldJournal
  <2>6. TypeOK'
    BY <1>1, <1>3, <2>1, JournalSet, RestSets DEF IInv, TypeOK
  <2>7. Heard' /\ \A v \in Windows : Knows(v)'
    BY <1>1, <1>3, OneEnds, HeardKept, RestSets DEF IInv
  <2> QED
    BY <1>o, <2>5, <2>6, <2>7 DEF IInv, WindowInv
<1>4. CASE Rest(w) /\ UNCHANGED journal
  BY <1>1, <1>o, <1>4, EndsStep
<1> QED
  BY <1>2, <1>3, <1>4 DEF Recheck, At

LEMMA StartDiscardStep ==
  ASSUME IInv, NEW w \in Windows, StartDiscard(w)
  PROVE  IInv'
<1>1. /\ lock = None /\ pc[w] = "idle" /\ Go(w, "discard", plan) /\ "discard" \in PCs
      /\ plan.id = offer[w].id /\ plan.round = 0
      /\ journal[plan.id][offer[w].round].kind # "relayr"
      /\ UNCHANGED <<plan, journal, next, fresh, seen, offer, refreshes, asks, skipped, over>>
  BY DEF StartDiscard, PCs
<1>2. plan # NoPlan /\ offer[w].round = 0
  <2>1. plan # NoPlan
    BY <1>1, Facts DEF StartDiscard, IInv, WindowInv, OffersBehind
  <2>2. offer[w].round \in Nat
    BY ActionPlanAssumption DEF IInv, TypeOK, Offers, Round
  <2> QED
    BY <1>1, <2>1, <2>2 DEF IInv, WindowInv, OffersBehind
<1>3. pc'[w] = "discard" /\ mine'[w] = plan /\ lock' = w
  BY <1>1, GoSets DEF IInv, TypeOK
<1>4. Knows(w)'
  BY <1>1, <1>2, <1>3, Facts DEF Knows, Off, Running, Here
<1> QED
  BY <1>1, <1>4, GoesStep

\* The fresh calls are those that were saved.
LEMMA KeepStep ==
  ASSUME IInv, NEW w \in Windows, Keep(w)
  PROVE  IInv'
<1>1. /\ lock = w /\ pc[w] = "refresh" /\ mine[w] = plan /\ plan # NoPlan
      /\ plan \in SavedPlans /\ plan.round < Rounds /\ "send" \in PCs
      /\ UNCHANGED plan /\ Go(w, "send", plan)
  BY AtWork DEF Keep, Saves, Running, PCs, IInv, WindowInv, Knows
<1>2. pc'[w] = "send" /\ mine'[w] = plan /\ lock' = w
  BY <1>1, GoSets DEF IInv
<1>3. Knows(w)'
  BY <1>1, <1>2 DEF Knows, Off, Running
<1> QED
  BY <1>1, <1>3, GoesStep DEF Keep

----------------------------------------------------------------------------
(* Steps that change the plan.                                             *)

\* The plan with its next round.
LEMMA NextFacts ==
  ASSUME IInv, NEW w \in Windows, mine[w] \in SavedPlans, mine[w].round < Rounds
  PROVE  /\ NextRound(w) \in SavedPlans
         /\ NextRound(w).id = mine[w].id /\ NextRound(w).calls = mine[w].calls
         /\ NextRound(w).round = mine[w].round + 1
<1>1. mine[w].round + 1 \in 0 .. Rounds
  BY Facts
<1> QED
  BY <1>1 DEF NextRound, SavedPlans

\* A round is passed: all that is live of it succeeded, and it was skipped or succeeded.
LEMMA WorldAdvances ==
  ASSUME IInv, plan \in SavedPlans, plan.round < Rounds,
         plan'.id = plan.id, plan'.calls = plan.calls, plan'.round = plan.round + 1,
         UNCHANGED <<journal, next, asks, over>>, skipped \subseteq skipped',
         \A n \in Asks : Live(n) /\ At(n, plan) => asks[n].fate = "ok",
         \/ <<plan.id, plan.round>> \in skipped'
         \/ \E n \in Asks : At(n, plan) /\ asks[n].fate = "ok"
  PROVE  WorldInv'
<1>1. plan # NoPlan /\ plan.round \in Round /\ plan.id # 0
  BY Facts DEF Plans
<1>2. IdsReserved' /\ AsksNamed' /\ HashesOwn' /\ QuotesCurrent' /\ NotOver'
  BY <1>1 DEF IInv, WorldInv, IdsReserved, AsksNamed, HashesOwn, QuotesCurrent, NotOver
<1>3. \A n \in Asks : Live(n)' <=> Live(n)
  BY DEF Live
<1>4. SendRecorded'
  <2> SUFFICES ASSUME NEW n \in Asks, Live(n)
               PROVE  /\ plan.id = asks[n].id /\ plan.calls[asks[n].round] = asks[n].calls
                      /\ asks[n].round < plan.round + 1 /\ asks[n].fate = "ok"
    BY <1>3 DEF SendRecorded
  <2>1. /\ plan.id = asks[n].id /\ plan.calls[asks[n].round] = asks[n].calls
        /\ \/ asks[n].round < plan.round /\ asks[n].fate = "ok"
           \/ asks[n].round = plan.round
    BY DEF IInv, WorldInv, SendRecorded
  <2>2. asks[n].round \in Nat /\ plan.round \in Nat
    BY <1>1, ActionPlanAssumption DEF IInv, TypeOK, Round
  <2> QED
    BY <2>1, <2>2 DEF At
<1>5. RoundOnce'
  BY <1>3 DEF IInv, WorldInv, RoundOnce
<1>6. RoundsDone'
  <2>1. ASSUME NEW r \in Round, r < plan.round + 1 PROVE r < plan.round \/ r = plan.round
    BY <2>1, <1>1, ActionPlanAssumption DEF Round
  <2>2. \A r \in Round : r < plan.round =>
          \/ <<plan.id, r>> \in skipped'
          \/ \E n \in Asks : asks[n].id = plan.id /\ asks[n].round = r /\ asks[n].fate = "ok"
    BY DEF IInv, WorldInv, RoundsDone
  <2> QED
    BY <2>1, <2>2 DEF RoundsDone, At
<1> QED
  BY <1>2, <1>4, <1>5, <1>6 DEF WorldInv

\* A save that throws, after it wrote the plan or not, ends the run.
LEMMA SaveEnds ==
  ASSUME IInv, NEW w \in Windows, lock = w, pc[w] # "prompt",
         NEW s \in SavedPlans, plan' = s \/ UNCHANGED plan, Rest(w),
         UNCHANGED <<journal, refreshes, offer, asks, over>>,
         next' \in {next, next + 1}, next' \in 1 .. MaxPlans + 1,
         skipped' \subseteq Plans \X Round,
         OffersBehind', WorldInv'
  PROVE  IInv'
<1>1. TypeOK'
  BY RestSets DEF IInv, TypeOK
<1>2. Heard' /\ \A v \in Windows : Knows(v)'
  BY OneEnds, HeardKept, RestSets DEF IInv
<1> QED
  BY <1>1, <1>2 DEF IInv, WindowInv

\* The plan advances, and the run goes on, or its save throws.
LEMMA AdvanceStep ==
  ASSUME IInv, NEW w \in Windows, pc[w] \in {"refresh", "verified"},
         UNCHANGED <<journal, next, offer, refreshes, asks, over>>,
         skipped' \in {skipped, skipped \cup {<<plan.id, plan.round>>}},
         \A n \in Asks : Live(n) /\ At(n, plan) => asks[n].fate = "ok",
         \/ <<plan.id, plan.round>> \in skipped'
         \/ \E n \in Asks : At(n, plan) /\ asks[n].fate = "ok",
         \/ Saves(NextRound(w)) /\ Continue(w, NextRound(w))
         \/ Saves(NextRound(w)) /\ Go(w, "saved", mine[w]) /\ UNCHANGED <<fresh, seen>>
         \/ SaveFails(w, NextRound(w))
  PROVE  IInv'
<1>1. /\ lock = w /\ mine[w] = plan /\ plan # NoPlan /\ plan \in SavedPlans
      /\ plan.id \in Plans /\ plan.round \in Round /\ plan.round < Rounds /\ plan.round \in Nat
      /\ pc[w] # "prompt"
  BY AtWork, ActionPlanAssumption DEF Running, IInv, WindowInv, Knows, Round
<1>2. /\ NextRound(w) \in SavedPlans
      /\ NextRound(w).id = plan.id /\ NextRound(w).calls = plan.calls
      /\ NextRound(w).round = plan.round + 1
  BY <1>1, NextFacts
<1>3. plan' = NextRound(w) => WorldInv'
  BY <1>1, <1>2, WorldAdvances
<1>4. skipped' \subseteq Plans \X Round /\ next' \in 1 .. MaxPlans + 1
  BY <1>1 DEF IInv, TypeOK
<1>5. plan' = NextRound(w) \/ UNCHANGED plan => OffersBehind'
  BY <1>1, <1>2, OffersKept
<1>6. CASE SaveFails(w, NextRound(w))
  <2>1. UNCHANGED plan => WorldInv'
    <3>1. ASSUME UNCHANGED plan PROVE RoundsDone'
      BY <3>1 DEF IInv, WorldInv, RoundsDone
    <3> QED
      BY <3>1 DEF IInv, WorldInv, IdsReserved, AsksNamed, HashesOwn, QuotesCurrent, NotOver,
                  SendRecorded, RoundOnce, Live
  <2>2. (plan' = NextRound(w) \/ UNCHANGED plan) /\ Rest(w)
    BY <1>6 DEF SaveFails
  <2> QED
    BY <1>1, <1>2, <1>3, <1>4, <1>5, <2>1, <2>2, SaveEnds
<1>7. CASE plan' = NextRound(w) /\ Continue(w, NextRound(w))
  <2>1. /\ pc' \in [Windows -> PCs] /\ mine' \in [Windows -> SavedPlans \cup {NoPlan}]
        /\ fresh' \subseteq Windows /\ seen' \subseteq Windows
        /\ lock' \in Windows \cup {None}
        /\ \/ pc'[w] = "completed"
           \/ plan'.round < Rounds /\ pc'[w] = "round" /\ mine'[w] = plan' /\ lock' = w
        /\ \A v \in Windows \ {w} : pc'[v] = pc[v] /\ mine'[v] = mine[v]
    BY <1>2, <1>7, ContinueSets DEF IInv
  <2>2. Knows(w)'
    BY <1>2, <1>7, <2>1, Facts DEF Knows, Off, Running
  <2>3. TypeOK'
    BY <1>2, <1>4, <1>7, <2>1 DEF IInv, TypeOK
  <2> QED
    BY <1>1, <1>3, <1>5, <1>7, <2>1, <2>2, <2>3, OneActs, HeardKept DEF IInv, WindowInv
<1>8. CASE plan' = NextRound(w) /\ Go(w, "saved", mine[w]) /\ UNCHANGED <<fresh, seen>>
  <2>1. /\ pc' \in [Windows -> PCs] /\ mine' \in [Windows -> SavedPlans \cup {NoPlan}]
        /\ lock' = w /\ pc'[w] = "saved" /\ mine'[w] = mine[w]
        /\ \A v \in Windows \ {w} : pc'[v] = pc[v] /\ mine'[v] = mine[v]
    BY <1>1, <1>8, GoSets DEF IInv, PCs
  <2>2. Knows(w)'
    BY <1>1, <1>2, <1>8, <2>1 DEF Knows, Off, Running, NextRound
  <2>3. TypeOK'
    BY <1>1, <1>2, <1>4, <1>8, <2>1 DEF IInv, TypeOK
  <2> QED
    BY <1>1, <1>3, <1>5, <1>8, <2>1, <2>2, <2>3, OneActs, HeardKept DEF IInv, WindowInv
<1> QED
  BY <1>6, <1>7, <1>8 DEF Saves

LEMMA SkipStep ==
  ASSUME IInv, NEW w \in Windows, Skip(w)
  PROVE  IInv'
<1>1. pc[w] = "refresh" /\ mine[w] = plan /\ Here(w).sent = Unsent
  BY AtWork, Facts DEF Skip, Running, IInv, WindowInv, Knows, Unsent
<1>2. NoneLive(plan)
  BY <1>1, EmptyNoneLive DEF Running
<1> QED
  BY <1>1, <1>2, AdvanceStep DEF Skip, NoneLive

\* Only the ask that succeeded can be live in the round that is checkpointed.
LEMMA CheckpointStep ==
  ASSUME IInv, NEW w \in Windows, Checkpoint(w)
  PROVE  IInv'
<1>1. /\ pc[w] = "verified" /\ mine[w] = plan /\ plan # NoPlan
      /\ \E n \in Asks : At(n, plan) /\ asks[n].fate = "ok"
  BY AtWork DEF Checkpoint, Running, IInv, WindowInv, Knows
<1>2. PICK n \in Asks : At(n, plan) /\ asks[n].fate = "ok"
  BY <1>1
<1>3. Live(n)
  BY <1>1, <1>2 DEF Live, At, IInv, WorldInv, NotOver
<1>4. ASSUME NEW m \in Asks, Live(m), At(m, plan) PROVE asks[m].fate = "ok"
  BY <1>2, <1>3, <1>4 DEF At, IInv, WorldInv, RoundOnce
<1> QED
  BY <1>1, <1>4, AdvanceStep DEF Checkpoint

\* A new plan is saved where none was.
LEMMA PreparedStep ==
  ASSUME IInv, NEW w \in Windows, Prepared(w)
  PROVE  IInv'
<1> DEFINE s == [NoPlan EXCEPT !.id = next]
<1>1. /\ lock = w /\ pc[w] = "prepare" /\ plan = NoPlan /\ next \in Plans
      /\ next' = next + 1 /\ "round" \in PCs
      /\ UNCHANGED <<journal, offer, refreshes, asks, skipped, over>>
  BY DEF Prepared, IInv, WindowInv, Knows, Off, PCs
<1>2. s \in SavedPlans /\ s.id = next /\ s.round = 0 /\ s # NoPlan
  BY <1>1, Facts DEF NoPlan, SavedPlans, Plans
<1>3. \/ plan' = s /\ Go(w, "round", s) /\ fresh' = fresh \cup {w} /\ UNCHANGED seen
      \/ plan' \in {plan, s} /\ Rest(w)
  BY <1>1 DEF Prepared, Saves, SaveFails
<1> HIDE DEF s
<1>4. WorldInv'
  <2>1. plan'.id \in {0, next} /\ plan'.round = 0
    BY <1>1, <1>2, <1>3, Facts
  <2>2. next \in Nat \ {0} /\ next + 1 \in Nat
    BY <1>1, ActionPlanAssumption DEF Plans
  <2>3. \A n \in Asks : ~Live(n)'
    BY <1>1, NoPlanNoneLive DEF Live
  <2>4. IdsReserved' /\ AsksNamed'
    BY <1>1, <2>1, <2>2, ActionPlanAssumption
       DEF IInv, TypeOK, WorldInv, IdsReserved, AsksNamed, Plans
  <2>5. QuotesCurrent' /\ NotOver'
    BY <1>1, <1>2, <1>3, <2>1, Facts
       DEF IInv, WorldInv, IdsReserved, QuotesCurrent, NotOver, Plans
  <2>6. RoundsDone'
    BY <2>1 DEF RoundsDone, Round
  <2> QED
    BY <1>1, <2>3, <2>4, <2>5, <2>6
       DEF IInv, WorldInv, HashesOwn, SendRecorded, RoundOnce
<1>5. OffersBehind'
  BY <1>1, <1>2, <1>3, OffersKept
<1>6. next' \in 1 .. MaxPlans + 1
  BY <1>1, ActionPlanAssumption DEF Plans
<1>7. CASE Rest(w) /\ plan' \in {plan, s}
  BY <1>1, <1>2, <1>4, <1>5, <1>6, <1>7, SaveEnds DEF IInv, TypeOK
<1>8. CASE plan' = s /\ Go(w, "round", s) /\ fresh' = fresh \cup {w} /\ UNCHANGED seen
  <2>1. /\ pc' \in [Windows -> PCs] /\ mine' \in [Windows -> SavedPlans \cup {NoPlan}]
        /\ lock' = w /\ pc'[w] = "round" /\ mine'[w] = s
        /\ \A v \in Windows \ {w} : pc'[v] = pc[v] /\ mine'[v] = mine[v]
    BY <1>1, <1>2, <1>8, GoSets DEF IInv
  <2>2. Knows(w)'
    BY <1>2, <1>8, <2>1, Facts DEF Knows, Off, Running
  <2>3. TypeOK'
    BY <1>1, <1>2, <1>6, <1>8, <2>1 DEF IInv, TypeOK
  <2> QED
    BY <1>1, <1>4, <1>5, <2>1, <2>2, <2>3, OneActs, HeardKept DEF IInv, WindowInv
<1> QED
  BY <1>3, <1>7, <1>8

\* The calls of a round with nothing in its journal are replaced.
LEMMA ReplaceStep ==
  ASSUME IInv, NEW w \in Windows, Replace(w)
  PROVE  IInv'
<1> DEFINE s == [mine[w] EXCEPT !.calls[mine[w].round] = @ + 1]
<1>1. /\ lock = w /\ pc[w] = "refresh" /\ mine[w] = plan /\ plan # NoPlan
      /\ plan \in SavedPlans /\ plan.id \in Plans /\ plan.round \in Round /\ plan.round < Rounds
      /\ Here(w) = NoJournal /\ journal[plan.id][plan.round] = NoJournal
      /\ plan.calls[plan.round] \in Calls /\ plan.calls[plan.round] < MaxVersions
      /\ "send" \in PCs
      /\ UNCHANGED <<journal, next, offer, refreshes, asks, skipped, over>>
  BY AtWork DEF Replace, Running, PCs, IInv, WindowInv, Knows
<1>2. /\ s \in SavedPlans /\ s.id = plan.id /\ s.round = plan.round /\ s # NoPlan
      /\ \A r \in Round : r # plan.round => s.calls[r] = plan.calls[r]
  <2>1. plan.calls[plan.round] + 1 \in Calls
    BY <1>1, ActionPlanAssumption DEF Calls
  <2>2. plan.calls \in [Round -> Calls]
    BY <1>1 DEF SavedPlans
  <2>3. /\ s.id = plan.id /\ s.round = plan.round
        /\ s.calls = [plan.calls EXCEPT ![plan.round] = @ + 1]
        /\ s \in SavedPlans
    BY <1>1, <2>1, <2>2 DEF SavedPlans
  <2> QED
    BY <2>2, <2>3, Facts
<1>3. \/ plan' = s /\ Go(w, "send", s) /\ UNCHANGED <<fresh, seen>>
      \/ plan' \in {plan, s} /\ Rest(w)
  BY DEF Replace, Saves, SaveFails
<1> HIDE DEF s
<1>4. WorldInv'
  <2>1. NoneLive(plan)
    BY <1>1, EmptyNoneLive, Facts DEF Running, Unsent
  <2>2. /\ plan'.id = plan.id /\ plan'.round = plan.round
        /\ \A r \in Round : r # plan.round => plan'.calls[r] = plan.calls[r]
    BY <1>2, <1>3
  <2>3. SendRecorded'
    <3> SUFFICES ASSUME NEW n \in Asks, Live(n)
                 PROVE  /\ plan.id = asks[n].id /\ plan'.calls[asks[n].round] = asks[n].calls
                        /\ asks[n].round < plan.round /\ asks[n].fate = "ok"
      BY <1>1, <2>2 DEF SendRecorded, Live
    <3>1. asks[n].round # plan.round
      BY <2>1 DEF NoneLive, At, IInv, WorldInv, SendRecorded
    <3> QED
      BY <2>2, <3>1 DEF IInv, TypeOK, WorldInv, SendRecorded
  <2>4. QuotesCurrent'
    BY <1>1, <2>2, Facts DEF IInv, WorldInv, QuotesCurrent
  <2>5. RoundsDone' /\ RoundOnce'
    BY <1>1, <2>2 DEF IInv, WorldInv, RoundsDone, RoundOnce, Live
  <2> QED
    BY <1>1, <2>2, <2>3, <2>4, <2>5
       DEF IInv, WorldInv, IdsReserved, AsksNamed, HashesOwn, NotOver
<1>5. OffersBehind'
  BY <1>1, <1>2, <1>3, OffersKept
<1>6. CASE Rest(w) /\ plan' \in {plan, s}
  BY <1>1, <1>2, <1>4, <1>5, <1>6, SaveEnds DEF IInv, TypeOK
<1>7. CASE plan' = s /\ Go(w, "send", s) /\ UNCHANGED <<fresh, seen>>
  <2>1. /\ pc' \in [Windows -> PCs] /\ mine' \in [Windows -> SavedPlans \cup {NoPlan}]
        /\ lock' = w /\ pc'[w] = "send" /\ mine'[w] = s
        /\ \A v \in Windows \ {w} : pc'[v] = pc[v] /\ mine'[v] = mine[v]
    BY <1>1, <1>2, <1>7, GoSets DEF IInv
  <2>2. Knows(w)'
    BY <1>1, <1>2, <1>7, <2>1 DEF Knows, Off, Running
  <2>3. TypeOK'
    BY <1>1, <1>2, <1>7, <2>1 DEF IInv, TypeOK
  <2> QED
    BY <1>1, <1>4, <1>5, <2>1, <2>2, <2>3, OneActs, HeardKept DEF IInv, WindowInv
<1> QED
  BY <1>3, <1>6, <1>7

\* A plan that is removed had nothing live left.
LEMMA WorldEnds ==
  ASSUME IInv, plan' = NoPlan, UNCHANGED <<journal, next, asks, skipped>>,
         over' \in {over, over \cup {plan.id}},
         \A n \in Asks : ~Live(n)'
  PROVE  WorldInv'
<1>1. IdsReserved'
  <2>1. 0 < next /\ plan.id < next
    BY Facts, ActionPlanAssumption DEF IInv, TypeOK, WorldInv, IdsReserved
  <2>2. \A p \in Plans : p >= next => p # plan.id
    BY <2>1, Facts, ActionPlanAssumption DEF IInv, TypeOK, Plans
  <2> QED
    BY <2>1, <2>2, Facts DEF IInv, WorldInv, IdsReserved
<1>2. RoundsDone'
  BY Facts DEF RoundsDone, Round
<1> QED
  BY <1>1, <1>2 DEF IInv, WorldInv, AsksNamed, HashesOwn, QuotesCurrent, NotOver,
                    SendRecorded, RoundOnce

\* Whatever complete plan is saved goes: no run works on it, though one may be cleaning up.
LEMMA AcknowledgeStep ==
  ASSUME IInv, NEW w \in Windows, Acknowledge(w)
  PROVE  IInv'
<1>1. /\ pc[w] = "completed" /\ pc' = [pc EXCEPT ![w] = "idle"]
      /\ UNCHANGED <<journal, lock, next, mine, fresh, seen, offer, refreshes, asks, skipped>>
  BY DEF Acknowledge
<1>2. Heard'
  BY <1>1, HeardKept DEF IInv, TypeOK
<1>3. ASSUME NEW v \in Windows PROVE pc'[v] = pc[v] \/ pc'[v] \in Off
  BY <1>1 DEF IInv, TypeOK, Off
<1>4. CASE /\ plan # NoPlan /\ plan.round = Rounds
           /\ plan' = NoPlan /\ over' = over \cup {plan.id}
  <2>1. plan \in SavedPlans /\ plan.id \in Plans
    BY <1>4, Facts DEF IInv, TypeOK
  <2>2. TypeOK'
    BY <1>1, <1>4, <2>1 DEF IInv, TypeOK, PCs
  <2>3. \A n \in Asks : ~Live(n)'
    BY <1>1, <1>4 DEF Live, IInv, WorldInv, SendRecorded
  <2>4. WorldInv'
    BY <1>1, <1>4, <2>3, WorldEnds
  <2>5. OffersBehind'
    BY <1>1, <1>4, OffersKept
  <2>6. ASSUME NEW v \in Windows, pc'[v] = pc[v], pc[v] \notin Off PROVE Knows(v)'
    <3>1. Knows(v)
      BY DEF IInv, WindowInv
    <3>2. pc[v] \notin Running /\ pc[v] # "prepare"
      BY <1>4, <3>1, Facts DEF Knows
    <3>3. pc[v] = "saved"
      BY <2>6, <3>2 DEF IInv, TypeOK, PCs, Off, Running
    <3>4. plan = NextRound(v) /\ mine[v] \in SavedPlans
      BY <1>4, <3>1, <3>3 DEF Knows
    <3>5. mine[v].round + 1 = Rounds
      BY <1>4, <3>1, <3>3, <3>4, NextFacts DEF Knows
    <3> QED
      BY <1>1, <1>4, <2>6, <3>1, <3>3, <3>4, <3>5 DEF Knows, Off, Running
  <2> QED
    BY <1>2, <1>3, <2>2, <2>4, <2>5, <2>6, OffKnows DEF IInv, WindowInv
<1>5. CASE UNCHANGED <<plan, over>>
  <2>1. TypeOK' /\ WorldInv'
    BY <1>1, <1>5, WorldSame DEF IInv, TypeOK, PCs, AsksSame
  <2>2. OffersBehind'
    BY <1>1, <1>5 DEF IInv, WindowInv, OffersBehind
  <2>3. ASSUME NEW v \in Windows, pc'[v] = pc[v] PROVE Knows(v)'
    BY <1>1, <1>5, <2>3
       DEF IInv, WindowInv, Knows, Here, Reviewed, NextRound, NoneLive, At, Live
  <2> QED
    BY <1>2, <1>3, <2>1, <2>2, <2>3, OffKnows DEF IInv, WindowInv
<1> QED
  BY <1>1, <1>4, <1>5 DEF Acknowledge

\* A plan whose journal is clear goes, or its removal fails.
LEMMA EndDiscardStep ==
  ASSUME IInv, NEW w \in Windows, EndDiscard(w)
  PROVE  IInv'
<1>1. /\ lock = w /\ pc[w] = "drop" /\ mine[w] = plan /\ plan # NoPlan /\ plan.round = 0
      /\ Here(w) = NoJournal /\ Rest(w)
      /\ UNCHANGED <<journal, next, refreshes, asks, skipped, over>>
  BY AtWork DEF EndDiscard, Running, IInv, WindowInv, Knows
<1>2. plan' \in {NoPlan, plan} /\ offer' = [offer EXCEPT ![w] = NoOffer]
  BY DEF EndDiscard
<1>3. OffersBehind' /\ offer' \in [Windows -> Offers]
  <2>1. \A v \in Windows : offer'[v] \in {offer[v], NoOffer}
    BY <1>2 DEF IInv, TypeOK
  <2>2. plan.round \in {plan.round, plan.round + 1}
    OBVIOUS
  <2> QED
    BY <1>1, <1>2, <2>1, <2>2, OffersKept, NoOfferFits DEF IInv, TypeOK
<1>4. CASE plan' = NoPlan
  <2>1. NoneLive(plan)
    BY <1>1, EmptyNoneLive, Facts DEF Running, Unsent
  <2>2. \A n \in Asks : ~Live(n)'
    BY <1>1, <2>1, Facts
       DEF Live, NoneLive, At, IInv, TypeOK, WorldInv, SendRecorded, Round
  <2>3. WorldInv'
    BY <1>1, <1>4, <2>2, WorldEnds
  <2>4. TypeOK'
    BY <1>1, <1>3, <1>4, RestSets DEF IInv, TypeOK
  <2>5. Heard' /\ \A v \in Windows : Knows(v)'
    BY <1>1, OneEnds, HeardKept, RestSets DEF IInv
  <2> QED
    BY <1>3, <2>3, <2>4, <2>5 DEF IInv, WindowInv
<1>5. CASE plan' = plan
  BY <1>1, <1>3, <1>5, EndsStep
<1> QED
  BY <1>2, <1>4, <1>5

----------------------------------------------------------------------------
(* Steps that change the journal of the current round.                     *)

AskRecords == [id : 0 .. MaxPlans, round : Round, calls : Calls, fate : Fates,
               to : Windows \cup {None}]

\* A run goes on, and the step shows what it did to the world.
LEMMA GoesWith ==
  ASSUME IInv, NEW w \in Windows, pc[w] \in Running, NEW to \in PCs, Go(w, to, plan),
         fresh' \subseteq Windows, seen' \subseteq Windows,
         UNCHANGED <<plan, next, offer, refreshes, skipped, over>>,
         journal' \in [Plans -> [Round -> Journals]], asks' \in [Asks -> AskRecords],
         WorldInv', Heard', Knows(w)'
  PROVE  IInv'
<1>1. lock = w /\ plan \in SavedPlans
  BY AtWork
<1>2. /\ pc' \in [Windows -> PCs] /\ mine' \in [Windows -> SavedPlans \cup {NoPlan}]
      /\ lock' = w
      /\ \A v \in Windows \ {w} : pc'[v] = pc[v] /\ mine'[v] = mine[v]
  BY <1>1, GoSets DEF IInv
<1>3. TypeOK'
  BY <1>2 DEF IInv, TypeOK, AskRecords
<1>4. \A v \in Windows : Knows(v)'
  BY <1>1, <1>2, OneActs
<1>5. OffersBehind'
  BY DEF IInv, WindowInv, OffersBehind
<1> QED
  BY <1>3, <1>4, <1>5 DEF IInv, WindowInv

\* A run ends, and the step shows what it did to the world.
LEMMA EndsWith ==
  ASSUME IInv, NEW w \in Windows, pc[w] \in Running, Rest(w),
         UNCHANGED <<plan, next, refreshes, skipped, over>>,
         journal' \in [Plans -> [Round -> Journals]], asks' \in [Asks -> AskRecords],
         offer' \in [Windows -> Offers], \A v \in Windows : offer'[v] \in {offer[v], NoOffer},
         WorldInv', Heard'
  PROVE  IInv'
<1>1. lock = w /\ plan # NoPlan
  BY AtWork
<1>2. TypeOK'
  BY RestSets DEF IInv, TypeOK, AskRecords
<1>3. \A v \in Windows : Knows(v)'
  BY <1>1, OneEnds
<1>4. OffersBehind'
  BY <1>1, OffersKept
<1> QED
  BY <1>2, <1>3, <1>4 DEF IInv, WindowInv

\* The journal of the current round is set.
LEMMA HereSet ==
  ASSUME IInv, NEW w \in Windows, pc[w] \in Running, NEW j \in Journals, SetHere(w, j),
         AsksSame, UNCHANGED <<plan, next, skipped, over>>,
         j.sent = 0 \/ j.sent = Sending \/ (j.sent \in Asks /\ At(j.sent, plan)
                                             /\ asks[j.sent].fate # "none"),
         j.kind = "relayr" => j.calls = Reviewed(w),
         \A n \in Asks : Live(n) /\ At(n, plan) => j.sent \in {Sending, n}
  PROVE  /\ WorldInv'
         /\ journal' \in [Plans -> [Round -> Journals]]
         /\ journal'[plan.id][plan.round] = j
<1>1. /\ plan.id \in Plans /\ plan.round \in Round /\ plan.id < next
      /\ Reviewed(w) = plan.calls[plan.round]
      /\ SetJournal(plan.id, plan.round, j)
  BY AtWork DEF SetHere
<1>2. \A n \in Asks : j.sent = n =>
        asks[n].fate # "none" /\ asks[n].id = plan.id /\ asks[n].round = plan.round
  BY DEF At, Asks, Sending
<1> QED
  BY <1>1, <1>2, WorldJournal, JournalSet DEF IInv

\* The calls of a quote are those of its round.
LEMMA QuoteHere ==
  ASSUME IInv, NEW w \in Windows, pc[w] \in Running, Here(w).kind = "relayr"
  PROVE  Here(w).calls = Reviewed(w)
BY AtWork DEF IInv, WorldInv, QuotesCurrent

\* A round begins: what is unsent may be cleared for fresh calls.
LEMMA BeginRoundStep ==
  ASSUME IInv, NEW w \in Windows, BeginRound(w)
  PROVE  IInv'
<1>1. /\ pc[w] = "round" /\ pc[w] \in Running /\ mine[w] = plan /\ plan # NoPlan
      /\ plan \in SavedPlans /\ Here(w) \in Journals /\ plan.round < Rounds /\ lock = w
      /\ "refresh" \in PCs /\ "send" \in PCs
      /\ UNCHANGED <<plan, next, fresh, offer, refreshes, asks, skipped, over>>
  BY AtWork DEF BeginRound, Running, PCs, IInv, WindowInv, Knows
<1>2. /\ fresh' \subseteq Windows /\ seen' \subseteq Windows
      /\ asks' \in [Asks -> AskRecords] /\ AsksSame
  BY <1>1 DEF BeginRound, IInv, TypeOK, AskRecords, AsksSame
<1>3. CASE SetHere(w, NoJournal) /\ Go(w, "refresh", plan) /\ Here(w).kind # "relayr"
           /\ Clearable(Here(w), Reviewed(w))
  <2>1. Here(w).sent = Unsent
    BY <1>1, <1>3, JournalFacts, Facts DEF Clearable, Unsent
  <2>2. NoneLive(plan)
    BY <1>1, <2>1, EmptyNoneLive
  <2>3. /\ WorldInv' /\ journal' \in [Plans -> [Round -> Journals]]
        /\ journal'[plan.id][plan.round] = NoJournal
    BY <1>1, <1>2, <1>3, <2>2, Facts, HereSet DEF NoneLive
  <2>4. /\ pc'[w] = "refresh" /\ mine'[w] = plan /\ lock' = w
        /\ \A v \in Windows \ {w} : pc'[v] = pc[v] /\ mine'[v] = mine[v]
    BY <1>1, <1>3, GoSets DEF IInv
  <2>5. Knows(w)' /\ Heard'
    BY <1>1, <2>3, <2>4, HeardKept DEF Knows, Off, Running, Here
  <2> QED
    BY <1>1, <1>2, <1>3, <2>3, <2>5, GoesWith
<1>4. CASE UNCHANGED journal /\ Go(w, "send", plan)
  <2>1. WorldInv' /\ journal' \in [Plans -> [Round -> Journals]]
    BY <1>1, <1>2, <1>4, WorldSame DEF IInv, TypeOK
  <2>2. /\ pc'[w] = "send" /\ mine'[w] = plan /\ lock' = w
        /\ \A v \in Windows \ {w} : pc'[v] = pc[v] /\ mine'[v] = mine[v]
    BY <1>1, <1>4, GoSets DEF IInv
  <2>3. Knows(w)' /\ Heard'
    BY <1>1, <2>2, HeardKept DEF Knows, Off, Running
  <2> QED
    BY <1>1, <1>2, <1>4, <2>1, <2>3, GoesWith
<1> QED
  BY <1>1, <1>3, <1>4 DEF BeginRound

\* A quote fills an empty journal, which shows that nothing is live.
LEMMA QuoteStep ==
  ASSUME IInv, NEW w \in Windows, Quote(w)
  PROVE  IInv'
<1> DEFINE j == [kind |-> "relayr", calls |-> Reviewed(w), sent |-> Unsent]
<1>1. /\ pc[w] = "send" /\ pc[w] \in Running /\ mine[w] = plan /\ plan # NoPlan
      /\ plan \in SavedPlans /\ plan.round < Rounds /\ lock = w /\ "send" \in PCs
      /\ Here(w) = NoJournal /\ Reviewed(w) \in Calls
      /\ SetHere(w, j)
      /\ UNCHANGED <<plan, lock, next, pc, mine, fresh, seen, offer, refreshes, asks, skipped, over>>
  BY AtWork DEF Quote, Running, PCs, IInv, WindowInv, Knows
<1>2. /\ j \in Journals /\ j.sent = 0 /\ j.calls = Reviewed(w)
  BY <1>1, ActionPlanAssumption DEF Journals, Unsent
<1> HIDE DEF j
<1>3. NoneLive(plan)
  BY <1>1, EmptyNoneLive, Facts DEF Unsent
<1>4. AsksSame /\ asks' \in [Asks -> AskRecords]
  BY <1>1 DEF AsksSame, IInv, TypeOK, AskRecords
<1>5. WorldInv' /\ journal' \in [Plans -> [Round -> Journals]]
  BY <1>1, <1>2, <1>3, <1>4, HereSet DEF NoneLive
<1>6. Knows(w)' /\ Heard'
  BY <1>1, HeardKept DEF Knows, Off, Running
<1>7. Go(w, "send", plan)
  BY <1>1 DEF Go, IInv, TypeOK
<1> QED
  BY <1>1, <1>4, <1>5, <1>6, <1>7, GoesWith DEF IInv, TypeOK

\* The journal is marked before the wallet is asked: nothing of the round is live yet.
LEMMA MarkStep ==
  ASSUME IInv, NEW w \in Windows, Mark(w)
  PROVE  IInv'
<1> DEFINE j == IF Here(w) = NoJournal
                THEN [kind |-> "direct", calls |-> Reviewed(w), sent |-> Sending]
                ELSE [Here(w) EXCEPT !.sent = Sending]
<1>1. /\ pc[w] = "send" /\ pc[w] \in Running /\ mine[w] = plan /\ plan # NoPlan
      /\ plan \in SavedPlans /\ plan.round < Rounds /\ lock = w /\ "called" \in PCs
      /\ Here(w) \in Journals /\ Reviewed(w) \in Calls
      /\ Here(w) = NoJournal
         \/ (Here(w).sent = Unsent /\ (Here(w).kind = "direct" => Here(w).calls = Reviewed(w)))
      /\ SetHere(w, j) /\ Go(w, "called", plan)
      /\ UNCHANGED <<plan, next, fresh, seen, offer, refreshes, asks, skipped, over>>
  BY AtWork DEF Mark, Running, PCs, IInv, WindowInv, Knows
<1>2. j \in Journals /\ j.sent = Sending /\ j.calls = Reviewed(w)
  <2>1. CASE Here(w) = NoJournal
    BY <1>1, <2>1, ActionPlanAssumption DEF Journals, Sending
  <2>2. CASE Here(w) # NoJournal
    <3>1. Here(w) \in [kind : {"direct", "relayr"}, calls : Calls, sent : -1 .. MaxAsks]
      BY <1>1, <2>2, JournalFacts
    <3>2. Here(w).calls = Reviewed(w)
      BY <1>1, <2>2, <3>1, QuoteHere
    <3> QED
      BY <2>2, <3>1, <3>2, ActionPlanAssumption DEF Journals, Sending
  <2> QED
    BY <2>1, <2>2
<1> HIDE DEF j
<1>3. NoneLive(plan)
  BY <1>1, EmptyNoneLive, Facts DEF Unsent
<1>4. AsksSame /\ asks' \in [Asks -> AskRecords]
  BY <1>1 DEF AsksSame, IInv, TypeOK, AskRecords
<1>5. /\ WorldInv' /\ journal' \in [Plans -> [Round -> Journals]]
      /\ journal'[plan.id][plan.round] = j
  BY <1>1, <1>2, <1>3, <1>4, HereSet DEF NoneLive
<1>6. /\ pc'[w] = "called" /\ mine'[w] = plan /\ lock' = w
      /\ \A v \in Windows \ {w} : pc'[v] = pc[v] /\ mine'[v] = mine[v]
  BY <1>1, GoSets DEF IInv
<1>7. NoneLive(mine[w])'
  BY <1>1, <1>3, <1>6 DEF NoneLive, At, Live
<1>8. Heard'
  BY <1>1, <1>6, HeardKept
<1>9. Knows(w)'
  BY <1>1, <1>2, <1>5, <1>6, <1>7 DEF Knows, Off, Running, Here, Reviewed
<1> QED
  BY <1>1, <1>4, <1>5, <1>8, <1>9, GoesWith DEF IInv, TypeOK

\* The journal of a completed round goes, while nothing looks at it.
LEMMA EndRoundStep ==
  ASSUME IInv, NEW w \in Windows, EndRound(w)
  PROVE  IInv'
<1>1. /\ pc[w] = "saved" /\ lock = w
      /\ mine[w] \in SavedPlans /\ mine[w].round < Rounds
      /\ plan = NextRound(w) \/ (plan = NoPlan /\ mine[w].round + 1 = Rounds)
      /\ Continue(w, NextRound(w))
      /\ UNCHANGED <<plan, next, offer, refreshes, asks, skipped, over>>
  BY DEF EndRound, IInv, WindowInv, Knows, Off
<1>2. /\ NextRound(w) \in SavedPlans /\ NextRound(w).id = mine[w].id
      /\ NextRound(w).round = mine[w].round + 1
      /\ mine[w].id \in Plans /\ mine[w].round \in Round /\ mine[w].round \in Nat
  BY <1>1, NextFacts, Facts, ActionPlanAssumption DEF Round
<1>3. /\ pc' \in [Windows -> PCs] /\ mine' \in [Windows -> SavedPlans \cup {NoPlan}]
      /\ fresh' \subseteq Windows /\ seen' \subseteq Windows
      /\ lock' \in Windows \cup {None}
      /\ \/ pc'[w] = "completed"
         \/ /\ NextRound(w).round < Rounds /\ pc'[w] = "round"
            /\ mine'[w] = NextRound(w) /\ lock' = w
      /\ \A v \in Windows \ {w} : pc'[v] = pc[v] /\ mine'[v] = mine[v]
  BY <1>1, <1>2, ContinueSets DEF IInv
<1>4. Knows(w)'
  BY <1>1, <1>2, <1>3, Facts DEF Knows, Off, Running
<1>5. AsksSame
  BY <1>1 DEF AsksSame
<1>6. WorldInv' /\ journal' \in [Plans -> [Round -> Journals]]
  <2>1. CASE SetJournal(mine[w].id, mine[w].round, NoJournal)
    <3>1. ~(mine[w].id = plan.id /\ mine[w].round = plan.round)
      BY <1>1, <1>2, Facts DEF Plans
    <3>2. \A n \in Asks : NoJournal.sent # n
      BY Facts DEF Asks
    <3> QED
      BY <1>1, <1>2, <1>5, <2>1, <3>1, <3>2, Facts, WorldJournal, JournalSet DEF IInv
  <2>2. CASE UNCHANGED journal
    BY <1>1, <1>5, <2>2, WorldSame DEF IInv, TypeOK
  <2> QED
    BY <2>1, <2>2 DEF EndRound, SetHere
<1>7. TypeOK'
  BY <1>1, <1>3, <1>6 DEF IInv, TypeOK
<1>8. OffersBehind'
  BY <1>1 DEF IInv, WindowInv, OffersBehind
<1>9. Heard' /\ \A v \in Windows : Knows(v)'
  BY <1>1, <1>3, <1>4, OneActs, HeardKept
<1> QED
  BY <1>6, <1>7, <1>8, <1>9 DEF IInv, WindowInv

\* The discard goes on only when nothing of the plan was submitted.
LEMMA ClearDiscardStep ==
  ASSUME IInv, NEW w \in Windows, ClearDiscard(w)
  PROVE  IInv'
<1> DEFINE j == Cleared(Here(w))
<1>1. /\ pc[w] = "discard" /\ pc[w] \in Running /\ mine[w] = plan /\ plan # NoPlan
      /\ plan \in SavedPlans /\ plan.round < Rounds /\ lock = w /\ "drop" \in PCs
      /\ plan.round = 0 /\ offer[w].round = 0
      /\ Here(w) \in Journals /\ Here(w).kind # "relayr"
      /\ UNCHANGED <<plan, next, refreshes, asks, skipped, over>>
  BY AtWork DEF ClearDiscard, Running, PCs, IInv, WindowInv, Knows
<1>2. AsksSame /\ asks' \in [Asks -> AskRecords]
  BY <1>1 DEF AsksSame, IInv, TypeOK, AskRecords
<1>3. CASE /\ Clearable(Here(w), offer[w].calls) /\ SetHere(w, j) /\ Go(w, "drop", plan)
           /\ UNCHANGED <<fresh, seen, offer>>
  <2>1. Here(w).sent = Unsent /\ j = NoJournal
    BY <1>1, <1>3, JournalFacts, Facts DEF Clearable, Cleared, Unsent
  <2>2. NoneLive(plan)
    BY <1>1, <2>1, EmptyNoneLive
  <2>3. /\ WorldInv' /\ journal' \in [Plans -> [Round -> Journals]]
        /\ journal'[plan.id][plan.round] = NoJournal
    BY <1>1, <1>2, <1>3, <2>1, <2>2, Facts, HereSet DEF NoneLive
  <2>4. /\ pc'[w] = "drop" /\ mine'[w] = plan /\ lock' = w
        /\ \A v \in Windows \ {w} : pc'[v] = pc[v] /\ mine'[v] = mine[v]
    BY <1>1, <1>3, GoSets DEF IInv
  <2>5. Knows(w)' /\ Heard'
    BY <1>1, <1>3, <2>3, <2>4, HeardKept DEF Knows, Off, Running, Here
  <2> QED
    BY <1>1, <1>2, <1>3, <2>3, <2>5, GoesWith DEF IInv, TypeOK
<1>4. CASE Rest(w) /\ offer' = [offer EXCEPT ![w] = NoOffer] /\ UNCHANGED journal
  <2>1. Heard'
    BY <1>1, <1>4, HeardKept, RestSets DEF IInv
  <2>2. WorldInv'
    BY <1>1, <1>2, <1>4, WorldSame
  <2>3. /\ offer' \in [Windows -> Offers]
        /\ \A v \in Windows : offer'[v] \in {offer[v], NoOffer}
    BY <1>4, NoOfferFits DEF IInv, TypeOK
  <2> QED
    BY <1>1, <1>2, <1>4, <2>1, <2>2, <2>3, EndsWith DEF IInv, TypeOK
<1> QED
  BY <1>1, <1>3, <1>4 DEF ClearDiscard, Here, SetHere

----------------------------------------------------------------------------
(* The prompt.                                                             *)

\* A new ask is of the calls of the plan, and the only live one of its round.
LEMMA AskStep ==
  ASSUME IInv, NEW w \in Windows, Ask(w)
  PROVE  IInv'
<1>1. /\ pc[w] = "called" /\ pc[w] \in Running /\ mine[w] = plan /\ plan # NoPlan
      /\ plan \in SavedPlans /\ plan.id \in Plans /\ plan.round \in Round /\ plan.id < next
      /\ plan.round < Rounds /\ lock = w /\ "prompt" \in PCs
      /\ Here(w) = journal[plan.id][plan.round] /\ Here(w).sent = Sending
      /\ Here(w).calls = plan.calls[plan.round] /\ Here(w).calls \in Calls
      /\ NoneLive(plan) /\ Go(w, "prompt", plan)
      /\ UNCHANGED <<plan, journal, next, fresh, seen, offer, refreshes, skipped, over>>
  BY AtWork DEF Ask, Running, PCs, IInv, WindowInv, Knows
<1> DEFINE new == [id |-> plan.id, round |-> plan.round, calls |-> Here(w).calls,
                   fate |-> "open", to |-> w]
<1>2. PICK n \in Asks : asks[n] = NoAsk /\ asks' = [asks EXCEPT ![n] = new]
  BY <1>1 DEF Ask
<1>3. /\ asks'[n] = new /\ \A m \in Asks \ {n} : asks'[m] = asks[m]
      /\ asks[n].fate = "none" /\ asks[n].to = None
  BY <1>2 DEF IInv, TypeOK, NoAsk
<1>4. asks' \in [Asks -> AskRecords]
  <2>1. new \in AskRecords
    BY <1>1, ActionPlanAssumption DEF AskRecords, Fates, Plans
  <2>2. asks \in [Asks -> AskRecords]
    BY DEF IInv, TypeOK, AskRecords
  <2> QED
    BY <1>2, <2>1, <2>2
<1>5. /\ new.id = plan.id /\ new.round = plan.round /\ new.calls = Here(w).calls
      /\ new.fate = "open" /\ new.to = w
  OBVIOUS
<1> HIDE DEF new
<1>6. /\ ~Live(n) /\ \A m \in Asks \ {n} : Live(m)' <=> Live(m)
      /\ \A m \in Asks \ {n} : Live(m) => asks[m].id = plan.id /\ asks[m].round # plan.round
  BY <1>1, <1>3 DEF Live, NoneLive, At, IInv, WorldInv, SendRecorded
<1>7. WorldInv'
  <2>1. IdsReserved' /\ QuotesCurrent' /\ NotOver'
    BY <1>1 DEF IInv, WorldInv, IdsReserved, QuotesCurrent, NotOver
  <2>2. AsksNamed' /\ HashesOwn'
    BY <1>1, <1>3, <1>5 DEF IInv, WorldInv, AsksNamed, HashesOwn
  <2>3. SendRecorded'
    BY <1>1, <1>3, <1>5, <1>6 DEF IInv, WorldInv, SendRecorded
  <2>4. RoundOnce'
    BY <1>1, <1>3, <1>5, <1>6 DEF IInv, WorldInv, RoundOnce
  <2>5. RoundsDone'
    BY <1>1, <1>3 DEF IInv, WorldInv, RoundsDone
  <2> QED
    BY <2>1, <2>2, <2>3, <2>4, <2>5 DEF WorldInv
<1>8. /\ pc'[w] = "prompt" /\ mine'[w] = plan /\ lock' = w
      /\ \A v \in Windows \ {w} : pc'[v] = pc[v] /\ mine'[v] = mine[v]
  BY <1>1, GoSets DEF IInv
<1>9. Heard'
  <2>1. \A m \in Asks : asks[m].to # w
    BY <1>1, ActionPlanAssumption DEF IInv, WindowInv, Heard
  <2>2. At(n, mine[w])'
    BY <1>3, <1>5, <1>8 DEF At
  <2>3. ASSUME NEW m \in Asks \ {n}, asks[m].to # None
        PROVE  asks[m].to \in Windows \ {w}
    BY <2>1, <2>3 DEF IInv, TypeOK
  <2> QED
    BY <1>3, <1>5, <1>8, <2>1, <2>2, <2>3 DEF IInv, WindowInv, Heard, At
<1>10. Knows(w)'
  <2>1. \A m \in Asks : Live(m)' /\ At(m, mine[w])' => asks'[m].to = w
    BY <1>3, <1>5, <1>6, <1>8 DEF At
  <2>2. Here(w)' = Here(w)
    BY <1>1, <1>8 DEF Here
  <2> QED
    BY <1>1, <1>8, <2>1, <2>2 DEF Knows, Off, Running
<1> QED
  BY <1>1, <1>4, <1>7, <1>9, <1>10, GoesWith DEF IInv, TypeOK

\* The mark is taken back where nothing of the round is live.
LEMMA TakesBack ==
  ASSUME IInv, NEW w \in Windows, pc[w] \in {"called", "prompt"}, TakeBack(w),
         NoneLive(plan), AsksSame, asks' \in [Asks -> AskRecords], Heard'
  PROVE  IInv'
<1> DEFINE j == [Here(w) EXCEPT !.sent = Unsent]
<1>1. /\ pc[w] \in Running /\ Here(w).sent = Sending /\ Here(w) \in Journals
      /\ SetHere(w, j) /\ Rest(w)
      /\ UNCHANGED <<plan, next, offer, refreshes, skipped, over>>
  BY AtWork DEF TakeBack, Running, IInv, WindowInv, Knows
<1>2. Here(w) \in [kind : {"direct", "relayr"}, calls : Calls, sent : -1 .. MaxAsks]
  BY <1>1, JournalFacts, Facts DEF Sending
<1>3. j \in Journals /\ j.sent = 0 /\ j.kind = Here(w).kind /\ j.calls = Here(w).calls
  BY <1>2, ActionPlanAssumption DEF Journals, Unsent
<1>4. j.kind = "relayr" => j.calls = Reviewed(w)
  BY <1>1, <1>3, QuoteHere
<1> HIDE DEF j
<1>5. WorldInv' /\ journal' \in [Plans -> [Round -> Journals]]
  BY <1>1, <1>3, <1>4, HereSet DEF NoneLive
<1> QED
  BY <1>1, <1>5, EndsWith DEF IInv, TypeOK

LEMMA NotInvokedStep ==
  ASSUME IInv, NEW w \in Windows, NotInvoked(w)
  PROVE  IInv'
<1>1. /\ pc[w] = "called" /\ mine[w] = plan /\ NoneLive(plan)
      /\ TakeBack(w) /\ UNCHANGED asks
  BY AtWork DEF NotInvoked, Running, IInv, WindowInv, Knows
<1>2. AsksSame /\ asks' \in [Asks -> AskRecords]
  BY <1>1 DEF AsksSame, IInv, TypeOK, AskRecords
<1>3. Heard'
  BY <1>1, HeardKept, RestSets DEF TakeBack, IInv
<1> QED
  BY <1>1, <1>2, <1>3, TakesBack

\* At a prompt, whoever is live in the round is the ask that is answered.
LEMMA OnlyTheAnswered ==
  ASSUME IInv, NEW w \in Windows, NEW n \in Asks, Hears(w, n)
  PROVE  /\ pc[w] = "prompt" /\ mine[w] = plan /\ asks[n].fate # "none" /\ At(n, plan)
         /\ \A m \in Asks : Live(m) /\ At(m, plan) => m = n
         /\ asks' \in [Asks -> AskRecords]
<1>1. /\ pc[w] = "prompt" /\ mine[w] = plan /\ asks[n].to = w /\ w # None
      /\ \A m \in Asks : Live(m) /\ At(m, plan) => asks[m].to = w
  BY AtWork, ActionPlanAssumption DEF Hears, Running, IInv, WindowInv, Knows
<1>2. asks' \in [Asks -> AskRecords]
  BY DEF Hears, IInv, TypeOK, AskRecords
<1> QED
  BY <1>1, <1>2 DEF IInv, WindowInv, Heard

LEMMA RejectedStep ==
  ASSUME IInv, NEW w \in Windows, Rejected(w)
  PROVE  IInv'
<1>1. PICK n \in Asks : asks[n].fate = "refused" /\ Hears(w, n) /\ TakeBack(w)
  BY DEF Rejected
<1>2. pc[w] = "prompt" /\ NoneLive(plan) /\ asks' \in [Asks -> AskRecords]
  BY <1>1, OnlyTheAnswered DEF NoneLive, Live
<1>3. Heard' /\ AsksSame
  BY <1>1, HeardEnds, RestSets DEF TakeBack, IInv
<1> QED
  BY <1>1, <1>2, <1>3, TakesBack

LEMMA UnsureStep ==
  ASSUME IInv, NEW w \in Windows, Unsure(w)
  PROVE  IInv'
<1>1. PICK n \in Asks : Hears(w, n) /\ Rest(w)
                        /\ UNCHANGED <<plan, journal, next, offer, refreshes, skipped, over>>
  BY DEF Unsure
<1>2. pc[w] \in Running /\ asks' \in [Asks -> AskRecords]
  BY <1>1, OnlyTheAnswered DEF Running
<1>3. Heard' /\ AsksSame
  BY <1>1, HeardEnds, RestSets DEF IInv
<1>4. WorldInv'
  BY <1>1, <1>3, WorldSame
<1> QED
  BY <1>1, <1>2, <1>3, <1>4, EndsWith DEF IInv, TypeOK

\* The hash replaces the mark.
LEMMA AnsweredStep ==
  ASSUME IInv, NEW w \in Windows, Answered(w)
  PROVE  IInv'
<1>1. PICK n \in Asks :
        /\ Hears(w, n) /\ SetHere(w, [Here(w) EXCEPT !.sent = n])
        /\ Go(w, "track", mine[w])
        /\ UNCHANGED <<plan, next, fresh, seen, offer, refreshes, skipped, over>>
  BY DEF Answered
<1> DEFINE j == [Here(w) EXCEPT !.sent = n]
<1>2. /\ pc[w] = "prompt" /\ mine[w] = plan /\ asks[n].fate # "none" /\ At(n, plan)
      /\ \A m \in Asks : Live(m) /\ At(m, plan) => m = n
      /\ asks' \in [Asks -> AskRecords]
  BY <1>1, OnlyTheAnswered
<1>3. /\ pc[w] \in Running /\ Here(w).sent = Sending /\ Here(w) \in Journals
      /\ plan # NoPlan /\ plan \in SavedPlans /\ plan.round < Rounds /\ "track" \in PCs
  BY <1>2, AtWork DEF Running, PCs, IInv, WindowInv, Knows
<1>4. Here(w) \in [kind : {"direct", "relayr"}, calls : Calls, sent : -1 .. MaxAsks]
  BY <1>3, JournalFacts, Facts DEF Sending
<1>5. j \in Journals /\ j.sent = n /\ j.kind = Here(w).kind /\ j.calls = Here(w).calls
  BY <1>4, ActionPlanAssumption DEF Journals, Asks
<1>6. j.kind = "relayr" => j.calls = Reviewed(w)
  BY <1>3, <1>5, QuoteHere
<1>7. SetHere(w, j) /\ Go(w, "track", plan)
  BY <1>1, <1>2
<1> HIDE DEF j
<1>8. /\ pc'[w] = "track" /\ mine'[w] = plan /\ lock' = w
      /\ \A v \in Windows \ {w} : pc'[v] = pc[v] /\ mine'[v] = mine[v]
  BY <1>3, <1>7, GoSets DEF IInv
<1>9. Heard' /\ AsksSame
  BY <1>1, <1>8, HeardEnds
<1>10. /\ WorldInv' /\ journal' \in [Plans -> [Round -> Journals]]
       /\ journal'[plan.id][plan.round] = j
  BY <1>1, <1>2, <1>3, <1>5, <1>6, <1>7, <1>9, HereSet
<1>11. Knows(w)'
  BY <1>1, <1>3, <1>5, <1>8, <1>10 DEF Knows, Off, Running, Here
<1> QED
  BY <1>1, <1>2, <1>3, <1>7, <1>9, <1>10, <1>11, GoesWith DEF IInv, TypeOK

----------------------------------------------------------------------------
(* Steps without the plan's lock.                                          *)

\* An expired quote goes: no run that marked, sent or emptied a journal looks at one.
LEMMA RetireStep ==
  ASSUME IInv, NEW p \in Plans, NEW r \in Round, Retire(p, r)
  PROVE  IInv'
<1>1. /\ journal[p][r].kind = "relayr" /\ journal[p][r].sent = Unsent
      /\ SetJournal(p, r, NoJournal)
      /\ UNCHANGED <<plan, lock, next, pc, mine, fresh, seen, offer, refreshes, asks, skipped, over>>
  BY DEF Retire
<1>2. /\ journal' \in [Plans -> [Round -> Journals]]
      /\ journal'[p][r] = NoJournal
      /\ \A q \in Plans, t \in Round : q # p \/ t # r => journal'[q][t] = journal[q][t]
  BY <1>1, JournalSet, Facts DEF IInv
<1>3. WorldInv'
  <2>1. ASSUME NEW n \in Asks, Live(n), At(n, plan) PROVE ~(p = plan.id /\ r = plan.round)
    BY <1>1, <2>1, ActionPlanAssumption
       DEF At, IInv, WorldInv, SendRecorded, Unsent, Sending, Asks, Round
  <2>2. AsksSame /\ \A n \in Asks : NoJournal.sent # n
    BY <1>1, Facts DEF AsksSame, Asks
  <2> QED
    BY <1>1, <2>1, <2>2, Facts, WorldJournal
<1>4. ASSUME NEW v \in Windows PROVE Knows(v)'
  <2>1. CASE pc[v] \in Running
    <3>1. /\ Here(v) = journal[plan.id][plan.round] /\ mine[v] = plan
          /\ plan.id \in Plans /\ plan.round \in Round
      BY <2>1, AtWork
    <3>2. Here(v)' = Here(v) \/ (Here(v).kind = "relayr" /\ Here(v).sent = Unsent
                                  /\ Here(v)' = NoJournal)
      BY <1>1, <1>2, <3>1 DEF Here
    <3>3. Here(v)' = Here(v)
          \/ pc[v] \notin {"refresh", "drop", "called", "prompt", "track", "discard"}
      BY <3>2, Facts DEF IInv, WindowInv, Knows, Unsent, Sending, Asks
    <3>4. Reviewed(v)' = Reviewed(v) /\ (NoneLive(mine[v]) => NoneLive(mine[v])')
          /\ \A n \in Asks : (Live(n)' <=> Live(n)) /\ (At(n, mine[v])' <=> At(n, mine[v]))
      BY <1>1 DEF Reviewed, NoneLive, Live, At
    <3>5. pc'[v] = pc[v] /\ mine'[v] = mine[v] /\ pc[v] # "saved" /\ pc[v] # "prepare"
      BY <1>1, <2>1 DEF Running
    <3>6. Knows(v)
      BY DEF IInv, WindowInv
    <3> QED
      BY <1>1, <3>3, <3>4, <3>5, <3>6 DEF Knows
  <2>2. CASE pc[v] \notin Running
    BY <1>1, <2>2 DEF IInv, WindowInv, Knows, Running, NextRound
  <2> QED
    BY <2>1, <2>2
<1>5. TypeOK' /\ Heard' /\ OffersBehind'
  BY <1>1, <1>2 DEF IInv, TypeOK, WindowInv, Heard, OffersBehind, At
<1> QED
  BY <1>3, <1>4, <1>5 DEF IInv, WindowInv

\* A window goes, and its prompt stays: only who would hear the answer is lost.
LEMMA ReloadStep ==
  ASSUME IInv, NEW w \in Windows, Reload(w)
  PROVE  IInv'
<1>1. /\ Rest(w) /\ offer' = [offer EXCEPT ![w] = NoOffer]
      /\ UNCHANGED <<plan, journal, next, refreshes, skipped, over>>
  BY DEF Reload
<1>2. /\ pc'[w] \in Off /\ \A v \in Windows \ {w} : pc'[v] = pc[v] /\ mine'[v] = mine[v]
      /\ lock' = IF lock = w THEN None ELSE lock
  BY <1>1, RestSets DEF IInv, Off, Rest
<1>3. \A n \in Asks : asks'[n] = IF asks[n].to = w THEN [asks[n] EXCEPT !.to = None] ELSE asks[n]
  BY DEF Reload
<1>4. asks' \in [Asks -> AskRecords] /\ AsksSame
  <2>1. ASSUME NEW n \in Asks
        PROVE  /\ asks'[n] \in AskRecords
               /\ asks'[n].id = asks[n].id /\ asks'[n].round = asks[n].round
               /\ asks'[n].calls = asks[n].calls /\ asks'[n].fate = asks[n].fate
    BY <1>3 DEF IInv, TypeOK, AskRecords
  <2> QED
    BY <2>1 DEF AsksSame, Reload
<1>5. \A n \in Asks : asks'[n].to = IF asks[n].to = w THEN None ELSE asks[n].to
  BY <1>3 DEF IInv, TypeOK
<1>6. TypeOK'
  BY <1>1, <1>4, RestSets, NoOfferFits DEF IInv, TypeOK, AskRecords
<1>7. WorldInv'
  BY <1>1, <1>4, WorldSame
<1>8. OffersBehind'
  BY <1>1, NoOfferFits, Facts DEF NoOffer, IInv, TypeOK, WorldInv, IdsReserved, WindowInv,
     OffersBehind
<1>9. Heard'
  BY <1>2, <1>4, <1>5 DEF AsksSame, At, IInv, TypeOK, WindowInv, Heard
<1>10. ASSUME NEW v \in Windows PROVE Knows(v)'
  <2>1. CASE v = w
    BY <1>2, <2>1, OffKnows
  <2>2. CASE v # w
    <3>1. /\ pc'[v] = pc[v] /\ mine'[v] = mine[v] /\ offer'[v] = offer[v]
          /\ lock = v => lock' = v
      BY <1>1, <1>2, <2>2 DEF IInv, TypeOK
    <3>2. /\ Here(v)' = Here(v) /\ Reviewed(v)' = Reviewed(v) /\ NextRound(v)' = NextRound(v)
          /\ \A n \in Asks : (Live(n)' <=> Live(n)) /\ (At(n, mine[v])' <=> At(n, mine[v]))
      BY <1>1, <1>4, <3>1 DEF Here, Reviewed, NextRound, Live, At, AsksSame
    <3>3. NoneLive(mine[v]) => NoneLive(mine[v])'
      BY <3>2 DEF NoneLive
    <3>4. \A n \in Asks : asks[n].to = v => asks'[n].to = v
      BY <1>5, <2>2
    <3>5. Knows(v)
      BY DEF IInv, WindowInv
    <3> QED
      BY <1>1, <1>4, <3>1, <3>2, <3>3, <3>4, <3>5 DEF Knows, AsksSame
  <2> QED
    BY <2>1, <2>2
<1> QED
  BY <1>6, <1>7, <1>8, <1>9, <1>10 DEF IInv, WindowInv

\* The wallet and the chain move an ask that has not settled.
LEMMA OutsideStep ==
  ASSUME IInv, NEW n \in Asks, Approve(n) \/ Refuse(n) \/ Include(n)
  PROVE  IInv'
<1>1. /\ asks[n].fate \in {"open", "sent"}
      /\ \E to \in Fates \ {"none", "open"} : asks' = [asks EXCEPT ![n].fate = to]
      /\ UNCHANGED <<plan, journal, lock, next, pc, mine, fresh, seen, offer, refreshes,
                     skipped, over>>
  BY DEF Approve, Refuse, Include, Become, Fates
<1>2. PICK to \in Fates \ {"none", "open"} : asks' = [asks EXCEPT ![n].fate = to]
  BY <1>1
<1>3. /\ asks'[n].fate = to /\ asks'[n].id = asks[n].id /\ asks'[n].round = asks[n].round
      /\ asks'[n].calls = asks[n].calls /\ asks'[n].to = asks[n].to
      /\ \A m \in Asks \ {n} : asks'[m] = asks[m]
      /\ asks' \in [Asks -> AskRecords]
  BY <1>2 DEF IInv, TypeOK, AskRecords
<1>4. \A m \in Asks : /\ Live(m)' => Live(m)
                      /\ asks'[m].id = asks[m].id /\ asks'[m].round = asks[m].round
                      /\ asks'[m].calls = asks[m].calls /\ asks'[m].to = asks[m].to
                      /\ (asks'[m].fate # "none") <=> (asks[m].fate # "none")
                      /\ asks[m].fate = "ok" => asks'[m].fate = "ok"
  BY <1>1, <1>3 DEF Live
<1>5. TypeOK'
  BY <1>1, <1>3 DEF IInv, TypeOK, AskRecords
<1>6. WorldInv'
  <2>1. IdsReserved' /\ AsksNamed' /\ HashesOwn' /\ QuotesCurrent' /\ NotOver'
    BY <1>1, <1>4 DEF IInv, WorldInv, IdsReserved, AsksNamed, HashesOwn, QuotesCurrent, NotOver
  <2>2. SendRecorded' /\ RoundOnce' /\ RoundsDone'
    BY <1>1, <1>4 DEF IInv, WorldInv, SendRecorded, RoundOnce, RoundsDone
  <2> QED
    BY <2>1, <2>2 DEF WorldInv
<1>7. Heard' /\ OffersBehind'
  BY <1>1, <1>4 DEF IInv, WindowInv, Heard, OffersBehind, At
<1>8. ASSUME NEW v \in Windows PROVE Knows(v)'
  <2>1. /\ Here(v)' = Here(v) /\ Reviewed(v)' = Reviewed(v) /\ NextRound(v)' = NextRound(v)
        /\ pc'[v] = pc[v] /\ mine'[v] = mine[v] /\ offer'[v] = offer[v]
    BY <1>1 DEF Here, Reviewed, NextRound
  <2>2. \A m \in Asks : At(m, mine[v])' <=> At(m, mine[v])
    BY <1>1, <1>4 DEF At
  <2>3. NoneLive(mine[v]) => NoneLive(mine[v])'
    BY <1>4, <2>2 DEF NoneLive
  <2>4. Knows(v)
    BY DEF IInv, WindowInv
  <2> QED
    BY <1>1, <1>4, <2>1, <2>2, <2>3, <2>4 DEF Knows
<1> QED
  BY <1>5, <1>6, <1>7, <1>8 DEF IInv, WindowInv

----------------------------------------------------------------------------
(* The theorems.                                                           *)

LEMMA InitIInv == Init => IInv
<1> SUFFICES ASSUME Init PROVE IInv
  OBVIOUS
<1>1. \A n \in Asks : asks[n] = NoAsk /\ NoAsk.fate = "none" /\ NoAsk.to = None
                      /\ NoAsk.id = 0 /\ NoAsk.round = 0 /\ NoAsk.calls = 0
  BY DEF Init, NoAsk
<1>2. NoAsk \in AskRecords
  BY Facts, ActionPlanAssumption DEF NoAsk, AskRecords, Fates
<1>3. TypeOK
  BY <1>2, Facts, NoOfferFits, ActionPlanAssumption DEF Init, TypeOK, PCs, AskRecords
<1>4. WorldInv
  <2>1. \A n \in Asks : ~Live(n)
    BY <1>1 DEF Live
  <2>2. IdsReserved /\ RoundsDone
    BY Facts DEF Init, IdsReserved, RoundsDone, Round
  <2>3. HashesOwn
    BY Facts DEF Init, HashesOwn, Asks
  <2> QED
    BY <1>1, <2>1, <2>2, <2>3
       DEF Init, WorldInv, AsksNamed, QuotesCurrent, NotOver, SendRecorded, RoundOnce
<1>5. WindowInv
  <2>1. NoOffer.id = 0
    BY DEF NoOffer
  <2>4. OffersBehind
    <3>1. next = 1 /\ plan = NoPlan /\ \A w \in Windows : offer[w] = NoOffer
      BY DEF Init
    <3>2. ASSUME NEW w \in Windows
          PROVE  offer[w].id = 0 /\ offer[w] = NoOffer /\ 0 < next
      BY <2>1, <3>1
    <3> QED
      BY <3>1, <3>2 DEF OffersBehind
  <2>2. Heard
    BY <1>1 DEF Heard
  <2>3. \A v \in Windows : Knows(v)
    BY DEF Init, Knows, Off, Running
  <2> QED
    BY <2>2, <2>3, <2>4 DEF WindowInv
<1> QED
  BY <1>3, <1>4, <1>5 DEF IInv

\* Every step keeps the invariant.
LEMMA NextIInv == IInv /\ [Next]_vars => IInv'
<1> SUFFICES ASSUME IInv, [Next]_vars PROVE IInv'
  OBVIOUS
<1>1. ASSUME NEW w \in Windows, WindowStep(w) PROVE IInv'
  BY <1>1, StartStep, PreparedStep, BeginRoundStep, ReplaceStep, KeepStep, SkipStep,
     GiveUpStep, RefusedStep, QuoteStep, MarkStep, RecheckStep, AskStep, NotInvokedStep,
     RejectedStep, UnsureStep, AnsweredStep, TrackedStep, CheckpointStep, EndRoundStep,
     AcknowledgeStep, StartDiscardStep, ClearDiscardStep, EndDiscardStep, ReloadStep
     DEF WindowStep
<1>2. CASE UNCHANGED vars
  <2>1. TypeOK' /\ WorldInv'
    BY <1>2, WorldSame DEF vars, IInv, TypeOK, AsksSame
  <2>2. WindowInv'
    BY <1>2 DEF vars, IInv, WindowInv, Knows, Heard, OffersBehind, Here, Reviewed, NextRound,
                NoneLive, At, Live
  <2> QED
    BY <2>1, <2>2 DEF IInv
<1> QED
  BY <1>1, <1>2, RetireStep, OutsideStep DEF Next

\* Every reachable state has the types declared, whatever windows, faults and users do.
THEOREM TypeCorrect == Spec => []TypeOK
<1>1. IInv => TypeOK
  BY DEF IInv
<1> QED
  BY <1>1, InitIInv, NextIInv, PTL DEF Spec

\* Every send that is open, on its way or mined is in the saved plan, with the calls the plan
\* has for its round: no crash, discard, refresh or failed save loses one.
THEOREM SendRecordedAlways == Spec => []SendRecorded
<1>1. IInv => SendRecorded
  BY DEF IInv, WorldInv
<1> QED
  BY <1>1, InitIInv, NextIInv, PTL DEF Spec

\* A round is sent at most once, and never beside the round of another plan.
THEOREM RoundOnceAlways == Spec => []RoundOnce
<1>1. IInv => RoundOnce
  BY DEF IInv, WorldInv
<1> QED
  BY <1>1, InitIInv, NextIInv, PTL DEF Spec

\* A round behind the plan's next one succeeded with verified effects, or needed nothing sent.
THEOREM RoundsDoneAlways == Spec => []RoundsDone
<1>1. IInv => RoundsDone
  BY DEF IInv, WorldInv
<1> QED
  BY <1>1, InitIInv, NextIInv, PTL DEF Spec

----------------------------------------------------------------------------
(* The journal of each round is a SendJournal.                             *)

\* A prompt that is waited for is for the calls of the journal it was opened under.
PromptCalls ==
  \A n \in Asks : asks[n].to # None => asks[n].calls = Here(asks[n].to).calls

\* The journal of a run that waits for a prompt is left alone.
LEMMA PromptStays ==
  ASSUME IInv, [Next]_vars, NEW v \in Windows, pc[v] = "prompt", pc'[v] = "prompt"
  PROVE  Here(v)' = Here(v)
<1>1. /\ lock = v /\ v # None /\ Here(v) = journal[plan.id][plan.round] /\ mine[v] = plan
      /\ Here(v).sent = Sending /\ plan.id \in Plans /\ plan.round \in Round /\ TypeOK
      /\ \A w \in Windows \ {v} : pc[w] \in Off
  BY AtWork, OthersOff, ActionPlanAssumption DEF Running, IInv, WindowInv, Knows
<1>2. CASE UNCHANGED vars
  BY <1>2 DEF vars, Here
<1>3. ASSUME NEW w \in Windows, WindowStep(w)  PROVE Here(v)' = Here(v)
  <2>1. CASE w = v
    <3>1. ~Reload(w) /\ ~Unsure(w) /\ ~Rejected(w) /\ ~NotInvoked(w)
      BY <1>1, <2>1, RestSets DEF Reload, Unsure, Rejected, NotInvoked, TakeBack
    <3>2. ~Answered(w)
      BY <1>1, <2>1 DEF Answered, Go, TypeOK
    <3> QED
      BY <1>3, <2>1, <3>1, <3>2
      DEF WindowStep, Start, Prepared, BeginRound, Replace, Keep, Skip, GiveUp, Refused, Quote,
          Mark, Recheck, Ask, Tracked, Checkpoint, EndRound, Acknowledge, StartDiscard,
          ClearDiscard, EndDiscard
  <2>2. CASE w # v
    <3>1. pc[w] \in Off
      BY <1>1, <2>2
    <3>2. CASE Reload(w)
      BY <1>1, <2>2, <3>2, RestSets DEF Reload, Here
    <3>3. CASE Acknowledge(w)
      BY <3>3 DEF Acknowledge, Here
    <3> QED
      BY <1>1, <1>3, <3>1, <3>2, <3>3
      DEF Off, WindowStep, Start, Prepared, BeginRound, Replace, Keep, Skip, GiveUp, Refused,
          Quote, Mark, Recheck, Ask, NotInvoked, Rejected, Unsure, Answered, Hears, Tracked,
          Checkpoint, EndRound, StartDiscard, ClearDiscard, EndDiscard
  <2> QED
    BY <2>1, <2>2
<1>4. ASSUME NEW p \in Plans, NEW r \in Round, Retire(p, r)  PROVE Here(v)' = Here(v)
  <2>1. p # plan.id \/ r # plan.round
    BY <1>1, <1>4 DEF Retire, Unsent, Sending
  <2>2. mine' = mine /\ journal'[plan.id][plan.round] = journal[plan.id][plan.round]
    BY <1>1, <1>4, <2>1, JournalSet, Facts DEF Retire
  <2> QED
    BY <1>1, <2>2 DEF Here
<1>5. ASSUME NEW n \in Asks, Approve(n) \/ Refuse(n) \/ Include(n)  PROVE Here(v)' = Here(v)
  BY <1>5 DEF Approve, Refuse, Include, Become, Here
<1> QED
  BY <1>2, <1>3, <1>4, <1>5 DEF Next

\* What any step but a call of the wallet leaves of the prompts.
AsksFade ==
  \A n \in Asks :
    /\ asks'[n].id = asks[n].id /\ asks'[n].round = asks[n].round /\ asks'[n].calls = asks[n].calls
    /\ asks'[n].to \in {asks[n].to, None}
    /\ Live(n)' => Live(n)

LEMMA Fades ==
  ASSUME IInv, [Next]_vars, \A w \in Windows : ~Ask(w)
  PROVE  AsksFade
<1>1. asks \in [Asks -> AskRecords] /\ over \subseteq over'
  <2>1. over \subseteq over'
    BY DEF Next, WindowStep, vars, Start, Prepared, BeginRound, Replace, Keep, Skip, GiveUp, Refused,
       Quote, Mark, Recheck, NotInvoked, Rejected, TakeBack, Unsure, Answered, Tracked, Checkpoint,
       EndRound, Acknowledge, StartDiscard, ClearDiscard, EndDiscard, Reload, Retire, Approve,
       Refuse, Include, Become
  <2> QED
    BY <2>1 DEF IInv, TypeOK, AskRecords
<1>2. CASE asks' = asks
  BY <1>1, <1>2 DEF AsksFade, Live
<1>3. ASSUME NEW w \in Windows, NEW n \in Asks, Hears(w, n)  PROVE AsksFade
  BY <1>1, <1>3 DEF Hears, AskRecords, AsksFade, Live
<1>4. ASSUME NEW w \in Windows, Reload(w)  PROVE AsksFade
  BY <1>1, <1>4 DEF Reload, AskRecords, AsksFade, Live
<1>5. ASSUME NEW n \in Asks, Approve(n) \/ Refuse(n) \/ Include(n)  PROVE AsksFade
  BY <1>1, <1>5 DEF Approve, Refuse, Include, Become, AskRecords, AsksFade, Live
<1>6. ASSUME NEW w \in Windows, WindowStep(w)  PROVE AsksFade
  BY <1>2, <1>3, <1>4, <1>6
  DEF WindowStep, Start, Prepared, BeginRound, Replace, Keep, Skip, GiveUp, Refused, Quote,
      Mark, Recheck, NotInvoked, Rejected, TakeBack, Unsure, Answered, Tracked, Checkpoint,
      EndRound, Acknowledge, StartDiscard, ClearDiscard, EndDiscard
<1> QED
  BY <1>2, <1>5, <1>6 DEF Next, vars, Retire

LEMMA PromptCallsNext == IInv /\ PromptCalls /\ [Next]_vars => PromptCalls'
<1> SUFFICES ASSUME IInv, PromptCalls, [Next]_vars PROVE PromptCalls'
  OBVIOUS
<1>1. IInv' /\ TypeOK
  BY NextIInv DEF IInv
<1> SUFFICES ASSUME NEW m \in Asks, NEW v \in Windows, asks'[m].to = v, v # None
             PROVE  asks'[m].calls = Here(v)'.calls
  BY <1>1 DEF PromptCalls, Asks, Here, IInv, TypeOK
<1>2. pc'[v] = "prompt"
  BY <1>1 DEF IInv, WindowInv, Heard, Asks
<1>3. ASSUME asks[m].to = v, asks'[m].calls = asks[m].calls
      PROVE  asks'[m].calls = Here(v)'.calls
  <2>1. pc[v] = "prompt"
    BY <1>3 DEF IInv, WindowInv, Heard
  <2> QED
    BY <1>2, <1>3, <2>1, PromptStays DEF PromptCalls
<1>4. CASE \A w \in Windows : ~Ask(w)
  BY <1>3, <1>4, Fades DEF AsksFade
<1>5. ASSUME NEW w \in Windows, Ask(w)  PROVE asks'[m].calls = Here(v)'.calls
  <2>1. PICK n \in Asks :
          asks' = [asks EXCEPT ![n] = [id |-> mine[w].id, round |-> mine[w].round,
                                       calls |-> Here(w).calls, fate |-> "open", to |-> w]]
    BY <1>5 DEF Ask
  <2>2. CASE m = n
    <3>1. v = w /\ asks'[m].calls = Here(w).calls
      BY <1>1, <2>1, <2>2 DEF TypeOK
    <3>2. mine'[w] = mine[w] /\ journal' = journal
      BY <1>1, <1>5 DEF Ask, Go, TypeOK
    <3> QED
      BY <3>1, <3>2 DEF Here
  <2>3. CASE m # n
    BY <1>1, <1>3, <2>1, <2>3 DEF TypeOK
  <2> QED
    BY <2>2, <2>3
<1> QED
  BY <1>4, <1>5

LEMMA PromptCallsHold == Spec => []PromptCalls
<1>1. Init => PromptCalls
  BY DEF Init, NoAsk, PromptCalls
<1> QED
  BY <1>1, PromptCallsNext, InitIInv, NextIInv, PTL DEF Spec

\* What becomes of the journal of a round.
RoundStep(p, r) ==
  LET j == journal[p][r]
      k == journal'[p][r]
  IN \/ k.sent = j.sent /\ (j.sent = Unsent \/ k.calls = j.calls)
     \/ k.sent = Unsent
     \/ j.sent = Unsent /\ k.sent = Sending
     \/ /\ j.sent = Sending /\ k.calls = j.calls
        /\ \E n \in Asks : /\ k.sent = n
                           /\ asks[n].id = p /\ asks[n].round = r /\ asks[n].calls = j.calls

LEMMA RoundSet ==
  ASSUME TypeOK, NEW q \in Plans, NEW t \in Round, NEW j, SetJournal(q, t, j),
         \/ j.sent = Unsent
         \/ journal[q][t].sent = Unsent /\ j.sent = Sending
         \/ /\ journal[q][t].sent = Sending /\ j.calls = journal[q][t].calls
            /\ \E n \in Asks : /\ j.sent = n /\ asks[n].id = q /\ asks[n].round = t
                               /\ asks[n].calls = j.calls
  PROVE  \A p \in Plans, r \in Round : RoundStep(p, r)
<1>1. /\ journal'[q][t] = j
      /\ \A p \in Plans, r \in Round : p # q \/ r # t => journal'[p][r] = journal[p][r]
  BY DEF SetJournal, TypeOK
<1> QED
  BY <1>1 DEF RoundStep

\* A step of a run that sets the journal of its round, or another journal without a mark.
LEMMA RoundSteps ==
  ASSUME IInv, PromptCalls, [Next]_vars, NEW p \in Plans, NEW r \in Round
  PROVE  RoundStep(p, r)
<1>1. ASSUME journal' = journal  PROVE RoundStep(p, r)
  BY <1>1 DEF RoundStep
<1>2. ASSUME NEW w \in Windows, pc[w] \in Running, NEW j, SetHere(w, j),
             \/ j.sent = Unsent
             \/ Here(w).sent = Unsent /\ j.sent = Sending
             \/ /\ Here(w).sent = Sending /\ j.calls = Here(w).calls
                /\ \E n \in Asks : /\ j.sent = n /\ At(n, plan) /\ asks[n].calls = j.calls
      PROVE  RoundStep(p, r)
  <2>1. /\ plan.id \in Plans /\ plan.round \in Round /\ mine[w] = plan /\ TypeOK
        /\ Here(w) = journal[plan.id][plan.round]
    BY <1>2, AtWork DEF IInv
  <2> QED
    BY <1>2, <2>1, RoundSet DEF SetHere, At
<1>3. ASSUME NEW w \in Windows, WindowStep(w)  PROVE RoundStep(p, r)
  <2>1. CASE BeginRound(w)
    <3>1. pc[w] \in Running
      BY <2>1 DEF BeginRound, Running
    <3> QED
      BY <1>1, <1>2, <2>1, <3>1 DEF BeginRound, NoJournal
  <2>2. CASE Quote(w)
    <3>1. pc[w] \in Running
      BY <2>2 DEF Quote, Running
    <3> QED
      BY <1>2, <2>2, <3>1 DEF Quote
  <2>3. CASE Mark(w)
    <3> DEFINE j == IF Here(w) = NoJournal
                    THEN [kind |-> "direct", calls |-> Reviewed(w), sent |-> Sending]
                    ELSE [Here(w) EXCEPT !.sent = Sending]
    <3>1. pc[w] \in Running /\ SetHere(w, j)
      BY <2>3 DEF Mark, Running
    <3>2. Here(w).sent = Unsent
      BY <2>3, Facts DEF Mark, Unsent
    <3>3. j.sent = Sending
      <4>1. Here(w) \in Journals
        BY <3>1, AtWork
      <4>2. CASE Here(w) = NoJournal
        BY <4>2
      <4>3. CASE Here(w) # NoJournal
        BY <4>1, <4>3, JournalFacts
      <4> QED
        BY <4>2, <4>3
    <3> HIDE DEF j
    <3> QED
      BY <1>2, <3>1, <3>2, <3>3
  <2>4. CASE Recheck(w)
    <3>1. pc[w] \in Running /\ Here(w) \in Journals
      BY <2>4, AtWork DEF Recheck, Running
    <3>2. \/ journal' = journal
          \/ Here(w).kind = "direct" /\ SetHere(w, [Here(w) EXCEPT !.sent = Unsent])
      BY <2>4 DEF Recheck
    <3>3. Here(w).kind = "direct" => [Here(w) EXCEPT !.sent = Unsent].sent = Unsent
      BY <3>1, JournalFacts
    <3> QED
      BY <1>1, <1>2, <3>1, <3>2, <3>3
  <2>5. CASE NotInvoked(w) \/ Rejected(w)
    <3>1. pc[w] \in Running /\ pc[w] \in {"called", "prompt"}
          /\ SetHere(w, [Here(w) EXCEPT !.sent = Unsent])
      BY <2>5 DEF NotInvoked, Rejected, Hears, TakeBack, Running
    <3>2. Here(w) \in Journals /\ Here(w).sent = Sending
      BY <3>1, AtWork DEF IInv, WindowInv, Knows
    <3>3. [Here(w) EXCEPT !.sent = Unsent].sent = Unsent
      BY <3>2, JournalFacts, Facts DEF Sending
    <3> QED
      BY <1>2, <3>1, <3>3
  <2>6. CASE Answered(w)
    <3>1. PICK n \in Asks : Hears(w, n) /\ SetHere(w, [Here(w) EXCEPT !.sent = n])
      BY <2>6 DEF Answered
    <3> DEFINE j == [Here(w) EXCEPT !.sent = n]
    <3>2. pc[w] \in Running /\ asks[n].to = w /\ w # None /\ At(n, plan) /\ pc[w] = "prompt"
      BY <3>1, OnlyTheAnswered, ActionPlanAssumption DEF Hears, Running
    <3>3. Here(w) \in Journals /\ Here(w).sent = Sending
      BY <3>2, AtWork DEF IInv, WindowInv, Knows
    <3>4. j.sent = n /\ j.calls = Here(w).calls
      BY <3>3, JournalFacts, Facts DEF Sending
    <3>5. asks[n].calls = j.calls
      BY <3>2, <3>4 DEF PromptCalls
    <3>6. SetHere(w, j)
      BY <3>1
    <3> HIDE DEF j
    <3> QED
      BY <1>2, <3>2, <3>3, <3>4, <3>5, <3>6
  <2>7. CASE EndRound(w)
    <3>1. mine[w].id \in Plans /\ mine[w].round \in Round
      BY <2>7, Facts DEF EndRound, IInv, WindowInv, Knows
    <3>2. journal' = journal \/ SetJournal(mine[w].id, mine[w].round, NoJournal)
      BY <2>7 DEF EndRound, SetHere
    <3> QED
      BY <1>1, <3>1, <3>2, RoundSet, Facts DEF IInv, Unsent
  <2>8. CASE ClearDiscard(w)
    <3> DEFINE j == journal[mine[w].id][offer[w].round]
    <3>1. /\ pc[w] \in Running /\ mine[w].id \in Plans /\ offer[w].round \in Round
          /\ j \in Journals /\ TypeOK
      BY <2>8, AtWork DEF ClearDiscard, Running, IInv, TypeOK, Offers
    <3>2. journal' = journal \/ (Clearable(j, offer[w].calls)
                                 /\ SetJournal(mine[w].id, offer[w].round, Cleared(j)))
      BY <2>8 DEF ClearDiscard
    <3>3. CASE j.kind = "direct"
      BY <1>1, <3>1, <3>2, <3>3, RoundSet, Facts DEF Cleared, Unsent
    <3>4. CASE j.kind # "direct"
      <4>1. SetJournal(mine[w].id, offer[w].round, j) => journal' = journal
        BY <3>1 DEF SetJournal, TypeOK
      <4> QED
        BY <1>1, <3>2, <3>4, <4>1 DEF Cleared
    <3> QED
      BY <3>3, <3>4
  <2> QED
    BY <1>1, <1>3, <2>1, <2>2, <2>3, <2>4, <2>5, <2>6, <2>7, <2>8
    DEF WindowStep, Start, Prepared, Replace, Keep, Skip, GiveUp, Refused, Ask, Unsure, Tracked,
        Checkpoint, Acknowledge, StartDiscard, EndDiscard, Reload
<1>4. ASSUME NEW q \in Plans, NEW t \in Round, Retire(q, t)  PROVE RoundStep(p, r)
  BY <1>4, RoundSet, Facts DEF Retire, IInv, Unsent
<1>5. CASE UNCHANGED vars
  BY <1>1, <1>5 DEF vars
<1>6. ASSUME NEW n \in Asks, Approve(n) \/ Refuse(n) \/ Include(n)  PROVE RoundStep(p, r)
  BY <1>1, <1>6 DEF Approve, Refuse, Include, Become
<1> QED
  BY <1>3, <1>4, <1>5, <1>6 DEF Next

\* A plan goes on, or gives way to none or to a new one.
LEMMA PlanForward ==
  ASSUME IInv, [Next]_vars
  PROVE  plan'.id = plan.id => plan'.round >= plan.round
<1>1. plan.round \in 0 .. Rounds /\ plan.id < next /\ plan.id \in Nat /\ next \in Nat
      /\ (plan.id = 0 => plan = NoPlan) /\ Rounds \in Nat
  BY Facts DEF IInv, TypeOK, WorldInv, IdsReserved, Plans
<1>2. plan' = plan => plan'.round >= plan.round
  BY <1>1
<1>3. plan' = NoPlan => (plan'.id = plan.id => plan'.round >= plan.round)
  BY <1>1, Facts
<1>4. ASSUME NEW w \in Windows, pc[w] \in Running, plan' \in {plan, NextRound(w)}
      PROVE  plan'.round >= plan.round
  <2>1. mine[w] = plan /\ plan \in SavedPlans
    BY <1>4, AtWork
  <2>2. NextRound(w).round = plan.round + 1
    BY <2>1 DEF NextRound, SavedPlans
  <2> QED
    BY <1>1, <1>4, <2>2
<1>5. ASSUME NEW w \in Windows, WindowStep(w)
      PROVE  plan'.id = plan.id => plan'.round >= plan.round
  <2>1. CASE Skip(w) \/ Checkpoint(w)
    <3>1. pc[w] \in Running /\ plan' \in {plan, NextRound(w)}
      BY <2>1 DEF Skip, Checkpoint, Saves, SaveFails, Running
    <3> QED
      BY <1>4, <3>1
  <2>2. CASE Replace(w)
    <3> DEFINE s == [mine[w] EXCEPT !.calls[mine[w].round] = @ + 1]
    <3>1. pc[w] \in Running /\ plan' \in {plan, s}
      BY <2>2 DEF Replace, Saves, SaveFails, Running
    <3>2. s.round = plan.round
      BY <3>1, AtWork DEF SavedPlans
    <3> HIDE DEF s
    <3>3. plan'.round = plan.round
      BY <3>1, <3>2
    <3> QED
      BY <1>1, <3>3
  <2>3. CASE Keep(w)
    <3>1. pc[w] \in Running /\ plan' = mine[w]
      BY <2>3 DEF Keep, Saves, Running
    <3> QED
      BY <1>2, <3>1, AtWork
  <2>4. CASE Prepared(w)
    <3>1. plan' \in {plan, [NoPlan EXCEPT !.id = next]}
      BY <2>4 DEF Prepared, Saves, SaveFails
    <3>2. [NoPlan EXCEPT !.id = next].id # plan.id
      BY <1>1 DEF NoPlan
    <3> QED
      BY <1>2, <3>1, <3>2
  <2> QED
    BY <1>2, <1>3, <1>5, <2>1, <2>2, <2>3, <2>4
    DEF WindowStep, Start, BeginRound, GiveUp, Refused, Quote, Mark, Recheck, Ask, NotInvoked,
        Rejected, TakeBack, Unsure, Answered, Tracked, EndRound, Acknowledge, StartDiscard,
        ClearDiscard, EndDiscard, Reload
<1> QED
  BY <1>2, <1>5 DEF Next, vars, Retire, Approve, Refuse, Include, Become

\* What the mark of a round says of its journal, and of what is live at it.
RoundFacts ==
  \A p \in Plans, r \in Round :
    /\ RoundMark(p, r).stage = "clear" => RoundMark(p, r) = [of |-> -1, stage |-> "clear"]
    /\ \A n \in Asks : RoundPrompt(p, r, n).stage = "live" =>
         LiveAt(p, r, n) /\ RoundMark(p, r).stage # "clear"
    /\ \A m, n \in Asks : LiveAt(p, r, m) /\ LiveAt(p, r, n) => m = n

LEMMA RoundFactsHold == IInv => RoundFacts
<1> SUFFICES ASSUME IInv, NEW p \in Plans, NEW r \in Round
             PROVE  /\ RoundMark(p, r).stage = "clear" =>
                         RoundMark(p, r) = [of |-> -1, stage |-> "clear"]
                    /\ \A n \in Asks : RoundPrompt(p, r, n).stage = "live" =>
                         LiveAt(p, r, n) /\ RoundMark(p, r).stage # "clear"
                    /\ \A m, n \in Asks : LiveAt(p, r, m) /\ LiveAt(p, r, n) => m = n
  BY DEF RoundFacts
<1>1. RoundMark(p, r).stage = "clear" => RoundMark(p, r) = [of |-> -1, stage |-> "clear"]
  BY DEF RoundMark
<1>2. ASSUME NEW n \in Asks, RoundPrompt(p, r, n).stage = "live"
      PROVE  LiveAt(p, r, n) /\ RoundMark(p, r).stage # "clear"
  <2>1. LiveAt(p, r, n)
    BY <1>2 DEF RoundPrompt
  <2>2. plan.round \in 0 .. Rounds
    BY Facts DEF IInv, TypeOK
  <2>3. journal[p][r].sent \in {Sending, n}
    BY <2>1, <2>2, Facts DEF LiveAt, IInv, WorldInv, SendRecorded
  <2>4. journal[p][r].sent # Unsent
    BY <2>3 DEF Sending, Unsent, Asks
  <2> QED
    BY <2>1, <2>4 DEF RoundMark
<1>3. \A m, n \in Asks : LiveAt(p, r, m) /\ LiveAt(p, r, n) => m = n
  BY DEF LiveAt, IInv, WorldInv, RoundOnce
<1> QED
  BY <1>1, <1>2, <1>3

LEMMA RoundFactsNext == IInv' => RoundFacts'
BY RoundFactsHold, PTL

\* Nothing comes to count of a round but by a call of the wallet.
LEMMA LiveFades ==
  ASSUME IInv, [Next]_vars, AsksFade, NEW p \in Plans, NEW r \in Round, NEW n \in Asks,
         LiveAt(p, r, n)'
  PROVE  LiveAt(p, r, n)
<1>1. /\ Live(n)' /\ plan'.id = p /\ plan'.round = r /\ asks'[n].id = p /\ asks'[n].round = r
  BY DEF LiveAt
<1>2. Live(n) /\ asks[n].id = p /\ asks[n].round = r
  BY <1>1 DEF AsksFade
<1>3. plan.id = p /\ r <= plan.round
  BY <1>2, Facts DEF IInv, TypeOK, WorldInv, SendRecorded, Round
<1>4. plan.round \in 0 .. Rounds /\ r \in 0 .. Rounds - 1 /\ Rounds \in Nat
  BY Facts DEF IInv, TypeOK, Round
<1>5. plan.round <= r
  BY <1>1, <1>3, PlanForward
<1> QED
  BY <1>2, <1>3, <1>4, <1>5 DEF LiveAt

\* A step that sets a journal ends nothing that is live.
LEMMA JournalOrPrompts ==
  ASSUME IInv, [Next]_vars, journal' # journal
  PROVE  /\ plan' = plan /\ over' = over
         /\ \A n \in Asks : asks'[n].fate = asks[n].fate
<1>1. asks \in [Asks -> AskRecords]
  BY DEF IInv, TypeOK, AskRecords
<1>2. ASSUME NEW w \in Windows, NEW n \in Asks, Hears(w, n)
      PROVE  \A m \in Asks : asks'[m].fate = asks[m].fate
  BY <1>1, <1>2 DEF Hears, AskRecords
<1>3. ASSUME NEW w \in Windows, WindowStep(w)
      PROVE  /\ plan' = plan /\ over' = over
             /\ \A n \in Asks : asks'[n].fate = asks[n].fate
  BY <1>2, <1>3
  DEF WindowStep, Start, Prepared, BeginRound, Replace, Keep, Skip, GiveUp, Refused, Quote,
      Mark, Recheck, Ask, NotInvoked, Rejected, TakeBack, Unsure, Answered, Tracked, Checkpoint,
      EndRound, Acknowledge, StartDiscard, ClearDiscard, EndDiscard, Reload
<1> QED
  BY <1>3 DEF Next, vars, Retire, Approve, Refuse, Include, Become

LEMMA RoundsInit == Init => \A p \in Plans, r \in Round : RoundOf(p, r)!JournalInit
<1> SUFFICES ASSUME Init, NEW p \in Plans, NEW r \in Round PROVE RoundOf(p, r)!JournalInit
  OBVIOUS
<1>1. RoundMark(p, r) = [of |-> -1, stage |-> "clear"]
  BY Facts DEF Init, RoundMark, Unsent
<1>2. \A n \in Asks : RoundPrompt(p, r, n) = [of |-> -1, stage |-> "new"]
  BY DEF Init, RoundPrompt, NoAsk, Plans
<1> QED
  BY <1>1, <1>2 DEF RoundOf!JournalInit, RoundOf!Clear, RoundOf!Unopened

\* Only the journal of the round moves: its mark is put, taken back, gets its hash, or stays.
LEMMA RoundMoves ==
  ASSUME IInv, IInv', NEW p \in Plans, NEW r \in Round, RoundStep(p, r),
         \A n \in Asks : RoundPrompt(p, r, n)' = RoundPrompt(p, r, n)
  PROVE  [RoundOf(p, r)!JournalNext]_(RoundOf(p, r)!jvars)
<1> DEFINE j == journal[p][r]
           k == journal'[p][r]
<1>1. /\ RoundFacts /\ RoundFacts' /\ k.calls \in Calls
      /\ Asks' = Asks /\ Plans' = Plans /\ Round' = Round
  <2>1. k \in Journals
    <3>1. TypeOK'
      BY DEF IInv
    <3>2. journal' \in [Plans -> [Round -> Journals]]
      BY <3>1 DEF TypeOK, Plans, Round, Journals, NoJournal, Unsent, Calls
    <3> QED
      BY <3>2
  <2> QED
    BY <2>1, RoundFactsHold, RoundFactsNext, JournalFacts DEF Asks, Plans, Round
<1>2. Unsent # Sending /\ Unsent \notin Asks /\ Sending \notin Asks
  BY DEF Unsent, Sending, Asks
<1>3. [n \in Asks |-> RoundPrompt(p, r, n)]' = [n \in Asks |-> RoundPrompt(p, r, n)]
  BY <1>1
<1>4. CASE k.sent = j.sent /\ (j.sent = Unsent \/ k.calls = j.calls)
  <2>1. RoundMark(p, r)' = RoundMark(p, r)
    BY <1>4 DEF RoundMark
  <2> QED
    BY <1>3, <2>1 DEF RoundOf!jvars
<1>5. CASE k.sent = Unsent
  <2>1. RoundMark(p, r)' = [of |-> -1, stage |-> "clear"]
    BY <1>5 DEF RoundMark
  <2>2. RoundOf(p, r)!Idle
    BY <1>1, <2>1 DEF RoundOf!Idle, RoundFacts
  <2>3. RoundOf(p, r)!Unmark
    BY <1>3, <2>1, <2>2 DEF RoundOf!Unmark, RoundOf!Clear
  <2> QED
    BY <2>3 DEF RoundOf!JournalNext
<1>6. CASE j.sent = Unsent /\ k.sent = Sending
  <2>1. RoundMark(p, r) = [of |-> -1, stage |-> "clear"]
    BY <1>6 DEF RoundMark
  <2>2. RoundMark(p, r)' = [of |-> k.calls, stage |-> "sending"]
    BY <1>2, <1>6 DEF RoundMark
  <2>3. RoundOf(p, r)!Idle
    BY <1>1, <2>1 DEF RoundOf!Idle, RoundFacts
  <2>4. RoundOf(p, r)!Mark(k.calls)
    BY <1>3, <2>1, <2>2, <2>3 DEF RoundOf!Mark, RoundOf!Clear
  <2> QED
    BY <1>1, <2>4 DEF RoundOf!JournalNext
<1>7. CASE /\ j.sent = Sending /\ k.calls = j.calls
           /\ \E n \in Asks : /\ k.sent = n
                              /\ asks[n].id = p /\ asks[n].round = r /\ asks[n].calls = j.calls
  <2>1. PICK n \in Asks : /\ k.sent = n
                          /\ asks[n].id = p /\ asks[n].round = r /\ asks[n].calls = j.calls
    BY <1>7
  <2>2. /\ RoundMark(p, r) = [of |-> j.calls, stage |-> "sending"]
        /\ RoundMark(p, r)' = [of |-> j.calls, stage |-> "sent"]
    BY <1>2, <1>7, <2>1 DEF RoundMark
  <2>3. [m \in Asks |-> RoundPrompt(p, r, m)][n].of = j.calls
    BY <2>1 DEF RoundPrompt
  <2>4. RoundOf(p, r)!Submit(n)
    BY <1>3, <2>2, <2>3 DEF RoundOf!Submit
  <2> QED
    BY <2>4 DEF RoundOf!JournalNext
<1> QED
  BY <1>4, <1>5, <1>6, <1>7 DEF RoundStep

LEMMA RoundAsk ==
  ASSUME IInv, NEW w \in Windows, Ask(w), NEW p \in Plans, NEW r \in Round
  PROVE  [RoundOf(p, r)!JournalNext]_(RoundOf(p, r)!jvars)
<1>1. PICK n \in Asks :
        /\ asks[n] = NoAsk
        /\ asks' = [asks EXCEPT ![n] = [id |-> mine[w].id, round |-> mine[w].round,
                                        calls |-> Here(w).calls, fate |-> "open", to |-> w]]
  BY DEF Ask
<1>2. /\ UNCHANGED <<journal, plan, over>> /\ Asks' = Asks /\ RoundFacts
      /\ asks \in [Asks -> AskRecords]
      /\ pc[w] = "called" /\ pc[w] \in Running
  BY RoundFactsHold DEF Ask, Asks, IInv, TypeOK, AskRecords, Running
<1>3. /\ mine[w] = plan /\ plan.id \in Plans /\ plan.id \notin over /\ plan.round \in Round
      /\ Here(w) = journal[plan.id][plan.round] /\ Here(w).sent = Sending /\ NoneLive(plan)
  BY <1>2, AtWork DEF IInv, WorldInv, NotOver, WindowInv, Knows
<1>4. RoundMark(p, r)' = RoundMark(p, r)
  BY <1>2 DEF RoundMark
<1>5. /\ RoundPrompt(p, r, n) = [of |-> -1, stage |-> "new"]
      /\ \A m \in Asks : RoundPrompt(p, r, m)' =
           IF m = n /\ plan.id = p /\ plan.round = r
           THEN [of |-> Here(w).calls, stage |-> "live"]
           ELSE RoundPrompt(p, r, m)
  BY <1>1, <1>2, <1>3, Facts DEF RoundPrompt, LiveAt, Live, NoAsk, Plans
<1>6. CASE ~(plan.id = p /\ plan.round = r)
  <2>1. \A m \in Asks : RoundPrompt(p, r, m)' = RoundPrompt(p, r, m)
    BY <1>5, <1>6
  <2>2. [m \in Asks |-> RoundPrompt(p, r, m)]' = [m \in Asks |-> RoundPrompt(p, r, m)]
    BY <1>2, <2>1
  <2> QED
    BY <1>4, <2>2 DEF RoundOf!jvars
<1>7. CASE plan.id = p /\ plan.round = r
  <2>1. RoundMark(p, r) = [of |-> Here(w).calls, stage |-> "sending"]
    BY <1>3, <1>7 DEF RoundMark, Sending, Unsent
  <2>2. RoundOf(p, r)!Idle
    BY <1>2, <1>3 DEF RoundOf!Idle, RoundFacts, LiveAt, NoneLive, At
  <2>3. \A m \in Asks : RoundPrompt(p, r, m)' =
          IF m = n THEN [of |-> RoundMark(p, r).of, stage |-> "live"] ELSE RoundPrompt(p, r, m)
    BY <1>5, <1>7, <2>1
  <2>4. [m \in Asks |-> RoundPrompt(p, r, m)]' =
          [[m \in Asks |-> RoundPrompt(p, r, m)] EXCEPT
             ![n] = [of |-> RoundMark(p, r).of, stage |-> "live"]]
    BY <1>2, <2>3
  <2>5. RoundMark(p, r).stage = "sending"
    BY <2>1
  <2>6. RoundOf(p, r)!Ask(n)
    BY <1>4, <1>5, <2>2, <2>4, <2>5 DEF RoundOf!Ask, RoundOf!Unopened
  <2> QED
    BY <2>6 DEF RoundOf!JournalNext
<1> QED
  BY <1>6, <1>7

LEMMA RoundsNext ==
  ASSUME IInv, IInv', PromptCalls, [Next]_vars, NEW p \in Plans, NEW r \in Round
  PROVE  [RoundOf(p, r)!JournalNext]_(RoundOf(p, r)!jvars)
<1>1. CASE \E w \in Windows : Ask(w)
  BY <1>1, RoundAsk
<1>2. CASE \A w \in Windows : ~Ask(w)
  <2>1. AsksFade
    BY <1>2, Fades
  <2>2. CASE \A n \in Asks : LiveAt(p, r, n) => LiveAt(p, r, n)'
    <3>1. \A n \in Asks : RoundPrompt(p, r, n)' = RoundPrompt(p, r, n)
      BY <2>1, <2>2, LiveFades DEF AsksFade, RoundPrompt
    <3> QED
      BY <3>1, RoundSteps, RoundMoves
  <2>3. ASSUME NEW n \in Asks, LiveAt(p, r, n), ~LiveAt(p, r, n)'
        PROVE  RoundOf(p, r)!Settle(n)
    <3>1. journal' = journal
      <4> SUFFICES ASSUME journal' # journal PROVE FALSE
        OBVIOUS
      <4>1. plan' = plan /\ over' = over /\ asks'[n].fate = asks[n].fate
        BY JournalOrPrompts
      <4> QED
        BY <2>1, <2>3, <4>1 DEF LiveAt, Live, AsksFade
    <3>2. RoundMark(p, r)' = RoundMark(p, r) /\ Asks' = Asks
      BY <3>1 DEF RoundMark, Asks
    <3>3. \A m \in Asks : LiveAt(p, r, m) => m = n
      BY <2>3, RoundFactsHold DEF RoundFacts
    <3>4. \A m \in Asks : RoundPrompt(p, r, m)' = IF m = n
                            THEN [RoundPrompt(p, r, m) EXCEPT !.stage = "over"]
                            ELSE RoundPrompt(p, r, m)
      <4> TAKE m \in Asks
      <4>1. LiveAt(p, r, m)' <=> FALSE
        BY <2>1, <2>3, <3>3, LiveFades
      <4>2. m # n => ~LiveAt(p, r, m)
        BY <3>3
      <4>3. asks[n].id = p /\ asks[n].round = r
        BY <2>3 DEF LiveAt
      <4> QED
        BY <2>1, <4>1, <4>2, <4>3 DEF AsksFade, RoundPrompt
    <3>5. RoundPrompt(p, r, n).stage = "live"
      BY <2>3 DEF RoundPrompt, LiveAt
    <3> QED
      BY <3>2, <3>4, <3>5 DEF RoundOf!Settle, RoundOf!Clear
  <2> QED
    BY <2>2, <2>3 DEF RoundOf!JournalNext
<1> QED
  BY <1>1, <1>2

\* The journal of every round of every plan is what the other parts keep: for any windows,
\* rounds, refreshes and faults of storage, asked only under its mark, one prompt at a time,
\* and unmarked only when nothing of the round counts (action-plan.js 1-2 and 55-99).
THEOREM RoundsKeepJournals == Spec => RoundsAreSendJournals
<1>1. IInv /\ IInv' /\ PromptCalls /\ [Next]_vars
        => \A p \in Plans, r \in Round : RoundOf(p, r)!JournalStep
  <2> SUFFICES ASSUME IInv, IInv', PromptCalls, [Next]_vars, NEW p \in Plans, NEW r \in Round
               PROVE  RoundOf(p, r)!JournalStep
    OBVIOUS
  <2>1. [RoundOf(p, r)!JournalNext]_(RoundOf(p, r)!jvars)
    BY RoundsNext
  <2> QED
    BY <2>1 DEF RoundOf!JournalStep
<1>2. IInv /\ IInv' /\ PromptCalls /\ [Next]_vars
        => \/ UNCHANGED <<plan, journal, asks, over>>
           \/ \A p \in Plans, r \in Round : RoundOf(p, r)!JournalStep
  BY <1>1
<1> QED
  BY <1>2, RoundsInit, PromptCallsHold, InitIInv, NextIInv, PTL DEF Spec, RoundsAreSendJournals
=============================================================================
