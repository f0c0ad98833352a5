---------------------------- MODULE SafePlanProofs ----------------------------
(***************************************************************************)
(* A saved plan whose calls go through a Safe keeps its account of what    *)
(* was sent, for any chains, any of them hosted, and any nonces, with      *)
(* saves that may fail anywhere.                                           *)
(*                                                                         *)
(* The invariant follows a click over its rows.  Between two requests of a *)
(* click the plan in memory knows every request this browser made; while   *)
(* one is made only its own row is exempt; and a row that was left without *)
(* its record can be told by its mark and the review that tried it.        *)
(***************************************************************************)
EXTENDS SafePlan, WellFoundedInduction, TLAPS

InClick == {"row", "sign", "publish", "posted", "ripe", "executing"}
InReview == InClick \cup {"review", "stuck"}

\* A click has a row at hand, and an acknowledged plan is gone for good.  What arrived was
\* asked for.
Shape ==
  /\ at \in InClick => review.todo # {}
  /\ at = "prepare" => saved = NoSafePlan
  /\ at # "idle" => ~acknowledged
  /\ acknowledged => saved = NoSafePlan
  /\ \A c \in SafeChains : \A n \in live[c] : n \in asked[c]

\* The plan in memory knows every proposal that the saved one knows.
KnownAgree ==
  at \in InReview =>
    \A c \in SafeChains : saved.known[c] # NoNonce => held.known[c] = saved.known[c]

\* The marks of the rows, and the request at hand.
MarksTrue ==
  at \in InReview =>
    /\ \A c \in SafeChains : review.mark[c] = "noted" => held.known[c] # NoNonce /\ c \notin Hosted
    /\ at \in InClick => \A c \in review.todo : review.mark[c] \in {"new", "noted"}
    /\ at \in {"ripe", "executing"} => review.pick = held.known[Row] /\ Row \notin Hosted
    /\ at \in {"sign", "publish", "posted"} /\ review.mark[Row] = "noted" =>
         review.pick = held.known[Row]
    /\ review.full => \A c \in SafeChains : review.mark[c] # "new"
    /\ at = "posted" /\ review.req = "open" /\ Row \notin Hosted => review.pick \notin live[Row]

\* What a plan calls executed or obsolete is that onchain.
PlanTrue(p) ==
  /\ \A c \in p.executed : p.known[c] \in ran[c]
  /\ p.obsolete \subseteq gone

PlansTrue ==
  /\ PlanTrue(saved) /\ PlanTrue(held)
  /\ acknowledged => \A c \in SafeChains : ran[c] # {} \/ c \in gone

\* The plan in memory knows every request made for the chain; a new row made none.
Clean(c) ==
  /\ \A n \in asked[c] : n = held.known[c]
  /\ review.mark[c] = "new" => asked[c] = {}

ClickClean ==
  ~retried =>
    /\ at \in InClick \ {"posted"} => \A c \in SafeChains : Clean(c)
    /\ at = "posted" => /\ \A c \in SafeChains \ {Row} : Clean(c)
                        /\ \A n \in asked[Row] : n = review.pick
                        /\ Row \in review.tried
                        /\ review.req = "again" => review.mark[Row] = "noted"
    /\ at \in {"review", "stuck"} =>
         \A c \in SafeChains : review.mark[c] # "new" \/ c \notin review.tried => Clean(c)

\* This browser has one request for a call at most.
OneAsked == ~retried => \A c \in SafeChains : \A m, n \in asked[c] : m = n

\* Beside request n a co-owner's can still be executed only if it came after the last read
\* of the queue, or if co-owners made n too.
Beside(c, n) ==
  \A m \in theirs[c] : m >= safeNonce[c] /\ m # n => m \in late[c] \/ n \in theirs[c]

AskedBeside == ~retried => \A c \in Hosted : \A n \in asked[c] : Beside(c, n)

\* A request about to be signed is from the queue that was read, if that had the call; one
\* about to be made is beside none that the last read could have shown.
PickRead ==
  /\ at = "sign" =>
       /\ Row \in Hosted
       /\ review.view[Row].queue # {} => review.pick \in review.view[Row].queue
  /\ ~retried /\ at = "publish" /\ Row \in Hosted => Beside(Row, review.pick)

Frame == SafeTypeOK /\ Shape /\ KnownAgree /\ MarksTrue /\ PlansTrue
Account == ClickClean /\ Accounted
Queue == OneAsked /\ AskedBeside /\ PickRead
SafeInv == Frame /\ Account /\ Queue

----------------------------------------------------------------------------
(* The row at hand, and the review.                                        *)

LEMMA LeastIn ==
  ASSUME NEW S \in SUBSET Nat, S # {}
  PROVE  \E m \in S : \A n \in S : m <= n
<1>1. PICK m \in S : \A n \in S : ~(<<n, m>> \in OpToRel(<, Nat))
  BY NatLessThanWellFounded, WFMin, Zenon
<1>2. \A n \in S : ~(n < m)
  BY <1>1, Zenon DEF OpToRel
<1>3. \A n \in S : n \in Nat
  OBVIOUS
<1> QED
  BY <1>2, <1>3

ReviewType ==
  [todo : SUBSET SafeChains, pick : Nonces, full : BOOLEAN, tried : SUBSET SafeChains,
   req : {"none", "open", "again", "landed"},
   mark : [SafeChains -> {"out", "new", "noted", "done"}],
   view : [SafeChains -> [nonce : 0 .. MaxSafeNonce + 1, queue : SUBSET Nonces]]]

LEMMA RowInTodo ==
  ASSUME SafeTypeOK, Shape, at \in InClick
  PROVE  Row \in review.todo /\ Row \in SafeChains
<1>1. review.todo \in SUBSET SafeChains /\ review.todo # {}
  BY DEF SafeTypeOK, Shape
<1>2. review.todo \in SUBSET Nat
  BY <1>1, SafePlanAssumption
<1>3. \E c \in review.todo : \A d \in review.todo : c <= d
  BY <1>1, <1>2, LeastIn
<1>4. Row \in review.todo
  BY <1>3 DEF Row
<1> QED
  BY <1>1, <1>4

LEMMA RowStays == ASSUME review'.todo = review.todo PROVE Row' = Row
BY DEF Row

LEMMA NoncesAre == Nonces \subseteq Nat /\ 0 \in Nonces /\ NoNonce \notin Nonces
BY SafePlanAssumption DEF Nonces, NoNonce

\* Plans, by their fields.
LEMMA PlanFacts ==
  ASSUME NEW p \in SafePlans
  PROVE  /\ p.known \in [SafeChains -> Nonces \cup {NoNonce}]
         /\ p.pending \in BOOLEAN /\ p.executed \subseteq SafeChains /\ p.obsolete \subseteq SafeChains
BY DEF SafePlans

LEMMA NoPlanFacts ==
  /\ NoSafePlan \in SafePlans
  /\ NoSafePlan.phase = "none" /\ NoSafePlan.pending = FALSE
  /\ NoSafePlan.known = [c \in SafeChains |-> NoNonce]
  /\ NoSafePlan.executed = {} /\ NoSafePlan.obsolete = {}
BY DEF NoSafePlan, SafePlans

LEMMA UnreadType == Unread \in [nonce : 0 .. MaxSafeNonce + 1, queue : SUBSET Nonces]
BY SafePlanAssumption DEF Unread

\* Closed, the review has no rows and no requests.
LEMMA ShutFacts ==
  /\ Shut \in ReviewType
  /\ Shut.todo = {} /\ Shut.pick = 0 /\ Shut.req = "none" /\ Shut.full = FALSE /\ Shut.tried = {}
BY NoncesAre, UnreadType DEF Shut, ReviewType

LEMMA ReadType ==
  ASSUME SafeTypeOK, NEW c \in SafeChains
  PROVE  /\ Read(c) \in [nonce : 0 .. MaxSafeNonce + 1, queue : SUBSET Nonces]
         /\ Read(c).nonce = safeNonce[c]
         /\ Read(c).queue = IF c \in Hosted THEN Visible(c) ELSE {}
         /\ Visible(c) = {n \in live[c] \cup theirs[c] : n >= safeNonce[c]}
BY DEF SafeTypeOK, Read, Visible, Seen

LEMMA Backs ==
  ASSUME SafeTypeOK, Back
  PROVE  /\ at' = "review" /\ review' \in ReviewType
         /\ review'.mark = review.mark /\ review'.full = review.full
         /\ review'.tried = review.tried
BY NoncesAre DEF SafeTypeOK, Back, ReviewType

LEMMA Onwards ==
  ASSUME SafeTypeOK, Row \in review.todo, NEW mark \in {"new", "noted", "done"}, Onward(mark)
  PROVE  /\ review' \in ReviewType
         /\ review'.todo = review.todo \ {Row}
         /\ review'.mark = [review.mark EXCEPT ![Row] = mark]
         /\ review'.tried = review.tried
         /\ review'.full => \/ \A c \in SafeChains : review'.mark[c] # "new"
                            \/ review.full /\ mark = review.mark[Row]
         /\ \/ at' = "review"
            \/ at' = "row" /\ review'.todo # {}
<1> DEFINE left == review.todo \ {Row}
           view == [review.view EXCEPT ![Row] = IF mark = "new" THEN @ ELSE Unread]
           full == IF left = {}
                   THEN mark # "new" /\ \A c \in SafeChains \ {Row} : review.mark[c] # "new"
                   ELSE review.full /\ mark = review.mark[Row]
<1>1. review \in ReviewType /\ Row \in SafeChains
  BY DEF SafeTypeOK, ReviewType
<1>2. review' = [review EXCEPT !.todo = left, !.pick = 0, !.req = "none", !.mark[Row] = mark,
                               !.view[Row] = IF mark = "new" THEN @ ELSE Unread, !.full = full]
  BY DEF Onward
<1>3. /\ at' = IF left = {} THEN "review" ELSE "row"
  BY DEF Onward
<1>4. view \in [SafeChains -> [nonce : 0 .. MaxSafeNonce + 1, queue : SUBSET Nonces]]
  BY <1>1, UnreadType DEF ReviewType
<1>5. full \in BOOLEAN /\ left \subseteq SafeChains
  BY <1>1 DEF ReviewType
<1>6. full => \/ mark # "new" /\ \A c \in SafeChains \ {Row} : review.mark[c] # "new"
              \/ review.full /\ mark = review.mark[Row]
  OBVIOUS
<1>7. review' = [review EXCEPT !.todo = left, !.pick = 0, !.req = "none", !.view = view,
                               !.mark = [review.mark EXCEPT ![Row] = mark], !.full = full]
  BY <1>1, <1>2 DEF ReviewType
<1> HIDE DEF full, view
<1>8. /\ review' \in ReviewType /\ review'.todo = left /\ review'.tried = review.tried
      /\ review'.mark = [review.mark EXCEPT ![Row] = mark] /\ review'.full = full
  BY <1>1, <1>4, <1>5, <1>7, NoncesAre DEF ReviewType
<1>9. mark # "new" /\ (\A c \in SafeChains \ {Row} : review.mark[c] # "new") =>
        \A c \in SafeChains : review'.mark[c] # "new"
  BY <1>1, <1>8 DEF ReviewType
<1> QED
  BY <1>3, <1>6, <1>8, <1>9

LEMMA Opens ==
  ASSUME SafeTypeOK, NEW p \in SafePlans, Open(p)
  PROVE  /\ at' = "review" /\ held' = p /\ review' \in ReviewType
         /\ review'.todo = {} /\ review'.full = FALSE /\ review'.tried = {}
         /\ review'.mark = [c \in SafeChains |-> IF p.known[c] = NoNonce THEN "new" ELSE "out"]
<1>1. [c \in SafeChains |-> IF p.known[c] = NoNonce THEN Read(c) ELSE Unread]
        \in [SafeChains -> [nonce : 0 .. MaxSafeNonce + 1, queue : SUBSET Nonces]]
  BY ReadType, UnreadType
<1> QED
  BY <1>1, ShutFacts DEF Open, ReviewType

----------------------------------------------------------------------------
(* The frame: types, marks, and plans that say what is true.               *)

\* p knows what the plan in memory knows, and perhaps more.
Extends(p) == \A c \in SafeChains : held.known[c] # NoNonce => p.known[c] = held.known[c]

AskedType == asked' \in [SafeChains -> SUBSET Nonces]

\* Whatever is dropped from the account was not seen by owners.
AskedCovers == \A c \in SafeChains : \A n \in live[c] : n \in asked[c] => n \in asked'[c]

\* A step within the review: it may save the plan, and the save may fail.
LEMMA ReviewStep ==
  ASSUME Frame, at \in InReview, at' \in InReview,
         NEW p \in SafePlans, held' = p, saved' = saved \/ saved' = p,
         Extends(p), PlanTrue(p),
         UNCHANGED <<live, outside>>, AskedType, AskedCovers, retried' \in BOOLEAN,
         review' \in ReviewType, at' \in InClick => review'.todo # {},
         MarksTrue'
  PROVE  Frame'
<1>1. SafeTypeOK'
  <2>1. at' \in Steps
    BY DEF InReview, InClick, Steps
  <2> QED
    BY <2>1 DEF Frame, SafeTypeOK, ReviewType, AskedType, outside, Nonces
<1>2. Shape'
  BY DEF Frame, Shape, AskedCovers, InReview, InClick, outside
<1>3. KnownAgree'
  BY DEF Frame, KnownAgree, Extends
<1>4. PlansTrue'
  BY DEF Frame, PlansTrue, PlanTrue, outside
<1> QED
  BY <1>1, <1>2, <1>3, <1>4 DEF Frame

\* A step that only moves the review on.
LEMMA QuietReviewStep ==
  ASSUME Frame, at \in InReview, at' \in InReview,
         UNCHANGED <<saved, held, live, asked, outside>>, retried' \in BOOLEAN,
         review' \in ReviewType, at' \in InClick => review'.todo # {},
         MarksTrue'
  PROVE  Frame'
<1>1. held \in SafePlans /\ PlanTrue(held) /\ Extends(held)
  BY DEF Frame, SafeTypeOK, PlansTrue, Extends
<1>2. AskedType /\ AskedCovers
  BY DEF Frame, SafeTypeOK, AskedType, AskedCovers
<1> QED
  BY <1>1, <1>2, ReviewStep

\* A step that ends or begins outside the review.
LEMMA RestStep ==
  ASSUME Frame, at' \in {"idle", "prepare"}, held' \in SafePlans, review' \in ReviewType,
         saved' \in SafePlans, PlanTrue(saved), PlanTrue(saved'), PlanTrue(held'),
         at' = "prepare" => saved' = NoSafePlan /\ ~acknowledged',
         acknowledged => saved' = NoSafePlan,
         UNCHANGED <<live, asked, retried, outside>>
  PROVE  Frame'
<1>1. SafeTypeOK'
  BY DEF Frame, SafeTypeOK, ReviewType, outside, Nonces, Steps
<1>2. Shape'
  BY DEF Frame, Shape, InClick, outside
<1>3. KnownAgree' /\ MarksTrue'
  BY DEF KnownAgree, MarksTrue, InReview, InClick
<1>4. PlansTrue'
  BY DEF Frame, PlansTrue, PlanTrue, outside
<1> QED
  BY <1>1, <1>2, <1>3, <1>4 DEF Frame

LEMMA MarksBack ==
  ASSUME Frame, at \in InReview, Back, Extends(held')
  PROVE  MarksTrue'
<1>1. /\ at' = "review" /\ review'.mark = review.mark /\ review'.full = review.full
  BY Backs DEF Frame
<1> QED
  BY <1>1, NoncesAre DEF Frame, MarksTrue, Extends, InClick

LEMMA MarksOnward ==
  ASSUME Frame, at \in InClick, NEW mark \in {"new", "noted", "done"}, Onward(mark),
         Extends(held'), mark = "noted" => held'.known[Row] # NoNonce /\ Row \notin Hosted
  PROVE  MarksTrue' /\ review' \in ReviewType /\ at' \in InReview
         /\ (at' \in InClick => review'.todo # {})
<1>1. Row \in review.todo /\ Row \in SafeChains /\ SafeTypeOK
  BY RowInTodo DEF Frame
<1>2. /\ review' \in ReviewType
      /\ review'.todo = review.todo \ {Row}
      /\ review'.mark = [review.mark EXCEPT ![Row] = mark]
      /\ review'.full => \/ \A c \in SafeChains : review'.mark[c] # "new"
                         \/ review.full /\ mark = review.mark[Row]
      /\ \/ at' = "review"
         \/ at' = "row" /\ review'.todo # {}
  BY <1>1, Onwards
<1>3. review.mark \in [SafeChains -> {"out", "new", "noted", "done"}] /\ review.todo \subseteq SafeChains
  BY <1>1 DEF SafeTypeOK
<1>4. \A c \in SafeChains : review'.mark[c] = IF c = Row THEN mark ELSE review.mark[c]
  BY <1>2, <1>3
<1>5. \A c \in SafeChains : review'.mark[c] = "noted" => held'.known[c] # NoNonce /\ c \notin Hosted
  BY <1>1, <1>4 DEF Frame, MarksTrue, Extends, InReview
<1>6. \A c \in review'.todo : review'.mark[c] \in {"new", "noted"}
  BY <1>1, <1>2, <1>3, <1>4 DEF Frame, MarksTrue, InReview
<1>7. review.full /\ mark = review.mark[Row] => \A c \in SafeChains : review'.mark[c] # "new"
  BY <1>1, <1>4 DEF Frame, MarksTrue, InReview
<1>8. MarksTrue'
  BY <1>2, <1>5, <1>6, <1>7 DEF MarksTrue, InClick
<1> QED
  BY <1>2, <1>8 DEF InReview, InClick

\* A plan with another mark, proposal or execution.
LEMMA PlanEdits ==
  ASSUME NEW p \in SafePlans, NEW b \in BOOLEAN
  PROVE  /\ [p EXCEPT !.pending = b] \in SafePlans
         /\ [p EXCEPT !.pending = b].known = p.known
         /\ [p EXCEPT !.pending = b].pending = b
         /\ [p EXCEPT !.pending = b].executed = p.executed
         /\ [p EXCEPT !.pending = b].obsolete = p.obsolete
BY DEF SafePlans

LEMMA ExecutedEdit ==
  ASSUME NEW p \in SafePlans, NEW S \in SUBSET SafeChains
  PROVE  LET q == [p EXCEPT !.executed = @ \cup S]
         IN  /\ q \in SafePlans /\ q.known = p.known /\ q.pending = p.pending
             /\ q.executed = p.executed \cup S /\ q.obsolete = p.obsolete
BY DEF SafePlans

----------------------------------------------------------------------------
(* The frame, action by action.                                            *)

LEMMA FrameOpens ==
  ASSUME Frame, SavePrepared \/ ResumeRound
  PROVE  Frame'
<1> DEFINE p0 == [NoSafePlan EXCEPT !.phase = "round"]
<1>1. /\ p0 \in SafePlans /\ p0.known = [c \in SafeChains |-> NoNonce]
      /\ p0.executed = {} /\ p0.obsolete = {}
  BY DEF SafePlans, NoSafePlan
<1>2. SafeTypeOK /\ UNCHANGED <<live, asked, retried, outside>>
  BY DEF Frame, SavePrepared, ResumeRound
<1>3. CASE SavePrepared /\ SaveThrows(p0) /\ End
  <2>1. saved' \in SafePlans /\ PlanTrue(saved') /\ PlanTrue(saved)
    BY <1>1, <1>2, <1>3 DEF SaveThrows, PlanTrue, SafeTypeOK, Frame, PlansTrue
  <2>2. PlanTrue(NoSafePlan)
    BY NoPlanFacts DEF PlanTrue
  <2>3. ~acknowledged
    BY <1>3 DEF SavePrepared, Frame, Shape
  <2> QED
    BY <1>2, <1>3, <2>1, <2>2, <2>3, NoPlanFacts, ShutFacts, RestStep DEF End
<1>4. ASSUME NEW p \in SafePlans, Open(p), saved' = p, PlanTrue(p), ~acknowledged
      PROVE  Frame'
  <2>1. /\ at' = "review" /\ held' = p /\ review' \in ReviewType
        /\ review'.todo = {} /\ review'.full = FALSE
        /\ review'.mark = [c \in SafeChains |-> IF p.known[c] = NoNonce THEN "new" ELSE "out"]
    BY <1>2, <1>4, Opens
  <2>2. SafeTypeOK'
    BY <1>2, <1>4, <2>1 DEF SafeTypeOK, ReviewType, outside, Nonces, Steps
  <2>3. Shape'
    BY <1>2, <1>4, <2>1 DEF Frame, Shape, InClick, outside
  <2>4. KnownAgree'
    BY <1>4, <2>1 DEF KnownAgree
  <2>5. MarksTrue'
    BY <2>1 DEF MarksTrue, InClick
  <2>6. PlansTrue'
    BY <1>2, <1>4, <2>1 DEF Frame, PlansTrue, PlanTrue, outside
  <2> QED
    BY <2>2, <2>3, <2>4, <2>5, <2>6 DEF Frame
<1>5. CASE SavePrepared /\ saved' = p0 /\ Open(p0)
  <2>1. PlanTrue(p0)
    BY <1>1 DEF PlanTrue
  <2>2. ~acknowledged
    BY <1>5 DEF SavePrepared, Frame, Shape
  <2> QED
    BY <1>1, <1>4, <1>5, <2>1, <2>2
<1>6. CASE ResumeRound
  <2>1. saved \in SafePlans /\ PlanTrue(saved) /\ Open(saved) /\ saved' = saved
    BY <1>2, <1>6 DEF SafeTypeOK, Frame, PlansTrue, ResumeRound
  <2>2. ~acknowledged
    BY <1>6, NoPlanFacts DEF ResumeRound, Frame, Shape
  <2> QED
    BY <1>4, <2>1, <2>2
<1> QED
  BY <1>3, <1>5, <1>6 DEF SavePrepared

LEMMA FrameRests ==
  ASSUME Frame,
         Prepare \/ Reconcile \/ Discard \/ Close \/ ReloadReview
  PROVE  Frame'
<1>1. /\ SafeTypeOK /\ Shape /\ PlanTrue(saved) /\ PlanTrue(held)
      /\ UNCHANGED <<live, asked, retried, outside>>
  BY DEF Frame, PlansTrue, Prepare, Reconcile, Discard, Close, ReloadReview
<1>2. PlanTrue(NoSafePlan)
  BY NoPlanFacts DEF PlanTrue
<1>3. CASE Prepare
  BY <1>1, <1>3, RestStep DEF Prepare, SafeTypeOK, ReviewType, outside
<1>4. CASE Reconcile
  <2> DEFINE p == [Reconciled(saved) EXCEPT !.phase = "done"]
  <2>1. p \in SafePlans /\ PlanTrue(p)
    <3>1. saved \in SafePlans
      BY <1>1 DEF SafeTypeOK
    <3>2. CASE saved.executed = SafeChains
      BY <1>1, <3>1, <3>2 DEF Reconciled, SafePlans, PlanTrue
    <3>3. CASE saved.executed # SafeChains
      <4> DEFINE seen == saved.executed \cup {c \in SafeChains : saved.known[c] \in ran[c]}
      <4>1. p = [saved EXCEPT !.executed = seen, !.obsolete = gone \ seen, !.phase = "done"]
        BY <3>3 DEF Reconciled
      <4>2. seen \subseteq SafeChains /\ gone \subseteq SafeChains
        BY <1>1, <3>1 DEF SafePlans, SafeTypeOK
      <4>3. \A c \in seen : saved.known[c] \in ran[c]
        BY <1>1 DEF PlanTrue
      <4> HIDE DEF seen
      <4>4. p \in SafePlans /\ p.known = saved.known /\ p.executed = seen /\ p.obsolete = gone \ seen
        BY <3>1, <4>1, <4>2 DEF SafePlans
      <4> QED
        BY <4>3, <4>4 DEF PlanTrue
    <3> QED
      BY <3>2, <3>3
  <2> HIDE DEF p
  <2>2. /\ saved' = p \/ saved' \in {saved, p}
        /\ at' = "idle" /\ held' = held /\ review' = review /\ ~acknowledged
    <3>1. ~acknowledged
      BY <1>1, <1>4, NoPlanFacts DEF Shape, Reconcile
    <3> QED
      BY <1>4, <3>1 DEF Reconcile, SaveThrows, p
  <2> QED
    BY <1>1, <2>1, <2>2, RestStep DEF SafeTypeOK, ReviewType
<1>5. CASE Discard
  BY <1>1, <1>2, <1>5, NoPlanFacts, RestStep DEF Discard, SafeTypeOK, ReviewType
<1>6. CASE Close
  <2> DEFINE p == [held EXCEPT !.phase = "done", !.pending = FALSE]
  <2>1. p \in SafePlans /\ PlanTrue(p)
    BY <1>1 DEF SafeTypeOK, SafePlans, PlanTrue
  <2> HIDE DEF p
  <2>2. ~acknowledged /\ saved' \in {saved, p} /\ End
    BY <1>1, <1>6 DEF Shape, Close, SaveThrows, p
  <2> QED
    BY <1>1, <1>2, <2>1, <2>2, NoPlanFacts, ShutFacts, RestStep DEF End, SafeTypeOK
<1>7. CASE ReloadReview
  BY <1>1, <1>2, <1>7, NoPlanFacts, ShutFacts, RestStep DEF ReloadReview, End, SafeTypeOK, Shape
<1> QED
  BY <1>3, <1>4, <1>5, <1>6, <1>7

\* The user acknowledges a result in which every call is executed or obsolete.
LEMMA FrameAcknowledges ==
  ASSUME Frame, AcknowledgeSafe
  PROVE  Frame'
<1>1. /\ at = "idle" /\ at' = at /\ saved' = NoSafePlan /\ acknowledged' = TRUE
      /\ saved.executed \cup saved.obsolete = SafeChains
      /\ UNCHANGED <<held, review, live, asked, theirs, late, safeNonce, ran, gone, retried>>
      /\ SafeTypeOK /\ Shape /\ PlanTrue(saved) /\ PlanTrue(held)
  BY DEF AcknowledgeSafe, Frame, PlansTrue
<1>2. SafeTypeOK'
  BY <1>1, NoPlanFacts DEF SafeTypeOK, Nonces
<1>3. Shape'
  BY <1>1 DEF Shape, InClick
<1>4. KnownAgree' /\ MarksTrue'
  BY <1>1 DEF KnownAgree, MarksTrue, InReview, InClick
<1>5. \A c \in SafeChains : ran[c] # {} \/ c \in gone
  BY <1>1 DEF PlanTrue
<1>6. PlansTrue'
  BY <1>1, <1>5, NoPlanFacts DEF PlansTrue, PlanTrue
<1> QED
  BY <1>2, <1>3, <1>4, <1>6 DEF Frame

\* The Safes, their owners and the service.
LEMMA FrameWorld ==
  ASSUME Frame, SafeWorld
  PROVE  Frame'
<1>1. /\ UNCHANGED <<saved, held, at, asked, retried, acknowledged>>
      /\ live' \in [SafeChains -> SUBSET Nonces] /\ theirs' \in [SafeChains -> SUBSET Nonces]
      /\ late' \in [SafeChains -> SUBSET Nonces] /\ safeNonce' \in [SafeChains -> 0 .. MaxSafeNonce + 1]
      /\ ran' \in [SafeChains -> SUBSET Nonces] /\ gone' \subseteq SafeChains
      /\ gone \subseteq gone' /\ \A c \in SafeChains : ran[c] \subseteq ran'[c]
      /\ \A c \in SafeChains : \A n \in live'[c] : n \in live[c] \/ n \in asked[c]
  <2>1. SafeTypeOK /\ Nonces = 0 .. MaxSafeNonce /\ MaxSafeNonce \in Nat
    BY SafePlanAssumption DEF Frame, Nonces
  <2>2. CASE Land
    BY <2>1, <2>2 DEF Land, SafeTypeOK, outside
  <2>3. CASE OwnersExecute
    BY <2>1, <2>3 DEF OwnersExecute, SafeTypeOK, Seen
  <2>4. CASE OtherCall
    BY <2>1, <2>4 DEF OtherCall, SafeTypeOK
  <2>5. CASE Consume
    BY <2>1, <2>5 DEF Consume, SafeTypeOK
  <2>6. CASE OwnersQueue
    BY <2>1, <2>6 DEF OwnersQueue, SafeTypeOK
  <2> QED
    BY <2>2, <2>3, <2>4, <2>5, <2>6 DEF SafeWorld
<1>2. /\ review' \in ReviewType /\ review'.todo = review.todo /\ review'.mark = review.mark
      /\ review'.full = review.full /\ review'.pick = review.pick
      /\ review'.tried = review.tried
  BY DEF SafeWorld, Land, OwnersQueue, OwnersExecute, OtherCall, Consume, Frame, SafeTypeOK, ReviewType
<1>3. Row' = Row
  BY <1>2, RowStays
<1>4. SafeTypeOK'
  BY <1>1, <1>2 DEF Frame, SafeTypeOK, ReviewType, Nonces
<1>5. ASSUME at = "posted", review'.req = "open", Row \notin Hosted
      PROVE  review.pick \notin live'[Row]
  <2>1. /\ Row \in SafeChains /\ live \in [SafeChains -> SUBSET Nonces] /\ review \in ReviewType
    BY <1>5, RowInTodo DEF Frame, InClick, SafeTypeOK, ReviewType
  <2>2. CASE Land
    <3>1. PICK c \in SafeChains, n \in Nonces :
            /\ live' = [live EXCEPT ![c] = @ \cup {n}]
            /\ review' = IF /\ at = "posted" /\ Row = c /\ review.pick = n
                            /\ review.req \in {"open", "again"}
                         THEN [review EXCEPT !.req = "landed"] ELSE review
      BY <2>2 DEF Land
    <3>2. ~(Row = c /\ review.pick = n /\ review.req \in {"open", "again"}) /\ review.req = "open"
      BY <1>5, <2>1, <3>1 DEF ReviewType
    <3>3. review.pick \notin live[Row]
      BY <1>5, <3>2 DEF Frame, MarksTrue, InReview, InClick
    <3> QED
      BY <2>1, <3>1, <3>2, <3>3
  <2>3. CASE ~Land
    <3>1. live' = live /\ review' = review
      BY <2>3 DEF SafeWorld, OwnersQueue, OwnersExecute, OtherCall, Consume
    <3> QED
      BY <1>5, <3>1 DEF Frame, MarksTrue, InReview, InClick
  <2> QED
    BY <2>2, <2>3
<1>6. Shape' /\ KnownAgree'
  BY <1>1, <1>2, <1>3 DEF Frame, Shape, KnownAgree
<1>7. MarksTrue'
  BY <1>1, <1>2, <1>3, <1>5 DEF Frame, MarksTrue
<1>8. PlansTrue'
  BY <1>1 DEF Frame, PlansTrue, PlanTrue, SafeTypeOK, SafePlans
<1> QED
  BY <1>4, <1>6, <1>7, <1>8 DEF Frame

\* The steps of a click that leave the plan alone.
LEMMA FrameClicks ==
  ASSUME Frame, Click
  PROVE  Frame'
<1> DEFINE rows == {c \in SafeChains : review.mark[c] \in {"new", "noted"}}
           view == [c \in SafeChains |-> IF c \in rows \ Hosted THEN Read(c) ELSE review.view[c]]
<1>1. /\ at = "review" /\ rows # {} /\ at' = "row"
      /\ review' = [review EXCEPT !.todo = rows, !.view = view]
      /\ retried' = (retried \/ Unclear)
      /\ UNCHANGED <<saved, held, live, asked, outside>>
      /\ SafeTypeOK
  BY DEF Click, Frame
<1>2. review \in ReviewType
  BY <1>1 DEF SafeTypeOK, ReviewType
<1>3. view \in [SafeChains -> [nonce : 0 .. MaxSafeNonce + 1, queue : SUBSET Nonces]]
  BY <1>1, <1>2, ReadType DEF ReviewType
<1>4. rows \subseteq SafeChains
  OBVIOUS
<1>5. \A c \in rows : review.mark[c] \in {"new", "noted"}
  OBVIOUS
<1> HIDE DEF rows, view
<1>6. /\ review' \in ReviewType /\ review'.todo = rows
      /\ review'.mark = review.mark /\ review'.full = review.full
  BY <1>1, <1>2, <1>3, <1>4 DEF ReviewType
<1>7. MarksTrue'
  BY <1>1, <1>5, <1>6 DEF Frame, MarksTrue, InReview, InClick
<1>8. retried' \in BOOLEAN
  BY <1>1 DEF SafeTypeOK, Unclear
<1> QED
  BY <1>1, <1>6, <1>7, <1>8, QuietReviewStep DEF InReview, InClick

\* The nonces a row can get.
LEMMA ChoicesAre ==
  ASSUME Frame, at = "row", NEW n \in Choices(Row)
  PROVE  /\ n \in Nonces
         /\ review.mark[Row] = "noted" => n = held.known[Row]
         /\ review.mark[Row] # "noted" /\ review.view[Row].queue # {} => n \in review.view[Row].queue
<1>1. /\ Row \in review.todo /\ Row \in SafeChains /\ SafeTypeOK
      /\ review.view[Row] \in [nonce : 0 .. MaxSafeNonce + 1, queue : SUBSET Nonces]
  BY RowInTodo DEF Frame, SafeTypeOK, InClick
<1>2. CASE review.mark[Row] = "noted"
  <2>1. held.known[Row] # NoNonce
    BY <1>1, <1>2 DEF Frame, MarksTrue, InReview, InClick
  <2>2. held.known[Row] \in Nonces
    BY <1>1, <2>1, PlanFacts DEF SafeTypeOK
  <2> QED
    BY <1>2, <2>2 DEF Choices
<1>3. CASE review.mark[Row] # "noted" /\ review.view[Row].queue # {}
  <2> DEFINE queue == review.view[Row].queue
  <2>1. queue \in SUBSET Nonces /\ queue \in SUBSET Nat
    BY <1>1, NoncesAre
  <2>2. \E m \in queue : \A k \in queue : m <= k
    BY <1>3, <2>1, LeastIn
  <2>3. n = CHOOSE m \in queue : \A k \in queue : m <= k
    BY <1>3 DEF Choices
  <2> QED
    BY <1>3, <2>1, <2>2, <2>3
<1>4. CASE review.mark[Row] # "noted" /\ review.view[Row].queue = {}
  BY <1>4 DEF Choices
<1> QED
  BY <1>2, <1>3, <1>4

LEMMA FrameStartsRow ==
  ASSUME Frame, StartRow
  PROVE  Frame'
<1>1. PICK n \in Choices(Row) :
        \/ /\ Signed(Row, n) /\ review' = [review EXCEPT !.pick = n, !.req = "landed"]
           /\ at' = IF review.mark[Row] = "noted" THEN "ripe" ELSE "posted"
        \/ /\ review' = [review EXCEPT !.pick = n]
           /\ at' = IF Row \in Hosted THEN "sign" ELSE "publish"
  BY DEF StartRow
<1>2. /\ at = "row" /\ UNCHANGED <<saved, held, live, asked, retried, outside>>
      /\ SafeTypeOK /\ Row \in SafeChains /\ Row \in review.todo
  BY RowInTodo DEF StartRow, Frame, InClick
<1>3. n \in Nonces /\ (review.mark[Row] = "noted" => n = held.known[Row])
  BY <1>2, ChoicesAre
<1>4. /\ review' \in ReviewType /\ review'.todo = review.todo /\ review'.mark = review.mark
      /\ review'.full = review.full /\ review'.pick = n
      /\ at' = "posted" => review'.req = "landed"
  BY <1>1, <1>2, <1>3 DEF SafeTypeOK, ReviewType
<1>5. Row' = Row
  BY <1>4, RowStays
<1>6. at' \in {"sign", "publish", "posted"} \/ (at' = "ripe" /\ review.mark[Row] = "noted")
  BY <1>1
<1>7. MarksTrue'
  BY <1>2, <1>3, <1>4, <1>5, <1>6 DEF Frame, MarksTrue, InReview, InClick
<1>8. at \in InReview /\ at' \in InReview /\ review'.todo # {} /\ retried' \in BOOLEAN
  BY <1>2, <1>4, <1>6 DEF InReview, InClick, SafeTypeOK
<1> QED
  BY <1>2, <1>4, <1>7, <1>8, QuietReviewStep

LEMMA FrameMovesOn ==
  ASSUME Frame, StaleRow \/ SignRow \/ NotRipe \/ Fail
  PROVE  Frame'
<1>1. /\ UNCHANGED <<saved, held, live, asked, retried>>
      /\ ~SignRow => UNCHANGED outside
      /\ at \in InClick /\ at \in InReview
      /\ SafeTypeOK /\ Row \in SafeChains /\ Row \in review.todo
      /\ retried' \in BOOLEAN /\ Extends(held')
  BY RowInTodo DEF StaleRow, SignRow, NotRipe, Fail, Frame, InReview, InClick, SafeTypeOK, Extends
<1>2. CASE StaleRow /\ ~SignRow
  <2>1. review.mark[Row] \in {"new", "noted"}
    BY <1>1 DEF Frame, MarksTrue
  <2>2. Onward(review.mark[Row])
    BY <1>2 DEF StaleRow
  <2>3. review.mark[Row] = "noted" => held'.known[Row] # NoNonce /\ Row \notin Hosted
    BY <1>1 DEF Frame, MarksTrue
  <2> QED
    BY <1>1, <1>2, <2>1, <2>2, <2>3, MarksOnward, QuietReviewStep
<1>3. CASE SignRow
  <2>1. /\ at' = "publish" /\ review' = review /\ Row' = Row /\ at = "sign"
    BY <1>3, RowStays DEF SignRow
  <2>2. MarksTrue'
    BY <1>1, <2>1 DEF Frame, MarksTrue, InReview, InClick
  <2>3. /\ UNCHANGED <<saved, held, review, live, asked, theirs, safeNonce, ran, gone, retried,
                       acknowledged>>
        /\ late' \in [SafeChains -> SUBSET Nonces]
    BY <1>1, <1>3 DEF SignRow, SafeTypeOK
  <2>4. SafeTypeOK'
    BY <1>1, <2>1, <2>3 DEF SafeTypeOK, Nonces, Steps
  <2>5. Shape' /\ KnownAgree' /\ PlansTrue'
    BY <1>1, <2>1, <2>3 DEF Frame, Shape, KnownAgree, PlansTrue, PlanTrue, InClick
  <2> QED
    BY <2>2, <2>4, <2>5 DEF Frame
<1>4. CASE NotRipe /\ ~SignRow
  <2>1. Onward("noted") /\ held' = held
    BY <1>4 DEF NotRipe, outside
  <2>2. held.known[Row] = review.pick /\ Row \notin Hosted
    BY <1>1, <1>4 DEF NotRipe, Frame, MarksTrue
  <2>3. review.pick # NoNonce
    BY <1>1, NoncesAre DEF SafeTypeOK
  <2> QED
    BY <1>1, <1>4, <2>1, <2>2, <2>3, MarksOnward, QuietReviewStep
<1>5. CASE Fail /\ ~SignRow
  <2>1. Back
    BY <1>5 DEF Fail
  <2> QED
    BY <1>1, <1>5, <2>1, Backs, MarksBack, QuietReviewStep DEF InReview, InClick
<1> QED
  BY <1>2, <1>3, <1>4, <1>5

\* The call of Row is asked for; Row was checked, so nothing else of it can be on its way.
LEMMA FramePublishes ==
  ASSUME Frame, Publish
  PROVE  Frame'
<1> DEFINE p == Marked(held, Row, review.pick)
<1>1. /\ at = "publish" /\ held' = p /\ UNCHANGED <<live, retried, outside>>
      /\ SafeTypeOK /\ Row \in SafeChains /\ Row \in review.todo /\ held \in SafePlans
      /\ review \in ReviewType /\ review.pick \in Nonces
  BY RowInTodo DEF Publish, Frame, InClick, SafeTypeOK, ReviewType
<1>2. p \in SafePlans /\ p.known = held.known /\ PlanTrue(p) /\ Extends(p)
  BY <1>1, PlanEdits DEF Marked, PlanTrue, Extends, Frame, PlansTrue
<1> HIDE DEF p
<1>3. at \in InReview /\ retried' \in BOOLEAN
  BY <1>1 DEF InReview, InClick, SafeTypeOK
<1>4. CASE saved' = p /\ at' = "posted"
  <2>1. /\ review' = [review EXCEPT !.tried = @ \cup {Row},
              !.req = IF review.pick \in asked[Row] THEN "again" ELSE "open"]
        /\ asked' = [asked EXCEPT ![Row] = @ \cup {review.pick}]
    BY <1>4 DEF Publish, Back
  <2>2. /\ review' \in ReviewType /\ review'.todo = review.todo /\ review'.mark = review.mark
        /\ review'.full = review.full /\ review'.pick = review.pick
        /\ review'.req = "open" => review.pick \notin asked[Row]
    BY <1>1, <2>1 DEF ReviewType
  <2>3. Row' = Row
    BY <2>2, RowStays
  <2>4. AskedType /\ AskedCovers
    BY <1>1, <2>1 DEF AskedType, AskedCovers, SafeTypeOK
  <2>5. review'.req = "open" /\ Row \notin Hosted => review.pick \notin live'[Row]
    BY <1>1, <2>2 DEF Frame, Shape
  <2>6. MarksTrue'
    BY <1>1, <1>2, <1>4, <2>2, <2>3, <2>5 DEF Frame, MarksTrue, InReview, InClick
  <2>7. at' \in InReview /\ review'.todo # {}
    BY <1>1, <1>4, <2>2 DEF InReview, InClick
  <2> QED
    BY <1>1, <1>2, <1>3, <1>4, <2>2, <2>4, <2>6, <2>7, ReviewStep
<1>5. CASE SaveThrows(p) /\ Back /\ UNCHANGED asked
  <2>1. AskedType /\ AskedCovers /\ (saved' = saved \/ saved' = p)
    BY <1>1, <1>5 DEF AskedType, AskedCovers, SafeTypeOK, SaveThrows
  <2> QED
    BY <1>1, <1>2, <1>3, <1>5, <2>1, Backs, MarksBack, ReviewStep DEF InReview, InClick
<1> QED
  BY <1>4, <1>5 DEF Publish, p

\* A proposal is recorded where none is known.
LEMMA FrameRecords ==
  ASSUME Frame, Record
  PROVE  Frame'
<1> DEFINE p == [held EXCEPT !.known[Row] = review.pick, !.pending = FALSE]
<1>1. /\ at = "posted" /\ held.known[Row] = NoNonce /\ held' = p
      /\ UNCHANGED <<live, asked, retried, outside>>
      /\ SafeTypeOK /\ Row \in SafeChains /\ Row \in review.todo /\ held \in SafePlans
      /\ review \in ReviewType /\ review.pick \in Nonces
  BY RowInTodo DEF Record, Saving, Frame, InClick, SafeTypeOK, ReviewType
<1>2. /\ p \in SafePlans /\ p.known = [held.known EXCEPT ![Row] = review.pick]
      /\ p.executed = held.executed /\ p.obsolete = held.obsolete
  BY <1>1 DEF SafePlans
<1> HIDE DEF p
<1>3. \A c \in SafeChains : p.known[c] = IF c = Row THEN review.pick ELSE held.known[c]
  BY <1>1, <1>2, PlanFacts
<1>4. Row \notin held.executed
  BY <1>1, NoncesAre DEF Frame, PlansTrue, PlanTrue, SafeTypeOK
<1>5. PlanTrue(p) /\ Extends(p)
  BY <1>1, <1>2, <1>3, <1>4, PlanFacts DEF PlanTrue, Extends, Frame, PlansTrue
<1>6. /\ at \in InReview /\ at \in InClick /\ retried' \in BOOLEAN /\ AskedType /\ AskedCovers
  BY <1>1 DEF InReview, InClick, SafeTypeOK, AskedType, AskedCovers
<1>7. CASE saved' = p /\ Row \in Hosted /\ Onward("done")
  <2>1. MarksTrue' /\ review' \in ReviewType /\ at' \in InReview
        /\ (at' \in InClick => review'.todo # {})
    BY <1>1, <1>5, <1>6, <1>7, MarksOnward
  <2> QED
    BY <1>1, <1>2, <1>5, <1>6, <1>7, <2>1, ReviewStep
<1>8. CASE saved' = p /\ Row \notin Hosted /\ at' = "ripe"
           /\ review' = [review EXCEPT !.mark[Row] = "noted"]
  <2>1. /\ review' \in ReviewType /\ review'.todo = review.todo /\ review'.pick = review.pick
        /\ review'.mark = [review.mark EXCEPT ![Row] = "noted"] /\ review'.full = review.full
    BY <1>1, <1>8 DEF ReviewType
  <2>2. \A c \in SafeChains : review'.mark[c] = IF c = Row THEN "noted" ELSE review.mark[c]
    BY <1>1, <2>1 DEF ReviewType
  <2>3. Row' = Row
    BY <2>1, RowStays
  <2>4. \A c \in SafeChains : review'.mark[c] = "noted" => p.known[c] # NoNonce /\ c \notin Hosted
    BY <1>1, <1>3, <1>6, <1>8, <2>2, NoncesAre DEF Frame, MarksTrue
  <2>5. review.todo \subseteq SafeChains
    BY <1>1 DEF SafeTypeOK
  <2>6. MarksTrue'
    BY <1>1, <1>3, <1>6, <1>8, <2>1, <2>2, <2>3, <2>4, <2>5 DEF Frame, MarksTrue
  <2>7. at' \in InReview /\ review'.todo # {}
    BY <1>1, <1>8, <2>1 DEF InReview, InClick
  <2> QED
    BY <1>1, <1>2, <1>5, <1>6, <1>8, <2>1, <2>6, <2>7, ReviewStep
<1>9. CASE SaveThrows(p) /\ Back
  BY <1>1, <1>2, <1>5, <1>6, <1>9, Backs, MarksBack, ReviewStep
     DEF SaveThrows, InReview, InClick
<1> QED
  BY <1>7, <1>8, <1>9 DEF Record, Saving, p

LEMMA FrameExecutes ==
  ASSUME Frame, Execute \/ Executed \/ ExecuteReady
  PROVE  Frame'
<1>1. /\ at \in InReview /\ retried' \in BOOLEAN /\ AskedType /\ AskedCovers
      /\ UNCHANGED <<live, asked, retried, outside>>
      /\ SafeTypeOK /\ held \in SafePlans /\ review \in ReviewType
  BY DEF Execute, Executed, ExecuteReady, InReview, InClick, Frame, SafeTypeOK, AskedType,
         AskedCovers, ReviewType
<1>2. CASE Execute
  <2> DEFINE p == Marked(held, Row, review.pick)
  <2>1. /\ at = "ripe" /\ at \in InClick /\ held' = p
        /\ \/ saved' = p /\ at' = "executing" /\ review' = review
           \/ SaveThrows(p) /\ Back
    BY <1>2 DEF Execute, Saving, InClick
  <2>2. p \in SafePlans /\ p.known = held.known /\ PlanTrue(p) /\ Extends(p)
    <3>1. Row \in SafeChains /\ review.pick \in Nonces
      BY <1>1, <2>1, RowInTodo DEF Frame, ReviewType
    <3> QED
      BY <1>1, <3>1, PlanEdits DEF Marked, PlanTrue, Extends, Frame, PlansTrue
  <2> HIDE DEF p
  <2>3. CASE saved' = p /\ at' = "executing" /\ review' = review
    <3>1. Row' = Row /\ review'.todo # {}
      BY <1>1, <2>1, <2>3, RowStays DEF Frame, Shape
    <3>2. MarksTrue'
      BY <1>1, <2>1, <2>2, <2>3, <3>1 DEF Frame, MarksTrue, InClick
    <3>3. at' \in InReview
      BY <2>3 DEF InReview, InClick
    <3> QED
      BY <1>1, <2>1, <2>2, <2>3, <3>1, <3>2, <3>3, ReviewStep
  <2>4. CASE SaveThrows(p) /\ Back
    BY <1>1, <2>1, <2>2, <2>4, Backs, MarksBack, ReviewStep DEF SaveThrows, InReview, InClick
  <2> QED
    BY <2>1, <2>3, <2>4
<1>3. CASE Executed
  <2> DEFINE p == [held EXCEPT !.executed = @ \cup {Row}, !.pending = FALSE]
  <2>1. /\ at = "executing" /\ at \in InClick /\ held' = p /\ review.pick \in ran[Row]
        /\ \/ saved' = p /\ Onward("done")
           \/ SaveThrows(p) /\ Back
    BY <1>3 DEF Executed, Saving, InClick
  <2>2. /\ Row \in SafeChains /\ held.known[Row] = review.pick
    BY <1>1, <2>1, RowInTodo DEF Frame, MarksTrue
  <2>3. p \in SafePlans /\ p.known = held.known /\ p.executed = held.executed \cup {Row}
        /\ p.obsolete = held.obsolete
    BY <1>1, <2>2 DEF SafePlans
  <2> HIDE DEF p
  <2>4. PlanTrue(p) /\ Extends(p)
    BY <2>1, <2>2, <2>3 DEF PlanTrue, Extends, Frame, PlansTrue
  <2>5. CASE saved' = p /\ Onward("done")
    <3>1. MarksTrue' /\ review' \in ReviewType /\ at' \in InReview
          /\ (at' \in InClick => review'.todo # {})
      BY <2>1, <2>4, <2>5, MarksOnward
    <3> QED
      BY <1>1, <2>1, <2>3, <2>4, <2>5, <3>1, ReviewStep
  <2>6. CASE SaveThrows(p) /\ Back
    BY <1>1, <2>1, <2>3, <2>4, <2>6, Backs, MarksBack, ReviewStep DEF SaveThrows, InReview, InClick
  <2> QED
    BY <2>1, <2>5, <2>6
<1>4. CASE ExecuteReady
  <2> DEFINE ready == {c \in Hosted : held.known[c] \in ran[c]}
             p == [held EXCEPT !.executed = @ \cup ready]
  <2>1. /\ at = "review" /\ at' = "review" /\ held' = p /\ saved' = saved /\ review' = review
    BY <1>4 DEF ExecuteReady
  <2>2. ready \in SUBSET SafeChains
    BY SafePlanAssumption
  <2>3. p \in SafePlans /\ p.known = held.known /\ p.executed = held.executed \cup ready
        /\ p.obsolete = held.obsolete
    BY <1>1, <2>2, ExecutedEdit
  <2>4. PlanTrue(p) /\ Extends(p)
    BY <2>3 DEF PlanTrue, Extends, Frame, PlansTrue
  <2> HIDE DEF p
  <2>5. MarksTrue'
    BY <1>1, <2>1, <2>3 DEF Frame, MarksTrue, InClick
  <2>6. at' \in InReview /\ at' \notin InClick
    BY <2>1 DEF InReview, InClick
  <2> QED
    BY <1>1, <2>1, <2>3, <2>4, <2>5, <2>6, ReviewStep
<1> QED
  BY <1>2, <1>3, <1>4

\* What the wallet refused was not seen by any owner.
LEMMA FrameRefused ==
  ASSUME Frame, WalletRefused
  PROVE  Frame'
<1> DEFINE p == [held EXCEPT !.pending = FALSE]
<1>1. /\ at \in InReview /\ at \in InClick /\ held' = p /\ UNCHANGED <<live, retried, outside>>
      /\ retried' \in BOOLEAN /\ SafeTypeOK /\ held \in SafePlans /\ review \in ReviewType
      /\ Row \in SafeChains
  BY RowInTodo DEF WalletRefused, InReview, InClick, Frame, SafeTypeOK, ReviewType
<1>2. p \in SafePlans /\ p.known = held.known /\ PlanTrue(p) /\ Extends(p)
  BY <1>1, PlanEdits DEF PlanTrue, Extends, Frame, PlansTrue
<1> HIDE DEF p
<1>3. AskedType /\ AskedCovers
  <2>1. CASE asked' = asked
    BY <1>1, <2>1 DEF AskedType, AskedCovers, SafeTypeOK
  <2>2. CASE asked' # asked
    <3>1. /\ at = "posted" /\ Row \notin Hosted /\ review.req = "open"
          /\ asked' = [asked EXCEPT ![Row] = @ \ {review.pick}]
      BY <2>2 DEF WalletRefused
    <3>2. review.pick \notin live[Row]
      BY <1>1, <3>1 DEF Frame, MarksTrue
    <3> QED
      BY <1>1, <3>1, <3>2 DEF AskedType, AskedCovers, SafeTypeOK
  <2> QED
    BY <2>1, <2>2
<1>4. CASE saved' = p /\ Back
  BY <1>1, <1>2, <1>3, <1>4, Backs, MarksBack, ReviewStep DEF InReview, InClick
<1>5. CASE SaveThrows(p) /\ at' = "stuck" /\ review' = review
  <2>1. MarksTrue'
    BY <1>1, <1>2, <1>5 DEF Frame, MarksTrue, InClick
  <2>2. at' \in InReview /\ at' \notin InClick
    BY <1>5 DEF InReview, InClick
  <2> QED
    BY <1>1, <1>2, <1>3, <1>5, <2>1, <2>2, ReviewStep DEF SaveThrows
<1> QED
  BY <1>4, <1>5 DEF WalletRefused, p

LEMMA FrameInit == ASSUME SafeInit PROVE Frame
<1>1. SafeTypeOK
  <2>1. /\ saved \in SafePlans /\ held \in SafePlans /\ review \in ReviewType
        /\ at \in Steps /\ gone \subseteq SafeChains /\ retried \in BOOLEAN /\ acknowledged \in BOOLEAN
    BY NoPlanFacts, ShutFacts DEF SafeInit, Steps
  <2>2. safeNonce \in [SafeChains -> 0 .. MaxSafeNonce + 1] /\ ran \in [SafeChains -> SUBSET Nonces]
        /\ asked \in [SafeChains -> SUBSET Nonces]
    BY SafePlanAssumption DEF SafeInit
  <2>3. /\ live \in [SafeChains -> SUBSET Nonces] /\ theirs \in [SafeChains -> SUBSET Nonces]
        /\ late \in [SafeChains -> SUBSET Nonces]
    BY DEF SafeInit
  <2> QED
    BY <2>1, <2>2, <2>3 DEF SafeTypeOK, ReviewType
<1>2. Shape
  BY <1>1 DEF SafeInit, Shape, InClick, SafeTypeOK
<1>3. KnownAgree /\ MarksTrue /\ PlansTrue
  BY NoPlanFacts DEF SafeInit, KnownAgree, MarksTrue, PlansTrue, PlanTrue, InReview, InClick
<1> QED
  BY <1>1, <1>2, <1>3 DEF Frame

LEMMA FrameNext == ASSUME Frame, [SafeNext]_safeVars PROVE Frame'
<1>1. CASE SafeRun
  BY <1>1, FrameOpens, FrameRests, FrameAcknowledges, FrameClicks, FrameStartsRow, FrameMovesOn,
     FramePublishes, FrameRecords, FrameExecutes, FrameRefused DEF SafeRun
<1>2. CASE SafeWorld
  BY <1>2, FrameWorld
<1>3. CASE UNCHANGED safeVars
  BY <1>3, RowStays DEF safeVars, Frame, SafeTypeOK, Shape, KnownAgree, MarksTrue, PlansTrue,
     PlanTrue, Nonces
<1> QED
  BY <1>1, <1>2, <1>3 DEF SafeNext

----------------------------------------------------------------------------
(* What a step does to the proposals the plans know.                       *)

\* These save a plan that knows what the one in memory knew, if anything is saved.
LEMMA KnownsHeld ==
  ASSUME Frame, Publish \/ Execute \/ Executed \/ WalletRefused \/ ExecuteReady
  PROVE  held'.known = held.known /\ (saved' = saved \/ saved'.known = held.known)
<1>1. held \in SafePlans
  BY DEF Frame, SafeTypeOK
<1>2. CASE Publish
  BY <1>1, <1>2 DEF Publish, Marked, SaveThrows, SafePlans
<1>3. CASE Execute
  BY <1>1, <1>3 DEF Execute, Saving, Marked, SaveThrows, SafePlans
<1>4. CASE Executed
  <2> DEFINE p == [held EXCEPT !.executed = @ \cup {Row}, !.pending = FALSE]
  <2>1. p.known = held.known
    BY <1>1 DEF SafePlans
  <2>2. held' = p /\ (saved' = p \/ saved' = saved)
    BY <1>4 DEF Executed, Saving, SaveThrows
  <2> QED
    BY <2>1, <2>2
<1>5. CASE WalletRefused
  BY <1>1, <1>5 DEF WalletRefused, SaveThrows, SafePlans
<1>6. CASE ExecuteReady
  BY <1>1, <1>6 DEF ExecuteReady, SafePlans
<1> QED
  BY <1>2, <1>3, <1>4, <1>5, <1>6

LEMMA KnownsRecorded ==
  ASSUME Frame, Record
  PROVE  /\ Row \in SafeChains /\ held.known[Row] = NoNonce
         /\ \A c \in SafeChains :
              held'.known[c] = IF c = Row THEN review.pick ELSE held.known[c]
         /\ saved' = saved \/ saved' = held'
<1> DEFINE p == [held EXCEPT !.known[Row] = review.pick, !.pending = FALSE]
<1>1. /\ held \in SafePlans /\ Row \in SafeChains
  BY RowInTodo DEF Frame, Record, InClick, SafeTypeOK
<1>2. held' = p /\ (saved' = saved \/ saved' = p) /\ held.known[Row] = NoNonce
  BY DEF Record, Saving, SaveThrows
<1>3. p.known = [held.known EXCEPT ![Row] = review.pick]
  BY <1>1 DEF SafePlans
<1> HIDE DEF p
<1> QED
  BY <1>1, <1>2, <1>3, PlanFacts

LEMMA KnownsReconciled ==
  ASSUME Frame, Reconcile
  PROVE  saved'.known = saved.known /\ saved'.pending = saved.pending
<1>1. saved \in SafePlans
  BY DEF Frame, SafeTypeOK
<1> DEFINE p == [Reconciled(saved) EXCEPT !.phase = "done"]
<1>2. p.known = saved.known /\ p.pending = saved.pending
  BY <1>1 DEF Reconciled, SafePlans
<1> HIDE DEF p
<1> QED
  BY <1>2 DEF Reconcile, SaveThrows, p

LEMMA KnownsClosed ==
  ASSUME Frame, Close
  PROVE  \/ saved' = saved
         \/ review.full /\ saved'.known = held.known
<1>1. held \in SafePlans
  BY DEF Frame, SafeTypeOK
<1> QED
  BY <1>1 DEF Close, SaveThrows, SafePlans

LEMMA KnownKeptNext ==
  ASSUME Frame, SafeNext, NEW c \in SafeChains, saved.known[c] # NoNonce
  PROVE  saved'.known[c] = saved.known[c] \/ (acknowledged' /\ ~acknowledged)
<1>1. CASE SavePrepared
  BY <1>1, NoPlanFacts DEF SavePrepared, Frame, Shape
<1>2. CASE Reconcile
  BY <1>2, KnownsReconciled
<1>3. CASE AcknowledgeSafe
  BY <1>3, NoPlanFacts DEF AcknowledgeSafe, Frame, Shape
<1>4. CASE Discard
  BY <1>4 DEF Discard
<1>5. CASE Publish \/ Execute \/ Executed \/ WalletRefused \/ Record \/ Close
  <2>1. saved.known[c] = held.known[c]
    BY <1>5 DEF Publish, Execute, Executed, WalletRefused, Record, Close, Frame, KnownAgree,
       InReview, InClick
  <2>2. CASE Record
    BY <2>1, <2>2, KnownsRecorded
  <2>3. CASE Close
    BY <2>1, <2>3, KnownsClosed
  <2> QED
    BY <1>5, <2>1, <2>2, <2>3, KnownsHeld
<1>6. CASE SafeWorld \/ Prepare \/ ResumeRound \/ Click \/ StartRow \/ StaleRow \/ SignRow
           \/ NotRipe \/ Fail \/ ExecuteReady \/ ReloadReview
  <2>1. saved' = saved
    BY <1>6 DEF SafeWorld, Land, OwnersQueue, OwnersExecute, OtherCall, Consume, Prepare, ResumeRound, Click,
       StartRow, StaleRow, SignRow, NotRipe, Fail, ExecuteReady, ReloadReview
  <2> QED
    BY <2>1
<1> QED
  BY <1>1, <1>2, <1>3, <1>4, <1>5, <1>6 DEF SafeNext, SafeRun

----------------------------------------------------------------------------
(* The account: requests made are requests known, except the one at hand.  *)

AllClean == \A c \in SafeChains : Clean(c)

LEMMA CleanStays ==
  ASSUME AllClean, asked' = asked, held'.known = held.known, review'.mark = review.mark
  PROVE  AllClean'
BY DEF AllClean, Clean

\* Cleared: nothing is asked that the plan in memory does not know.
LEMMA CleanAccounts ==
  ASSUME ~retried => AllClean, UNCHANGED <<asked, retried, acknowledged>>,
         saved' = saved \/ saved'.known = held.known, Accounted
  PROVE  Accounted'
BY DEF AllClean, Clean, Accounted, Recorded

LEMMA AccountRests ==
  ASSUME Frame, Account,
         \/ Prepare \/ Reconcile \/ AcknowledgeSafe \/ Discard \/ Close \/ ReloadReview
  PROVE  Account'
<1>1. at' \in {"idle", "prepare"} /\ asked' = asked /\ retried' = retried
  BY DEF Prepare, Reconcile, AcknowledgeSafe, Discard, Close, ReloadReview, End
<1>2. ClickClean'
  BY <1>1 DEF ClickClean, InClick
<1> SUFFICES Accounted'
  BY <1>2 DEF Account
<1>3. CASE Reconcile
  BY <1>1, <1>3, KnownsReconciled DEF Account, Accounted, Recorded, Reconcile, outside
<1>4. CASE AcknowledgeSafe
  BY <1>4 DEF Accounted, Recorded, AcknowledgeSafe
<1>5. CASE Discard
  <2>1. ~acknowledged /\ ~saved.pending /\ \A c \in SafeChains : saved.known[c] = NoNonce
    BY <1>5, NoPlanFacts DEF Discard, Frame, Shape
  <2>2. ~retried => \A c \in SafeChains : asked[c] = {}
    <3>1. \A c \in SafeChains : asked[c] \subseteq Nonces
      BY DEF Frame, SafeTypeOK
    <3> QED
      BY <2>1, <3>1, NoncesAre DEF Account, Accounted, Recorded
  <2> QED
    BY <1>1, <2>2 DEF Accounted
<1>6. CASE Close
  <2>1. CASE saved' = saved
    BY <1>1, <1>6, <2>1 DEF Close, Account, Accounted, Recorded, outside
  <2>2. CASE review.full /\ saved'.known = held.known
    <3>1. ~retried => AllClean
      BY <1>6, <2>2 DEF Close, Account, ClickClean, AllClean, Frame, MarksTrue, InReview
    <3> QED
      BY <1>1, <1>6, <2>2, <3>1, CleanAccounts DEF Close, Account, outside
  <2> QED
    BY <1>6, <2>1, <2>2, KnownsClosed
<1>7. CASE Prepare \/ ReloadReview
  BY <1>1, <1>7 DEF Prepare, ReloadReview, Account, Accounted, Recorded, outside
<1> QED
  BY <1>3, <1>4, <1>5, <1>6, <1>7

LEMMA AccountOpens ==
  ASSUME Frame, Account, SavePrepared \/ ResumeRound
  PROVE  Account'
<1> DEFINE p0 == [NoSafePlan EXCEPT !.phase = "round"]
<1>1. /\ ~acknowledged /\ ~saved.pending /\ SafeTypeOK
      /\ UNCHANGED <<asked, retried, acknowledged>>
  BY NoPlanFacts DEF Frame, Shape, SavePrepared, ResumeRound, outside
<1>2. ~retried => \A c \in SafeChains : \A n \in asked[c] : saved.known[c] = n
  BY <1>1 DEF Account, Accounted, Recorded
<1>3. p0 \in SafePlans /\ p0.known = [c \in SafeChains |-> NoNonce]
  BY DEF SafePlans, NoSafePlan
<1>4. SavePrepared => saved.known = p0.known
  BY <1>3, NoPlanFacts DEF SavePrepared, Frame, Shape
<1>5. saved'.known = saved.known
  BY <1>3, <1>4 DEF SavePrepared, ResumeRound, SaveThrows
<1>6. Accounted'
  BY <1>1, <1>2, <1>5 DEF Accounted, Recorded
<1>7. ASSUME NEW p \in SafePlans, Open(p), p.known = saved.known
      PROVE  ClickClean'
  <2>1. /\ at' = "review" /\ held' = p
        /\ review'.mark = [c \in SafeChains |-> IF p.known[c] = NoNonce THEN "new" ELSE "out"]
    BY <1>1, <1>7, Opens
  <2>2. ASSUME ~retried, NEW c \in SafeChains
        PROVE  Clean(c)'
    <3>1. \A n \in asked[c] : n = held'.known[c] /\ n \in Nonces
      BY <1>1, <1>2, <1>7, <2>1, <2>2 DEF SafeTypeOK
    <3>2. review'.mark[c] = "new" => held'.known[c] = NoNonce
      BY <2>1
    <3> QED
      BY <1>1, <3>1, <3>2, NoncesAre DEF Clean
  <2> QED
    BY <1>1, <2>1, <2>2 DEF ClickClean, InClick
<1>8. CASE SavePrepared
  <2>1. CASE Open(p0)
    BY <1>3, <1>4, <1>6, <1>7, <1>8, <2>1 DEF Account
  <2>2. CASE End
    BY <1>6, <2>2 DEF Account, ClickClean, End, InClick
  <2> QED
    BY <1>8, <2>1, <2>2 DEF SavePrepared
<1>9. CASE ResumeRound
  BY <1>1, <1>6, <1>7, <1>9 DEF ResumeRound, Account, SafeTypeOK
<1> QED
  BY <1>8, <1>9

\* A review used again has left no request of a new row unrecorded, or is told apart.
LEMMA AccountClicks ==
  ASSUME Frame, Account, Click
  PROVE  Account'
<1>1. /\ at = "review" /\ at' = "row" /\ retried' = (retried \/ Unclear)
      /\ UNCHANGED <<saved, held, asked, acknowledged>>
      /\ review'.mark = review.mark /\ SafeTypeOK
  BY DEF Click, outside, Frame, SafeTypeOK
<1>2. ~retried' => AllClean
  BY <1>1 DEF Unclear, Account, ClickClean, AllClean, Clean
<1>3. ~retried' => AllClean'
  BY <1>1, <1>2, CleanStays
<1>4. ClickClean'
  BY <1>1, <1>3 DEF ClickClean, AllClean, InClick
<1>5. Accounted'
  BY <1>1 DEF Account, Accounted, Recorded
<1> QED
  BY <1>4, <1>5 DEF Account

\* The steps of a click that ask for nothing and save nothing.
LEMMA AccountMovesOn ==
  ASSUME Frame, Account, StartRow \/ StaleRow \/ SignRow \/ NotRipe \/ Fail \/ ExecuteReady
  PROVE  Account'
<1>1. /\ UNCHANGED <<saved, asked, retried, acknowledged>> /\ held'.known = held.known
      /\ SafeTypeOK
  BY KnownsHeld DEF StartRow, StaleRow, SignRow, NotRipe, Fail, ExecuteReady, outside, Frame
<1>2. Accounted'
  BY <1>1 DEF Account, Accounted, Recorded
<1>3. at \in InClick => Row \in review.todo /\ Row \in SafeChains
  BY RowInTodo DEF Frame
<1>4. CASE StartRow
  <2>1. AllClean \/ retried
    BY <1>4 DEF StartRow, Account, ClickClean, AllClean, InClick
  <2>2. PICK n \in Choices(Row) :
          \/ /\ Signed(Row, n) /\ review' = [review EXCEPT !.pick = n, !.req = "landed"]
             /\ at' = IF review.mark[Row] = "noted" THEN "ripe" ELSE "posted"
          \/ /\ review' = [review EXCEPT !.pick = n]
             /\ at' = IF Row \in Hosted THEN "sign" ELSE "publish"
    BY <1>4 DEF StartRow
  <2>3. review'.mark = review.mark
    BY <1>1, <2>2 DEF SafeTypeOK
  <2>4. review.mark[Row] \in {"new", "noted"} /\ Row \in SafeChains
    BY <1>3, <1>4 DEF StartRow, Frame, MarksTrue, InReview, InClick
  <2>5. at' # "posted" \/ retried
    BY <2>1, <2>2, <2>4 DEF AllClean, Clean, Signed, Frame, Shape
  <2>6. ~retried => AllClean'
    BY <1>1, <2>1, <2>3, CleanStays
  <2>7. at' \in {"ripe", "posted", "sign", "publish"}
    BY <2>2
  <2> QED
    BY <1>1, <1>2, <2>5, <2>6, <2>7 DEF Account, ClickClean, AllClean, InClick
<1>5. CASE StaleRow \/ NotRipe
  <2> DEFINE mark == IF NotRipe THEN "noted" ELSE review.mark[Row]
  <2>1. /\ at \in {"row", "ripe"} /\ at \in InClick /\ at \in InReview /\ Onward(mark)
        /\ mark \in {"new", "noted"} /\ (mark = "new" => review.mark[Row] = "new")
    BY <1>3, <1>5 DEF StaleRow, NotRipe, Frame, MarksTrue, InReview, InClick
  <2> HIDE DEF mark
  <2>2. /\ review'.mark = [review.mark EXCEPT ![Row] = mark] /\ at' \in {"review", "row"}
    BY <1>1, <1>3, <2>1, Onwards
  <2>3. ~retried => AllClean
    BY <2>1 DEF Account, ClickClean, AllClean
  <2>4. ~retried => AllClean'
    BY <1>1, <1>3, <2>1, <2>2, <2>3 DEF AllClean, Clean, SafeTypeOK
  <2> QED
    BY <1>1, <1>2, <2>2, <2>4 DEF Account, ClickClean, AllClean, InClick
<1>6. CASE SignRow
  <2>1. at = "sign" /\ at' = "publish" /\ review' = review
    BY <1>6 DEF SignRow
  <2>2. ~retried => AllClean
    BY <2>1 DEF Account, ClickClean, AllClean, InClick
  <2>3. ~retried => AllClean'
    BY <1>1, <2>1, <2>2, CleanStays
  <2> QED
    BY <1>1, <1>2, <2>1, <2>3 DEF Account, ClickClean, AllClean, InClick
<1>7. CASE Fail
  <2>1. /\ at \in InClick /\ at \in InReview /\ Back
        /\ at' = "review" /\ review'.mark = review.mark /\ review'.tried = review.tried
    BY <1>1, <1>7, Backs DEF Fail, InClick, InReview
  <2>2. CASE at # "posted"
    <3>1. ~retried => AllClean'
      BY <1>1, <2>1, <2>2, CleanStays DEF Account, ClickClean, AllClean
    <3> QED
      BY <1>1, <1>2, <2>1, <3>1 DEF Account, ClickClean, AllClean, InClick
  <2>3. CASE at = "posted"
    <3>1. review.mark[Row] \in {"new", "noted"}
          /\ (review.mark[Row] = "noted" => review.pick = held.known[Row])
      BY <1>3, <2>1, <2>3 DEF Frame, MarksTrue
    <3>2. ~retried => \A c \in SafeChains : review.mark[c] # "new" \/ c \notin review.tried => Clean(c)
      BY <2>3, <3>1 DEF Account, ClickClean, Clean
    <3>3. \A c \in SafeChains : Clean(c) => Clean(c)'
      BY <1>1, <2>1 DEF Clean
    <3> QED
      BY <1>1, <1>2, <2>1, <3>2, <3>3 DEF Account, ClickClean, InClick
  <2> QED
    BY <2>2, <2>3
<1>8. CASE ExecuteReady
  <2>1. at = "review" /\ at' = "review" /\ review' = review
    BY <1>8 DEF ExecuteReady
  <2>2. \A c \in SafeChains : Clean(c) => Clean(c)'
    BY <1>1, <2>1 DEF Clean
  <2> QED
    BY <1>1, <1>2, <2>1, <2>2 DEF Account, ClickClean, InClick
<1> QED
  BY <1>4, <1>5, <1>6, <1>7, <1>8

\* The plan that is saved before a request knows every other one, or is marked.
LEMMA AccountPublishes ==
  ASSUME Frame, Account, Publish
  PROVE  Account'
<1> DEFINE p == Marked(held, Row, review.pick)
<1>1. /\ at = "publish" /\ held' = p /\ UNCHANGED <<retried, acknowledged>>
      /\ SafeTypeOK /\ Row \in SafeChains /\ held \in SafePlans /\ review \in ReviewType
      /\ review.mark[Row] \in {"new", "noted"}
      /\ review.mark[Row] = "noted" => review.pick = held.known[Row]
  BY RowInTodo DEF Publish, outside, Frame, MarksTrue, InReview, InClick, SafeTypeOK, ReviewType
<1>2. p.known = held.known /\ p.pending = (held.known[Row] # review.pick)
  BY <1>1 DEF Marked, SafePlans
<1> HIDE DEF p
<1>3. ~retried => AllClean
  BY <1>1 DEF Account, ClickClean, AllClean, InClick
<1>4. CASE saved' = p /\ at' = "posted"
  <2>1. /\ review' = [review EXCEPT !.tried = @ \cup {Row},
              !.req = IF review.pick \in asked[Row] THEN "again" ELSE "open"]
        /\ asked' = [asked EXCEPT ![Row] = @ \cup {review.pick}]
    BY <1>4 DEF Publish, Back
  <2>2. /\ review'.todo = review.todo /\ review'.mark = review.mark
        /\ review'.pick = review.pick /\ review'.tried = review.tried \cup {Row}
        /\ review'.req = "again" => review.pick \in asked[Row]
    BY <1>1, <2>1 DEF ReviewType
  <2>3. Row' = Row
    BY <2>2, RowStays
  <2>4. \A c \in SafeChains \ {Row} : asked'[c] = asked[c]
    BY <1>1, <2>1 DEF SafeTypeOK
  <2>5. asked'[Row] = asked[Row] \cup {review.pick}
    BY <1>1, <2>1 DEF SafeTypeOK
  <2>6. \A c \in SafeChains \ {Row} : Clean(c) => Clean(c)'
    BY <1>1, <1>2, <2>2, <2>4 DEF Clean
  <2>7. ~retried => \A n \in asked'[Row] : n = review.pick
    BY <1>1, <1>3, <2>5 DEF AllClean, Clean
  <2>8. ~retried /\ review'.req = "again" => review.mark[Row] = "noted"
    BY <1>1, <1>3, <2>2 DEF AllClean, Clean
  <2>9. ClickClean'
    BY <1>1, <1>3, <1>4, <2>2, <2>3, <2>6, <2>7, <2>8 DEF ClickClean, AllClean, InClick
  <2>10. Accounted'
    BY <1>1, <1>2, <1>3, <1>4, <2>4, <2>7 DEF Accounted, Recorded, AllClean, Clean
  <2> QED
    BY <2>9, <2>10 DEF Account
<1>5. CASE SaveThrows(p) /\ Back /\ UNCHANGED asked
  <2>1. at' = "review" /\ review'.mark = review.mark
    BY <1>1, <1>5, Backs
  <2>2. ~retried => AllClean'
    BY <1>1, <1>2, <1>3, <1>5, <2>1, CleanStays
  <2>3. ClickClean'
    BY <1>1, <2>1, <2>2 DEF ClickClean, AllClean, InClick
  <2>4. Accounted'
    BY <1>1, <1>2, <1>3, <1>5, CleanAccounts DEF SaveThrows, Account
  <2> QED
    BY <2>3, <2>4 DEF Account
<1> QED
  BY <1>4, <1>5 DEF Publish, p

\* The request at hand becomes a known proposal.
LEMMA AccountRecords ==
  ASSUME Frame, Account, Record
  PROVE  Account'
<1>1. /\ at = "posted" /\ UNCHANGED <<asked, retried, acknowledged>>
      /\ SafeTypeOK /\ Row \in SafeChains /\ Row \in review.todo /\ held.known[Row] = NoNonce
      /\ \A c \in SafeChains : held'.known[c] = IF c = Row THEN review.pick ELSE held.known[c]
      /\ saved' = saved \/ saved' = held'
  BY KnownsRecorded, RowInTodo DEF Record, outside, Frame, InClick
<1>2. review \in ReviewType
  BY <1>1 DEF SafeTypeOK, ReviewType
<1>3. ~retried => /\ \A c \in SafeChains \ {Row} : Clean(c)
                  /\ \A n \in asked[Row] : n = review.pick
                  /\ Row \in review.tried
  BY <1>1 DEF Account, ClickClean
<1>4. Accounted'
  BY <1>1, <1>3 DEF Account, Accounted, Recorded, Clean
<1>5. CASE Onward("done") \/ (at' = "ripe" /\ review' = [review EXCEPT !.mark[Row] = "noted"])
  <2>1. /\ at' \in {"review", "row", "ripe"} /\ review'.mark[Row] # "new"
        /\ \A c \in SafeChains \ {Row} : review'.mark[c] = review.mark[c]
    <3>1. CASE Onward("done")
      <4>1. review'.mark = [review.mark EXCEPT ![Row] = "done"] /\ at' \in {"review", "row"}
        BY <1>1, <3>1, Onwards
      <4> QED
        BY <1>1, <4>1 DEF SafeTypeOK
    <3>2. CASE at' = "ripe" /\ review' = [review EXCEPT !.mark[Row] = "noted"]
      BY <1>1, <1>2, <3>2 DEF ReviewType
    <3> QED
      BY <1>5, <3>1, <3>2
  <2>2. \A c \in SafeChains \ {Row} : Clean(c) => Clean(c)'
    BY <1>1, <2>1 DEF Clean
  <2>3. ASSUME ~retried, NEW c \in SafeChains, c = Row
        PROVE  Clean(c)'
    BY <1>1, <1>3, <2>1, <2>3 DEF Clean
  <2> QED
    BY <1>1, <1>3, <1>4, <2>1, <2>2, <2>3 DEF Account, ClickClean, InClick
<1>6. CASE Back
  <2>1. at' = "review" /\ review'.mark = review.mark /\ review'.tried = review.tried
    BY <1>1, <1>6, Backs
  <2>2. review.mark[Row] = "new"
    BY <1>1 DEF Frame, MarksTrue, InReview, InClick
  <2>3. \A c \in SafeChains \ {Row} : Clean(c) => Clean(c)'
    BY <1>1, <2>1 DEF Clean
  <2> QED
    BY <1>1, <1>3, <1>4, <2>1, <2>2, <2>3 DEF Account, ClickClean, InClick
<1> QED
  BY <1>5, <1>6 DEF Record, Saving

LEMMA AccountExecutes ==
  ASSUME Frame, Account, Execute \/ Executed
  PROVE  Account'
<1>1. /\ at \in {"ripe", "executing"} /\ at \in InClick /\ UNCHANGED <<asked, retried, acknowledged>>
      /\ SafeTypeOK /\ held'.known = held.known
      /\ saved' = saved \/ saved'.known = held.known
  BY KnownsHeld DEF Execute, Executed, outside, Frame, InClick
<1>2. Row \in SafeChains /\ Row \in review.todo
  BY <1>1, RowInTodo DEF Frame
<1>3. ~retried => AllClean
  BY <1>1 DEF Account, ClickClean, AllClean
<1>4. Accounted'
  BY <1>1, <1>3, CleanAccounts DEF Account
<1>5. CASE Back \/ (at' = "executing" /\ review' = review)
  <2>1. at' \in {"review", "executing"} /\ review'.mark = review.mark
    BY <1>1, <1>5, Backs
  <2>2. ~retried => AllClean'
    BY <1>1, <1>3, <2>1, CleanStays
  <2> QED
    BY <1>1, <1>4, <2>1, <2>2 DEF Account, ClickClean, AllClean, InClick
<1>6. CASE Onward("done")
  <2>1. review'.mark = [review.mark EXCEPT ![Row] = "done"] /\ at' \in {"review", "row"}
    BY <1>1, <1>2, <1>6, Onwards
  <2>2. ~retried => AllClean'
    BY <1>1, <1>2, <1>3, <2>1 DEF AllClean, Clean, SafeTypeOK
  <2> QED
    BY <1>1, <1>4, <2>1, <2>2 DEF Account, ClickClean, AllClean, InClick
<1> QED
  BY <1>5, <1>6 DEF Execute, Executed, Saving

\* What the wallet refused need not be known; asked for again, it is.
LEMMA AccountRefused ==
  ASSUME Frame, Account, WalletRefused
  PROVE  Account'
<1>1. /\ at \in {"sign", "posted", "executing"} /\ at \in InClick /\ at \in InReview
      /\ UNCHANGED <<retried, acknowledged>>
      /\ SafeTypeOK /\ Row \in SafeChains /\ Row \in review.todo
      /\ held'.known = held.known /\ (saved' = saved \/ saved'.known = held.known)
      /\ at' \in {"review", "stuck"}
  BY RowInTodo, KnownsHeld DEF WalletRefused, Back, outside, Frame, InClick, InReview
<1>2. review'.mark = review.mark /\ review'.tried = review.tried
  BY <1>1, Backs DEF WalletRefused
<1>3. CASE at # "posted"
  <2>1. asked' = asked
    BY <1>3 DEF WalletRefused
  <2>2. ~retried => AllClean
    BY <1>1, <1>3 DEF Account, ClickClean, AllClean
  <2>3. ~retried => AllClean'
    BY <1>1, <1>2, <2>1, <2>2, CleanStays
  <2>4. Accounted'
    BY <1>1, <2>1, <2>2, CleanAccounts DEF Account
  <2> QED
    BY <1>1, <2>3, <2>4 DEF Account, ClickClean, AllClean, InClick
<1>4. CASE at = "posted"
  <2>1. ~retried => /\ \A c \in SafeChains \ {Row} : Clean(c)
                    /\ \A n \in asked[Row] : n = review.pick
                    /\ Row \in review.tried
                    /\ review.req = "again" => review.mark[Row] = "noted"
    BY <1>4 DEF Account, ClickClean
  <2>2. /\ review.req \in {"open", "again"}
        /\ asked' = IF review.req = "again" THEN asked
                    ELSE [asked EXCEPT ![Row] = @ \ {review.pick}]
    BY <1>4 DEF WalletRefused
  <2>3. \A c \in SafeChains \ {Row} : asked'[c] = asked[c]
    BY <1>1, <2>2 DEF SafeTypeOK
  <2>4. asked'[Row] \subseteq asked[Row] /\ (review.req = "open" => review.pick \notin asked'[Row])
    BY <1>1, <2>2 DEF SafeTypeOK
  <2>5. review.mark[Row] = "noted" => review.pick = held.known[Row]
    BY <1>1, <1>4 DEF Frame, MarksTrue
  <2>6. ~retried => \A n \in asked'[Row] : n = held.known[Row]
    BY <2>1, <2>2, <2>4, <2>5
  <2>7. Accounted'
    BY <1>1, <2>1, <2>3, <2>4, <2>6 DEF Account, Accounted, Recorded, Clean
  <2>8. \A c \in SafeChains \ {Row} : Clean(c) => Clean(c)'
    BY <1>1, <1>2, <2>3 DEF Clean
  <2>9. ASSUME ~retried, NEW c \in SafeChains, c = Row, review.mark[c] # "new"
        PROVE  Clean(c)'
    BY <1>1, <1>2, <2>6, <2>9 DEF Clean
  <2>10. ClickClean'
    BY <1>1, <1>2, <2>1, <2>8, <2>9 DEF ClickClean, InClick
  <2> QED
    BY <2>7, <2>10 DEF Account
<1> QED
  BY <1>3, <1>4

LEMMA AccountWorld ==
  ASSUME Frame, Account, SafeWorld
  PROVE  Account'
<1>1. /\ UNCHANGED <<saved, held, at, asked, retried, acknowledged>>
      /\ review'.todo = review.todo /\ review'.mark = review.mark
      /\ review'.pick = review.pick /\ review'.tried = review.tried
      /\ review'.req = "again" => review.req = "again"
  BY DEF SafeWorld, Land, OwnersQueue, OwnersExecute, OtherCall, Consume, outside, Frame, SafeTypeOK
<1>2. Row' = Row
  BY <1>1, RowStays
<1>3. \A c \in SafeChains : Clean(c) => Clean(c)'
  BY <1>1 DEF Clean
<1>4. ClickClean'
  BY <1>1, <1>2, <1>3 DEF Account, ClickClean
<1>5. Accounted'
  BY <1>1 DEF Account, Accounted, Recorded
<1> QED
  BY <1>4, <1>5 DEF Account

LEMMA AccountInit == ASSUME SafeInit PROVE Account
BY DEF SafeInit, Account, ClickClean, InClick, Accounted

LEMMA AccountNext == ASSUME Frame, Account, [SafeNext]_safeVars PROVE Account'
<1>1. CASE SafeRun
  BY <1>1, AccountRests, AccountOpens, AccountClicks, AccountMovesOn, AccountPublishes,
     AccountRecords, AccountExecutes, AccountRefused DEF SafeRun
<1>2. CASE SafeWorld
  BY <1>2, AccountWorld
<1>3. CASE UNCHANGED safeVars
  <2>1. Row' = Row /\ \A c \in SafeChains : Clean(c)' = Clean(c)
    BY <1>3, RowStays DEF safeVars, Clean
  <2> QED
    BY <1>3, <2>1 DEF safeVars, Account, ClickClean, Accounted, Recorded
<1> QED
  BY <1>1, <1>2, <1>3 DEF SafeNext

----------------------------------------------------------------------------
(* The queue: a request rests on the last read of it.                      *)

\* A step that asks for nothing, and shows no more of co-owners than is told apart.
LEMMA QueueKeeps ==
  ASSUME Queue, ~retried' => ~retried,
         \A c \in SafeChains : asked'[c] \subseteq asked[c],
         \A c \in Hosted : \A n \in asked[c] : Beside(c, n) => Beside(c, n)',
         at' \in {"sign", "publish"} =>
           /\ at' = at /\ Row' = Row /\ review'.pick = review.pick /\ review'.view = review.view
           /\ at = "publish" /\ Row \in Hosted /\ Beside(Row, review.pick) =>
                Beside(Row, review.pick)'
  PROVE  Queue'
<1>1. OneAsked'
  BY DEF Queue, OneAsked
<1>2. AskedBeside'
  BY SafePlanAssumption DEF Queue, AskedBeside
<1>3. PickRead'
  BY DEF Queue, PickRead, Beside
<1> QED
  BY <1>1, <1>2, <1>3 DEF Queue

LEMMA BesideStays ==
  ASSUME UNCHANGED <<theirs, late, safeNonce>>, NEW c, NEW n, Beside(c, n)
  PROVE  Beside(c, n)'
BY DEF Beside

\* A new row of a hosted chain is signed as the queue has it, if it has it.
LEMMA QueueRows ==
  ASSUME Frame, Queue, StartRow
  PROVE  Queue'
<1>1. PICK n \in Choices(Row) :
        \/ /\ review' = [review EXCEPT !.pick = n, !.req = "landed"]
           /\ at' = IF review.mark[Row] = "noted" THEN "ripe" ELSE "posted"
        \/ /\ review' = [review EXCEPT !.pick = n]
           /\ at' = IF Row \in Hosted THEN "sign" ELSE "publish"
  BY DEF StartRow
<1>2. /\ at = "row" /\ UNCHANGED <<asked, theirs, late, safeNonce, retried>>
      /\ SafeTypeOK /\ Row \in SafeChains /\ (Row \in Hosted => review.mark[Row] # "noted")
  BY RowInTodo DEF StartRow, outside, Frame, MarksTrue, InReview, InClick
<1>3. review'.pick = n /\ review'.todo = review.todo /\ review'.view = review.view
  BY <1>1, <1>2 DEF SafeTypeOK
<1>4. Row' = Row
  BY <1>3, RowStays
<1>5. OneAsked' /\ AskedBeside'
  BY <1>2 DEF Queue, OneAsked, AskedBeside, Beside
<1>6. /\ at' = "sign" => Row \in Hosted
      /\ at' = "publish" => Row \notin Hosted
  BY <1>1
<1>7. Row \in Hosted /\ review.view[Row].queue # {} => n \in review.view[Row].queue
  BY <1>2, ChoicesAre
<1>8. PickRead'
  BY <1>3, <1>4, <1>6, <1>7 DEF PickRead
<1> QED
  BY <1>5, <1>8 DEF Queue

\* After the signature the queue is read again: what it has of the call is the request.
LEMMA QueueSigns ==
  ASSUME Frame, Account, Queue, SignRow
  PROVE  Queue'
<1>1. /\ at = "sign" /\ at' = "publish" /\ late' = [late EXCEPT ![Row] = {}]
      /\ UNCHANGED <<review, asked, theirs, safeNonce, retried>> /\ Same(Row)
      /\ SafeTypeOK /\ Row \in SafeChains /\ Row \in review.todo
  BY RowInTodo DEF SignRow, Frame, InClick
<1>2. Row' = Row
  BY <1>1, RowStays
<1>3. /\ Row \in Hosted
      /\ review.view[Row].queue # {} => review.pick \in review.view[Row].queue
  BY <1>1 DEF Queue, PickRead
<1>4. review.mark[Row] = "new"
  BY <1>1, <1>3 DEF Frame, MarksTrue, InReview, InClick
<1>5. ~retried => asked[Row] = {} /\ live[Row] = {}
  BY <1>1, <1>4 DEF Account, ClickClean, Clean, InClick, Frame, Shape, SafeTypeOK
<1>6. OneAsked'
  BY <1>1 DEF Queue, OneAsked
<1>7. AskedBeside'
  <2> SUFFICES ASSUME ~retried, NEW c \in Hosted, NEW n \in asked[c]
               PROVE  Beside(c, n)'
    BY <1>1 DEF AskedBeside
  <2>1. c # Row /\ Beside(c, n) /\ c \in SafeChains
    BY <1>5, SafePlanAssumption DEF Queue, AskedBeside
  <2>2. late'[c] = late[c]
    BY <1>1, <2>1 DEF SafeTypeOK
  <2> QED
    BY <1>1, <2>1, <2>2 DEF Beside
<1>8. ~retried => Beside(Row, review.pick)'
  <2> SUFFICES ASSUME ~retried, NEW m \in theirs[Row], m >= safeNonce[Row]
               PROVE  review.pick \in theirs[Row]
    BY <1>1, <1>2 DEF Beside
  <2>1. review.view[Row].queue = {k \in theirs[Row] : k >= safeNonce[Row]}
    BY <1>1, <1>3, <1>5, ReadType DEF Same
  <2> QED
    BY <1>3, <2>1
<1>9. PickRead'
  BY <1>1, <1>2, <1>8 DEF PickRead, Beside
<1> QED
  BY <1>6, <1>7, <1>9 DEF Queue

LEMMA QueuePublishes ==
  ASSUME Frame, Account, Queue, Publish
  PROVE  Queue'
<1>1. /\ at = "publish" /\ at' \in {"posted", "review"} /\ SafeTypeOK /\ Row \in SafeChains
      /\ UNCHANGED <<theirs, late, safeNonce, retried>>
      /\ asked' = asked \/ asked' = [asked EXCEPT ![Row] = @ \cup {review.pick}]
      /\ review.mark[Row] \in {"new", "noted"}
      /\ review.mark[Row] = "noted" => review.pick = held.known[Row]
  BY RowInTodo DEF Publish, Back, outside, Frame, MarksTrue, InReview, InClick
<1>2. \A c \in SafeChains : \A n \in asked'[c] : n \in asked[c] \/ (c = Row /\ n = review.pick)
  BY <1>1 DEF SafeTypeOK
<1>3. ~retried => \A n \in asked[Row] : n = review.pick
  BY <1>1 DEF Account, ClickClean, Clean, InClick
<1>4. OneAsked'
  BY <1>1, <1>2, <1>3 DEF Queue, OneAsked
<1>5. AskedBeside'
  BY <1>1, <1>2, SafePlanAssumption DEF Queue, AskedBeside, PickRead, Beside
<1>6. PickRead'
  BY <1>1 DEF PickRead
<1> QED
  BY <1>4, <1>5, <1>6 DEF Queue

\* A co-owner's request that joins one of this browser's, or the one about to be made, came
\* after the last read; a nonce that moves on only takes requests away.
LEMMA QueueWorld ==
  ASSUME Frame, Queue, SafeWorld
  PROVE  Queue'
<1>1. /\ UNCHANGED <<asked, retried, at>> /\ review'.todo = review.todo
      /\ review'.pick = review.pick /\ review'.view = review.view /\ SafeTypeOK
  BY DEF SafeWorld, Land, OwnersQueue, OwnersExecute, OtherCall, Consume, outside, Frame, SafeTypeOK
<1>2. Row' = Row
  BY <1>1, RowStays
<1>3. ASSUME NEW c \in Hosted, NEW n, Beside(c, n),
             asked[c] # {} \/ (at = "publish" /\ Row = c)
      PROVE  Beside(c, n)'
  <2>1. c \in SafeChains
    BY SafePlanAssumption
  <2>2. CASE Land
    BY <1>3, <2>2, BesideStays DEF Land, outside
  <2>3. CASE OwnersQueue
    <3>1. PICK d \in SafeChains, k \in Nonces :
            /\ theirs' = [theirs EXCEPT ![d] = @ \cup {k}]
            /\ late' = IF d \in Hosted /\ (asked[d] # {} \/ (at = "publish" /\ Row = d))
                       THEN [late EXCEPT ![d] = @ \cup {k}] ELSE late
            /\ safeNonce' = safeNonce
      BY <2>3 DEF OwnersQueue
    <3>2. CASE c = d
      <4>1. theirs'[c] = theirs[c] \cup {k} /\ late'[c] = late[c] \cup {k}
        BY <1>1, <1>3, <2>1, <3>1, <3>2 DEF SafeTypeOK
      <4> QED
        BY <1>3, <3>1, <4>1 DEF Beside
    <3>3. CASE c # d
      <4>1. theirs'[c] = theirs[c] /\ late'[c] = late[c]
        BY <1>1, <2>1, <3>1, <3>3 DEF SafeTypeOK
      <4> QED
        BY <1>3, <3>1, <4>1 DEF Beside
    <3> QED
      BY <3>2, <3>3
  <2>4. CASE OwnersExecute \/ OtherCall \/ Consume
    <3>1. theirs' = theirs /\ late' = late /\ safeNonce'[c] \in {safeNonce[c], safeNonce[c] + 1}
      BY <1>1, <2>1, <2>4 DEF OwnersExecute, OtherCall, Consume, SafeTypeOK
    <3>2. safeNonce[c] \in Nat /\ theirs[c] \subseteq Nat
      <4>1. safeNonce[c] \in 0 .. MaxSafeNonce + 1 /\ theirs[c] \subseteq Nonces
        BY <1>1, <2>1 DEF SafeTypeOK
      <4>2. 0 .. MaxSafeNonce + 1 \subseteq Nat
        BY SafePlanAssumption
      <4> QED
        BY <4>1, <4>2, NoncesAre
    <3> QED
      BY <1>3, <3>1, <3>2 DEF Beside
  <2> QED
    BY <2>2, <2>3, <2>4 DEF SafeWorld
<1>4. \A c \in Hosted : \A n \in asked[c] : Beside(c, n) => Beside(c, n)'
  BY <1>3
<1>5. at = "publish" /\ Row \in Hosted /\ Beside(Row, review.pick) => Beside(Row, review.pick)'
  <2> SUFFICES ASSUME at = "publish", Row \in Hosted, Beside(Row, review.pick)
               PROVE  Beside(Row, review.pick)'
    OBVIOUS
  <2> DEFINE c == Row
             n == review.pick
  <2>1. c' = c /\ n' = n
    BY <1>1, <1>2
  <2> QED
    BY <1>1, <1>2, <1>3, <2>1 DEF Beside
<1> QED
  BY <1>1, <1>2, <1>4, <1>5, QueueKeeps

\* Every other step of the run asks for nothing more, and leaves no request about to be made.
LEMMA QueueRests ==
  ASSUME Frame, Queue, SafeRun, ~StartRow, ~SignRow, ~Publish
  PROVE  Queue'
<1>1. UNCHANGED <<theirs, late, safeNonce>> /\ (~retried' => ~retried) /\ SafeTypeOK
  <2>1. CASE Click
    BY <2>1 DEF Click, outside, Frame
  <2>2. CASE Prepare \/ SavePrepared \/ ResumeRound \/ Reconcile \/ AcknowledgeSafe \/ Discard
             \/ StaleRow \/ NotRipe
    BY <2>2 DEF Prepare, SavePrepared, ResumeRound, Reconcile, AcknowledgeSafe, Discard,
           StaleRow, NotRipe, outside, Frame
  <2>3. CASE Record \/ Execute \/ Executed \/ WalletRefused
    <3>1. UNCHANGED <<live, retried, outside>>
      BY <2>3, Zenon DEF Record, Execute, Executed, WalletRefused
    <3> QED
      BY <3>1 DEF outside, Frame
  <2>4. CASE Fail \/ ExecuteReady \/ Close \/ ReloadReview
    BY <2>4 DEF Fail, ExecuteReady, Close, ReloadReview, outside, Frame
  <2> QED
    BY <2>1, <2>2, <2>3, <2>4 DEF SafeRun
<1>2. \A c \in SafeChains : asked'[c] \subseteq asked[c]
  <2>1. CASE WalletRefused
    BY <1>1, <2>1 DEF WalletRefused, SafeTypeOK
  <2>2. CASE ~WalletRefused
    BY <2>2 DEF SafeRun, Prepare, SavePrepared, ResumeRound, Reconcile, AcknowledgeSafe, Discard,
           Click, StaleRow, Record, NotRipe, Execute, Executed, Fail, ExecuteReady,
           Close, ReloadReview
  <2> QED
    BY <2>1, <2>2
<1>3. \A c \in Hosted : \A n \in asked[c] : Beside(c, n) => Beside(c, n)'
  BY <1>1, BesideStays
<1>4. at' \notin {"sign", "publish"}
  <2>1. at' \in {"sign", "publish"} => at \notin InClick /\ at' = at
    BY DEF SafeRun, Prepare, SavePrepared, ResumeRound, Reconcile, AcknowledgeSafe, Discard,
           Click, StaleRow, Record, NotRipe, Execute, Executed, WalletRefused, Fail, ExecuteReady,
           Close, ReloadReview, Open, End, Back, Onward, Saving, InClick
  <2> QED
    BY <2>1 DEF InClick
<1> QED
  BY <1>1, <1>2, <1>3, <1>4, QueueKeeps

LEMMA QueueInit == ASSUME SafeInit PROVE Queue
BY SafePlanAssumption DEF SafeInit, Queue, OneAsked, AskedBeside, PickRead

LEMMA QueueNext == ASSUME Frame, Account, Queue, [SafeNext]_safeVars PROVE Queue'
<1>1. CASE SafeNext
  BY <1>1, QueueRows, QueueSigns, QueuePublishes, QueueWorld, QueueRests DEF SafeNext
<1>2. CASE UNCHANGED safeVars
  <2>1. Row' = Row /\ UNCHANGED <<at, review, asked, theirs, late, safeNonce, retried>>
    BY <1>2, RowStays DEF safeVars
  <2> QED
    BY <2>1 DEF Queue, OneAsked, AskedBeside, PickRead, Beside
<1> QED
  BY <1>1, <1>2

----------------------------------------------------------------------------
(* The theorems.                                                           *)

\* The three layers are an inductive invariant of the plan, its reviews and the Safes.
THEOREM SafeInductive == SafeSpec => []SafeInv
<1>1. SafeInit => SafeInv
  BY FrameInit, AccountInit, QueueInit DEF SafeInv
<1>2. SafeInv /\ [SafeNext]_safeVars => SafeInv'
  BY FrameNext, AccountNext, QueueNext DEF SafeInv
<1> QED
  BY <1>1, <1>2, PTL DEF SafeSpec

\* The plan, its review and the Safes keep their shapes (SavedActionPlan of action-plan.js),
\* and while a review is open the plan in its memory knows every proposal that the saved one
\* knows, whichever saves have failed (saveSafeProgress).
THEOREM SafeTypeCorrect == SafeSpec => [](SafeTypeOK /\ KnownAgree)
<1>1. SafeInv => SafeTypeOK /\ KnownAgree
  BY DEF SafeInv, Frame
<1> QED
  BY <1>1, SafeInductive, PTL

\* Whatever was sent to a Safe and not refused by the wallet is a known proposal of the saved
\* plan or a mark that stops it, until the user acknowledges the result: beforeSafe marks the
\* plan before each request, and recordSafeProposal takes the mark back only with the
\* proposal, whichever saves fail and wherever the page is lost (src/action-plan.js:56-58).
THEOREM AlwaysAccounted == SafeSpec => []Accounted
<1>1. SafeInv => Accounted
  BY DEF SafeInv, Account
<1> QED
  BY <1>1, SafeInductive, PTL

\* This browser has at most one request for a call, and on a hosted chain it is not put
\* beside a co-owner's at another nonce that was in the queue when proposeSafeTx read it for
\* the last time, after the wallet's signature, however co-owners queue meanwhile.
THEOREM AlwaysQueuedOnce == SafeSpec => []QueuedOnce
<1>1. SafeInv => QueuedOnce
  BY DEF SafeInv, Queue, OneAsked, AskedBeside, Beside, QueuedOnce
<1> QED
  BY <1>1, SafeInductive, PTL

\* A plan calls executed only what executed as the very request it knows, and is acknowledged
\* only with every call executed or obsolete: "a nonce advance alone never proves this call"
\* (reconcileSelectedSafeResult of src/discover.js).
THEOREM AlwaysExecutedTrue == SafeSpec => []ExecutedTrue
<1>1. SafeInv => ExecutedTrue
  BY DEF SafeInv, Frame, PlansTrue, PlanTrue, ExecutedTrue
<1> QED
  BY <1>1, SafeInductive, PTL

\* A known proposal is not replaced or dropped but by acknowledging the plan: the plan in
\* memory knows what the saved one knows, also after a save that failed, so saving it over
\* the other loses nothing.
THEOREM KnownStays == SafeSpec => KnownKept
<1>1. SafeInv /\ [SafeNext]_safeVars =>
        [\A c \in SafeChains : saved.known[c] # NoNonce =>
           saved'.known[c] = saved.known[c] \/ (acknowledged' /\ ~acknowledged)]_safeVars
  BY KnownKeptNext DEF SafeInv
<1> QED
  BY <1>1, SafeInductive, PTL DEF SafeSpec, KnownKept

=============================================================================
