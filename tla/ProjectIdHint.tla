--------------------------- MODULE ProjectIdHint ---------------------------
(***************************************************************************)
(* The project-name hint under a project-id input: attachProjectIdResolver *)
(* of src/project-id-resolver.js.  Typing restarts a debounce timer; when  *)
(* it fires the id is looked up, and an answer is shown if no other lookup *)
(* has begun since.                                                        *)
(***************************************************************************)
EXTENDS Naturals

CONSTANTS
  Ids,         \* the project ids a user may type
  Empty,       \* an empty or invalid input, which needs no lookup
  MaxLookups   \* bound: how often the timer fires

ASSUME ProjectIdHintAssumption == Empty \notin Ids /\ MaxLookups \in Nat

VARIABLES
  typed,     \* the input's value
  timer,     \* is the debounce timer running?
  token,     \* token: the last lookup begun
  lookups,   \* the lookups begun and not answered: [token, id]
  hint       \* what the hint shows: the result for an id, "looking up" as Empty, or nothing

hintVars == <<typed, timer, token, lookups, hint>>

Texts == Ids \cup {Empty}
HintTypeOK ==
  /\ typed \in Texts
  /\ timer \in BOOLEAN
  /\ token \in 0 .. MaxLookups
  /\ lookups \subseteq [token : 1 .. MaxLookups, id : Ids]
  /\ hint \in Texts

HintInit ==
  /\ typed \in Texts
  /\ timer = TRUE
  /\ token = 0
  /\ lookups = {}
  /\ hint = Empty

\* clearTimeout and setTimeout.
Type ==
  /\ typed' \in Texts \ {typed}
  /\ timer' = TRUE
  /\ UNCHANGED <<token, lookups, hint>>

\* Mutant: an emptied input leaves an older lookup current.
Resolve_KeepToken ==
  /\ timer /\ token < MaxLookups
  /\ timer' = FALSE
  /\ token' = IF typed = Empty THEN token ELSE token + 1
  /\ lookups' = IF typed = Empty THEN lookups
                ELSE lookups \cup {[token |-> token + 1, id |-> typed]}
  /\ hint' = Empty
  /\ UNCHANGED typed

\* resolve, when the timer fires and at the start: what was shown goes first.
Resolve ==
  /\ timer /\ token < MaxLookups
  /\ timer' = FALSE
  /\ token' = token + 1
  /\ lookups' = IF typed = Empty THEN lookups
                ELSE lookups \cup {[token |-> token + 1, id |-> typed]}
  /\ hint' = Empty
  /\ UNCHANGED typed

\* A lookup answers, in any order; one that is not the last is dropped.
LookedUp ==
  \E l \in lookups :
    /\ lookups' = lookups \ {l}
    /\ hint' = IF l.token = token THEN l.id ELSE hint
    /\ UNCHANGED <<typed, timer, token>>

HintNext == Type \/ Resolve \/ LookedUp
HintSpec == HintInit /\ [][HintNext]_hintVars

----------------------------------------------------------------------------
\* A name on screen is the one of the id in the input, unless the user has typed since and
\* the timer is about to look again; an emptied input shows no late answer
\* (project-id-resolver.js:100-125).
HintFresh == hint # Empty => hint = typed \/ timer
=============================================================================
