-------------------------- MODULE MCRelayrSession --------------------------
(***************************************************************************)
(* Instances of RelayrSession for TLC.  Two flows race: in two windows,    *)
(* which share only the disk, or in one, whose memory and quote they share.*)
(***************************************************************************)
EXTENDS RelayrSession, TLC

CONSTANTS w1, w2, f1, f2

TwoWindows == {w1, w2}
TwoFlows == {f1, f2}
Apart == [f \in TwoFlows |-> IF f = f1 THEN w1 ELSE w2]

World(window, scheduled, locks, fails) ==
  [window |-> window, scheduled |-> scheduled, locks |-> locks, fails |-> fails]

\* Nothing helps: two windows, no Web Locks, storage that fails.
Adverse == {World(Apart, {}, FALSE, TRUE)}

\* Everything works: one window (either, for the symmetry), locks, storage, a schedule.
Orderly == {World([f \in TwoFlows |-> w], {1}, TRUE, FALSE) : w \in TwoWindows}

\* Two windows that contend for the locks.
Contended == {World(Apart, {1}, TRUE, FALSE)}

AllWorlds == Adverse \cup Orderly \cup Contended
LocksAndStorage == {World(Apart, {}, TRUE, FALSE)}
LocksNoStorage == {World(Apart, {}, TRUE, TRUE)}

\* The two windows, each with its flow, are alike.
Alike ==
  {p \in Permutations(TwoFlows \cup TwoWindows) :
     \A f \in TwoFlows : p[f] \in TwoFlows /\ p[Apart[f]] = Apart[p[f]]}
=============================================================================
