---------------------------- MODULE MCCageJournal ----------------------------
(* Instances of CageJournal for TLC. *)
EXTENDS CageJournal, TLC

CONSTANTS cfg, f, s0, plain, w1, w2, w3

File(s) == [sha |-> s, mode |-> plain]

TwoPaths  == {cfg, f}
OnlyCfg   == {cfg}
NoPaths   == {}
OneRun    == {w1}
ThreeRuns == {w1, w2, w3}
OtherRuns == Permutations({w2, w3})

(* .cage.yaml lists f while it has content s0; f is not there yet.         *)
StartListed   == [p \in TwoPaths |-> IF p = cfg THEN File(s0) ELSE None]
ListsF == (cfg :> [e \in Entry |-> IF e = File(s0) THEN {f} ELSE {}])
==============================================================================
