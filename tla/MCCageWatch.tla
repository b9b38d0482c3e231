---------------------------- MODULE MCCageWatch ----------------------------
(* Instances of CageWatch for TLC: two paths, both there at the start. *)
EXTENDS CageWatch, TLC

CONSTANTS p1, p2, s0, s1, s2, plain

File(s) == [sha |-> s, mode |-> plain]

OnePath    == {p1}
TwoPaths   == {p1, p2}
SecondPath == {p2}
NoPaths    == {}
StartTwo   == [p \in TwoPaths |-> File(s0)]
Anything   == [p \in TwoPaths |-> Entry]

(* One path gets new contents, one of them too big to keep, and is deleted *)
(* too; the other is only deleted.                                         *)
Oversize   == {File(s2)}
Contents   == [p \in TwoPaths |-> IF p = p1 THEN {File(s1), File(s2), None} ELSE {None}]
============================================================================
