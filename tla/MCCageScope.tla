---------------------------- MODULE MCCageScope ----------------------------
(* An instance of CageScope for TLC. *)
EXTENDS CageScope, TLC

CONSTANTS gitignore, src, shared, built, new, own, s0, s1, plain

File(s) == [sha |-> s, mode |-> plain]

(* src is allowed by both lists, shared by .cage.yaml only.  built is      *)
(* ignored; new is not there yet; own is overridden.                       *)
MCPaths   == {gitignore, src, shared, built, new, own}
MCAreas   == {{src, shared}, {src}}
MCStart   == [p \in MCPaths |-> IF p = new THEN None ELSE File(s0)]
MCHides   == (gitignore :> [e \in Entry |-> IF e = File(s0) THEN {built}
                                             ELSE IF e = File(s1) THEN {built, new, shared} ELSE {}])
Tracked   == {gitignore, src, shared, own}
============================================================================
