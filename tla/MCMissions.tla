------------------------------ MODULE MCMissions ------------------------------
(***************************************************************************)
(* Five parts of the life of a mission that share no state, in one run:    *)
(* draft tokens (DraftLegislation), the interrogation (Interrogation),     *)
(* trace rows (TraceEvidence), gates (GateRun) and architecture documents  *)
(* kept elsewhere (ArchAccess).  A behaviour is one of the part that its   *)
(* start chose; the other parts do nothing.                                *)
(***************************************************************************)
EXTENDS DraftLegislation, Interrogation, TraceEvidence, GateRun, ArchAccess

CONSTANTS s1, s2, t1, t2

\* Two titles for one mission number.
MCServers == {s1, s2}
MCProposals == {[msn |-> 1, title |-> t] : t \in {t1, t2}}
Alike == {f @@ g : f \in Permutations(MCServers), g \in Permutations({t1, t2})}

\* Three requests; the second touches one more path than the first, so that its question about
\* unmapped paths is another one.
MCCore == <<"src", "core">>
MCIntents == {[skills |-> {"core"}, risk |-> "none", words |-> {}, tokens |-> {}, adrs |-> {},
               paths |-> {MCCore}, gate |-> "listed"],
              [skills |-> {"core"}, risk |-> "none", words |-> {}, tokens |-> {}, adrs |-> {},
               paths |-> {MCCore, <<".gitagent", "m1">>}, gate |-> "listed"],
              [skills |-> {"core", "docs"}, risk |-> "none", words |-> {}, tokens |-> {}, adrs |-> {},
               paths |-> {<<"docs">>}, gate |-> "listed"]}
MCSources == {MCCore}
MCSkill == [roots |-> {<<"src">>}, zones |-> {<<"docs", Deep>>}, gates |-> {"listed"}, tier |-> "Tier-1"]
MCRisks == <<"src", "core">> :> "Tier-3" @@ <<"src">> :> "Tier-2" @@ <<".gitagent">> :> "Tier-3"
MCLayers == {<<"lib", Deep>>}
MCScanRoots == {<<Deep>>}
MCMissionAt == <<".gitagent", "missions", "m">>

\* Lines with one of two quotes, one of them with a timestamp; rows that may have one dod_id.
MCLines == {{"q1"}, {"q2", "t"}}
MCRows == {[dod |-> 1, quote |-> q, line |-> n, text |-> "blank", status |-> "PASS"] : q \in {"q1", "todo"}, n \in {1, 2}}
            \cup {[dod |-> d, quote |-> "q2", line |-> n, text |-> "t", status |-> "PASS"] : d \in {1, 2}, n \in {0, 1}}
            \cup {[dod |-> 2, quote |-> "blank", line |-> 1, text |-> "blank", status |-> s] : s \in {"PASS", "FAIL"}}

\* The slots a/b and a__b share a file.
MCSlotFiles == "a/b" :> "a__b" @@ "a__b" :> "a__b" @@ "c" :> "c"
-----------------------------------------------------------------------------
VARIABLE part

vars == <<draftVars, intentVars, traceVars, gateVars, accessVars, part>>

\* A part that does nothing starts in one of its states.
MissionsInit == /\ part \in {"draft", "interrogation", "trace", "gates", "access"}
                /\ DraftInit /\ IntentInit /\ TraceInit /\ GateInit /\ AccessInit
                /\ part # "interrogation" => intent = CHOOSE i \in Intents : TRUE
                /\ part # "trace" => rows = << >>

MissionsNext ==
    \/ part = "draft" /\ UNCHANGED <<intentVars, traceVars, gateVars, accessVars, part>> /\ DraftNext
    \/ part = "interrogation" /\ UNCHANGED <<draftVars, traceVars, gateVars, accessVars, part>> /\ IntentNext
    \/ part = "trace" /\ UNCHANGED <<draftVars, intentVars, gateVars, accessVars, part>> /\ TraceNext
    \/ part = "gates" /\ UNCHANGED <<draftVars, intentVars, traceVars, accessVars, part>> /\ GateNext
    \/ part = "access" /\ UNCHANGED <<draftVars, intentVars, traceVars, gateVars, part>> /\ AccessNext

MissionsSpec == MissionsInit /\ [][MissionsNext]_vars
=============================================================================
