---------------------------- MODULE Interrogation ----------------------------
(***************************************************************************)
(* The interrogation gate (packages/missions: interrogate/*,               *)
(* triage-logic.ts, mission-verify/interrogation.ts; gantry interrogate,   *)
(* legislate and verify).  The gaps of an intent are computed from the     *)
(* manifest, the layers and the ADRs; the operator answers one question at *)
(* a time; a mission is written when no gap is left, with the answers and  *)
(* their digest.  The Planner's commit of it is the stamp.  What anybody   *)
(* then does to the mission file, verify compares with the stamp.          *)
(*                                                                         *)
(* Paths and patterns are those of PathLaw.  A digest is the rows that it  *)
(* is of.                                                                  *)
(***************************************************************************)
EXTENDS PathLaw, FiniteSets

CONSTANTS Intents,    \* [skills, risk, words, tokens, adrs, paths, gate]: what the request is made of
          Skill,      \* the skill that is worked with: [roots, zones, gates, tier]
          Risks,      \* path_risks of the manifest: a function from prefixes to tiers
          Layers,     \* patterns of the layers of the target architecture
          ScanRoots,  \* its scan_roots; {} when it names none
          MissionAt,  \* the path of the mission file
          Sources,    \* paths that commits change
          Stub,       \* placeholder answers
          Words,      \* answers of the operator
          Forged,     \* answers that somebody else writes into the file
          ScanDepth,  \* commits that the search for the stamp looks back
          MaxSaid,    \* bound on the answers of the operator
          MaxEdits,   \* bound on the edits of the mission file
          MaxCommits  \* bound on the history

ASSUME PathsAssumption == \A i \in Intents : \A p \in i.paths : p \in Seq(STRING)
ASSUME AnswersAssumption == Stub \cap (Words \cup Forged) = {}
ASSUME InterrogationAssumption == MaxSaid \in Nat /\ MaxEdits \in Nat /\ MaxCommits \in Nat /\ ScanDepth \in Nat \ {0}

VARIABLES intent,    \* the request that is being legislated
          said,      \* the operator's answers so far: each with the question that it was given to
          question,  \* what the last interrogation answered
          mission,   \* the mission file of the working tree
          commits,   \* the history: author, subject, changed paths, mission file
          written,   \* history: what the last legislation wrote and for which intent
          verdict,   \* what verify answered, when it was the last step
          edits      \* counter for the bound

intentVars == <<intent, said, question, mission, commits, written, verdict, edits>>
-----------------------------------------------------------------------------
(* The gaps of an intent.                                                  *)

\* pathRiskTier: the longest prefix of the path.
Tier(path) ==
    LET above == {p \in DOMAIN Risks : IsUnder(path, p)}
    IN  IF above = {} THEN "unlisted" ELSE Risks[CHOOSE p \in above : \A q \in above : Len(q) <= Len(p)]

\* triageIntent: a risk that the intent names, else not exactly one skill.
Reason(i) == CASE i.risk # "none" -> i.risk
               [] i.risk = "none" /\ i.skills = {} -> "no skill"
               [] i.risk = "none" /\ Cardinality(i.skills) > 1 -> "several skills"
               [] OTHER -> "none"

Finding(kind, of, at, tier) == [kind |-> kind, of |-> of, at |-> at, tier |-> tier]

RiskFindings(i) == IF Reason(i) = "none" THEN {} ELSE {Finding("risk_escalation", Reason(i), {}, "Tier-3")}

\* findForbiddenZoneHits: the text of the zone, or a path in the text that the zone covers.
ZoneHits(i) == {z \in Skill.zones : z \in i.words \/ \E t \in i.tokens : Covers(z, t)}
ZoneFindings(i) ==
    LET plain(z) == IF Last(z) = Deep THEN Front(z) ELSE z
        tier(z) == IF plain(z) \in DOMAIN Risks THEN Risks[plain(z)] ELSE "Tier-3"
    IN  {Finding("forbidden_zone", "zone", {z}, tier(z)) : z \in ZoneHits(i)}

\* bucketPathByTier, resolveArchScanRoots: without scan_roots what no layer covers is not looked at.
Unmapped(i) ==
    LET looked == IF ScanRoots # {} THEN ScanRoots ELSE Layers
    IN  IF looked = {} THEN i.paths ELSE {p \in i.paths : CoveredBy(looked, p) /\ ~CoveredBy(Layers, p)}
BoundaryFindings(i) ==
    LET tiers == {Tier(p) : p \in Unmapped(i)}
        asked(t) == IF t = "unlisted" THEN "Tier-2" ELSE t
        of(t) == {p \in Unmapped(i) : Tier(p) = t}
    IN  {Finding("undefined_boundary", "unmapped", of(t), asked(t)) : t \in tiers}
          \cup (IF Skill.roots = {} THEN {Finding("undefined_boundary", "no roots", {}, Skill.tier)} ELSE {})

\* gateRequiresInterrogation: a trivial gate also when it is on the list.
GateFindings(i) ==
    IF i.gate # "trivial" /\ i.gate \in Skill.gates THEN {}
    ELSE {Finding("missing_test_criteria", i.gate, {}, Skill.tier)}

AdrFindings(i) == {Finding("adr_conflict", a, {}, "Tier-3") : a \in i.adrs}

Gaps(i) == RiskFindings(i) \cup ZoneFindings(i) \cup BoundaryFindings(i) \cup GateFindings(i) \cup AdrFindings(i)

Severity == <<"risk_escalation", "forbidden_zone", "undefined_boundary", "adr_conflict", "missing_test_criteria">>
Before(f, g) == Min({n \in DOMAIN Severity : Severity[n] = f.kind}) < Min({n \in DOMAIN Severity : Severity[n] = g.kind})

\* Faulty variant: the paths of the question are not part of its id.
FindingId_NoPaths(f) == <<f.kind, f.of>>

\* stableFindingId: kind and subject; the tier is only in the subject of the unmapped paths, with them.
FindingId(f) == <<f.kind, f.of, f.at>>
-----------------------------------------------------------------------------
(* gantry interrogate, gantry legislate                                    *)

NoQuestion == [status |-> "none"]
NoMission == [rows |-> {}, digest |-> {}, declared |-> {}, stub |-> TRUE]

IntentInit == /\ intent \in Intents
              /\ said = {}
              /\ question = NoQuestion
              /\ mission = NoMission
              /\ commits = << >>
              /\ written = [intent |-> intent, rows |-> {}, done |-> FALSE]
              /\ verdict = "none"
              /\ edits = 0

Row(f, answer, refs) == [id |-> FindingId(f), kind |-> f.kind, answer |-> answer, refs |-> refs]

\* Faulty variant: a Tier-3 gap is closed by words alone.
Closes_NoRefs(row, f) == row.id = FindingId(f) /\ row.kind = f.kind /\ row.answer \notin Stub

\* mergeInterrogationAnswers
Closes(row, f) == row.id = FindingId(f) /\ row.kind = f.kind /\ row.answer \notin Stub /\ (f.tier = "Tier-3" => row.refs)
Open(findings, rows) == {f \in findings : ~\E r \in rows : Closes(r, f)}
Unknown(findings, rows) == {r \in rows : ~\E f \in findings : r.id = FindingId(f)}

\* An answers file: of the answers so far one at most for each question.
IsFile(rows) == \A r, s \in rows : r.id = s.id => r = s
Files == {rows \in SUBSET {a.row : a \in said} : IsFile(rows)}

\* runInterrogate: one question, the most severe of those that are left.
Interrogate(rows) ==
    LET findings == Gaps(intent)
        left == Open(findings, rows)
    IN  /\ commits = << >>
        /\ IF Unknown(findings, rows) # {} THEN question' = [status |-> "refused"]
           ELSE IF left = {} THEN question' = [status |-> "clear"]
           ELSE \E f \in left : /\ \A g \in left : ~Before(g, f)
                                /\ question' = [status |-> "halt", finding |-> f]
        /\ verdict' = "none"
        /\ UNCHANGED <<intent, said, mission, commits, written, edits>>

\* The operator answers what was asked.
Say(answer, refs) ==
    /\ question.status = "halt" /\ Cardinality(said) < MaxSaid
    /\ said' = said \cup {[finding |-> question.finding, row |-> Row(question.finding, answer, refs)]}
    /\ question' = NoQuestion
    /\ verdict' = "none"
    /\ UNCHANGED <<intent, mission, commits, written, edits>>

\* The request changes before it is law.
Reword(i) ==
    /\ i # intent /\ commits = << >>
    /\ intent' = i /\ question' = NoQuestion
    /\ verdict' = "none"
    /\ UNCHANGED <<said, mission, commits, written, edits>>

\* resolveInterrogationForLegislate, buildYamlMissionBody: refused while a gap is open.
Legislate(rows) ==
    /\ commits = << >>
    /\ Unknown(Gaps(intent), rows) = {} /\ Open(Gaps(intent), rows) = {}
    /\ mission' = [rows |-> rows, digest |-> rows, declared |-> IF rows = {} THEN {} ELSE intent.paths, stub |-> TRUE]
    /\ written' = [intent |-> intent, rows |-> rows, done |-> TRUE]
    /\ verdict' = "none"
    /\ UNCHANGED <<intent, said, question, commits, edits>>
-----------------------------------------------------------------------------
(* The history and what is done to the mission file.                       *)

Committed == IF commits = << >> THEN NoMission ELSE Last(commits).mission

\* What was said is forgotten: from here on nothing reads it.
Commit(planner, paths) ==
    /\ written.done /\ Len(commits) < MaxCommits
    /\ paths # {} \/ mission # Committed
    /\ commits' = Append(commits, [planner |-> planner, mission |-> mission,
                                   changed |-> paths \cup (IF mission # Committed THEN {MissionAt} ELSE {})])
    /\ said' = {} /\ question' = NoQuestion
    /\ verdict' = "none"
    /\ UNCHANGED <<intent, mission, written, edits>>

\* Anybody's edits of the file: evidence, another path, another answer, no answers at all.
Edit(m) ==
    /\ written.done /\ edits < MaxEdits /\ m # mission
    /\ mission' = m /\ edits' = edits + 1
    /\ verdict' = "none"
    /\ UNCHANGED <<intent, said, question, commits, written>>

AddEvidence == Edit([mission EXCEPT !.stub = FALSE])
Declare(p) == Edit([mission EXCEPT !.declared = @ \cup {p}])
Reanswer(row, answer, renewed) ==
    LET rows == (mission.rows \ {row}) \cup {[row EXCEPT !.answer = answer]}
    IN  Edit([mission EXCEPT !.rows = rows, !.digest = IF renewed THEN rows ELSE @])
DropBlock == Edit([mission EXCEPT !.rows = {}, !.digest = {}])
-----------------------------------------------------------------------------
(* gantry verify                                                           *)

Window == {n \in DOMAIN commits : n > Len(commits) - ScanDepth}

\* Faulty variant: any commit of the mission file is the stamp.
Stamps_Anyone(window) == {n \in window : MissionAt \in commits[n].changed}

\* findPlannerStamp looks for the newest of these.
Stamps(window) == {n \in window : commits[n].planner /\ MissionAt \in commits[n].changed}
Stamp == Max(Stamps(Window))

\* validateInterrogationRows
RowsHold(m) == (\A r \in m.rows : r.answer \notin Stub) /\ m.digest = m.rows

\* validateStampedInterrogationDigest: not asked of a mission that claims no evidence yet.
StampHolds(m) == m.stub \/ commits[Stamp].mission.digest = m.digest

\* evaluatePathDrift: the mission file counts, but in the stamp.
Changed == UNION {commits[n].changed \ (IF n = Stamp THEN {MissionAt} ELSE {}) : n \in Window}
Drifted(m) == {p \in Changed : p \notin m.declared /\ Tier(p) = "Tier-3"}

\* evaluateGitProof, then evaluateInterrogationPhase
Accepts(m, required) ==
    /\ Stamps(Window) # {}
    /\ required => m.rows # {}
    /\ m.rows # {} => RowsHold(m) /\ StampHolds(m) /\ Drifted(m) = {}

Verify(required) ==
    /\ written.done
    /\ verdict' = IF Accepts(mission, required) THEN "ok" ELSE "refused"
    /\ UNCHANGED <<intent, said, question, mission, commits, written, edits>>
-----------------------------------------------------------------------------
IntentNext == \/ \E rows \in Files : Interrogate(rows) \/ Legislate(rows)
              \/ \E answer \in Stub \cup Words, refs \in BOOLEAN : Say(answer, refs)
              \/ \E i \in Intents : Reword(i)
              \/ \E planner \in BOOLEAN, paths \in SUBSET Sources : Commit(planner, paths)
              \/ AddEvidence
              \/ \E p \in Sources : Declare(p)
              \/ \E row \in mission.rows, answer \in Stub \cup Forged, renewed \in BOOLEAN : Reanswer(row, answer, renewed)
              \/ DropBlock
              \/ \E required \in BOOLEAN : Verify(required)

IntentSpec == IntentInit /\ [][IntentNext]_intentVars
-----------------------------------------------------------------------------
(* What a mission's writer and its verification may be relied on for.      *)

\* Every gap of the intent that a mission was written for is closed by words that the operator gave
\* to that very question - the same paths, the same tier - and a Tier-3 one names its ADRs; however
\* often the request was reworded and the answers put together again (runInterrogate,
\* mergeInterrogationAnswers, stableFindingId).
GapsAreAnswered ==
    written.done /\ commits = << >> =>
        \A f \in Gaps(written.intent) : \E a \in said :
            a.finding = f /\ a.row \in written.rows /\ a.row.answer \in Words /\ (f.tier = "Tier-3" => a.row.refs)

\* A verification that passes a mission with answers and evidence judged the answers whose digest is
\* in the Planner's last commit of the file, whoever has committed it since; and each Tier-3 path that
\* a commit after that one changed is declared (evaluateInterrogationPhase).
AnswersAreStamped ==
    verdict = "ok" /\ mission.rows # {} /\ ~mission.stub =>
        \E n \in DOMAIN commits :
            /\ commits[n].planner /\ MissionAt \in commits[n].changed
            /\ commits[n].mission.digest = mission.rows
            /\ \A k \in n + 1 .. Len(commits) :
                   /\ commits[k].planner => MissionAt \notin commits[k].changed
                   /\ \A p \in commits[k].changed \ mission.declared : Tier(p) # "Tier-3"

\* A mission binds the operator's own answers: every gap has one, and the Planner committed them.
InterrogationBinds == GapsAreAnswered /\ AnswersAreStamped

\* RULES.md: "the Planner stamp commit is the seal on mission bytes": a verification that passes
\* judged the answers and the declared paths of some commit of the Planner's.
RecordIsSealed ==
    verdict = "ok" /\ ~mission.stub =>
        \E c \in Range(commits) : /\ c.planner
                                  /\ c.mission.rows = mission.rows
                                  /\ c.mission.declared = mission.declared
=============================================================================
