------------------------------ MODULE VerifyRun ------------------------------
(***************************************************************************)
(* gantry verify of one mission without trace rows (packages/missions:     *)
(* mission-verify/engine.ts, contract.ts, phase-steps.ts and run-record.ts;*)
(* packages/core/src/run-record.ts; src/cli/flows/verify-run.ts).          *)
(*                                                                         *)
(* A run is a process that works through the phases and asks git, again at *)
(* each phase, for HEAD, the history and the working tree.  Nothing keeps  *)
(* an editor, a commit or another run from acting in between: the gate     *)
(* alone may take minutes.  A run with --record ends by writing the run    *)
(* record that later runs are judged by.                                   *)
(*                                                                         *)
(* Tracked content is one value; RootsOf and ZoneOf are its parts under the*)
(* mission's roots and its forbidden zones.  The law is what the mission   *)
(* file says: roots, zones, gate and contract.  The interrogation, policy  *)
(* and dependency phases read none of this state: they pass or fail.       *)
(***************************************************************************)
EXTENDS Naturals, Sequences, SequencesExt

CONSTANTS Runs,        \* verify processes
          Contents,    \* what the tracked files can hold
          RootsOf,     \* the part of a content under the mission's roots
          ZoneOf,      \* its part inside the forbidden zones
          Passing,     \* the contents the gate command succeeds on
          Start,       \* the content the Planner stamped the mission on
          Laws,        \* what the mission file can say
          FirstLaw,    \* what it says at its first stamp
          NoRecord,    \* there is no record file
          HalfWritten, \* a record file that does not parse
          ScanDepth,   \* GANTRY_MSN_SCAN_DEPTH
          MaxCommits,  \* bound on the commits
          MaxEdits     \* bound on the edits of the working tree

ASSUME StartAssumption == Start \in Contents /\ FirstLaw \in Laws
ASSUME ScanAssumption == ScanDepth \in Nat /\ MaxCommits \in Nat \ {0}

VARIABLES commits,     \* commits[i]: the i-th commit made, on any line of history
          head,        \* the commit HEAD names
          wt,          \* the working tree: tracked files, mission law, record file, untracked file
          edits,       \* edits of the working tree so far
          pc,          \* pc[r]: the phase run r is about to enter
          mode,        \* mode[r]: "plain", "record" or "prePush"
          law,         \* law[r]: the mission as r parsed it
          seen,        \* seen[r]: the content and untracked file r's gate ran on
          at,          \* at[r]: the head its record will name
          judged,      \* judged[r]: the record its PASS was judged by, or that it wrote
          receipt,     \* receipt[r]: the record its ledger receipt names
          disturbed    \* history: runs during which somebody else changed the tree or HEAD

vars == <<commits, head, wt, edits, pc, mode, law, seen, at, judged, receipt, disturbed>>
repo == <<commits, head, wt, edits, disturbed>>

Records == [head : Nat, tree : Contents, law : Laws]
ASSUME RecordAssumption == NoRecord # HalfWritten /\ {NoRecord, HalfWritten} \cap Records = {}
RecordFiles == Records \cup {NoRecord, HalfWritten}
Commits == [src : Contents, law : Laws, rec : RecordFiles, planner : BOOLEAN, parent : Nat, line : Seq(Nat)]
Ended == {"passed", "stubbed", "failed", "init", "dead"}
Phases == {"start", "proof", "clean", "contract", "others", "stub", "gate", "evidence", "again",
           "readHead", "write", "fill", "ledger"} \cup Ended

TypeOK == /\ commits \in Seq(Commits)
          /\ \A c \in DOMAIN commits : commits[c].parent < c
          /\ head \in 1 .. Len(commits)
          /\ wt \in [src : Contents, law : Laws, rec : RecordFiles, extra : BOOLEAN]
          /\ edits \in Nat
          /\ pc \in [Runs -> Phases]
          /\ mode \in [Runs -> {"plain", "record", "prePush"}]
          /\ law \in [Runs -> Laws]
          /\ seen \in [Runs -> [src : Contents, extra : BOOLEAN]]
          /\ at \in [Runs -> 0 .. Len(commits)]
          /\ judged \in [Runs -> RecordFiles]
          /\ receipt \in [Runs -> RecordFiles]
          /\ disturbed \subseteq Runs

Init == /\ commits = <<[src |-> Start, law |-> FirstLaw, rec |-> NoRecord,
                        planner |-> TRUE, parent |-> 0, line |-> <<1>>]>>
        /\ head = 1
        /\ wt = [src |-> Start, law |-> FirstLaw, rec |-> NoRecord, extra |-> FALSE]
        /\ edits = 0
        /\ pc = [r \in Runs |-> "start"]
        /\ mode = [r \in Runs |-> "plain"]
        /\ law = [r \in Runs |-> FirstLaw]
        /\ seen = [r \in Runs |-> [src |-> Start, extra |-> FALSE]]
        /\ at = [r \in Runs |-> 0]
        /\ judged = [r \in Runs |-> NoRecord]
        /\ receipt = [r \in Runs |-> NoRecord]
        /\ disturbed = {}

Goto(r, phase) == pc' = [pc EXCEPT ![r] = phase]
-----------------------------------------------------------------------------
(* What git answers.                                                       *)

\* git log: the commits from HEAD back to the first.  A commit's line never changes.
History == commits[head].line

\* git status --porcelain prints something.
Dirty == \/ wt.extra
         \/ wt.src # commits[head].src \/ wt.law # commits[head].law \/ wt.rec # commits[head].rec

TouchesMission(c) == commits[c].parent = 0 \/ commits[c].law # commits[commits[c].parent].law

\* The first commit of a line that is in a set, 0 when none is.
FirstIn(line, S) ==
    LET hits == {i \in DOMAIN line : line[i] \in S}
    IN IF hits = {} THEN 0 ELSE line[Min(hits)]

\* The commits of a line that a scan reaches.
Scanned(line) == {line[i] : i \in {k \in DOMAIN line : k <= ScanDepth}}

\* Faulty variant: any Planner commit of the mission is its stamp.
StampIn_AnyPlanner(line) == FirstIn(line, {c \in Scanned(line) : commits[c].planner})

\* findPlannerStamp: the newest Planner commit of the mission that changes the mission file,
\* among those the scan reaches; 0 when there is none.
StampIn(line) == FirstIn(line, {c \in Scanned(line) : commits[c].planner /\ TouchesMission(c)})

\* The head the mission's changed paths are judged up to: that of its record when it has one
\* that can be read, and HEAD for a run that records.
JudgedHead(r) == IF mode[r] # "record" /\ wt.rec \in Records THEN wt.rec.head ELSE head
-----------------------------------------------------------------------------
(* The phases.                                                             *)

Load(r) == /\ pc[r] = "start"
           /\ \E m \in {"plain", "record", "prePush"} : mode' = [mode EXCEPT ![r] = m]
           /\ law' = [law EXCEPT ![r] = wt.law]
           /\ Goto(r, "proof")
           /\ UNCHANGED <<repo, seen, at, judged, receipt>>

Proof(r) == /\ pc[r] = "proof"
            /\ Goto(r, IF StampIn(History) = 0 THEN "failed"
                       ELSE IF mode[r] = "record" THEN "clean" ELSE "contract")
            /\ UNCHANGED <<repo, mode, law, seen, at, judged, receipt>>

\* assertCleanTreeForRecord: a dirty tree is an error, not a failed phase.
Clean(r) == /\ pc[r] = "clean"
            /\ Goto(r, IF Dirty THEN "init" ELSE "contract")
            /\ UNCHANGED <<repo, mode, law, seen, at, judged, receipt>>

\* Faulty variant: only the record's own commit is compared, not everything since the stamp.
Sealed_ZoneAtParent(r, stamp) ==
    /\ commits[stamp].law = law[r]
    /\ ZoneOf[commits[JudgedHead(r)].src] =
         ZoneOf[commits[IF commits[JudgedHead(r)].parent = 0 THEN 1
                        ELSE commits[JudgedHead(r)].parent].src]

\* checkSeal and judgeChangedPaths: the mission still says what the Planner stamped, and no path
\* in a forbidden zone changed since.
Sealed(r, stamp) ==
    /\ commits[stamp].law = law[r]
    /\ ZoneOf[commits[JudgedHead(r)].src] = ZoneOf[commits[stamp].src]

\* The stamp is looked up again; a run that finds none now checks nothing.
Contract(r) == /\ pc[r] = "contract"
               /\ LET stamp == StampIn(History)
                  IN Goto(r, IF stamp # 0 => Sealed(r, stamp) THEN "others" ELSE "failed")
               /\ UNCHANGED <<repo, mode, law, seen, at, judged, receipt>>

\* Interrogation, policy and dependencies.
Others(r) == /\ pc[r] = "others"
             /\ \E phase \in {"stub", "failed"} : Goto(r, phase)
             /\ UNCHANGED <<repo, mode, law, seen, at, judged, receipt>>

\* --pre-push passes a mission nobody has executed.
Stub(r) == /\ pc[r] = "stub"
           /\ Goto(r, IF mode[r] = "prePush" /\ wt.rec = NoRecord THEN "ledger" ELSE "gate")
           /\ UNCHANGED <<repo, mode, law, seen, at, judged, receipt>>

\* The gate reads the working tree, and may leave an untracked file in it.
Gate(r) == /\ pc[r] = "gate"
           /\ seen' = [seen EXCEPT ![r] = [src |-> wt.src, extra |-> wt.extra]]
           /\ Goto(r, IF <<wt.src, wt.extra>> \notin Passing THEN "failed"
                      ELSE IF mode[r] = "record" THEN "again" ELSE "evidence")
           /\ \E left \in {wt.extra, TRUE} : wt' = [wt EXCEPT !.extra = left]
           /\ UNCHANGED <<commits, head, edits, disturbed, mode, law, at, judged, receipt>>

\* Faulty variants: the record's law is not compared; what changed since is not.
Accepts_AnyLaw(r, rec) == /\ rec \in Records
                          /\ rec.head \in ToSet(History)
                          /\ RootsOf[wt.src] = RootsOf[commits[rec.head].src]
Accepts_AnyTree(r, rec) == rec \in Records /\ rec.law = law[r] /\ rec.head \in ToSet(History)

\* evaluateRunRecord: the record is of this law, names an ancestor of HEAD, and nothing tracked
\* under the roots changed since.
Accepts(r, rec) == /\ rec \in Records
                   /\ rec.law = law[r]
                   /\ rec.head \in ToSet(History)
                   /\ RootsOf[wt.src] = RootsOf[commits[rec.head].src]

Evidence(r) == /\ pc[r] = "evidence"
               /\ IF Accepts(r, wt.rec)
                  THEN Goto(r, "ledger") /\ judged' = [judged EXCEPT ![r] = wt.rec]
                  ELSE Goto(r, "failed") /\ UNCHANGED judged
               /\ UNCHANGED <<repo, mode, law, seen, at, receipt>>

\* Faulty variant: the tree is not looked at again.
CleanAgain_Skip(r) == /\ pc[r] = "again"
                      /\ Goto(r, "readHead")
                      /\ UNCHANGED <<repo, mode, law, seen, at, judged, receipt>>

\* writeRunRecord looks at the tree again,
CleanAgain(r) == /\ pc[r] = "again"
                 /\ Goto(r, IF Dirty THEN "init" ELSE "readHead")
                 /\ UNCHANGED <<repo, mode, law, seen, at, judged, receipt>>

\* asks for HEAD,
ReadHead(r) == /\ pc[r] = "readHead"
               /\ at' = [at EXCEPT ![r] = head]
               /\ Goto(r, "write")
               /\ UNCHANGED <<repo, mode, law, seen, judged, receipt>>

\* asks for its tree and opens the record file, which empties it,
OpenRecord(r) ==
    /\ pc[r] = "write"
    /\ judged' = [judged EXCEPT ![r] = [head |-> at[r], tree |-> commits[head].src, law |-> law[r]]]
    /\ wt' = [wt EXCEPT !.rec = HalfWritten]
    /\ Goto(r, "fill")
    /\ UNCHANGED <<commits, head, edits, disturbed, mode, law, seen, at, receipt>>

\* and fills it.
FillRecord(r) == /\ pc[r] = "fill"
                 /\ wt' = [wt EXCEPT !.rec = judged[r]]
                 /\ Goto(r, "ledger")
                 /\ UNCHANGED <<commits, head, edits, disturbed, mode, law, seen, at, judged, receipt>>

\* The receipt of a PASS names the record that is there by now.
Ledger(r) == /\ pc[r] = "ledger"
             /\ LET full == judged[r] # NoRecord
                IN /\ receipt' = [receipt EXCEPT ![r] = IF full THEN wt.rec ELSE NoRecord]
                   /\ Goto(r, IF full THEN "passed" ELSE "stubbed")
             /\ UNCHANGED <<repo, mode, law, seen, at, judged>>

Crash(r) == /\ pc[r] \notin Ended \cup {"start"}
            /\ Goto(r, "dead")
            /\ UNCHANGED <<repo, mode, law, seen, at, judged, receipt>>
-----------------------------------------------------------------------------
(* Editors of the working tree and committers.                             *)

Running == {r \in Runs : pc[r] \notin Ended \cup {"start"}}

\* What an editor leaves: one thing other than it was.
Edits == {[wt EXCEPT !.src = s] : s \in Contents} \cup {[wt EXCEPT !.law = l] : l \in Laws}
         \cup {[wt EXCEPT !.extra = ~wt.extra]}

Edit == /\ edits < MaxEdits
        /\ edits' = edits + 1
        /\ \E w \in Edits \ {wt} : wt' = w
        /\ disturbed' = disturbed \cup Running
        /\ UNCHANGED <<commits, head, pc, mode, law, seen, at, judged, receipt>>

\* git stash, or git checkout: the tracked files are HEAD's again.
Stash == /\ edits < MaxEdits
         /\ edits' = edits + 1
         /\ wt' = [src |-> commits[head].src, law |-> commits[head].law,
                   rec |-> commits[head].rec, extra |-> wt.extra]
         /\ wt' # wt
         /\ disturbed' = disturbed \cup Running
         /\ UNCHANGED <<commits, head, pc, mode, law, seen, at, judged, receipt>>

\* A commit of the tracked files on top of `parent`: of HEAD, or in its place (--amend).
CommitOn(parent, planner) ==
    /\ Len(commits) < MaxCommits
    /\ commits' = Append(commits, [src |-> wt.src, law |-> wt.law, rec |-> wt.rec,
                                   planner |-> planner, parent |-> parent,
                                   line |-> <<Len(commits) + 1>> \o commits[parent].line])
    /\ head' = Len(commits')
    /\ disturbed' = disturbed \cup Running
    /\ UNCHANGED <<wt, edits, pc, mode, law, seen, at, judged, receipt>>

Commit == \E planner \in BOOLEAN : CommitOn(head, planner)
Amend == commits[head].parent # 0 /\ CommitOn(commits[head].parent, commits[head].planner)

RunStep(r) == \/ Load(r) \/ Proof(r) \/ Clean(r) \/ Contract(r) \/ Others(r) \/ Stub(r) \/ Gate(r)
              \/ Evidence(r) \/ CleanAgain(r) \/ ReadHead(r) \/ OpenRecord(r) \/ FillRecord(r)
              \/ Ledger(r) \/ Crash(r)

Next == \/ \E r \in Runs : RunStep(r)
        \/ Edit \/ Stash \/ Commit \/ Amend

Spec == Init /\ [][Next]_vars
-----------------------------------------------------------------------------
(* Properties.                                                             *)

Recorders == {r \in Runs : mode[r] = "record" /\ judged[r] # NoRecord}

\* A record says that the gate passed on the content of a commit under a law.
Honest(rec, r) == /\ rec.tree = commits[rec.head].src
                  /\ seen[r] = [src |-> rec.tree, extra |-> FALSE]
                  /\ <<rec.tree, FALSE>> \in Passing

\* A record written while nobody touched the tree names a commit whose content is exactly what
\* the gate ran on, with no file git does not know of, whatever other runs did meanwhile.
RecordNamesTested == \A r \in Recorders \ disturbed : Honest(judged[r], r)

\* The same of every record (run-record.ts:21, RULES 3).  The tree is looked at before the gate
\* and after it; what happened in between, and what HEAD became since, is not seen.
EveryRecordNamesTested == \A r \in Recorders : Honest(judged[r], r)

Judges == {r \in Runs : mode[r] # "record" /\ judged[r] # NoRecord}

\* A PASS binds to a record: the record is one that a run with --record wrote under the law the
\* judging run read, and never one that was only half written.
PassIsBacked ==
    \A r \in Judges : \E w \in Recorders : judged[w] = judged[r] /\ law[w] = law[r]

\* A record is true, and a PASS rests on one.
RecordsAreTrue == RecordNamesTested /\ PassIsBacked

\* When a run passes, the content under the mission's roots is what the gate passed on in the run
\* that wrote the record, for every record whose writer was left alone: nothing tracked there
\* changed since, in a commit or in the working tree.
PassMeansTested ==
    [][\A r \in Runs : \A w \in Recorders \ disturbed :
          judged[r] # judged'[r] /\ pc'[r] = "ledger" /\ judged'[r] = judged[w]
             => RootsOf[wt.src] = RootsOf[seen[w].src]]_vars

\* A mission is verified under a law its Planner committed: not under one an executor wrote into
\* the mission file, even where Planner and executor share an identity.
LawIsThePlanners ==
    \A r \in Recorders \cup Judges :
        \E c \in DOMAIN commits :
            commits[c].planner /\ TouchesMission(c) /\ commits[c].law = law[r]

\* The content a record binds to differs in no forbidden zone from that of a stamp of its law,
\* for every PASS judged by a record whose writer was left alone.
ZonesKept ==
    \A r \in Judges : \A w \in Recorders \ disturbed :
        judged[w] = judged[r] =>
            \E c \in DOMAIN commits :
                /\ commits[c].planner /\ TouchesMission(c) /\ commits[c].law = law[r]
                /\ ZoneOf[judged[r].tree] = ZoneOf[commits[c].src]

\* What a mission is verified under is what its Planner saw: the law, and the zones nobody may change.
LawIsKept == LawIsThePlanners /\ ZonesKept

\* The receipt in the ledger names the record the PASS was judged by (verify-run.ts:65).
ReceiptNamesJudged ==
    \A r \in Runs : pc[r] = "passed" => receipt[r] = judged[r]
=============================================================================
