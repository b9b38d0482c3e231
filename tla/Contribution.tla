---------------------------- MODULE Contribution ----------------------------
(***************************************************************************)
(* A topic branch on its way to main: the pre-push hook of the clone       *)
(* (missions: git/git-hooks.ts, cli: commands/hook.ts) and the checks that *)
(* CI runs on a pull request (missions: ci-checks.ts, mission-changed.ts,  *)
(* perimeter.ts, trusted-automation.ts, cli: commands/ci.ts).              *)
(*                                                                         *)
(* A commit is a number, older ones first.  It has parents, past (all that *)
(* it is made of, itself too), tree (the content of each file, 0 for a     *)
(* file that is not there), author, msn (the mission its subject names, by *)
(* its file, or None), signed, and note (a valid gxt-bypass note).         *)
(***************************************************************************)
EXTENDS Automation

CONSTANTS None,
          Files, Missions,      \* paths, and the mission files among them
          Enforced, Protected,  \* patterns: what needs a mission, what is the Planner's
          AutomationRules,      \* trusted_automation of .gitagent/config.yaml
          Identities,           \* the sets of authors that the allowlist files, git, the environment and the user name as Planners
          InitialTree, Edits,   \* what a commit may do: changes (of files), author, msn, signed, note
          MaxCommits            \* bound

ASSUME ContributionAssumption ==
    /\ Missions \subseteq Files
    /\ InitialTree \in [Files -> 0 .. 2]
    /\ \A e \in Edits : /\ DOMAIN e.changes \subseteq Files
                        /\ \A f \in DOMAIN e.changes : e.changes[f] \in 0 .. 2
                        /\ e.msn \in Missions \cup {None} /\ e.signed \in BOOLEAN /\ e.note \in BOOLEAN

VARIABLES commits,
          main,    \* the main branch: here (local), as last fetched (tracking), and there (remote)
          topic,   \* the topic branch here (local) and there (remote, 0: not yet)
          on,      \* the branch that is checked out
          so,      \* how it was pushed so far: grown and plain (below)
          handed,  \* what the hook let through in this step
          checked  \* what CI answered in this step

branchVars == <<commits, main, topic, on, so, handed, checked>>

Ids == DOMAIN commits
Here == IF on = "topic" THEN topic.local ELSE main.local

BranchTypeOK ==
    /\ \A c \in Ids : /\ c \in commits[c].past /\ commits[c].past \subseteq 1 .. c
                      /\ DOMAIN commits[c].tree = Files /\ commits[c].msn \in Missions \cup {None}
    /\ {main.local, main.tracking, main.remote, topic.local} \subseteq Ids /\ topic.remote \in Ids \cup {0}
    /\ on \in {"topic", "main"}
    /\ handed = None \/ handed.verified \subseteq Missions
    /\ checked = None \/ checked.green \in BOOLEAN
-----------------------------------------------------------------------------
(* What git answers.                                                       *)

Past(c) == commits[c].past
Tree(c) == commits[c].tree
IsMerge(c) == Len(commits[c].parents) > 1
Between(base, head) == Past(head) \ Past(base)          \* base..head
MergeBase(a, b) == Max(Past(a) \cap Past(b))           \* the newest, where there are several
Differing(a, b) == {f \in Files : Tree(a)[f] # Tree(b)[f]}
KeptIn(files, c) == {f \in files : Tree(c)[f] # 0}       \* --diff-filter=ACMRT: deletions are left out
SincePoint(base, head) == Differing(MergeBase(base, head), head) \* base...head
ByCommit(c) == IF commits[c].parents = << >> \/ IsMerge(c) THEN {} ELSE Differing(commits[c].parents[1], c)

\* git log base..head -- file: a merge that left the file as one side had it leads to that side
\* only; a side that the base brought, other than the base itself, does not count.
PathLog(base, head, file) ==
    LET range == Between(base, head)
        sides(c) == {commits[c].parents[n] : n \in DOMAIN commits[c].parents}
        same(c) == {p \in sides(c) : Tree(p)[file] = Tree(c)[file]}
        alike(c) == same(c) \cap (range \cup {base})
        from(c) == IF alike(c) # {} THEN {commits[c].parents[Min({n \in DOMAIN commits[c].parents : commits[c].parents[n] \in alike(c)})]}
                   ELSE sides(c)
        seen[c \in 0 .. Len(commits)] ==
            IF c \notin range THEN {} ELSE {c} \cup UNION {seen[p] : p \in from(c)}
    IN  {c \in seen[head] : same(c) = {}}

Record(parents, tree, e) ==
    [parents |-> parents, past |-> {Len(commits) + 1} \cup UNION {Past(parents[n]) : n \in DOMAIN parents}, tree |-> tree,
     author |-> e.author, msn |-> e.msn, signed |-> e.signed, note |-> e.note]

Merged(ours, theirs) ==
    LET base == MergeBase(ours, theirs) IN
    {t \in [Files -> 0 .. 2] : \A f \in Files :
        CASE Tree(ours)[f] = Tree(theirs)[f] -> t[f] = Tree(ours)[f]
          [] Tree(ours)[f] # Tree(theirs)[f] /\ Tree(ours)[f] = Tree(base)[f] -> t[f] = Tree(theirs)[f]
          [] Tree(ours)[f] # Tree(theirs)[f] /\ Tree(theirs)[f] = Tree(base)[f] -> t[f] = Tree(ours)[f]
          [] OTHER -> TRUE}
-----------------------------------------------------------------------------
(* The pre-push hook.                                                      *)

\* resolvePlannerEmails: the first source that names anyone.
Planners == LET names(authors) == authors # {}
                sources == SelectSeq(Identities, names)
            IN  IF sources = << >> THEN {} ELSE sources[1]

\* findPlannerStamp, of `gantry verify`
IsStamped(head, mission) ==
    \E c \in Past(head) : commits[c].msn = mission /\ commits[c].author \in Planners /\ mission \in ByCommit(c)

\* remoteMergeBases: with the upstream of the branch that is checked out, main as last fetched, main here.
MergeBases(head) ==
    LET upstream == IF on = "main" THEN <<main.tracking>> ELSE IF topic.remote = 0 THEN << >> ELSE <<topic.remote>>
    IN  [n \in 1 .. Len(upstream) + 2 |-> MergeBase(head, (upstream \o <<main.tracking, main.local>>)[n])]

\* closestBase: the fewest commits to the head, and of these the first.
ClosestBase(head, bases, among) ==
    LET size(n) == Cardinality(Between(bases[n], head))
    IN  bases[Min({n \in among : \A k \in among : size(n) <= size(k)})]

\* fallbackPushBase, pushRangesFromRefLines
PushBase(old, head) ==
    LET bases == MergeBases(head)
        new == {n \in DOMAIN bases : old = 0 \/ bases[n] \notin Past(old)}
    IN  IF new = {} THEN old ELSE ClosestBase(head, bases, new)

\* Faulty variant: only what the branch adds is verified.
RangeMissions_Added(base, head) == {m \in Missions \cap Differing(base, head) : Tree(base)[m] = 0 /\ Tree(Here)[m] # 0}

\* verifyRangeMissions: the mission files of the range, if the checkout has them.
RangeMissions(base, head) == {m \in Missions \cap KeptIn(Differing(base, head), head) : Tree(Here)[m] # 0}

\* Pushing what is checked out, on top of what was pushed; main here may have what main there has not.
IsGrown == on = "topic" /\ topic.remote \in Past(topic.local) \cup {0}
MainIsBehind == main.local \in Past(main.tracking)

\* runHookPrePush: the missions of the range are verified at HEAD, whatever is pushed.
PushTopic ==
    LET head == topic.local
        base == PushBase(topic.remote, head)
        verified == IF base = head THEN {} ELSE RangeMissions(base, head)
    IN  /\ head # topic.remote
        /\ \A m \in verified : IsStamped(Here, m)
        /\ topic' = [topic EXCEPT !.remote = head]
        /\ so' = [grown |-> so.grown /\ IsGrown, plain |-> so.plain /\ IsGrown /\ MainIsBehind]
        /\ handed' = [head |-> head, tracking |-> main.tracking, verified |-> verified]
        /\ checked' = None /\ UNCHANGED <<commits, main, on>>
-----------------------------------------------------------------------------
(* The checks of CI.                                                       *)

IsEnforced(f) == CoveredBy(Enforced, f)
PerimeterLaw == Law(<< >>, PerimeterRules(Protected), {})

\* evaluateTrustedAutomationCommit and the end of evaluateTrustedAutomationRange
Automated(from, to, files, all, author) ==
    files # {} /\ IsTrusted(AutomationRules,
                            [files |-> files, locks |-> {}, actor |-> author, loc |-> Cardinality(all), lockLoc |-> 0,
                             old |-> Tree(from), new |-> Tree(to)], PerimeterLaw)
CommitIsTrusted(c) ==
    Automated(commits[c].parents[1], c, {f \in ByCommit(c) : IsEnforced(f)}, ByCommit(c), commits[c].author)

OwnCommits(base, head) == {c \in Between(base, head) : ~IsMerge(c)}

\* evaluateTrustedAutomationRange: some rule names each author; the range is judged as the oldest commit's author's.
RangeIsTrusted(base, head) ==
    LET own == OwnCommits(base, head)
        all == SincePoint(base, head)
    IN  /\ \A c \in own : (\E f \in ByCommit(c) : IsEnforced(f)) => \E r \in AutomationRules : commits[c].author \in r.actors
        /\ own # {}
        /\ Automated(MergeBase(base, head), head, {f \in KeptIn(all, head) : IsEnforced(f)}, all, commits[Min(own)].author)

\* checkMsnRange
SubjectsAreRight(base, head) ==
    \A c \in OwnCommits(base, head) :
        \/ \A f \in ByCommit(c) : ~IsEnforced(f)
        \/ commits[c].msn # None \/ commits[c].note \/ CommitIsTrusted(c)

Names(base, head) == {commits[c].msn : c \in OwnCommits(base, head)} \ {None}

\* discoverChangedMissions: the files of the one mission that the subjects name; no subject names one, all of them.
IsContaminated(base, head) == Cardinality(Names(base, head)) > 1
ChangedMissions(base, head) == Missions \cap KeptIn(SincePoint(base, head), head)
OfItsMission(base, head) ==
    {m \in ChangedMissions(base, head) : Names(base, head) = {} \/ m \in Names(base, head)}

\* missionsForRange
RangeOutcome(base, head) ==
    LET needsMission == \E f \in KeptIn(SincePoint(base, head), head) : IsEnforced(f) IN
    CASE IsContaminated(base, head) -> "fail"
      [] ~IsContaminated(base, head) /\ ChangedMissions(base, head) # {} ->
             IF OfItsMission(base, head) = {} THEN "fail" ELSE "verify"
      [] OTHER -> IF ~needsMission THEN "none" ELSE IF RangeIsTrusted(base, head) THEN "trusted" ELSE "fail"

\* runCiVerifyMissions
MissionsHold(base, head) ==
    /\ RangeOutcome(base, head) # "fail"
    /\ RangeOutcome(base, head) = "verify" => \A m \in OfItsMission(base, head) : IsStamped(head, m)

\* Faulty variant: merges are left out of the history of a path.
TouchesOf_NoMerges(base, head, file) == {c \in PathLog(base, head, file) : ~IsMerge(c)}

\* listCommitsTouchingPathInRange, checkProtectedPathCi, checkPerimeter
TouchesOf(base, head, file) == PathLog(base, head, file)
PerimeterHolds(base, head) ==
    \A f \in SincePoint(base, head) :
        Judge(PerimeterLaw, f, {}).effect = "planner" =>
            /\ TouchesOf(base, head, f) # {}
            /\ \A c \in TouchesOf(base, head, f) : commits[c].signed

Check ==
    LET base == main.remote
        head == topic.remote
    IN  /\ head # 0
        /\ checked' = [base |-> base, head |-> head,
                       green |-> SubjectsAreRight(base, head) /\ MissionsHold(base, head) /\ PerimeterHolds(base, head)]
        /\ handed' = None /\ UNCHANGED <<commits, main, topic, on, so>>
-----------------------------------------------------------------------------
(* The people: they commit, merge, fetch and rewrite.                      *)

Quietly == handed' = None /\ checked' = None /\ UNCHANGED so

MoveHead(c) == IF on = "topic" THEN topic' = [topic EXCEPT !.local = c] /\ UNCHANGED main
               ELSE main' = [main EXCEPT !.local = c] /\ UNCHANGED topic

Add(parents, tree, e) == commits' = Append(commits, Record(parents, tree, e))
New == Len(commits) + 1
Changed(c, e) == [f \in Files |-> IF f \in DOMAIN e.changes THEN e.changes[f] ELSE Tree(c)[f]]

Commit == /\ New <= MaxCommits
          /\ \E e \in Edits : Changed(Here, e) # Tree(Here) /\ Add(<<Here>>, Changed(Here, e), e)
          /\ MoveHead(New)
          /\ UNCHANGED on /\ Quietly

Amend == /\ New <= MaxCommits /\ Len(commits[Here].parents) = 1
         /\ \E e \in Edits : Add(commits[Here].parents, Changed(Here, e), e)
         /\ MoveHead(New)
         /\ UNCHANGED on /\ Quietly

\* git merge main, git merge origin/main; a conflict is resolved somehow, and a merge has a mission in its subject or none.
MergeMain ==
    /\ on = "topic"
    /\ \E m \in {main.local, main.tracking} :
         /\ m \notin Past(topic.local)
         /\ IF topic.local \in Past(m) THEN UNCHANGED commits /\ MoveHead(m)
            ELSE /\ New <= MaxCommits
                 /\ \E t \in Merged(topic.local, m), s \in BOOLEAN :
                      Add(<<topic.local, m>>, t, [author |-> "someone", msn |-> None, signed |-> s, note |-> FALSE])
                 /\ MoveHead(New)
    /\ UNCHANGED on /\ Quietly

Checkout == on' = (IF on = "topic" THEN "main" ELSE "topic") /\ UNCHANGED <<commits, main, topic>> /\ Quietly

\* On main: git pull, or git merge topic, when there is nothing to merge.
ForwardMain == /\ on = "main"
               /\ \E c \in {main.tracking, topic.local} :
                    main.local \in Past(c) \ {c} /\ main' = [main EXCEPT !.local = c]
               /\ UNCHANGED <<commits, topic, on>> /\ Quietly

FetchMain == main' = [main EXCEPT !.tracking = main.remote] /\ UNCHANGED <<commits, topic, on>> /\ Quietly

\* Another pull request gets to main, or this one, once CI said yes to it as it stands.
MainMoves == /\ New <= MaxCommits
             /\ \/ \E e \in Edits : Changed(main.remote, e) # Tree(main.remote) /\ Add(<<main.remote>>, Changed(main.remote, e), e)
                \/ /\ checked # None /\ checked.green /\ checked.head = topic.remote /\ checked.base = main.remote
                   /\ topic.remote \notin Past(main.remote)
                   /\ \E t \in Merged(main.remote, topic.remote) :
                        Add(<<main.remote, topic.remote>>, t, [author |-> "someone", msn |-> None, signed |-> TRUE, note |-> FALSE])
             /\ main' = [main EXCEPT !.remote = New]
             /\ UNCHANGED <<topic, on>> /\ Quietly
-----------------------------------------------------------------------------
BranchInit ==
    /\ commits = <<[parents |-> << >>, past |-> {1}, tree |-> InitialTree, author |-> "someone", msn |-> None, signed |-> TRUE, note |-> FALSE]>>
    /\ main = [local |-> 1, tracking |-> 1, remote |-> 1]
    /\ topic = [local |-> 1, remote |-> 0]
    /\ on = "topic" /\ so = [grown |-> TRUE, plain |-> TRUE] /\ handed = None /\ checked = None

BranchNext == Commit \/ Amend \/ MergeMain \/ Checkout \/ ForwardMain \/ FetchMain \/ MainMoves \/ PushTopic \/ Check

BranchSpec == BranchInit /\ [][BranchNext]_branchVars
-----------------------------------------------------------------------------
(* Properties.                                                             *)

\* The mission files that the branch has as main, where the branch knows it, never had them.
MissionsOf(h) ==
    {m \in KeptIn(Missions, h.head) : \A c \in Past(h.tracking) \cap Past(h.head) : Tree(c)[m] # Tree(h.head)[m]}

\* Pre-push: pushed bit by bit, with main merged in between, a branch that is pushed plainly brings no
\* mission file, new or changed as main never had it, that no Planner has stamped.
HandoffsAreStamped == handed # None /\ so.plain => \A m \in MissionsOf(handed) : IsStamped(handed.head, m)

\* Pre-push: the same, whatever main here has.
HandoffsAreVerified == handed # None /\ so.grown => \A m \in MissionsOf(handed) : IsStamped(handed.head, m)

\* Signed work, or a merge that left the file as main had it once.
IsMadeHere(c, f) == commits[c].signed /\ \A n \in DOMAIN commits[c].parents : Tree(commits[c].parents[n])[f] # Tree(c)[f]
IsFromMain(c, f, base) ==
    IsMerge(c) /\ \E n \in DOMAIN commits[c].parents : commits[c].parents[n] \in Past(base) /\ Tree(commits[c].parents[n])[f] = Tree(c)[f]

\* gantry perimeter --ci: what a pull request that passes makes of a protected file, a signed commit
\* of the pull request made of it, or main had it so and a merge brought it, whatever was merged, and
\* how conflicts were resolved.
PerimeterContentIsSigned ==
    checked # None /\ checked.green =>
        \A f \in SincePoint(checked.base, checked.head) :
            CoveredBy(Protected, f) =>
                \E c \in Between(checked.base, checked.head) :
                    /\ Tree(c)[f] = Tree(checked.head)[f]
                    /\ IsMadeHere(c, f) \/ IsFromMain(c, f, checked.base)
=============================================================================
