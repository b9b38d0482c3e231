# OpenGantry in TLA+

Specifications of what OpenGantry promises: that protected files survive an agent (the
cage), that a verification speaks of the tree it tested and of the law the Planner signed
(missions and verify), and that the record of both can be relied on (ledger, policy,
upgrade). Every module is translated from the source `PROJECT.json` names under "map".
TLC checks the modules on small instances; TLAPS proves 36 of the 40 checked properties
for every instance: all but the four liveness properties.

## The system

| Part | Source | State | Operations | What is hard |
|------|--------|-------|------------|--------------|
| Snapshots and restores | `packages/cage/src/cage-snapshot.ts`, `cage-revert.ts` | the protected files, a baseline | snapshot, diff, restore one path | a file changes between snapshot and restore; a restore fails |
| Decision engine of the watch | `cage-watch-decisions.ts`, `cage-watch-run.ts` | open questions in order, deadlines, rejection counts, contested paths, baseline | `tick`, `answer`, `stop` | the agent writes inside a handler; keys wait in a buffer; the journal write fails |
| Session journal | `cage-journal.ts` | `journal.json`, `pids.json`, hash sidecars, blobs | write, refresh pids, replace baseline, recover, dispose | a crash between two renames; processes that outlive their wrapper |
| Session cage | `cage-run.ts`, `cage-watch.ts`, `cage-process.ts`, `cage-report.ts` | process tree, restore counts, halt, trapped signal | live tick, terminate, exit diff, report | the halt races the exit; orphans write after the exit diff |
| Scope | `cage-scope.ts` | a git index of its own | capture the tree, restore what is out of scope | an edited `.gitignore` hides files from the snapshot |
| Path law, cage rules | `packages/core/src/path-law.ts`, `packages/cage/src/cage-rules.ts`, `cage-config.ts`, `cage-suggest.ts`, ... | none | judge a path, tighten a law, plan, suggest | precedence of exemptions, overrides, levels |
| Architecture law | `packages/core/src/law.ts`, `packages/missions/src/arch` | none, a baseline file | `arch check`, ratchet | counts, cycles, a layer that moves |
| Change contracts | `packages/verify/src` | none | `verify --contract`, export and import of results | which tree each rule reads; whose law wins |
| Trusted automation | `packages/core/src/trusted-automation.ts`, `dependency-update.ts` | none | let a change pass without a mission | judged by commit in one place, by range in another |
| Hooks, perimeter, CI | `packages/missions/src/git/git-hooks.ts`, `perimeter.ts` | a git graph, here and there | pre-push, `perimeter --ci` | merges, amends, pushes bit by bit |
| Verify engine | `packages/missions/src/mission-verify` | phases of a run, the run record | evaluate, record, judge by a record | the tree, HEAD and the mission change while a gate runs |
| Outcome and break-glass | `remediation-pipeline.ts`, `break-glass.ts` | a feed with a ring of digests, notes, ledger rows | report, trip the breaker, bypass | one file for all missions, read and later replaced |
| Interrogation, trace evidence | `interrogate/*`, `mission-verify/interrogation.ts`, `trace-quote.ts` | questions, answers, rows about log lines | ask, answer, stamp, verify | answers to an earlier request; a log that moves |
| Drafts and numbers | `draft-token.ts`, `msn-allocate.ts`, `legislate/*` | key, list of used tokens, mission files | draft, execute, legislate | read-modify-write by two servers, a bounded list |
| Runtime exec, gates | `runtime-exec*.ts`, `gate*.ts` | worker processes, logs, the error file | spawn, stream, time out, judge | workers that ignore SIGTERM, children that outlive theirs |
| Upgrade | `upgrade/*` | managed files, staging, a version file | plan, stage, apply | crashes between copies; two at once |
| Policy floor | `packages/plane/src/policy-*.ts` | a pointer in two forms, a cache | pull, migrate, resolve, verify | a pull, a migration and a verify at once, crashes |
| Initialisation | `src/cli/commands/init.ts`, `packages/missions/src/init/*`, `file-merge-gxt.ts` | the scaffold, the version file, ignore files | plan, ask, write, merge lines | edits while the question is open; a kill between two files or in one |
| Ledger | `packages/plane/src/ledger-*.ts` | `refs/gxt/ledger` | append by compare-and-swap, verify | appenders race; retries; git fails |
| External architecture, credentials | `packages/missions/src/arch/external` | pointer, slots, credential files | point, log in, fetch | what belongs to which slot changes on the way |

The parts that meet at run time:

* A session (`gantry cage -- cmd`) and a watch (`gantry cage watch`) both recover a
  left-over journal, build a plan from the rule files, take a baseline snapshot and write
  it to the journal. From then on a timer compares the disk with the baseline in memory.
  The session restores live and halts; the watch asks an operator. At the end both take
  an exit diff, restore what is left and remove the journal.
* The agent, its descendants and any other process of the user write to the files at all
  times: the cage only sees what a snapshot sees.
* A verification asks git again at each of its phases; only the run record and the
  commits of the Planner carry anything from one run to the next. Its gate runs a process
  (`GateRun`), its interrogation and trace phases read files that an operator and an
  executor wrote (`Interrogation`, `TraceEvidence`), its last steps write the feed and the
  ledger (`VerifyOutcome`, `LedgerChain`), its settings must meet the floor (`OrgPolicy`).
* The hooks and CI decide which missions are verified at all (`Contribution`), by the
  rules of trusted automation (`Automation`).
* `appendLedgerEntry` is called by separate short processes; they meet only in the git
  ref, and clones meet only through push and fetch.

The hazards, each at its line of code with the properties about it, are in `PROJECT.json`.

## Modules

| Module | Models | Run | Proved in |
|--------|--------|-----|-----------|
| `CageFiles` | entries, diffs, restores | all cage runs | |
| `CageWatch` | the decision engine of the watch | `MCCageWatch`: watch_content, watch_live | `CageWatchProofs` |
| `CageJournal` | journal, recovery, crashes | `MCCageJournal`: journal | `CageJournalProofs` |
| `CageSession` | supervision, live checks, halt, exit diff | `MCSupervision`: supervision | `CageSessionProofs` |
| `RuntimeExec` | flights, timeouts, the error file | `MCSupervision`: supervision | `CageSessionProofs` |
| `CageScope` | the `allow_only` scope and its two exit passes | `MCCageScope`: scope, scope_ignored | `CageScopeProofs` |
| `LedgerLog` | what the ledger promises: append-only logs | as a property of ledger | `LedgerProofs` |
| `LedgerChain` | append by compare-and-swap, push, fetch | `MCLedgerChain`: ledger | `LedgerProofs` |
| `VerifyRun` | the phases of a verification, the run record | `MCVerifyRun`: verify | `VerifyProofs` |
| `PathLaw`, `CageRules`, `TreeLaw`, `ChangeContract`, `Automation` | the rules without state | through `Rules` | `VerifyProofs` |
| `Rules` | what those rules promise together | `MCRules`: rules | `VerifyProofs` |
| `CycleSearch` | the search for import cycles | `MCRules`: rules | `VerifyProofs` |
| `Contribution` | branches, pushes, perimeter | `MCContribution`: contribution | `LedgerProofs` |
| `VerifyOutcome` | feed, breaker, audit | `MCGovernance`: governance | `GovernanceProofs` |
| `Upgrade` | plan, stage, apply | `MCGovernance`: governance | `GovernanceProofs` |
| `OrgPolicy` | pull, migrate, the floor | `MCGovernance`: governance | `GovernanceProofs` |
| `Scaffold` | init | `MCGovernance`: governance | `GovernanceProofs` |
| `DraftLegislation` | drafts, tokens, numbers | `MCMissions`: missions | `MissionsProofs` |
| `Interrogation` | questions, answers, stamps | `MCMissions`: missions | `MissionsProofs` |
| `TraceEvidence` | rows about lines of a log | `MCMissions`: missions | `MissionsProofs` |
| `GateRun` | gate processes and their log | `MCMissions`: missions | `MissionsProofs` |
| `ArchAccess` | external documents and credentials | `MCMissions`: missions | `MissionsProofs` |

`MCSupervision`, `MCGovernance`, `MCMissions` and `MCRules` each put parts that share no state into
one run: a variable `part`, chosen at the start, says which of them acts. It is a sum and
not a product, so each part is checked as if it were alone.

### CageWatch

`disk`, `blocked` and `quiet` belong to the agent; `baseline`, `pending` with its order
`older`, `ask`, `rejects`, `contested` and the summary variables are the fields of the
decision engine; `journal` is the manifest last written; `screen` and `key` are the
terminal. A JavaScript `Map` iterates in the order of insertion, so `pending` and `older`
together are the Map's keys: `IsHead` is its first key.

A handler is atomic in memory and is cut wherever it reads or writes a file: the snapshot
of `tick()` (`TickScan`), each change it handles (`ObserveAsk`, `ObserveContested`,
`ObserveReport`), each overdue decision (`ExpireOne`) and the prompt (`TickEnd`) are steps
between which the agent may write. `pc` says which handler runs; another cannot start
before it ends, as in the event loop. A key waits in `key` while a handler runs: it is
meant for what was on the screen when it was pressed, and reaches whatever is the oldest
decision when it is delivered.

`KeptWasShown` and `HeadIsShown` are what the operator relies on: what is kept was shown,
and the prompt is always for the decision the next key answers. `ExitRestores` is what
the next run relies on. `QuestionsEnd` and `Settles` are the liveness properties: every
question ends, however often the agent rewrites the file, and once the agent stops the
files return to the baseline.

### CageJournal

Every rename or removal in the journal directory (inside the git directory of the work
tree) is a step, since the wrapper may be killed between any two. `man`/`manSha` and
`pids`/`pidSha` are the two files and their hash sidecars; a sidecar is the value its file
had when it was written, so "the hashes agree" is equality. `pc[w]` runs through recovery,
the start, the session or watch, and its end. A wrapper is killed by `Crash` at any step;
its command's processes run on.

Four history variables state the assumptions of the properties, no more:

* `approved`: what each file should hold — what anyone writes while no journal protects
  the file, what the operator accepts, what was there at the baseline;
* `lost`: something happened that no record on disk shows — processes not in `pids.json`
  are alive at recovery or at the exit diff (the list is refreshed by a timer), somebody
  writes after the last look at the files, or an operator removes the directory while
  such processes are alive;
* `failed`: a restore failed (recovery goes on and removes the journal);
* `torn`: a wrapper was killed between the renames of a file and its sidecar, or while it
  removed the directory.

`TamperNeverBaseline`: without those, no wrapper ever takes a file for its baseline that
nobody approved. `KillIsCleanedUp`: a kill that is not `torn` is always recovered, and its
recorded processes are dead before the next run starts. The run and the theorems assume
`~Concurrent` (no two wrappers start or end at the same time: the code takes no lock
between reading the manifest and writing its own) and, for the baseline, `~RulesChange`
(no rule file appears or is accepted while a journal is there: recovery rebuilds the plan
from the rule files of the moment). Without either TLC finds the counterexample that
"What the code does not promise" describes.

### CageSession and RuntimeExec

`alive` and `parent` are the process tree; a child of a dead process is an orphan and no
longer listed. `queued` and `first` are `terminate()`: a call lists the tree, sends
SIGTERM, waits out the grace period, lists again and sends SIGKILL to both. A process may
obey SIGTERM (`Exit`) or not. `TickScan`, `TickRestore` and `TickEnd` are one tick of the
live check; `ExitEvent`, `FinalScan` and `FinalRestore` the end of the session. Signals
are trapped until the exit event; after it, one ends the wrapper (`pc = "killed"`).

`ListedAreGone`, `UnresolvedIsReported`, `LiveRestoresBounded` and `HaltEnds` are what a
caller relies on: no listed process is alive when the exit diff is taken, what is not
restored is reported, restores are bounded, a halt ends.

`RuntimeExec` has flights of `gantry runtime exec` and of its MCP tool beside an editor:
the scan of the forbidden zones before the spawn, the worker and its timer, the scan after
it and the error file, written once by the command and twice by the tool.
`FlightsAreTold` relates a flight's status and error to what happened to it and in the
zones; `TimeoutsEnd` says that a timeout ends a flight whose worker obeys.

### CageScope

A check writes a git tree through an index of its own. `index` is the set of paths in that
index and `Hides` what a `.gitignore` of a given content excludes, so what a check sees
(`Added`) depends on the `.gitignore` files on disk at that moment. `ExitRestoresScope`
says that two passes at the exit are enough.

### LedgerChain and LedgerLog

A commit names its whole history, so `ref[r]` is the sequence of the entries from the
first commit to the tip. Entries carry the hash of the one before (`prev`); SHA-256 is
taken to be injective, and an entry is told apart from others by the call and the attempt
that built it (it holds a time and a payload). A call runs through `Call`, `ReadTip`,
building and committing (no other process sees these objects, so they are part of the
swap) and `Cas`, with a bounded number of attempts.

Git may fail at each command: `rev-parse` failing looks like an empty ledger
(`ReadTipFails`); `show` or `commit-tree` failing ends the call (`BuildFails`);
`update-ref` may fail (`CasFails`), or move the ref and still be reported as failed
(`CasUnreported`). In the last case the call tries again and the entry may be in the
ledger twice; such a call is `marred`, and the properties say what holds of all others. A
process may die at any point (`Crash`). `Push` and `Fetch` only fast-forward.

`LedgerStands` is `verifyLedgerChain` succeeding in every repository at every moment
(`Linked`), and what a caller is told standing for good (`AnswerIsTrue`): the entry of an
append that returned is in the ledger, exactly once, and one that threw left none.
`GivesUpOvertaken` bounds when retries run out; and `ImplementsLedgerLog` is refinement:
with `log` the callers of the entries of `ref` (`By`) and `answer` read off `pc`
(`AnswerAt`), every behaviour is one of an append-only log per repository.

### VerifyRun

Any number of verify runs, in three modes, over one repository: tracked content is one
value with the parts under the mission's roots and in its forbidden zones; `commits` is
every commit made and `head` the one checked out, so an amend moves `head` aside. Each
phase asks git again, and between any two of them an editor, a commit or another run may
act. `law[r]` is the mission as run `r` parsed it, `at[r]` the head its record will name.
`disturbed` is the one history variable of the properties: runs during which somebody
other than a run touched the tree or HEAD. `HalfWritten` is the record of a run that was
killed while it wrote it (the write is not atomic).

`RecordsAreTrue`: the record of an undisturbed run names a commit whose content is what the
gate ran on (`RecordNamesTested`), and a PASS refers to a record some run wrote under the law
the judge read (`PassIsBacked`). `PassMeansTested` composes the two: the roots hold what the
gate passed on.
`LawIsKept`: the law and the zones are those of the Planner's stamp.

### PathLaw, CageRules, TreeLaw, ChangeContract, Automation and Rules

Rules that have no state are operators; `Rules` asks them every question of a bounded set
of paths, laws, trees, contracts, repositories and documents, one question in each initial
state and its answer in the next, and states what the answers have in common. Patterns are
sequences of names with `*` and `**`; YAML, import syntax and messages are left out, what a
file imports or exports is a field of it.

* `NoLevelWidens`: tightening a law, adding a `.cage.yaml`, a policy, a contract or a flag
  never permits a path that the level above denies; overrides weaken only what is marked
  overridable.
* `SuggestionsAreFinal`: `cage suggest` proposes entries that parse, and none that are in.
* `TreesAreJudged`: the ratchet of `arch check` raises no budget, and a tree that passes has
  no file that fails when it is named.
* `ChangesAreBound`: what binds a change comes from its base, whatever the change itself
  or its task's contract say; `ResultsAgree`: the SARIF and JUnit exports show a finding
  exactly when the run fails, and what `--check-result` accepts the same run would answer
  again (`AcceptedHolds`).
* `UpdatesCompose`: two dependency updates in a row are one, so the hook (by commit) and
  CI (by range) agree.

### CycleSearch

`evaluateCycles` is Tarjan's search, and the one rule that is an algorithm rather than a
test. It is a machine here: `calls` are the visits that have not returned, `left` the
imports a visit still has to look at, `index`, `low` and `stack` the code's own. A step
enters a file (`VisitFile`, `VisitImport`), looks at one that was visited before (`LookAt`),
or returns (`ReturnToEarlier`, or `ReturnWithSet`, which pops a set). Files and imports are
taken in any order, where the code has the order of names and of the source.
`CyclesAreFound`: a search that has visited every file has found the sets of files that
import each other, as `TreeLaw` defines them (`Cycles`, by `Reaches`): all of them, no other,
and a single file only if it imports itself.

### Contribution

Commits with parents, author, signature, mission and tree; a topic branch and main, each
here and on the remote. `Commit`, `Amend`, `MergeMain`, `Checkout`, `ForwardMain`,
`FetchMain`, `MainMoves` and `PushTopic` come in any order, so main and the branch may be
merged into each other again and again. `PushTopic` computes the range as the pre-push hook
does (`MergeBases`, `PushBase`, `RangeMissions`), and `Check` answers as CI does.

* `HandoffsAreStamped`: a branch that is pushed plainly (no history rewritten on the way,
  main here no further than main there: `so`) brings no mission file, as main never had it,
  that no Planner stamped. "Main never had it": in no commit that main, as last fetched, and
  the branch share.
* `PerimeterContentIsSigned`: what a pull request that CI accepts makes of a protected file
  was made by a signed commit of it (`IsMadeHere`), or main had it once and a merge brought
  it (`IsFromMain`).

`PathLog` is `git log base..head -- file` with git's simplification of history: a merge that
has the file as one of its sides leads to that side only.

### VerifyOutcome, Upgrade, OrgPolicy, Scaffold

`VerifyOutcome`: two processes read the feed and later replace it. `log` is what was done
to the feed in order, and `BreakerIsExact` says what the breaker does in terms of it: a
failure that comes back stops the run while the ring still holds it, and nothing else does.

`Upgrade`: plan and apply as copies, renames and a version file; `mixed` are applies whose
shared directories another plan or apply touched meanwhile. `UpgradeIsWhole`: wherever an
apply fails or dies, every managed file is whole and none is older than the pinned
version; `InstallsWhatWasChecked`: what is renamed into place has the hash the mission
names. `Edited` and `HalfCopied` are contents like the versions of the bundle.

`OrgPolicy`: pulls, a migration between the two forms of the pointer, a cache by commit
and by branch name, and a verify that reads pointer, hash and bundle one after the other.
`PassMeetsTheFloor`: a verify that passed had settings no lower than the floor of the
policy it was pinned to.

`Scaffold`: runs of `gantry init` beside a user who edits. A file is absent, as its template
has it, `half` written, or the user's; the order of the steps is the code's, and between the
list of conflicts and the answer to it (`InitPlan`, `InitAnswer`), between two writes
(`InitWrite`), and between the read of an ignore file and its replacement (`MergeRead`,
`MergeWrite`), anything may happen. `since[i]` is what somebody else changed after run `i`
last looked. `InitIsSafe` is three statements about every step: the user's work is written
over only where init manages the file and was forced to, or was told to after showing it
(`WorkIsKept`); an ignore file loses no line (`LinesAreKept`); and a run that comes to its
last writes has completed the scaffold, whatever earlier runs left (`ScaffoldIsComplete`).
Each allows for what is in `since`, and the second for a run that is killed in the write.

### DraftLegislation, Interrogation, TraceEvidence, GateRun, ArchAccess

`DraftLegislation`: two servers and a command line over one key, one list of used tokens
and one directory of missions. `SpentOnce`: a token is accepted once, but for the three
ways round that are the code's (the list keeps only its newest entries, two servers are at
it at once, a crash while the list is empty). `AnswersStand`: the file named in an answer
is the one its call wrote until somebody removes it, and a number has one file, but for
calls that ran beside each other.

`Interrogation`: gaps depend on the intent and on the skill and architecture files,
findings on the gaps, and each finding has an id made of what it is about. The operator
edits, answers and commits; `Verify` finds the newest stamp within `ScanDepth` commits.
`InterrogationBinds`: a mission that verifies has an own answer to each gap, with its
references, and the answers are in a commit of the Planner's.

`TraceEvidence`: a log with a line history, rows that quote lines, edits that move or
restart either. `TraceIsFresh`: a PASS row rests on a line that is not committed yet, or
was committed with the content the roots have now.

`GateRun`: gates of one mission share a log; children write after their parent's exit and
`close` comes when the last of them is gone. `GateIsItsOwn`: a gate that passed ended with
0 and its needle is in the last part of its own output, unless two gates ran at once.

`ArchAccess`: `SecretsStayInTheirSlot`: a fetch sends a secret only to the document of the
slot it was stored for, whatever changes between its steps.

## Runs

| Run | Instance | Shows |
|-----|----------|-------|
| watch_content | two paths, one of them rewritten with three digests, one oversize; timeout 1, limit 1 | HeadIsShown, KeptWasShown |
| watch_live | a path that may become unrestorable and a report-mode path; the journal write may fail | ExitRestores; under fairness QuestionsEnd, Settles |
| journal | `.cage.yaml` and a file it lists; a watch and two sessions, each killed anywhere | TamperNeverBaseline, KillIsCleanedUp |
| supervision | two paths, one unrestorable, a command and two helpers, one signal, halt on and off; or two flights, one of whose workers ignores SIGTERM | ListedAreGone, UnresolvedIsReported, LiveRestoresBounded, FlightsAreTold; under fairness HaltEnds, TimeoutsEnd |
| scope | a `.gitignore` with three contents, one file of each kind | ExitRestoresScope |
| scope_ignored | the same | IgnoredLeftAlone is violated |
| ledger | two calls in one clone, one in another; two attempts, two git failures | LedgerStands, GivesUpOvertaken, ImplementsLedgerLog |
| verify | two runs in any mode, three contents, two laws, two edits, three commits, a crash | RecordsAreTrue, LawIsKept, PassMeansTested |
| rules | the sets of `MCRules`, about 950,000 questions; or the search in each graph of `MCRules` | NoLevelWidens, SuggestionsAreFinal, TreesAreJudged, CyclesAreFound, ChangesAreBound, ResultsAgree, UpdatesCompose |
| contribution | a code file and a protected one, two missions, four identities, five commits (a history of five with one of the bot's is checked, and not continued) | HandoffsAreStamped, PerimeterContentIsSigned |
| governance | two verifies of two missions; or two applies; or two pulls and a verify; or an init beside a user, with two edits or kills | BreakerIsExact, UpgradeIsWhole, InstallsWhatWasChecked, PassMeetsTheFloor, InitIsSafe |
| missions | two servers; or an operator; or an executor; or two gates; or a document and three slots | SpentOnce, AnswersStand, InterrogationBinds, TraceIsFresh, GateIsItsOwn, SecretsStayInTheirSlot |

Deadlock is not checked: every one of these programs ends (a watch is stopped, a session
is over, a call has returned), and a state in which nothing is left to do is where they
are meant to arrive. That they do not stop earlier is what the liveness properties say.

scope_ignored is expected to fail, and is the finding of `PROJECT.json`: a command that
drops a line of `.gitignore` exposes files that were ignored at the baseline, and the next
check removes them, where `docs/cage/protected-paths.md:53` says they are left alone.

### Bounds, and why they are enough

* *Paths.* The watch treats paths one by one except in the order of the questions, the
  screen and the exit code; two paths give every order. One of them takes several
  contents in watch_content; in watch_live one content suffices, since what is asked there
  is only whether something differs.
* *Time.* `Timeout` counts units of an abstract clock: 1 gives a deadline that is reached
  before, between and after any two events.
* *RejectLimit = 1* and *Limit = 1* make the first rejection the contesting one and the
  second restore the halting one; the proofs hold for any limit.
* *Wrappers.* A crash, a recovery that crashes too, and a third run that cleans up after
  both need three; the watch is one of them, since only it changes the baseline.
  `Blockable` is empty there: a failed restore only sets `failed`, which the properties
  that need it exclude.
* *Helpers = 2* gives a tree in which a middle process dies between two listings, and a
  process forked in a grace period. One signal with a halt makes two terminations queue.
* *Ledger.* Two calls of one clone race; the call in the other clone makes the remote
  refuse. `MaxAttempts = 2` has a retry that succeeds and one that gives up, and
  `MaxFaults = 2` lets failures hit one call twice or two calls.
* *Verify.* Two runs: the one that writes a record and the one that is judged by it, or
  two writers. Three commits and two edits: a stamp, a change after it and an amend of
  either. `ScanDepth` is larger than the commits; what happens otherwise is in "What the
  code does not promise".
* *Contribution.* Five commits: two on one side and one on the other, a merge each way, and
  what is made of them. Three edits, of a trusted robot, of somebody and of the Planner, who
  signs; the last two change a mission file and the protected file. The proofs hold for any
  number of commits and any edits.
* *Governance.* `RingCap = 1` drops an entry at the second report. Two versions and two
  plans let a plan replace another's staging directory; each counter of faults is the
  least with which a fault can meet one of the other process. One file of each kind that init
  treats alike, one line of the user's and one of init's; two mishaps are an edit and a kill
  that hit one run. One init runs at a time there; the proof is of any number at once.
* *Rules.* Each set has the values that the rules tell apart, and both answers of every
  test. The search runs in every graph of three files and in the subsets of eight imports among
  four, in every order of visits: nested and adjoining cycles, and imports of a file that has
  left the stack already. The proof is of any graph.
* *Missions.* `ReplayCap = 1` drops a used token at the second; `TTL = 0` makes expiry
  meet the trim. Two intents share a path and one does not; three lines and two
  versions of a log suffice for a quote that moves away and comes back; two slots have
  one file name (`a/b` and `a__b`).

`SYMMETRY` is used where the values are interchangeable and the run has no liveness
property: the two sessions of journal, the two calls of one clone in ledger, the runs of
verify, the processes of governance and missions.

### Fairness

* *CageWatch*: weak fairness of `Tick` (a timer calls it again and again), of `Stopping`
  (a handler that runs is finished) and of `Clock`. Nothing is assumed of the agent, the
  operator or of anybody stopping the watch.
* *CageSession*: weak fairness of what the wrapper has begun (`TickStep`, `Finish`,
  `Terminate`, `TerminateSkip`), and strong fairness of `ExitEvent`, `Kill` and
  `FinalScan`. These three wait for a moment between two ticks, so they are enabled again
  and again rather than all the time; the event loop visits timers, child exits and
  promise callbacks in turn, so none of them is passed over for ever. Nothing is assumed
  of the processes: none has to obey SIGTERM or stop writing.
* *RuntimeExec*: weak fairness of the steps of each flight (`ExecStep`), of the timer and,
  for the workers named `Obedient`, of obeying SIGTERM. `TimeoutsEnd` speaks of those.
* The other specifications are about safety and assume no fairness.

## Proofs

All proofs hold for every value of the constants that satisfies the modules' `ASSUME`s:
any set of paths, contents, processes and clones, any timeout, limit and number of
failures. A theorem says in its own hypotheses what it assumes beyond that.

* `CageWatchProofs`. `TypeCorrect`: one lemma for each handler. `PromptIsForTheHead`:
  `HeadIsShown` speaks of the times between handlers; `PromptInv` adds what holds inside
  them too, that only the first key of the Map has been shown anything and the screen still
  shows it (`ShownIsHead`), and that the order never holds a pair both ways (`QueuedOnce`).
  `NothingKeptUnseen`: an accept compares the disk with `ask[p].shown` and not with what was
  printed, so `KeptInv` adds `ShownWasPrompted`. `ExitIsClean`: what is not on the list of
  `stop()` is at the baseline and stays there for as long as nobody writes.
* `CageSessionProofs`. All safety properties of the session from one invariant,
  `SessionInv`: `Counted` (terminations queued ≤ signals + halts), `Listing` (of the
  listed processes only those of the termination in its grace period may live), `Bounded`
  (a tick without a halt restores only paths under the limit) and `Ending` (what the exit
  diff has dealt with is restored or recorded as unrestored). `FlightsTellTheTruth` from
  `FlightInv`: two that are under way at once are marked as such (`FlightsApart`), the scan saw what
  was there (`ScanSaw`), and an error file that a flight wrote alone is its own (`ErrorKept`).
* `CageScopeProofs`. `ScopeRestored` for any number of `.gitignore` files under
  `RulesInBaseline`: every one of them is in the baseline and is one the cage restores.
  `ExitInv` says, for each place of the exit, which paths may still differ.
  `AreaIsUntouched`: whatever is listed for a restore lies outside the area and is not
  overridden, whichever check listed it, and the cage writes nothing else.
* `CageJournalProofs`. `JournalTypeCorrect` holds without hypotheses; `KillsAreCleanedUp`
  and `BaselinesAreApproved` from `IInv`, in the order of its parts: who is at work
  (`SoleInv`), whom the journal belongs to (`OwnerInv`), which of its files are whole
  (`DirInv`), what can be recovered (`KillIsRecovered`), which processes can be left
  (`AliveInv`), and how files, manifest and approval hang together (`DataInv`: `GuardInv`
  for the paths a journal guards, `StageInv` for the wrapper's own steps).
* `LedgerProofs`. `LedgersVerify`: `LinkedInv` adds that every tip a call has read verifies.
  `EntriesStand` adds what calls are told: `AnswerInv` says of every chain anybody holds, a
  ledger or a tip that was read, that it has no entry of a call that did not land and no two
  of one call (`Fits`), so neither a swap nor a push can bring a second one; and that the
  ledger of a call that landed has it (`Informed`). `RetriesRunOutOnlyOvertaken`: `CountInv`
  carries the count through the call: failed attempts ≤ growth of the ledger since the call
  began + git failures it met. `LedgerIsALog`: initial states map to initial states and
  every step to a step of `LedgerLog` or a stutter.
* `LedgerProofs`, the branches, from `HistoryInv`: a commit contains its parents and all they
  contain, and is younger than these. `PushesAreStamped`: `HandoffInv` carries
  `StampedOrMains` from push to push. What the hook compares with is known to main or was
  pushed before (`PlainBases`), so a file it does not verify is as main had it, or as the last
  push left it; and commits of others take no stamp away (`StampsStay`).
  `PerimetersAreSigned`: the walk of `git log` exists (`SeenExists`, by induction over the
  commits) and from each commit on finds who made the content, or a merge that has it from
  main, or shows nothing at all (`ContentIsTraced`, by the least commit for which it does not).
  `ContributionAssumption` says what edits are: contents, missions and flags.
* `VerifyProofs`, the runs. `RecordsAreHonest`: `RecordInv` follows an undisturbed writer
  through its phases (`Held`) and says that such a run judges nothing (`Unjudged`).
  `PassesAreBacked`: `BackedInv` says who wrote what a record holds (`WroteIt`);
  `RecordsCanBeTrusted` is both, as the run checks them.
  `PassesAreOnWhatWasTested` combines the two. `TheLawIsKept`: `LinesInv` says that every
  line of history ends with the first stamp, and `LawInv` that a run past its contract
  phase was checked against a stamp of its law. Its hypothesis, `ScanDepth >= MaxCommits`,
  is that the window of the scan covers the history.
* `VerifyProofs`, the rules; there is no state, so these are lemmas about operators.
  `LevelsOnlyNarrow`: the judgement is the strictest verdict of the table
  (`JudgeIsStrictest`, `StrictnessBounds`), tables are joined and never shortened
  (`JoinedLists`, `MissionLawSays`, `PlanIsLaw`, `TheFloorStands`).
  `ChangesAnswerToTheirBase`: what a change can reach is not read (`SameVerdict`), and the
  merged law holds all of the repository's (`RulesAreKept`, `LimitsAreKept`, `LawBinds`).
  `AcceptedResultsHold`, of results of any size. `UpdatesAreOne`: updates of manifests,
  entries, lockfiles and pins each compose (`ManifestUpdatesAdd`, `EntryUpdatesAdd`,
  `LockfileUpdatesAdd`, `PinChangesAdd`). `TreesAreJudgedAlike` and `ResultsSayTheSame`
  compare sums over sets of files: that a sum exists, is a number and is monotonic
  (`SumsExist`, `SumsCompare`, `SumsAreMonotonic`) is proved by the least size for which it is
  not, and carries over to counts and findings (`CountsAreNat`, `RatchetLowers`, `NamedPass`,
  `WorseTotalsShow`, `TestFindings`, `ExportsShow`). `ProposalsAreFinal`: a pattern matches
  itself (`MatchesExist`, `MatchesItself`), so what is saved is covered by its own entry.
  `RulesAssumption` says what the questions are made of: finite trees and repositories with
  sizes in Nat, as counted; a baseline with sizes in Nat, which the code reads from
  `ARCH_BASELINE.json` and trusts; and configurations as they are parsed.
* `VerifyProofs`, the search for cycles. `EveryCycleIsFound`, from `SearchInv`, about every
  moment of a search. A call reaches what is above it on the stack (`Descends`), and what is
  above it up to the next call reaches it (`Ascends`), since nothing stays on the stack that
  does not lead back to a call. `low` of a call is the index of a file on the stack that the
  call reaches (`Rises`), and no import looked at on its behalf is earlier (`LeadsOn`). So a
  set that is popped is closed under imports but for what was popped before
  (`SetsAreRight`), and its members reach each other: it is a component. `Reaches` is defined
  by closed sets instead of paths, which makes its transitivity a step of set theory, with no
  induction over a path.
* `GovernanceProofs`. `FloorsAreMet`: `CacheInv` and `PullInv` tie what is cached to the
  commit it was fetched from, `PinInv` the pointer to a hash, `VerifyInv` what a verify has
  read so far to both. `UpgradesAreWhole`: `OwnInv` (what an unmixed apply has staged and
  copied is of its mission's version) and, while nothing was mixed, `PureInv` (no managed
  file is older than the pinned version). `InstallsAreChecked` is the action property, from
  the same invariant. `BreakerStopsLoops`: `ReadInv` and `RememberedInv` relate the ring, in
  the feed and in a process, to the failures in `log` that it stands for.
  `BypassesAreAudited`: `AuditInv` says that a run about to write the row is behind its
  audit, and that a note gives way only to another one. `InitIsSafeForAll`: `InitHolds` says
  what a run knows. What it has left to write, or would write after a yes, is the user's
  only where it may write over it or where somebody put it there since; the rest of its
  profile is in place. While others work this stays so, because what they change is in
  `since` (`PlansStay`).
* `MissionsProofs`. `SecretsAreNotMixed`, `GatesJudgeTheirOwn` from an invariant each.
  `TokensAreSpentOnce`: `ListInv` says that the list is the newest part of all that was
  accepted and `NoNearRepeats` that no token
  comes twice among as many as the list holds. `AnswersHold`: a server about to write found no
  file of its mission's number, or is `Excused`: told to write beside it, or marked by the
  one that wrote since. `AnswersBind`: an id fits one gap (`IdsIdentify`, `GapsFit`), and
  the stamp the scan finds is a Planner's commit with the answers (`StampedByVerify`).
  `EvidenceIsFresh`: the line a row resolves to holds its quote (`ResolvedIsQuoted`), also
  after a move (`KeptIsQuoted`). "The newest stamp" and "the first line" are least elements
  of sets of numbers, which exist by the library's theorems on well-founded relations.

TLC has checked each of these invariants, the strengthened ones too, on the instance of
the run before it was proved.

### Only model-checked

* `QuestionsEnd`, `Settles`, `HaltEnds`, `TimeoutsEnd`: TLAPS has no support for reasoning
  about fairness and `ENABLED`.

Every other property of a run is a theorem as well. The theorems of `VerifyProofs` about rules
are of operators; that `Match` and the sums of `TreeLaw`, which are functions defined by
recursion, have a value at all is proved there by least elements.

### What proving changed in the model

Every proof was of the model TLC checks, and several made it say more exactly what the code
does: `CASE` arms that overlapped where the code has an `if` chain (`GateRun`,
`RuntimeExec`, `TraceEvidence`); a key for drafts that two servers make at one time
(`NewKey`); the verdict a rule gives instead of the list of rules that hit (`PathLaw`); the
line of history each commit is on (`VerifyRun`); the guards of accepting somebody else's
result (`AskAccepted`). The search for cycles was a recursive operator over one record; as a
machine with a step for each call and return it has states an invariant can be about, and
TLC now tries every order of visits. Assumptions that the code gives and the model had left
unsaid became `ASSUME`s: that no mission is the absence of a note (`NoteAssumption`),
`ContributionAssumption`, `CommitsAssumption` and `FloorsAssumption` (a floor has the same
settings in every bundle), `DraftAssumption`, the editor not being a flight. A prefix
operator next to a binary one (`UNION S \cup T`) is read in two ways by the two parsers in
use, so these have parentheses. `Match` is a function of one position that gives sets of
positions, and totals are `SumFunction`s, which can be reasoned about.

Two properties of `Contribution` were too strong, and an instance with four commits was too
small to say so. The first versions compared with the merge base of the branch and main.
After merges both ways there are several best common ancestors, and the hook and CI look at
one: with five commits, a mission file that main itself had brought counted as unstamped;
with six, a protected file was as a merge had it from an older main, beside a signed commit
that had it otherwise. The properties now say what the code ensures, which the failed
proofs showed.

## Faulty variants

A definition whose name has an underscore is the definition after it with a plausible
mistake. No specification uses one; each shows that a property would notice.

| Property | Variants that break it |
|----------|------------------------|
| HeadIsShown | `AnswerReject_NoPrompt` |
| KeptWasShown | `StillAsShown_Unchecked` |
| ExitRestores | `StopScan_Uncontested` |
| QuestionsEnd | `PutQuestion_Extends` |
| Settles | `ObserveContested_Leaves` |
| TamperNeverBaseline | `RestoreConfig_Skipped` |
| KillIsCleanedUp | `KillOrphans_None`, `WriteBlobs_None` |
| ListedAreGone | `Kill_Relisted` |
| UnresolvedIsReported | `Unresolved_LiveWins` |
| LiveRestoresBounded | `OverLimit_OffByOne` |
| HaltEnds | `Kill_Never` |
| FlightsAreTold | `Same_HashOnly`, `StatusOf_TimeoutFirst`, `OpenError_NotTimeout` |
| TimeoutsEnd | `Timer_NoKill` |
| ExitRestoresScope | `FirstPass_Only` |
| LedgerStands | `BuildFails_Genesis`, `Swap_Blind` |
| GivesUpOvertaken | `Retry_TooFew` |
| ImplementsLedgerLog | `FastForward_Forced` |
| RecordsAreTrue | `CleanAgain_Skip`, `Accepts_AnyLaw` |
| LawIsKept | `StampIn_AnyPlanner`, `Sealed_ZoneAtParent` |
| PassMeansTested | `Accepts_AnyTree` |
| NoLevelWidens | `Tighten_Replaces`, `MissionLaw_NoPolicy`, `PlanLaw_GlobsFirst` |
| SuggestionsAreFinal | `PlanLaw_BeforeEntries` |
| TreesAreJudged | `Rose_Files`, `CheckTree_StructureOnly` |
| CyclesAreFound | `LowOf_NoStack` |
| ChangesAreBound | `MergeRepositoryLaw_TaskRules`, `BaselineFile_Disk` |
| ResultsAgree | `ResultProblems_NoBase`, `WorseningFiles_NoAllow` |
| UpdatesCompose | `EntriesAreUpdates_New` |
| HandoffsAreStamped | `RangeMissions_Added` |
| PerimeterContentIsSigned | `TouchesOf_NoMerges` |
| BreakerIsExact | `DigestOf_Lines`, `RingOf_AnyMission` |
| UpgradeIsWhole | `CopyBegin_InPlace`, `WriteVersion_First` |
| InstallsWhatWasChecked | `HashesHold_Exist` |
| PassMeetsTheFloor | `Selected_First`, `HashHolds_Exists` |
| InitIsSafe | `Writes_Any`, `Overwrite_OldPlan`, `Merged_Only` |
| SpentOnce | `ValidToken_NoReplayCheck` |
| AnswersStand | `Clear_Any`, `Clear_PathOnly` |
| InterrogationBinds | `FindingId_NoPaths`, `Closes_NoRefs`, `Stamps_Anyone` |
| TraceIsFresh | `Resolved_Declared`, `Stale_Newest` |
| GateIsItsOwn | `GateStart_Keeps`, `Closed_OnExit` |
| SecretsStayInTheirSlot | `Loaded_AnySlot` |

## What the code does not promise

These are defined in the modules, next to the properties that hold. They are the stronger
statements one might expect, or that a document makes, and TLC finds each of them violated
by a behaviour of the model: on the instance of the module's run, or one a little larger
(`Concurrent` or `RulesChange` TRUE for the first two, two signals for `OutlivesSignals`,
six steps for `EveryTraceIsFresh`, a file outside the zones for `EditRootsAreKept`, the
instance of watch_live for those of `CageWatch`). `IgnoredLeftAlone` alone is kept as a run.

| Definition | Module | Why it fails |
|------------|--------|--------------|
| `OneAtATime` | `CageJournal` | two runs started together both find no journal (`cage-journal.ts:338`; `docs/cage/watch.md:60`) |
| `OnlyProtectedRestored` | `CageJournal` | recovery rebuilds the plan from the rule files of the moment (`:355`) |
| `OutlivesSignals` | `CageSession` | a signal after the exit event ends the wrapper before the exit diff (`cage-process.ts:149`) |
| `IgnoredLeftAlone` | `CageScope` | see above |
| `RestoresOnlyRewritten` | `CageScope` | a tracked, ignored file that was deleted once is restored at every tick (`cage-scope.ts:134`) |
| `JournalIsBaseline`, `CleanExitMeansApproved` | `CageWatch` | the baseline has moved when the journal write throws |
| `ContestedNotAsked` | `CageWatch` | a failed automatic restore takes a path off the contested list |
| `EveryRecordNamesTested` | `VerifyRun` | a record says nothing of what happened between the two looks at the tree |
| `ReceiptNamesJudged` | `VerifyRun` | the receipt reads the record file again (`verify-run.ts:65`) |
| `TasksAreBoundByLayers` | `Rules` | layers of one name are united, and the first match decides, so a task can move a file to another layer |
| `HandoffsAreVerified` | `Contribution` | a branch merged into main here before the push has no range to verify (`git-hooks.ts:137`; `docs/start/install.md:65`) |
| `OnlyPassesForget` | `VerifyOutcome` | the one feed is every mission's |
| `NotesAreKept` | `VerifyOutcome` | `git notes add -f` replaces a note |
| `AppliesWhatWasApproved` | `Upgrade` | the stamp is of the mission's name; a later plan writes over the file |
| `PullsAreInForce` | `OrgPolicy` | a pointer to a branch name leaves no policy in force (`docs/guides/org-control-plane.md:44`) |
| `RecordIsSealed` | `Interrogation` | rows and declared paths may come from two stamps |
| `EveryTraceIsFresh` | `TraceEvidence` | two rows with one `dod_id` share a freshness check (`trace-quote.ts:86`) |
| `PassIsItsOwn` | `GateRun` | two gates at once write one log |
| `TimeoutsKill`, `EditRootsAreKept` | `RuntimeExec` | SIGTERM only; only the forbidden zones are looked at |

Defined and proved, without a place in a run: `ExitIsClean` of `CageSession`
(`SessionEndsClean`), `AreaUntouched` of `CageScope` (`AreaIsUntouched`) and `RowsAreAudited`
of `VerifyOutcome` (`BypassesAreAudited`). TLC has checked them on the instances of those
modules' runs.

## Seen while modelling

Read off the code, without a run of their own.

*Cage.* A key pressed for one prompt may answer the next one, since the prompt may move
while the key waits in the terminal. Recovery removes the journal also after a failed
restore (`failed`). A kill between two renames leaves a journal that is refused as corrupt
(`torn`). `.gitignore` files that hide each other need more than two passes
(`RulesInBaseline`). `log.append` may throw in the middle of a handler
(`cage-watch-decisions.ts:172`). A pid may be reused between listing and SIGKILL
(`cage-process.ts:125`). The push guard reads a git failure as an empty range
(`cage-push-guard.ts:139`). `--allow-override` values are matched as patterns while the
validation compares literal text; the check against downgrading a built-in rule looks at
path entries only.

*Ledger, policy.* `docs/guides/org-control-plane.md:48` ("parallel CI jobs never fork the
chain") holds within one clone; jobs in fresh checkouts
(`.github/workflows/gxt-attest-ingest.yml:129`) each begin a chain of their own and all but
one push is refused. `verifyLedgerChain` answers ok with count 0 when `rev-list` fails
(`ledger-chain.ts:119`). The policy hash is of the cached file read back; verify reads the
bundle twice; `git verify-commit` is not compared with `signers[]`; a migration that is
killed leaves two equal forms, and a pull during one leaves an ambiguous pointer; two
repositories can share a slug.

*Verify.* Untracked files under the roots are not seen by `git diff --name-only`
(`git.ts:137`), though RULES.md:18 says "in the working tree". When the history is longer
than the scan window the stamp slides out of it and `contract.ts:145` skips the seal. A
failed export after the "passed" receipt is kept as an init failure without a mission and
empties the ring. RULES.md:83 wants a ledger row for break-glass, the code exits 0 with a
warning; ADR-0037:68 wants `--break-glass` with `--export`, which is refused. Break-glass
failures exit 1 in JSON and 2 otherwise. The position in the ring is not refreshed when a
digest recurs.

*Drafts, interrogation, traces.* `LEGISLATE_FAILED` is answered as retryable though the
token is spent. A torn list or a crash forgets used tokens; two first drafts race for the
key. Declared paths are no part of the digest of an interrogation; a removed block passes
unless it is required (RULES.md:39); a mission cleared with no findings can never pass
`--require-interrogation` (ADR-0039:37); a second stamp makes the first one's touch of the
mission file drift; an architecture with layers and no scan roots never asks about paths
outside every layer (`gaps.ts:90`); `interrogationSha256` does not sort its rows, as its
comment says. An explicit path to a missing mission falls through to other candidates in
`resolveMissionFromCandidates` and does not in `resolveMissionPathRequired`.

*Exec, gates, upgrade.* The MCP tool writes the error file twice; a success leaves a stale
one; `--timeout-ms` 0 is no timeout and values above 2^31−1 fire at once; forbidden zones
are scanned as literal paths; a second flight without `--append` truncates the first one's
log. A gate has no timeout and waits for `close`; its log keeps the last 20 MiB, so an early
needle is missed. Planned writes need not be among the staged hashes; staging is removed
after a failure too; a failure while copying leaves `.upgrade-apply-tmp`; applies share one
directory and one `.tmp` name, and no version is compared.

*Init.* A yes to the prompt also writes over managed files that changed after the list was
shown: the second plan does not compare with the first. A run that is killed may leave the
version file with managed files missing; an upgrade plan then finds the version current, and
only another init completes the scaffold. A `scaffold_only` file cut short by a kill is taken
for the user's ever after. A kill while `.gitignore` is rewritten may lose its lines
(`file-merge-gxt.ts:38`). `ensurePlannerAllowlistOnInit` does not ask whether another source
(git config, environment) already names a Planner.

*Rules.* A pattern that is no regular expression silently forbids nothing, and a `require`
then always fails; two budgets of one layer share the first one's counts; a layer removed
and added again starts at its own size; `countedFiles` ignores the manifest's roots; a
duplicate rule with equal prefixes finds a file to be its own twin; the root subset test of
a contract compares literal prefixes while the law matches globs. `verify --contract` reads
HEAD by name after `prepare` read its commit, runs checks on the disk, takes the changed
files from the merge base and compares counts and imports with the tip of the base, and
reads a contract git does not track from the disk; a task's longer alias and its test files
loosen the merged law. A deleted workflow file passes `workflow_version_pin`.

*Hooks and CI.* After merges both ways a mission file that is put back to what an older main
had need not be verified (the base may be the merge base with a main here that is behind),
and a protected file that a merge takes from an older main needs no signature of its own, if
another commit of the pull request that touched it is signed. A push after an amend that
only drops the stamp verifies nothing. The hook skips missions that are not checked out;
CI's requirement of a mission ignores deletions (DEVELOPMENT.md:305); files of other
missions are not verified; a trusted range is judged by the rule of its oldest commit's
author; the comment at `perimeter.ts:78` does not allow for git's simplification of
histories; comments at the head of workflows name old scripts.

*Credentials.* Slots `a/b` and `a__b` share a file, and `arch cred status` then fails.

## Not modelled

Within the modelled parts: a scope inside a watch; `log.append` throwing; report-only and
`--no-watch` sessions; a failed restore in the scope; a reused pid; Windows; the wording and
layout of prompts and reports; reading a file while it is written (a snapshot is taken at
one moment); globs and YAML as text; signatures (a commit is signed or not); a fetch of
foreign branches; what gate adapters parse; the depth of JavaScript's own stack in the
search for cycles; the order of its findings; the dialogue of init and the text of its
templates; HTTP; missions of other repositories (`deps-*.ts`).

Whole parts: the command line, the MCP server and presenters, whose state changes are those
of the parts above; git helpers and schemas; examples, templates and
scripts. `PROJECT.json` lists every part with its status and reason.

## What is left

The missions of other repositories (`deps-*.ts`) are the next part to model, beside
`OrgPolicy`. The four liveness properties remain with TLC.

## Running

`tlc -config MCCageWatch_content.cfg MCCageWatch` checks one run; the longest takes about
three minutes. `tlapm LedgerProofs.tla` checks the proofs of a module; `VerifyProofs` and
`MissionsProofs` take longest, several minutes each.
