--------------------------- MODULE ChangeContract ---------------------------
(***************************************************************************)
(* Contracts for a change (packages/verify; `gantry verify --contract`):   *)
(* verify.yaml or a task's gate.json says what a change since its base may *)
(* touch, add, import and break, and which commands must succeed.          *)
(*                                                                         *)
(* A tree is a function from paths to files: lang, lines (a set), imports, *)
(* asserts and markers (counts of a test file).  A repository as a run     *)
(* sees it has the trees fork (the merge base), base, head and disk; the   *)
(* contract on disk and at the base and whether git tracks it; the         *)
(* repository's own verify.yaml at the base; the baselines; and what the   *)
(* commands of the checks do.  The imports of a Python file are absolute,  *)
(* from one root.                                                          *)
(***************************************************************************)
EXTENDS PathLaw, TLC

CONSTANTS None,   \* an optional field that is not there, a file that does not exist
          Index   \* the file that an import of a folder finds

NamesAreUnique(list) == \A x, y \in DOMAIN list : list[x].name = list[y].name => x = y

\* parseVerifyYaml, parseCommitlyGate: names are unique, and a layer may only name layers; the rest is in wellFormed.
ContractIsValid(c) ==
    /\ c.wellFormed
    /\ NamesAreUnique(c.rules) /\ NamesAreUnique(c.checks) /\ NamesAreUnique(c.imports) /\ NamesAreUnique(c.layers)
    /\ \A n \in DOMAIN c.layers : c.layers[n].mayNot \subseteq {c.layers[k].name : k \in DOMAIN c.layers}

\* mergeTests
MergeTests(repo, task) ==
    IF repo = None THEN task ELSE IF task = None THEN repo
    ELSE [files |-> repo.files \cup task.files, allow |-> repo.allow \cup task.allow]

\* The layers of one name become one, at the place of the first.
MergeLayers(repo, task) ==
    LET all == repo \o task
        isFirst(n) == \A k \in 1 .. n - 1 : all[k].name # all[n].name
        firsts == SelectSeq([n \in DOMAIN all |-> n], isFirst)
        same(n) == {k \in DOMAIN all : all[k].name = all[n].name}
    IN  [i \in DOMAIN firsts |->
           [name |-> all[firsts[i]].name, paths |-> UNION {all[k].paths : k \in same(firsts[i])},
            mayNot |-> UNION {all[k].mayNot : k \in same(firsts[i])}]]

\* Faulty variant: the rules of the task take the place of those of the repository.
MergeRepositoryLaw_TaskRules(task, repo) ==
    [task EXCEPT !.forbidden = @ \cup repo.forbidden, !.imports = repo.imports \o @,
                 !.rules = IF @ = << >> THEN repo.rules ELSE @, !.layers = MergeLayers(repo.layers, @),
                 !.aliases = repo.aliases @@ @, !.tests = MergeTests(repo.tests, @)]

MergeRepositoryLaw(task, repo) ==
    [task EXCEPT !.forbidden = @ \cup repo.forbidden, !.imports = repo.imports \o @, !.rules = repo.rules \o @,
                 !.layers = MergeLayers(repo.layers, @), !.aliases = repo.aliases @@ @,
                 !.tests = MergeTests(repo.tests, @)]

\* The fields of a contract, and of a repository; a list may be empty.
ContractFields == {"wellFormed", "base", "allowed", "forbidden", "maxAdded", "sizeExclude", "rules", "checks", "imports", "layers",
                   "aliases", "tests"}
IsContract(c) == DOMAIN c = ContractFields /\ IsList(c.rules) /\ IsList(c.imports)
RepoFields == {"fork", "base", "head", "disk", "dirty", "tracked", "onDisk", "atBase", "ownLaw", "isOwn", "baseGiven", "baselineInside",
               "baselineAtBase", "baselineOnDisk", "ran"}

\* What is on disk of a clean tree is the head, and the repository's own law is that file at the base.
IsRepo(repo) ==
    /\ DOMAIN repo = RepoFields
    /\ \A tree \in {repo.fork, repo.base, repo.head, repo.disk} :
         IsFiniteSet(DOMAIN tree) /\ \A path \in DOMAIN tree : tree[path].asserts \in Nat /\ tree[path].markers \in Nat
    /\ ~repo.dirty => repo.disk = repo.head
    /\ repo.isOwn => repo.atBase = repo.ownLaw
    /\ \A c \in {repo.onDisk, repo.atBase, repo.ownLaw} \ {None} : IsContract(c)
-----------------------------------------------------------------------------
(* What a run reads.                                                       *)

Refused == [source |-> "refused"]

\* loadVerifyContract: the file is read and parsed first; a tracked one is then taken from the base.
Loaded(repo) ==
    IF \/ repo.onDisk = None
       \/ ~ContractIsValid(repo.onDisk)
       \/ ~repo.baseGiven /\ (repo.tracked \/ repo.onDisk.base = None)
    THEN Refused
    ELSE IF ~repo.tracked THEN [source |-> "disk", contract |-> repo.onDisk]
    ELSE IF repo.atBase = None THEN Refused
    ELSE IF ~ContractIsValid(repo.atBase) THEN Refused
    ELSE [source |-> "base", contract |-> repo.atBase]

\* withRepositoryLaw: a contract that is not the repository's own also answers to that one.
InForce(repo) ==
    LET loaded == Loaded(repo) IN
    IF loaded = Refused \/ repo.ownLaw = None \/ (repo.isOwn /\ loaded.source = "base") THEN loaded
    ELSE IF ~ContractIsValid(repo.ownLaw) THEN Refused
    ELSE [loaded EXCEPT !.contract = MergeRepositoryLaw(@, repo.ownLaw)]

\* Faulty variant: the baseline is always the file on disk.
BaselineFile_Disk(repo) == repo.baselineOnDisk

\* loadBaseline: with a contract of the base, the baseline of the base.
BaselineFile(repo) ==
    IF Loaded(repo).source = "base" /\ repo.baselineInside THEN repo.baselineAtBase ELSE repo.baselineOnDisk

\* parseVerifyBaseline: one for another contract is refused.
BaselineIsRefused(repo) ==
    BaselineFile(repo) # None /\ BaselineFile(repo).contract # Loaded(repo).contract
Known(repo, name) ==
    IF BaselineFile(repo) = None THEN None
    ELSE IF name \in DOMAIN BaselineFile(repo).failures THEN BaselineFile(repo).failures[name] ELSE None

New(repo, mode) == IF mode = "worktree" THEN repo.disk ELSE repo.head
Old(repo, mode) == IF mode = "worktree" THEN repo.base ELSE repo.fork
Differ(new, old) == {p \in DOMAIN new \cup DOMAIN old :
                       ~(p \in DOMAIN new /\ p \in DOMAIN old) \/ new[p] # old[p]}

\* changedFiles: from the merge base, or from the base to the working tree.
Changed(repo, mode) == Differ(New(repo, mode), Old(repo, mode))

\* addedLinesOf, countAddedLines: of the files that still exist on disk.
AddedIn(repo, mode, path) ==
    IF path \notin DOMAIN repo.disk \cap DOMAIN New(repo, mode) THEN {}
    ELSE New(repo, mode)[path].lines \ IF path \in DOMAIN Old(repo, mode) THEN Old(repo, mode)[path].lines ELSE {}
-----------------------------------------------------------------------------
(* Imports.                                                                *)

LongestPrefix(prefixes, path) == CHOOSE p \in prefixes : \A q \in prefixes : Len(q) <= Len(p)
After(path, prefix) == SubSeq(path, Len(prefix) + 1, Len(path))

\* resolveJs: where a specifier leads, {} for a package.
JsTargets(imp, aliases, tree) ==
    LET known == {p \in DOMAIN aliases : IsUnder(imp.spec, p)}
        prefix == LongestPrefix(known, imp.spec)
        place == IF imp.relative THEN imp.spec ELSE aliases[prefix] \o After(imp.spec, prefix)
    IN  IF ~imp.relative /\ known = {} THEN {}
        ELSE IF place \notin DOMAIN tree /\ Append(place, Index) \in DOMAIN tree THEN {Append(place, Index)}
        ELSE {place}

\* pyImports: a name that is imported is a file before it is a name in one.
PyTargets(imp, tree) ==
    LET file(module) == CASE module \in DOMAIN tree -> {module}
                          [] module \notin DOMAIN tree /\ Append(module, Index) \in DOMAIN tree -> {Append(module, Index)}
                          [] OTHER -> {}
    IN  IF imp.names = {} THEN file(imp.spec)
        ELSE UNION {IF file(Append(imp.spec, n)) # {} THEN file(Append(imp.spec, n)) ELSE file(imp.spec) : n \in imp.names}

\* importsOf: what a file names, and where that is; a Python name is part of a module's name.
Modules(file) == {i.spec : i \in file.imports}
                 \cup UNION {{Append(i.spec, n) : n \in i.names} : i \in file.imports}
Targets(file, c, tree) ==
    UNION {IF file.lang = "js" THEN JsTargets(i, c.aliases, tree) ELSE PyTargets(i, tree) : i \in file.imports}
IsRead(path, tree) == path \in DOMAIN tree /\ tree[path].lang \in {"js", "py"}

LayerAt(layers, path) ==
    LET of == {n \in DOMAIN layers : CoveredBy(layers[n].paths, path)} IN
    IF of = {} THEN None ELSE layers[Min(of)]

\* evaluateImports: what the files import now and did not import at the base.
ImportProblems(c, repo, mode, path) ==
    LET tree == New(repo, mode)
        modules == IF ~IsRead(path, tree) THEN {}
                   ELSE Modules(tree[path]) \ IF IsRead(path, repo.base) THEN Modules(repo.base[path]) ELSE {}
        hits(rule) == /\ CoveredBy(rule.files, path) /\ \E i \in modules, b \in rule.forbid : IsUnder(i, b)
    IN  {<<"import", c.imports[n].name, path>> : n \in {k \in DOMAIN c.imports : hits(c.imports[k])}}
LayerProblems(c, repo, mode, path) ==
    LET tree == New(repo, mode)
        from == LayerAt(c.layers, path)
        targets == IF ~IsRead(path, tree) THEN {}
                   ELSE Targets(tree[path], c, tree)
                        \ IF IsRead(path, repo.base) THEN Targets(repo.base[path], c, repo.base) ELSE {}
        isWrong(to) == LayerAt(c.layers, to) # None /\ LayerAt(c.layers, to).name \in from.mayNot
    IN  IF from = None THEN {} ELSE {<<"layer", from.name, path, to>> : to \in {t \in targets : isWrong(t)}}
-----------------------------------------------------------------------------
(* The verdict.                                                            *)

\* judgePaths, judgeSize, judgeRules
PathProblems(c, changed) ==
    {<<"forbidden", p>> : p \in {q \in changed : CoveredBy(c.forbidden, q)}}
    \cup (IF c.allowed = None THEN {} ELSE {<<"outside", p>> : p \in {q \in changed : ~CoveredBy(c.allowed, q)}})
AddedCount(exclude, repo, mode) ==
    SumFunction([p \in {q \in Changed(repo, mode) : ~CoveredBy(exclude, q)} |-> Cardinality(AddedIn(repo, mode, p))])
SizeProblems(c, repo, mode) ==
    IF c.maxAdded # None /\ AddedCount(c.sizeExclude, repo, mode) > c.maxAdded THEN {<<"size">>} ELSE {}
RuleProblems(c, repo, mode) ==
    UNION {{<<"rule", c.rules[n].name, p>> : p \in {q \in Changed(repo, mode) : /\ CoveredBy(c.rules[n].files, q)
                                                                             /\ c.rules[n].forbid \in AddedIn(repo, mode, q)}} :
           n \in DOMAIN c.rules}

\* evaluateTestIntegrity: totals over the changed test files; a file at the head against the one at the base.
CountOf(tree, path, metric) == IF path \in DOMAIN tree THEN tree[path][metric] ELSE 0
JudgedTests(c, repo, mode, metric) ==
    {p \in Changed(repo, mode) : /\ CoveredBy(c.tests.files, p)
                                 /\ \E t \in {New(repo, mode), repo.base} : IsRead(p, t)
                                 /\ ~(metric = "asserts" /\ CoveredBy(c.tests.allow, p))}
IsWorse(new, old, metric) == IF metric = "asserts" THEN new < old ELSE new > old
TestTotal(c, repo, mode, tree, metric) ==
    SumFunction([p \in JudgedTests(c, repo, mode, metric) |-> CountOf(tree, p, metric)])
TestProblems(c, repo, mode) ==
    LET total(tree, metric) == TestTotal(c, repo, mode, tree, metric) IN
    IF c.tests = None THEN {}
    ELSE {<<"tests", m>> : m \in {k \in {"asserts", "markers"} : IsWorse(total(New(repo, mode), k), total(repo.base, k), k)}}

\* commandFor: what a check runs in this mode.
CommandFor(check, mode) ==
    CASE ~check.heavy \/ mode = "full" -> "run"
      [] check.heavy /\ mode = "worktree" /\ check.quick -> "quick"
      [] OTHER -> "skipped"

\* judge, runVerifyCheck: a failure that the baseline knows passes, if the check can name its failures.
CheckIsOk(check, command, ran, known) ==
    CASE command = "skipped" -> TRUE
      [] command # "skipped" /\ check.expect = "empty" -> ~ran.prints /\ ran.exit \in {0, 1}
      [] OTHER -> \/ ran.exit = 0
                  \/ known # None /\ check.namesFailures /\ ran.failing # {} /\ ran.failing \subseteq known
CheckProblems(c, repo, mode) ==
    {<<"check", c.checks[n].name>> :
       n \in {k \in DOMAIN c.checks :
                ~CheckIsOk(c.checks[k], CommandFor(c.checks[k], mode), repo.ran[c.checks[k].name], Known(repo, c.checks[k].name))}}

\* What the contract itself finds in the change: the trees decide.
TreesOf(repo) == [fork |-> repo.fork, base |-> repo.base, head |-> repo.head, disk |-> repo.disk]

Findings(c, repo, mode) ==
    PathProblems(c, Changed(repo, mode)) \cup SizeProblems(c, repo, mode) \cup RuleProblems(c, repo, mode)
    \cup TestProblems(c, repo, mode)
    \cup UNION {ImportProblems(c, repo, mode, p) \cup LayerProblems(c, repo, mode, p) : p \in Changed(repo, mode)}

\* runVerifyContract
Result(repo, mode) ==
    LET c == InForce(repo).contract
        problems == (IF mode # "worktree" /\ repo.dirty THEN {<<"uncommitted">>} ELSE {})
                    \cup Findings(c, TreesOf(repo), mode) \cup CheckProblems(c, repo, mode)
    IN  IF InForce(repo) = Refused \/ BaselineIsRefused(repo) THEN Refused
        ELSE [source |-> Loaded(repo).source, contract |-> Loaded(repo).contract, mode |-> mode,
              head |-> repo.head, base |-> repo.base, problems |-> problems]

\* Faulty variant: the base is not compared.
ResultProblems_NoBase(result, repo) ==
    \/ result.problems # {} \/ result.mode # "full" \/ result.head # repo.head
    \/ result.contract # Loaded(repo).contract \/ repo.dirty

\* checkVerifyResult: is there anything against a stored result?
ResultProblems(result, repo) ==
    \/ result.problems # {} \/ result.mode # "full" \/ result.head # repo.head \/ result.base # repo.base
    \/ result.contract # Loaded(repo).contract \/ repo.dirty
IsAccepted(result, repo) == result # Refused /\ InForce(repo) # Refused /\ ~ResultProblems(result, repo)

\* writeVerifyBaseline: at the base, on a clean tree.
WriteBaseline(repo) ==
    LET c == InForce(repo).contract IN
    IF InForce(repo) = Refused \/ repo.head # repo.base \/ repo.dirty THEN None
    ELSE [contract |-> Loaded(repo).contract,
          failures |-> [n \in {c.checks[k].name : k \in {i \in DOMAIN c.checks : c.checks[i].expect = "exit0"}} |->
                          IF repo.ran[n].exit = 0 \/ ~c.checks[CHOOSE k \in DOMAIN c.checks : c.checks[k].name = n].namesFailures
                          THEN {} ELSE repo.ran[n].failing]]
-----------------------------------------------------------------------------
(* Exports (export.ts): what SARIF and JUnit show of a result.             *)

\* Faulty variant: a file that may lose assertions is shown for every metric.
WorseningFiles_NoAllow(c, repo, mode, metric) ==
    {p \in Changed(repo, mode) : CoveredBy(c.tests.files, p) /\ CoveredBy(c.tests.allow, p)}

\* worseningFiles: of a metric that got worse, the files that moved it.
WorseningFiles(c, repo, mode, metric) ==
    {p \in JudgedTests(c, repo, mode, metric) :
        IsWorse(CountOf(New(repo, mode), p, metric), CountOf(repo.base, p, metric), metric)}

\* verifyResultSarif; verifyResultJUnit has a case that fails for the same things.
Exported(result, repo) ==
    LET worse == {q[2] : q \in {p \in result.problems : p[1] = "tests"}} IN
    {p \in result.problems : p[1] # "tests"}
    \cup UNION {{<<"tests", m, p>> : p \in WorseningFiles(InForce(repo).contract, repo, result.mode, m)} : m \in worse}
-----------------------------------------------------------------------------
(* Properties.                                                             *)

Of(findings, kinds) == {f \in findings : f[1] \in kinds}

\* What the repository's own law forbids, by path, rule or import, stays forbidden under a task's
\* contract, and what the task's contract finds is found with it.
LawBindsTasks(repo, mode) ==
    InForce(repo) # Refused /\ repo.ownLaw # None
        => LET found(c) == Findings(c, TreesOf(repo), mode) IN
           /\ Of(found(repo.ownLaw), {"forbidden", "rule", "import"}) \subseteq found(InForce(repo).contract)
           /\ Of(found(Loaded(repo).contract), {"forbidden", "rule", "import", "outside", "size"})
                \subseteq found(InForce(repo).contract)

\* So does what it forbids by its layers.
LayersBindTasks(repo, mode) ==
    InForce(repo) # Refused /\ repo.ownLaw # None
        => {<<f[3], f[4]>> : f \in Of(Findings(repo.ownLaw, repo, mode), {"layer"})}
             \subseteq {<<f[3], f[4]>> : f \in Of(Findings(InForce(repo).contract, repo, mode), {"layer"})}

\* A contract that git tracks is that of the base, and so is its baseline: whatever the change makes of
\* both files, as long as the contract can be read, the verdict is the same.
ChangeSuppliesNothing(repo, contract, baseline, mode) ==
    repo.tracked /\ repo.baselineInside /\ repo.onDisk # None /\ ContractIsValid(contract) /\ Result(repo, mode) # Refused
        => Result([repo EXCEPT !.onDisk = contract, !.baselineOnDisk = baseline], mode) = Result(repo, mode)

\* A result that is accepted is one that the same run would give again.
AcceptedIsRepeatable(before, after, mode) ==
    IsAccepted(Result(before, mode), after) /\ after.tracked /\ after.baselineInside /\ before.tracked /\ before.baselineInside
        => ~ResultProblems(Result(after, "full"), after)

\* A run passes when its exports show nothing.
ExportsAgree(repo, mode) ==
    Result(repo, mode) # Refused
        => (Exported(Result(repo, mode), repo) = {}) = (Result(repo, mode).problems = {})
=============================================================================
