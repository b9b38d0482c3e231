------------------------------- MODULE Rules -------------------------------
(***************************************************************************)
(* Questions to the rules that decide without a state of their own.  Each  *)
(* action asks one, with inputs from the sets below; the properties say    *)
(* what every answer has in common.                                        *)
(***************************************************************************)
EXTENDS CageRules, TreeLaw, ChangeContract, Automation

CONSTANTS Paths, OverrideSets,                    \* sets of paths; of sets of paths
          UpperLaws, LowerLaws,                   \* two levels of law
          Skills, Policies, Contracts, Transport, \* what a mission's law is made of
          Zones, Configs, FlagSets,               \* what a plan of the cage is made of
          Found,                                  \* what `cage suggest` finds in a tree
          Specs, BudgetSpecs, Trees, Baselines, ManifestRoots, \* what `arch check` is asked with
          Repos, TrackedRepos, MovedRepos,        \* what `verify --contract` finds
          UpdateRules, Documents,                 \* rules of trusted automation; the manifest and its lockfile, by path
          Tampered, TamperedBaselines             \* what a change may make of the contract and of the baseline

ASSUME RulesAssumption ==
    /\ \A l \in UpperLaws \cup LowerLaws : IsLaw(l)
    /\ \A c \in Configs : IsConfig(c)
    /\ IsFiniteSet(Found) /\ \A s \in Found : IsProposal(s)
    /\ \A t \in Trees : IsTree(t)
    /\ \A b \in Baselines : IsBaseline(b)
    /\ \A s \in BudgetSpecs : \A r \in RulesOf(s, "budget") : r.at \in Nat
    /\ \A r \in Repos \cup TrackedRepos \cup MovedRepos : IsRepo(r)
    /\ None \notin Tampered

VARIABLE asked

rulesVars == asked

RulesInit == asked = [about |-> "nothing"]

\* The change from some documents to others, by an actor that the rule names.
Update(rule, from, to) ==
    [files |-> DOMAIN from, locks |-> {f \in DOMAIN from : CoveredBy(LockFiles, f)}, actor |-> CHOOSE actor \in rule.actors : TRUE,
     loc |-> 1, lockLoc |-> 0, old |-> from, new |-> to]

First == asked.about = "nothing"

AskLaw == /\ First
          /\ \E u \in UpperLaws, l \in LowerLaws, p \in Paths, o \in OverrideSets :
               asked' = [about |-> "law", upper |-> u, lower |-> l, path |-> p, overrides |-> o]

AskMission == /\ First
              /\ \E s \in Skills, q \in Policies, c \in Contracts, p \in Paths :
                   asked' = [about |-> "mission", skill |-> s, policy |-> q, contract |-> c, path |-> p]

AskPlan == /\ First
           /\ \E z \in Zones, c \in Configs, f \in FlagSets, o \in OverrideSets, p \in Paths :
                asked' = [about |-> "plan", zones |-> z, config |-> c, flags |-> f, overrides |-> o, path |-> p]

AskSuggestions == /\ First
                  /\ \E z \in Zones, c \in Configs, f \in SUBSET Found :
                       asked' = [about |-> "suggest", zones |-> z, config |-> c, found |-> f]

AskTree == /\ First
           /\ \E s \in Specs, t \in Trees, b \in Baselines :
                /\ SpecIsValid(s)
                /\ asked' = [about |-> "tree", spec |-> s, tree |-> t, baseline |-> b]

AskRatchet == /\ First
              /\ \E s \in BudgetSpecs, t, o \in Trees, b \in Baselines :
                   /\ SpecIsValid(s)
                   /\ asked' = [about |-> "ratchet", spec |-> s, tree |-> t, other |-> o, baseline |-> b]

AskChange == /\ First
             /\ \E r \in Repos, mode \in {"full", "quick", "worktree"} : asked' = [about |-> "change", repo |-> r, mode |-> mode]

AskTampered == /\ First
               /\ \E r \in TrackedRepos, c \in Tampered, b \in TamperedBaselines :
                    asked' = [about |-> "tampered", repo |-> r, contract |-> c, baseline |-> b]

\* Two moments, with one contract file: with the same base they have the same law, with the same head the same commands
\* do the same, and with both they fork at the same commit.
AskAccepted == /\ First
               /\ \E r, s \in MovedRepos :
                    /\ r.isOwn = s.isOwn
                    /\ r.base = s.base => r.atBase = s.atBase /\ r.ownLaw = s.ownLaw /\ r.baselineAtBase = s.baselineAtBase
                    /\ r.head = s.head => r.ran = s.ran
                    /\ r.head = s.head /\ r.base = s.base => r.fork = s.fork
                    /\ asked' = [about |-> "accepted", before |-> r, after |-> s]

\* Two changes in a row.
AskUpdates == /\ First
              /\ \E r \in UpdateRules, d1, d2, d3 \in Documents :
                   /\ RuleIsWellFormed(r)
                   /\ asked' = [about |-> "updates", rule |-> r, one |-> Update(r, d1, d2), two |-> Update(r, d2, d3)]

RulesNext == AskLaw \/ AskMission \/ AskPlan \/ AskSuggestions \/ AskTree \/ AskRatchet
        \/ AskChange \/ AskTampered \/ AskAccepted \/ AskUpdates

RulesSpec == RulesInit /\ [][RulesNext]_rulesVars
-----------------------------------------------------------------------------
(* Properties.                                                             *)

\* tightenPathLaw: no lower level of law makes an upper level less strict about any path.
LevelsTighten ==
    asked.about = "law" => NothingWidens(asked.upper, asked.lower, asked.path, asked.overrides)

\* resolveEffectiveScope: a contract that is accepted stays inside what its skill may change.
ContractsNarrow ==
    asked.about = "mission" =>
        ContractNarrows(asked.skill, asked.policy, asked.contract, Transport, asked.path)

\* The built-in rules of the cage stand, whatever .cage.yaml, the flags and the overrides say.
BuiltinsStand ==
    asked.about = "plan" =>
        FloorStands(asked.zones, asked.config, asked.flags, asked.overrides, asked.path)

\* No level of law, and nothing a change or a configuration brings, widens the level above it.
NoLevelWidens == LevelsTighten /\ ContractsNarrow /\ BuiltinsStand

\* cage suggest proposes what .cage.yaml can take, and what is proposed no more once it is in.
SuggestionsAreFinal ==
    asked.about = "suggest" => SuggestionsSettle(asked.zones, asked.config, asked.found)

\* arch check --ratchet: budgets are raised with --allow-raise only, and a layer that has none starts at its size.
RatchetHolds ==
    asked.about = "ratchet" =>
        RatchetForgivesNothing(asked.spec, asked.tree.files, asked.other.files, asked.baseline)

\* arch check: a tree that passes has no file that fails when it is named.
NamedAreJudgedAlike ==
    asked.about = "tree" =>
        \A f \in asked.tree.files : NamedPassAlike(asked.spec, asked.tree, {f}, asked.baseline, ManifestRoots)

\* What arch check answers to a tree and a baseline.
TreesAreJudged == RatchetHolds /\ NamedAreJudgedAlike

\* verify --contract: a task's contract cannot undo the rules of the repository's verify.yaml.
TasksAreBound == asked.about = "change" => LawBindsTasks(asked.repo, asked.mode)

\* ADR-0051 (11): the layers of verify.yaml bind a task's contract, which may only tighten them.
TasksAreBoundByLayers == asked.about = "change" => LayersBindTasks(asked.repo, asked.mode)

\* verify --contract: the change under review supplies neither its contract nor its baseline.
ContractIsTheBases ==
    asked.about = "tampered" => ChangeSuppliesNothing(asked.repo, asked.contract, asked.baseline, "full")

\* verify --contract: the change is bound by the law of its base, whatever the change and its task bring.
ChangesAreBound == TasksAreBound /\ ContractIsTheBases

\* verify --check-result: what it accepts, the same run would give again.
AcceptedHolds == asked.about = "accepted" => AcceptedIsRepeatable(asked.before, asked.after, "full")

\* Trusted automation: two dependency updates in a row are one, so it is the same to judge them by commit or by range.
UpdatesCompose == asked.about = "updates" => UpdatesAddUp(asked.rule, asked.one, asked.two)

\* verify --format sarif and junit show a finding exactly when the run fails.
ExportsShowFailures == asked.about = "change" => ExportsAgree(asked.repo, asked.mode)

\* A result of verify --contract says the same wherever it is read.
ResultsAgree == AcceptedHolds /\ ExportsShowFailures
=============================================================================
