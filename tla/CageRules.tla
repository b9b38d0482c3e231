----------------------------- MODULE CageRules -----------------------------
(***************************************************************************)
(* The rules of the cage (packages/cage: cage-rules.ts, cage-config.ts,    *)
(* cage-check.ts, cage-push-guard.ts, cage-suggest.ts, read-guard.ts): the *)
(* built-in rules, the repository's .cage.yaml and forbidden zones, and the*)
(* run's flags make one plan, and the plan is a path law that the session, *)
(* its push guard, `cage check`, `cage suggest` and `cage policy` judge by.*)
(*                                                                         *)
(* A parsed .cage.yaml is a record: entries, dependencies, allowOnly.      *)
(***************************************************************************)
EXTENDS PathLaw, TLC

CONSTANTS CiConfig, GitControl, CageFile,  \* sets of patterns: the built-in targets
          SecretFiles, SecretExcept, Lockfiles, DependencyManifests, Vendored   \* the floor

IsConfig(config) == DOMAIN config = {"entries", "dependencies", "allowOnly"} /\ IsList(config.entries)
NoConfig == [entries |-> << >>, dependencies |-> "report", allowOnly |-> {}]
NoFlags == [lockDeps |-> FALSE, allowOnly |-> {}]
Entry(kind, value, mode) == [kind |-> kind, value |-> value, mode |-> mode]
Harness == {"git_control", "cage_config"}
Builtin == Harness \cup {"ci_config", "secrets", "lockfile", "dependency_manifest", "out_of_scope"}

EffectOf(mode) == IF mode = "revert" THEN "deny" ELSE "report"
CageRule(id, patterns, except, mode) == Rule(id, patterns, except, EffectOf(mode), id \notin Harness)

\* cageFloorRules: frozen dependencies make the lockfiles revert, and the manifests with them.
FloorRules(dependencies) ==
    <<CageRule("secrets", SecretFiles, SecretExcept, "revert"),
      CageRule("lockfile", Lockfiles, {}, dependencies)>>
    \o IF dependencies = "revert" THEN <<CageRule("dependency_manifest", DependencyManifests, Vendored, "revert")>>
       ELSE << >>

BuiltinTargets(zones) ==
    <<CageRule("ci_config", CiConfig, {}, "revert"), CageRule("git_control", GitControl, {}, "revert"),
      CageRule("cage_config", CageFile, {}, "revert"), CageRule("manifest_forbidden_zone", zones, {}, "revert")>>

\* The entries of one kind, in place: one of the other kind is a rule for no path.
EntryRules(entries, kind) ==
    [n \in DOMAIN entries |->
       CageRule("cage_protect", IF entries[n].kind = kind THEN {entries[n].value} ELSE {}, {}, entries[n].mode)]

\* One area for each list of globs: that of the config and that of the flag.
ScopeAreas(config, flags) ==
    LET list(patterns) == IF patterns = {} THEN << >> ELSE <<Area("out_of_scope", patterns, TRUE)>>
    IN  list(config.allowOnly) \o list(flags.allowOnly)

Dependencies(config, flags) == IF flags.lockDeps \/ config.dependencies = "revert" THEN "revert" ELSE "report"

\* Faulty variant: the globs of .cage.yaml come with a table of their own, that decides first.
PlanLaw_GlobsFirst(zones, config, flags) ==
    Law(ScopeAreas(config, flags),
        IF \E n \in DOMAIN config.entries : config.entries[n].kind = "glob" THEN EntryRules(config.entries, "glob")
        ELSE BuiltinTargets(zones) \o EntryRules(config.entries, "path")
             \o FloorRules(Dependencies(config, flags)),
        {})

\* Faulty variant: the law is the one made before the entries of .cage.yaml are added.
PlanLaw_BeforeEntries(zones, config, flags) ==
    Law(ScopeAreas(config, flags), BuiltinTargets(zones) \o FloorRules(Dependencies(config, flags)), {})

\* cagePlanLaw: targets, the floor, globs; then the scope.
PlanLaw(zones, config, flags) ==
    Law(ScopeAreas(config, flags),
        BuiltinTargets(zones) \o EntryRules(config.entries, "path")
        \o FloorRules(Dependencies(config, flags)) \o EntryRules(config.entries, "glob"),
        {})

\* classifyCagePath
Mode(l, path, overrides) ==
    CASE Judge(l, path, overrides).effect = "deny" -> "revert"
      [] Judge(l, path, overrides).effect = "none" -> "none"
      [] OTHER -> "report"

\* assertNoBuiltinDowngrade, with the law as it is before the entries are in it: globs are not looked at.
Weakens(zones, config, flags) ==
    \E n \in DOMAIN config.entries :
        LET e == config.entries[n]
            hit == Judge(PlanLaw(zones, [config EXCEPT !.entries = << >>], flags), e.value, {})
        IN  e.kind = "path" /\ e.mode = "report" /\ hit.effect = "deny" /\ hit.rule \in Builtin \ {"out_of_scope"}

\* validateOverrides: not near the harness, and a path that is reverted or above a target that is.
OverrideIsValid(l, o) ==
    /\ ~\E h \in GitControl \cup CageFile : IsUnder(o, h) \/ IsUnder(h, o)
    /\ \/ Mode(l, o, {}) = "revert"
       \/ \E n \in DOMAIN l.rules : /\ l.rules[n].effect = "deny"
                                    /\ \E p \in l.rules[n].patterns : IsUnder(p, o)

\* parseCageConfigText: the values a parsed file has; other keys, among them all that would loosen, are refused.
ConfigIsValid(config) == /\ config.dependencies \in {"revert", "report"}
                         /\ \A n \in DOMAIN config.entries : /\ config.entries[n].kind \in {"path", "glob"}
                                                             /\ config.entries[n].mode \in {"revert", "report"}
                                                             /\ config.entries[n].value # << >>

\* buildCagePlan: a session starts only with a plan that no check refuses.
PlanIsAccepted(zones, config, flags, overrides) ==
    /\ ConfigIsValid(config) /\ ~Weakens(zones, config, flags)
    /\ \A o \in overrides : OverrideIsValid(PlanLaw(zones, config, flags), o)
-----------------------------------------------------------------------------
(* Who judges by the plan.                                                 *)

\* changedPathsInRange, findPushViolations: a range that git cannot list has no changed path.
PushViolations(l, overrides, ranges) ==
    {path \in UNION {ranges[r] : r \in {s \in DOMAIN ranges : ranges[s] # "failed"}} :
        Mode(l, path, overrides) = "revert"}

\* buildCagePlanAtCommit, runCageCheck: the rules are those of the base, overrides do not count.
CheckOutcome(base, flags, changed) ==
    CASE base.config = "invalid" \/ changed = "failed" -> "refused"
      [] base.config # "invalid" /\ changed # "failed" ->
           IF ~ConfigIsValid(base.config) \/ Weakens(base.zones, base.config, flags) THEN "refused"
           ELSE IF \E p \in changed : Mode(PlanLaw(base.zones, base.config, flags), p, {}) = "revert"
           THEN "violations" ELSE "clean"

\* collect: what can be found is a file or folder, or all files of an extension, that shall not change.
IsProposal(s) == s.kind \in {"path", "glob"} /\ s.mode = "revert" /\ IsList(s.value) /\ s.value # << >>

\* suggestCageRules: of what was found in the tree, what is not protected yet.
IsSuggested(zones, config, found) ==
    {s \in found : IF s.kind = "glob" THEN ~\E n \in DOMAIN config.entries : config.entries[n] = s
                   ELSE Mode(PlanLaw(zones, config, NoFlags), s.value, {}) # "revert"}

\* cageAgentPolicy: the patterns of the revert rules, as rules for an agent; not the scope.
AgentPolicy(l, forbidden) ==
    (UNION {l.rules[n].patterns : n \in {k \in DOMAIN l.rules : l.rules[k].effect = "deny"}}) \cup forbidden

\* readGuard: a tool call that names a secret is denied, input that is no hook call refused.
ReadGuard(call) ==
    CASE call.event = "not a hook call" -> "refuse"
      [] call.event \in {"PreToolUse", "beforeReadFile", "beforeShellExecution", "beforeTabFileRead"} ->
           IF \E p \in call.paths : CoveredBy(SecretFiles, p) /\ ~CoveredBy(SecretExcept, p) THEN "deny" ELSE "allow"
      [] OTHER -> "no decision"
-----------------------------------------------------------------------------
(* Properties.                                                             *)

\* Nothing in the repository, and no flag, makes a built-in rule weaker, and an override never
\* touches the harness nor a path that it does not cover.
FloorStands(zones, config, flags, overrides, path) ==
    PlanIsAccepted(zones, config, flags, overrides) =>
        LET l == PlanLaw(zones, config, flags) IN
        /\ Strictness(l, path, {}) >= Strictness(PlanLaw(zones, NoConfig, NoFlags), path, {})
        /\ CoveredBy(GitControl \cup CageFile, path) => Mode(l, path, overrides) = "revert"
        /\ Mode(l, path, overrides) # Mode(l, path, {}) => CoveredBy(overrides, path)

\* The suggestions, saved, are a valid config, and none of them is suggested again.
SuggestionsSettle(zones, config, found) ==
    PlanIsAccepted(zones, config, NoFlags, {}) =>
        LET saved == [config EXCEPT !.entries = @ \o SetToSeq(IsSuggested(zones, config, found))] IN
        /\ PlanIsAccepted(zones, saved, NoFlags, {})
        /\ IsSuggested(zones, saved, found) = {}

\* The agent's own rules deny what the cage reverts for a rule.
PolicyIsAsStrict(zones, config, forbidden, path) ==
    LET l == PlanLaw(zones, config, NoFlags) IN
    Mode(l, path, {}) = "revert" /\ Judge(l, path, {}).rule # "out_of_scope"
        => CoveredBy(AgentPolicy(l, forbidden), path)
=============================================================================
