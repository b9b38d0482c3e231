----------------------------- MODULE Automation -----------------------------
(***************************************************************************)
(* Trusted automation (packages/core: trusted-automation.ts,               *)
(* dependency-update.ts; packages/missions: trusted-automation.ts): which  *)
(* changes a rule of .gitagent/config.yaml lets pass without a mission.    *)
(*                                                                         *)
(* A change has: files (those a mission would be needed for), actor, loc   *)
(* and lockLoc (lines, and lines of npm lockfiles), locks (the lockfiles   *)
(* it touches) and the documents old and new, functions of a path.  A      *)
(* manifest has sections (a section to a function of names) and rest; a    *)
(* lockfile version, rest, root (a manifest), packages and legacy, which   *)
(* lead from a place to an entry; a workflow is a function of its leaves.  *)
(***************************************************************************)
EXTENDS PathLaw

CONSTANTS Absent,        \* no document
          Substrate,     \* the pattern of `.gitagent/`
          PackageFiles, LockFiles, WorkflowFiles \* patterns of file names

Kinds == {"workflow_version_pin", "bounded_content", "dependency_update"}
HardMax(kind) == CASE kind = "workflow_version_pin" -> 5 [] kind = "bounded_content" -> 100 [] OTHER -> 200

\* parseTrustedAutomationRules, parseRegistries: one bad rule and the configuration is refused.
RuleIsWellFormed(rule) ==
    /\ rule.actors # {} /\ rule.paths # {}
    /\ rule.kind \in Kinds /\ rule.max \in 1 .. HardMax(rule.kind)
    /\ (rule.registries # {}) = (rule.kind = "dependency_update")
-----------------------------------------------------------------------------
(* A dependency update (ADR-0057).                                         *)

\* sectionProblem, manifestUpdateProblem: the versions differ, and nothing else.
ManifestIsUpdate(old, new) ==
    /\ old.rest = new.rest
    /\ DOMAIN old.sections = DOMAIN new.sections
    /\ \A s \in DOMAIN new.sections : DOMAIN old.sections[s] = DOMAIN new.sections[s]

\* entryProblem
EntryIsFrom(entry, registries) ==
    ~entry.link /\ (entry.bundled \/ (entry.resolved \in registries /\ entry.integrity))

Differs(old, new, place) == ~(place \in DOMAIN old /\ old[place] = new[place])

\* isLocalPackage, localPackageProblem: a folder of the repository.
LocalIsUpdate(old, new, place) == place \in DOMAIN old /\ ~new[place].link /\ new[place].resolved = Absent

\* Faulty variant: an entry that is there already is not judged again.
EntriesAreUpdates_New(old, new, registries) ==
    \A place \in DOMAIN new \ DOMAIN old : EntryIsFrom(new[place], registries)

EntriesAreUpdates(old, new, registries) ==
    \A place \in {p \in DOMAIN new : Differs(old, new, p)} : EntryIsFrom(new[place], registries)

\* legacyProblem, lockfileUpdateProblem
LockfileIsUpdate(old, new, registries) ==
    /\ old.version \in {2, 3} /\ new.version = old.version /\ new.rest = old.rest
    /\ ManifestIsUpdate(old.root, new.root)
    /\ \A place \in DOMAIN new.local : Differs(old.local, new.local, place) => LocalIsUpdate(old.local, new.local, place)
    /\ EntriesAreUpdates(old.packages, new.packages, registries)
    /\ EntriesAreUpdates(old.legacy, new.legacy, registries)

\* dependencyFileKind, dependencyUpdateProblem: of the enforced files and of every lockfile that changed.
IsDependencyUpdate(rule, change) ==
    \A f \in change.files \cup change.locks :
        /\ CoveredBy(PackageFiles \cup LockFiles, f)
        /\ change.old[f] # Absent /\ change.new[f] # Absent
        /\ IF CoveredBy(PackageFiles, f) THEN ManifestIsUpdate(change.old[f], change.new[f])
           ELSE LockfileIsUpdate(change.old[f], change.new[f], rule.registries)
-----------------------------------------------------------------------------
(* The other kinds, and the verdict.                                       *)

\* structuresMatch, leafDiffs, isWorkflowVersionPinChange: `uses: action@version`
IsPinChange(old, new) ==
    /\ DOMAIN old = DOMAIN new
    /\ \A leaf \in DOMAIN new :
         \/ old[leaf] = new[leaf]
         \/ leaf = "uses" /\ old[leaf].action = new[leaf].action /\ new[leaf].version # Absent

\* substrateHardDenyLaw: what is never left to automation, given the law of the perimeter.
HardDeny(perimeter) == Tighten(perimeter, Law(<< >>, <<Rule("substrate", {Substrate}, {}, "deny", FALSE)>>, {}))

\* structuralJudge: a workflow file that is deleted is let through.
StructureIsAllowed(rule, change, perimeter) ==
    CASE rule.kind = "dependency_update" -> IsDependencyUpdate(rule, change)
      [] rule.kind = "bounded_content" ->
             /\ perimeter # Absent
             /\ \A f \in change.files : Judge(HardDeny(perimeter), f, {}) = NoVerdict
      [] OTHER ->
             \A f \in {g \in change.files : CoveredBy(WorkflowFiles, g)} :
                 \/ change.new[f] = Absent
                 \/ change.old[f] # Absent /\ IsPinChange(change.old[f], change.new[f])

\* allowedPathsLaw, evaluateAgainstRule
IsEligibleUnder(rule, change, perimeter) ==
    /\ change.actor \in rule.actors
    /\ change.files # {} /\ \A f \in change.files : CoveredBy(rule.paths, f)
    /\ (IF rule.kind = "dependency_update" THEN change.loc - change.lockLoc ELSE change.loc) <= rule.max
    /\ StructureIsAllowed(rule, change, perimeter)

\* evaluateTrustedAutomation: one rule is enough.
IsTrusted(rules, change, perimeter) ==
    (\A r \in rules : RuleIsWellFormed(r)) /\ \E r \in rules : IsEligibleUnder(r, change, perimeter)
-----------------------------------------------------------------------------
(* Property.                                                               *)

\* Commit by commit or as one range: what two updates make together is an update.
UpdatesAddUp(rule, one, two) ==
    (\A f \in one.files : one.new[f] = two.old[f]) /\ one.files = two.files
    /\ StructureIsAllowed(rule, one, Absent) /\ StructureIsAllowed(rule, two, Absent)
        => StructureIsAllowed(rule, [two EXCEPT !.old = one.old], Absent)
=============================================================================
