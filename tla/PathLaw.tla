------------------------------ MODULE PathLaw ------------------------------
(***************************************************************************)
(* The path law (packages/core: path-glob.ts, path-law.ts, law.ts) and the *)
(* laws that missions are judged by (packages/missions: scope-law.ts,      *)
(* contract/effective-scope.ts): which path may change, and how levels of  *)
(* law - organisation, skill, contract - compose.                          *)
(*                                                                         *)
(* A path is a sequence of names; a pattern also has Star (`*`, one name)  *)
(* and Deep (`**`).  Parts of names are not matched.                       *)
(***************************************************************************)
EXTENDS Naturals, Sequences, SequencesExt, FiniteSetsExt

CONSTANTS Star, Deep

\* globToRegExp: from which names of the path on does the pattern match from its i-th part on?  A Deep
\* in the middle is any number of names, none also; one at the end is at least one.
Match(pattern, path) ==
    LET from[i \in 1 .. Len(pattern) + 1] ==
          IF i > Len(pattern) THEN {Len(path) + 1}
          ELSE IF pattern[i] # Deep THEN {j \in 1 .. Len(path) : pattern[i] \in {Star, path[j]} /\ j + 1 \in from[i + 1]}
          ELSE IF i = Len(pattern) THEN 1 .. Len(path)
          ELSE {j \in 1 .. Len(path) + 1 : \E k \in from[i + 1] : j <= k}
    IN  1 \in from[1]

\* patternCoversPath: the path or a folder above it; "." is the empty pattern.
Covers(pattern, path) == pattern = << >> \/ \E n \in 1 .. Len(path) : Match(pattern, SubSeq(path, 1, n))
CoveredBy(patterns, path) == \E p \in patterns : Covers(p, path)

\* isPathUnderRoot compares the text: a pattern is a name like another.
IsUnder(path, root) == Len(root) <= Len(path) /\ root = SubSeq(path, 1, Len(root))
-----------------------------------------------------------------------------
(* path-law.ts                                                             *)

Effects == {"deny", "planner", "report"}
Rank(effect) == CASE effect = "deny" -> 3 [] effect = "planner" -> 2 [] effect = "report" -> 1 [] OTHER -> 0

Rule(id, patterns, except, effect, overridable) ==
    [id |-> id, patterns |-> patterns, except |-> except, effect |-> effect, overridable |-> overridable]
Area(id, patterns, overridable) == [id |-> id, patterns |-> patterns, overridable |-> overridable]
Law(areas, rules, exempt) == [areas |-> areas, rules |-> rules, exempt |-> exempt]

IsList(list) == list \in Seq(ToSet(list))
IsLaw(l) == IsList(l.areas) /\ IsList(l.rules)

NoVerdict == [rule |-> "none", effect |-> "none"]

Verdict(id, effect, overridable, path, overrides) ==
    [rule |-> id,
     effect |-> IF effect = "deny" /\ overridable /\ CoveredBy(overrides, path) THEN "report" ELSE effect]

\* What a rule says of the path, and what an area says.
RuleVerdict(r, path, overrides) ==
    IF CoveredBy(r.patterns, path) /\ ~CoveredBy(r.except, path)
    THEN Verdict(r.id, r.effect, r.overridable, path, overrides) ELSE NoVerdict
AreaVerdict(a, path, overrides) ==
    IF CoveredBy(a.patterns, path) THEN NoVerdict ELSE Verdict(a.id, "deny", a.overridable, path, overrides)

\* Each rule, then each area, in table order.
Verdicts(l, path, overrides) ==
    [n \in 1 .. Len(l.rules) + Len(l.areas) |->
       IF n <= Len(l.rules) THEN RuleVerdict(l.rules[n], path, overrides)
       ELSE AreaVerdict(l.areas[n - Len(l.rules)], path, overrides)]

\* judgePath: the strictest verdict, and of these the first.
Judge(l, path, overrides) ==
    LET verdicts == Verdicts(l, path, overrides)
        strictest(n) == \A k \in DOMAIN verdicts : Rank(verdicts[k].effect) <= Rank(verdicts[n].effect)
    IN  IF CoveredBy(l.exempt, path) \/ verdicts = << >> THEN NoVerdict
        ELSE verdicts[Min({n \in DOMAIN verdicts : strictest(n)})]

Strictness(l, path, overrides) == Rank(Judge(l, path, overrides).effect)

\* Faulty variant: the areas of the lower level replace those of the upper one.
Tighten_Replaces(upper, lower) ==
    Law(IF lower.areas = << >> THEN upper.areas ELSE lower.areas, upper.rules \o lower.rules, upper.exempt)

\* tightenPathLaw: the exemptions of a lower level do not count.
Tighten(upper, lower) == Law(upper.areas \o lower.areas, upper.rules \o lower.rules, upper.exempt)
-----------------------------------------------------------------------------
(* scope-law.ts, effective-scope.ts                                        *)

\* A skill, an organisation's policy and a contract; an absent one has empty fields.
Optional(rule) == IF rule.patterns = {} THEN << >> ELSE <<rule>>
ZoneRules(zones) == Optional(Rule("forbidden_zone", zones, {}, "deny", FALSE))
PerimeterRules(perimeter) == Optional(Rule("protected_path", perimeter, {}, "planner", FALSE))
Roots(patterns) == <<Area("outside_roots", patterns, FALSE)>>

SkillLaw(skill, policy, transport) ==
    Tighten(Law(Roots(skill.roots),
                ZoneRules(skill.zones) \o PerimeterRules(skill.perimeter) \o PerimeterRules(policy.perimeter),
                transport),
            Law(<< >>, ZoneRules(policy.zones), {}))

\* Faulty variant: with a contract, the organisation's zones are left out.
MissionLaw_NoPolicy(skill, policy, contract, transport) ==
    Tighten(SkillLaw(skill, [policy EXCEPT !.zones = {}], transport),
            Law(Roots(contract.roots), ZoneRules(contract.zones), {}))

\* missionScopeLaw: a skill without roots leaves the area to the contract.
MissionLaw(skill, policy, contract, transport) ==
    LET upper == SkillLaw(skill, policy, transport)
    IN  IF contract.roots = {}
        THEN Tighten(upper, Law(<< >>, ZoneRules(contract.zones), {}))
        ELSE Tighten(Law(IF skill.roots = {} THEN << >> ELSE upper.areas, upper.rules, upper.exempt),
                     Law(Roots(contract.roots), ZoneRules(contract.zones), {}))

\* classifyScopePath
Classify(l, path) ==
    LET verdict == Judge(l, path, {}) IN
    CASE CoveredBy(l.exempt, path) -> "governance_transport"
      [] ~CoveredBy(l.exempt, path) /\ verdict.effect # "deny" -> "inside_tmvc"
      [] ~CoveredBy(l.exempt, path) /\ verdict.effect = "deny" ->
             IF verdict.rule = "forbidden_zone" THEN "forbidden_zone" ELSE "outside_tmvc"

AllZones(skill, policy, contract) == skill.zones \cup policy.zones \cup contract.zones

\* resolveEffectiveScope: a contract that leaves the skill's roots, or enters a zone, is refused.
ScopeEscapes(skill, policy, contract) ==
    \/ skill.roots # {} /\ \E r \in contract.roots : \A u \in skill.roots : ~IsUnder(r, u)
    \/ \E r \in contract.roots, z \in AllZones(skill, policy, contract) : IsUnder(r, z)

\* EffectiveScope.tmvcRoots: what is reported, and handed to git as the paths to look at.
EffectiveRoots(skill, contract) == IF contract.roots # {} THEN contract.roots ELSE skill.roots

\* evaluateImportSite: what is wrong with an import.  A specifier is a sequence: a package, a part of it.
ImportFinding(l, imports, site) ==
    CASE site.kind = "dynamic" -> IF imports.dynamic THEN "none" ELSE "dynamic"
      [] site.kind = "builtin" -> "none"
      [] site.kind = "bare" ->
             IF \E b \in imports.banned : IsUnder(site.spec, b) THEN "banned"
             ELSE IF imports.allowed # {} /\ ~\E a \in imports.allowed : IsUnder(site.spec, a) THEN "unlisted"
             ELSE "none"
      [] OTHER ->
             LET verdict == Judge(l, site.resolved, {})
                 byRule == \E n \in DOMAIN l.rules : l.rules[n].id = verdict.rule
             IN  IF verdict.effect = "deny"
                    /\ (byRule \/ (imports.strict /\ \A n \in DOMAIN l.areas : l.areas[n].patterns # {}))
                 THEN "scope_escape" ELSE "none"
-----------------------------------------------------------------------------
(* Properties.                                                             *)

\* No lower level of law makes anything of an upper level less strict, with or without overrides.
NothingWidens(upper, lower, path, overrides) ==
    Strictness(Tighten(upper, lower), path, overrides) >= Strictness(upper, path, overrides)

\* A contract that is accepted changes nothing that its skill, or the organisation, forbids; and
\* what it may change is under the roots that are reported for it.
ContractNarrows(skill, policy, contract, transport, path) ==
    LET verdict == Classify(MissionLaw(skill, policy, contract, transport), path) IN
    ~ScopeEscapes(skill, policy, contract) /\ verdict = "inside_tmvc"
        => /\ \/ skill.roots = {}
              \/ Classify(SkillLaw(skill, policy, transport), path) = "inside_tmvc"
           /\ ~CoveredBy(AllZones(skill, policy, contract), path)
           /\ CoveredBy(EffectiveRoots(skill, contract), path)
=============================================================================
