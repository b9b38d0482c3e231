------------------------------ MODULE TreeLaw ------------------------------
(***************************************************************************)
(* The law of a tree (packages/core: law.ts; packages/missions: arch;      *)
(* `gantry arch check`): TARGET_ARCHITECTURE.yaml names layers, and rules  *)
(* on what files import and contain, on the size of layers, on cycles,     *)
(* registries, dependencies and copies; ARCH_BASELINE.json keeps the sizes *)
(* that the layers may not exceed.                                         *)
(*                                                                         *)
(* A file is a record: path, kind, lines, exports, text - the patterns it  *)
(* matches -, names, what the patterns of registries capture in it, and    *)
(* imports, each with its specifier and the path it resolves to.           *)
(* A finding is <<where, rule, what>>.                                     *)
(***************************************************************************)
EXTENDS PathLaw, TLC

CONSTANTS Unresolved,   \* what a package or a builtin resolves to
          Unset         \* an optional field of a rule that is not there

MatchesAny(path, globs) == \E g \in globs : Match(g, path)
Has(text, part) == \E i \in 1 .. Len(text) : IsUnder(SubSeq(text, i, Len(text)), part)

\* validateTargetArchitecture, parseArchRule: a rule is structural when its kind says so, otherwise
\* it has import fields or pattern fields, and not both.
StructuralKinds == {"budget", "owner", "registry", "dependency", "duplicate", "cycles"}
RuleIsValid(rule) == IF rule.kind \in StructuralKinds THEN rule.complete
                     ELSE (rule.imports = {}) # (rule.patterns = {})
SpecIsValid(spec) == spec.layers # << >> /\ \A rule \in spec.rules : RuleIsValid(rule)

RulesOf(spec, kind) == {rule \in spec.rules : rule.kind = kind}

\* layerForFile: the first layer with a glob that matches.
LayerOf(layers, path) ==
    LET of == {n \in DOMAIN layers : MatchesAny(path, layers[n].globs)} IN
    IF of = {} THEN "other" ELSE layers[Min(of)].id

\* resolveArchScanRoots; a root without a star is a folder.
ScanRoots(spec, manifestRoots) ==
    LET folder(root) == IF \E n \in DOMAIN root : root[n] \in {Star, Deep} THEN root ELSE Append(root, Deep)
        ofLayers == UNION {spec.layers[n].globs : n \in DOMAIN spec.layers}
    IN  IF spec.roots # {} THEN {folder(root) : root \in spec.roots}
        ELSE IF ofLayers # {} THEN ofLayers
        ELSE {folder(root) : root \in manifestRoots}

\* fileMatchesScanRoots, fileMatchesLanguage
InScan(spec, roots, path) == MatchesAny(path, roots) /\ ~MatchesAny(path, spec.exclude)
IsOfLanguage(spec, file) == file.kind = IF spec.domain = "content" THEN "document" ELSE "typescript"
-----------------------------------------------------------------------------
(* One file at a time.                                                     *)

\* evaluateLayerImport; a field of an import rule is a kind and a value.
ImportFindings(spec, file) ==
    LET target(i) == IF i.resolved = Unresolved THEN "other" ELSE LayerOf(spec.layers, i.resolved)
        hits(field, i) == CASE field.forbid = "layer" -> target(i) = field.value
                            [] field.forbid = "specifier" -> Has(i.spec, field.value)
                            [] OTHER -> i.resolved # Unresolved /\ Has(i.resolved, field.value)
        from == {r \in RulesOf(spec, "import") : r.from = LayerOf(spec.layers, file.path)}
    IN  {<<file.path, pair[1].id, pair[2].spec>> :
           pair \in {p \in from \X file.imports : \E field \in p[1].imports : hits(field, p[2])}}

\* A rule is asked of the files that it names, else of those under the scan roots.
Applies(rule, spec, roots, file) ==
    IF rule.appliesTo # {} THEN MatchesAny(file.path, rule.appliesTo) ELSE InScan(spec, roots, file.path)

\* findPatternMatch: a pattern that is no regular expression matches nothing.
Matches(file, pattern) == pattern.valid /\ pattern.text \in file.text

\* evaluatePatternRules
PatternFindings(spec, roots, file) ==
    LET hits(p) == Matches(file, p) = (p.kind = "forbid")
        asked == {r \in RulesOf(spec, "pattern") : Applies(r, spec, roots, file)}
    IN  UNION {{<<file.path, r.id, p.text>> : p \in {q \in r.patterns : hits(q)}} : r \in asked}

\* evaluateOwner
OwnerFindings(spec, roots, file) ==
    {<<file.path, r.id, r.pattern.text>> :
       r \in {q \in RulesOf(spec, "owner") : /\ Applies(q, spec, roots, file) /\ ~MatchesAny(file.path, q.owners)
                                             /\ Matches(file, q.pattern)}}

\* evaluateRegistry; file.names[pattern] is what the pattern captures.
RegistryFindings(spec, roots, file) ==
    LET captured(r) == UNION {file.names[p.text] : p \in {q \in r.patterns : q.valid}}
        asked == {r \in RulesOf(spec, "registry") : Applies(r, spec, roots, file)}
    IN  UNION {{<<file.path, r.id, name>> : name \in captured(r) \ r.registered} : r \in asked}

\* checkArchBoundariesForFiles: content has no import rules.
BoundaryFindings(spec, files, manifestRoots) ==
    LET roots == ScanRoots(spec, manifestRoots)
        read == {f \in files : InScan(spec, roots, f.path) /\ IsOfLanguage(spec, f)}
    IN  UNION {PatternFindings(spec, roots, f) \cup OwnerFindings(spec, roots, f) \cup RegistryFindings(spec, roots, f)
               \cup (IF spec.domain = "content" THEN {} ELSE ImportFindings(spec, f)) : f \in read}
-----------------------------------------------------------------------------
(* The whole tree.                                                         *)

Keys == {"files", "lines", "exports"}
NoCounts == [key \in Keys |-> 0]

\* LayerCounts: a baseline keeps counts, of files that have a number of lines and of exports.
IsBaseline(baseline) == \A layer \in DOMAIN baseline : baseline[layer] \in [Keys -> Nat]
IsTree(tree) == IsFiniteSet(tree.files) /\ \A f \in tree.files : f.lines \in Nat /\ f.exports \in Nat

\* countedFiles: the roots of the manifest are not asked here.
Counted(spec, files) == {f \in files : InScan(spec, ScanRoots(spec, {}), f.path) /\ IsOfLanguage(spec, f)}

\* countLayers, of one layer: a file is in the first that matches, and in none when it is excluded.
Counts(spec, layer, counted, exclude) ==
    LET in == {f \in counted : LayerOf(spec.layers, f.path) = layer /\ ~MatchesAny(f.path, exclude)} IN
    IF \E n \in DOMAIN spec.layers : spec.layers[n].id = layer
    THEN [files |-> Cardinality(in), lines |-> SumFunction([f \in in |-> f.lines]),
          exports |-> SumFunction([f \in in |-> f.exports])]
    ELSE NoCounts

\* evaluateBudgets: a layer that the baseline does not have is held to its own size.
BudgetFindings(spec, counted, baseline) ==
    LET now(r) == Counts(spec, r.layer, counted, r.exclude)
        most(r, key) == IF r.max[key] # Unset THEN r.max[key]
                        ELSE IF r.layer \in DOMAIN baseline THEN baseline[r.layer][key] ELSE now(r)[key]
        budgets == RulesOf(spec, "budget")
        tooLong(r) == {f \in counted : /\ ~MatchesAny(f.path, r.exclude) /\ LayerOf(spec.layers, f.path) = r.layer
                                       /\ spec.ceiling # Unset /\ f.lines > spec.ceiling}
    IN  {<<pair[1].layer, pair[1].id, pair[2]>> :
           pair \in {p \in budgets \X Keys : now(p[1])[p[2]] > most(p[1], p[2])}}
        \cup UNION {{<<f.path, r.id, "ceiling">> : f \in tooLong(r)} : r \in budgets}

\* runtimeImportEdges: imports of types are not edges.
Edges(counted) ==
    {<<f.path, g.path>> : f \in counted, g \in counted}
    \cap UNION {{<<f.path, i.resolved>> : i \in {j \in f.imports : j.runtime}} : f \in counted}

NodesOf(edges) == {e[1] : e \in edges} \cup {e[2] : e \in edges}

\* One file imports the other, or itself, over any number of imports, none included.
Reaches(edges, v, w) ==
    \A set \in SUBSET NodesOf(edges) :
        v \in set /\ (\A e \in edges : e[1] \in set => e[2] \in set) => w \in set
Component(edges, v) == {w \in NodesOf(edges) : Reaches(edges, v, w) /\ Reaches(edges, w, v)}

\* evaluateCycles: the sets of files that import each other; CycleSearch is how it finds them.
Cycles(edges) == {Component(edges, v) : v \in {w \in NodesOf(edges) : <<w, w>> \in edges \/ Component(edges, w) # {w}}}

\* evaluateDependencies: of two entries of a registry with one name the last counts.
DependencyFindings(rule, declared) ==
    LET entries(d) == {n \in DOMAIN rule.registered : rule.registered[n].name = d.name}
        entry(d) == rule.registered[Max(entries(d))]
        differs(d, field) == entry(d)[field] \notin {Unset, d[field]}
    IN  {<<rule.manifest, rule.id, d.name>> :
           d \in {e \in declared : entries(e) = {} \/ differs(e, "scope") \/ differs(e, "range")}}

\* evaluateDuplicates
DuplicateFindings(rule, hashed) ==
    {<<f.path, rule.id, f.hash>> :
       f \in {g \in hashed : /\ IsUnder(g.path, rule.first) /\ g.path \notin rule.allowed
                             /\ \E twin \in hashed : IsUnder(twin.path, rule.second) /\ twin.hash = g.hash}}

\* checkArchStructure; tree.declared[manifest] are the dependencies that a manifest declares.
StructureFindings(spec, tree, baseline) ==
    LET counted == Counted(spec, tree.files) IN
    BudgetFindings(spec, counted, baseline)
    \cup {<<CHOOSE f \in members : TRUE, r.id, members>> : members \in Cycles(Edges(counted)), r \in RulesOf(spec, "cycles")}
    \cup (UNION {DependencyFindings(r, tree.declared[r.manifest]) : r \in RulesOf(spec, "dependency")})
    \cup UNION {DuplicateFindings(r, tree.hashed) : r \in RulesOf(spec, "duplicate")}

\* Faulty variant: a run without files checks the structure only.
CheckTree_StructureOnly(spec, tree, named, baseline, manifestRoots) ==
    IF named # {} THEN BoundaryFindings(spec, named, manifestRoots) ELSE StructureFindings(spec, tree, baseline)

\* runArchCheck, runArchCheckCommand: files that are named are judged one by one only.
CheckTree(spec, tree, named, baseline, manifestRoots) ==
    IF named # {} THEN BoundaryFindings(spec, named, manifestRoots)
    ELSE BoundaryFindings(spec, tree.files, manifestRoots) \cup StructureFindings(spec, tree, baseline)

\* Faulty variant: only the number of files is compared.
Rose_Files(was, now) == now["files"] > was["files"]

Rose(was, now) == \E key \in Keys : now[key] > was[key]

\* ratchetArchBaseline: the baseline after it; of several budgets of one layer the first says what is excluded.
Ratchet(spec, files, baseline, allowRaise) ==
    LET counted == Counted(spec, files)
        excluded(layer) == LET of == {r \in RulesOf(spec, "budget") : r.layer = layer} IN
                           IF of = {} THEN {} ELSE (CHOOSE r \in of : \A q \in of : r.at <= q.at).exclude
        sizes == [layer \in {spec.layers[n].id : n \in DOMAIN spec.layers} |->
                    Counts(spec, layer, counted, excluded(layer))]
        raised == {layer \in DOMAIN sizes \cap DOMAIN baseline : Rose(baseline[layer], sizes[layer])}
    IN  [written |-> raised = {} \/ allowRaise,
         baseline |-> IF raised = {} \/ allowRaise THEN sizes ELSE baseline]

\* runArchCheckCommand: how it ends, without --allow-raise; only a run on the whole tree ratchets.
ArchExit(spec, tree, named, baseline, manifestRoots, ratchet) ==
    IF \/ named = {} /\ ~\E f \in tree.files : InScan(spec, ScanRoots(spec, {}), f.path)
       \/ named # {} /\ ratchet
    THEN "usage"
    ELSE IF \/ CheckTree(spec, tree, named, baseline, manifestRoots) # {}
            \/ ratchet /\ ~Ratchet(spec, tree.files, baseline, FALSE).written
    THEN "failure" ELSE "ok"
-----------------------------------------------------------------------------
(* Properties.                                                             *)

\* No ratchet without --allow-raise makes a tree pass that did not; and when each layer has one
\* budget, what it writes admits its own tree but for what the rules themselves forbid.
RatchetForgivesNothing(spec, files, other, baseline) ==
    LET ratchet == Ratchet(spec, files, baseline, FALSE)
        found(of, sizes) == BudgetFindings(spec, Counted(spec, of), sizes)
        oneEach == \A r, q \in RulesOf(spec, "budget") : r.layer = q.layer => r = q
    IN  /\ found(other, baseline) \subseteq found(other, ratchet.baseline)
        /\ oneEach /\ ratchet.written => found(files, ratchet.baseline) \subseteq found(files, << >>)

\* When the check of the whole tree passes, so does that of every file of it.
NamedPassAlike(spec, tree, named, baseline, manifestRoots) ==
    ArchExit(spec, tree, {}, baseline, manifestRoots, FALSE) = "ok" /\ named \subseteq tree.files
        => ArchExit(spec, tree, named, baseline, manifestRoots, FALSE) = "ok"
=============================================================================
