------------------------------ MODULE MCRules ------------------------------
(***************************************************************************)
(* Two parts that share no state, in one run: the questions to the rules   *)
(* (Rules) and the search for cycles (CycleSearch).  A behaviour is one of *)
(* the part that its start chose; the other does nothing.                  *)
(***************************************************************************)
EXTENDS Rules, CycleSearch
CONSTANTS a, b, ci, pkg, git, cage, env, lock, dep, vendor, l1, l2, n1, n2, n3, n4

\* Law.
LawPaths == {<<a>>, <<a, b>>, <<b>>}
LawPatterns == {<<a>>, <<Deep, b>>, << >>}
LawRules == [id : {"r"}, patterns : {{p} : p \in LawPatterns}, except : {{}}, effect : Effects, overridable : BOOLEAN]
UpTo1(set) == {<< >>} \cup {<<x>> : x \in set}
LawAreas == UpTo1({Area("area", {<<a>>}, FALSE), Area("area", {<<b>>}, TRUE)})
MCUpperLaws == [areas : LawAreas, rules : UpTo1(LawRules), exempt : {{}, {<<b>>}}]
MCLowerLaws == [areas : LawAreas, rules : UpTo1(LawRules), exempt : {{}}]

\* Missions: two folders, each with a file; literal and glob roots.
Folders == {<<a>>, <<a, b>>, <<Star, b>>}
AtMost1(set) == {{}} \cup {{x} : x \in set}
MCSkills == [roots : AtMost1({<<a>>, <<Star, b>>}) \cup {{<<a>>, <<b>>}}, zones : AtMost1(Folders), perimeter : AtMost1({<<b>>})]
MCPolicies == [zones : AtMost1({<<b>>, <<Deep, a>>}), perimeter : {{}}]
MCContracts == [roots : AtMost1(Folders), zones : AtMost1({<<b, a>>, <<a, b>>})]
MCTransport == {<<git>>}

\* The cage.
MCPaths == LawPaths \cup {<<ci, b>>, <<git>>, <<cage>>, <<a, lock>>, <<a, env>>, <<vendor, dep>>}
MCOverrides == {{}, {<<a>>}, {<<ci>>}, {<<a, env>>}, {<<Star>>}}
MCZones == {{}, {<<b>>}}
MCEntries == {Entry("path", <<a>>, "report"), Entry("path", <<ci>>, "report"), Entry("path", <<a, lock>>, "report"),
              Entry("path", <<a>>, "revert"), Entry("glob", <<Deep, b>>, "revert"), Entry("glob", <<ci>>, "report")}
MCConfigs == [entries : UpTo1(MCEntries), dependencies : {"report", "revert"}, allowOnly : AtMost1({<<a>>})]
MCFlagSets == [lockDeps : BOOLEAN, allowOnly : AtMost1({<<Star, b>>})]
MCFound == {Entry("path", <<a, b>>, "revert"), Entry("path", <<b>>, "revert"), Entry("glob", <<Deep, b>>, "revert")}
MCCi == {<<ci>>}
MCGit == {<<git>>}
MCCage == {<<cage>>}
MCSecrets == {<<Deep, env>>}
MCNone == {}
MCLocks == {<<Deep, lock>>}
MCDeps == {<<Deep, dep>>}
MCVendored == {<<Deep, vendor, Deep>>}

\* Trees: two layers, a file in each, and a file of neither.
Layers == <<[id |-> l1, globs |-> {<<a, Deep>>}], [id |-> l2, globs |-> {<<b, Star>>, <<Deep, b>>}]>>
NoMax == [k \in Keys |-> Unset]
Budget(at, layer, max, exclude) ==
    [kind |-> "budget", complete |-> TRUE, at |-> at, id |-> at, layer |-> layer, max |-> max, exclude |-> exclude]
Budgets == {{Budget(1, l1, NoMax, {}), Budget(2, l2, NoMax, {})},
            {Budget(1, l1, [NoMax EXCEPT !["lines"] = 1], {}), Budget(2, l2, NoMax, {<<b, b>>})},
            {Budget(1, l1, NoMax, {}), Budget(2, l1, NoMax, {<<a, Star>>})}}
Pattern(kind, text, valid) == [kind |-> kind, text |-> text, valid |-> valid]
Others == {[kind |-> "import", id |-> 4, from |-> l1, imports |-> {[forbid |-> "layer", value |-> l2]}, patterns |-> {}],
           [kind |-> "import", id |-> 5, from |-> l2, patterns |-> {},
            imports |-> {[forbid |-> "specifier", value |-> <<dep>>], [forbid |-> "path", value |-> <<a>>]}],
           [kind |-> "pattern", id |-> 6, imports |-> {}, appliesTo |-> {<<Deep, a>>},
            patterns |-> {Pattern("forbid", "x", TRUE), Pattern("require", "y", TRUE)}],
           [kind |-> "owner", complete |-> TRUE, id |-> 7, pattern |-> Pattern("forbid", "x", TRUE),
            owners |-> {<<a, b>>}, appliesTo |-> {}],
           [kind |-> "registry", complete |-> TRUE, id |-> 8, patterns |-> {Pattern("forbid", "x", TRUE)},
            registered |-> {"known"}, appliesTo |-> {}],
           [kind |-> "dependency", complete |-> TRUE, id |-> 9, manifest |-> <<dep>>,
            registered |-> <<[name |-> dep, scope |-> "dev", range |-> Unset], [name |-> dep, scope |-> Unset, range |-> 1]>>],
           [kind |-> "duplicate", complete |-> TRUE, id |-> 10, first |-> <<a>>, second |-> <<b>>, allowed |-> {}],
           [kind |-> "cycles", complete |-> TRUE, id |-> 11]}
MCSpecs == [layers : {Layers}, rules : {Others} \cup {{Budget(1, l1, NoMax, {}), r} : r \in Others}, roots : {{}, {<<a>>}}, exclude : {{}, {<<Deep, a>>}},
            domain : {"code", "content"}, ceiling : {2}]
File(path, lines, to, text, names) ==
    [path |-> path, kind |-> "typescript", lines |-> lines, exports |-> 1, text |-> text, names |-> [p \in {"x"} |-> names],
     imports |-> {[spec |-> <<dep, a>>, resolved |-> to, runtime |-> TRUE]}]
FileSets == {{}} \cup {{File(<<a, b>>, n, <<b, a>>, {"x"}, {"known"})} : n \in 1 .. 3}
OtherSets == {{}} \cup {{File(<<b, a>>, n, <<a, b>>, {}, {"new"})} : n \in 1 .. 2}
                  \cup {{File(<<b, b>>, 1, Unresolved, {"x", "y"}, {}), File(<<b, a>>, 1, Unresolved, {}, {})}}
MCTrees == {[files |-> F \cup G, declared |-> [f \in {<<dep>>} |-> {[name |-> dep, scope |-> "runtime", range |-> 2]}],
             hashed |-> {[path |-> f.path, hash |-> f.text] : f \in F \cup G}] : F \in FileSets, G \in OtherSets}
Sizes == [files : 0 .. 1, lines : {0, 2}, exports : 0 .. 1]
MCBaselines == {<< >>} \cup [{l1} -> Sizes] \cup {f @@ (l2 :> [files |-> 1, lines |-> 1, exports |-> 1]) : f \in [{l1} -> Sizes]}
MCBudgetSpecs == [layers : {Layers}, rules : Budgets, roots : {{}}, exclude : {{}}, domain : {"code"}, ceiling : {Unset, 2}]
MCManifestRoots == {<<a>>}
MCGraphs == (SUBSET ({n1, n2, n3} \X {n1, n2, n3}))
            \cup SUBSET {<<n1, n2>>, <<n2, n1>>, <<n2, n3>>, <<n3, n1>>, <<n3, n4>>, <<n4, n2>>, <<n4, n3>>, <<n1, n4>>}

\* Changes: a file that a task may edit and one that is there, in two layers.
Code(lines, imports, asserts) == [lang |-> "js", lines |-> lines, imports |-> imports, asserts |-> asserts, markers |-> 0]
ImportB == [relative |-> FALSE, spec |-> <<dep>>, names |-> {}]
OldTree == (<<a, b>> :> Code({}, {}, 1)) @@ (<<b, a>> :> Code({}, {}, 0))
NewTrees == {(<<a, b>> :> Code(l, i, t)) @@ rest : l \in {{}, {"x"}}, i \in {{}, {ImportB}}, t \in 0 .. 1,
             rest \in {<<b, a>> :> Code({}, {}, 0), <<b, b>> :> Code({"x"}, {}, 2)}}
Contract == [wellFormed |-> TRUE, base |-> None, allowed |-> None, forbidden |-> {}, maxAdded |-> None, sizeExclude |-> {},
             rules |-> << >>, checks |-> << >>, imports |-> << >>, layers |-> << >>, aliases |-> << >>, tests |-> None]
ChangeRules == UpTo1([name : {"r"}, files : {{<<a>>}, {<<b>>}}, forbid : {"x"}])
LayerOfA(paths, mayNot) == [name |-> l1, paths |-> paths, mayNot |-> mayNot]
LayerOfB == [name |-> l2, paths |-> {<<b>>}, mayNot |-> {}]
Tests == [files |-> {<<a>>, <<b>>}, allow |-> {<<a>>}]
OwnLaws == {None} \cup
    {[Contract EXCEPT !.forbidden = f, !.rules = r, !.layers = <<LayerOfA({<<a>>}, {l2}), LayerOfB>>,
                      !.imports = <<[name |-> "i", files |-> {<<a>>}, forbid |-> {<<dep>>}]>>,
                      !.aliases = (<<dep>> :> <<b>>), !.tests = t] :
       f \in {{}, {<<b>>}}, r \in ChangeRules, t \in {None, [Tests EXCEPT !.allow = {}]}}
Check(name, expect, names) == [name |-> name, expect |-> expect, heavy |-> TRUE, quick |-> FALSE, namesFailures |-> names]
Tasks == {[Contract EXCEPT !.allowed = f, !.rules = r, !.layers = y, !.tests = t, !.maxAdded = 0, !.base = "base",
                           !.checks = <<Check("c", "exit0", TRUE), Check("d", "empty", FALSE)>>] :
            f \in {None, {<<a>>}}, r \in ChangeRules, t \in {None, Tests}, y \in UpTo1({LayerOfA({<<a>>, <<b>>}, {})})}
Ran(exit, failing) == [n \in {"c", "d"} |-> [exit |-> exit, prints |-> FALSE, failing |-> failing]]
Repo(head, disk, task, atBase, own) ==
    [fork |-> OldTree, base |-> OldTree, head |-> head, disk |-> disk, dirty |-> head # disk, tracked |-> FALSE,
     onDisk |-> task, atBase |-> atBase, ownLaw |-> own, isOwn |-> FALSE, baseGiven |-> TRUE, baselineInside |-> TRUE,
     baselineAtBase |-> None, baselineOnDisk |-> None, ran |-> Ran(1, {"f"})]
MCRepos == {Repo(h, h, t, None, o) : h \in NewTrees, t \in Tasks, o \in OwnLaws}
           \cup {Repo(OldTree, h, t, None, None) : h \in NewTrees, t \in Tasks}
Baselines2(c) == {None, [contract |-> c, failures |-> [n \in {"c"} |-> {"f"}]]}
SomeTask == [Contract EXCEPT !.maxAdded = 1, !.checks = <<Check("c", "exit0", TRUE)>>]
Tracked(heads, bases, disks) ==
    {[Repo(h, h, SomeTask, SomeTask, None) EXCEPT !.tracked = TRUE, !.isOwn = own, !.ownLaw = IF own THEN SomeTask ELSE None, !.baselineAtBase = p, !.baselineOnDisk = q, !.onDisk = d,
                                                  !.fork = o, !.base = o, !.ran = Ran(e, {"f"})] :
       h \in heads, o \in bases, own \in BOOLEAN, p \in Baselines2(SomeTask), q \in Baselines2(SomeTask), d \in disks, e \in {0, 2}}
MCTrackedRepos == Tracked(NewTrees, {OldTree}, {SomeTask})
MCTampered == {Contract, [Contract EXCEPT !.wellFormed = FALSE], [SomeTask EXCEPT !.maxAdded = 0]}
MCTamperedBaselines == UNION {Baselines2(c) : c \in MCTampered \cup {SomeTask}}
SomeTree == CHOOSE t \in NewTrees : Cardinality(t[<<a, b>>].lines) = 0
MCMovedRepos == {r \in Tracked(NewTrees, {OldTree, SomeTree}, {SomeTask, Contract}) : r.baselineOnDisk = None}

\* Dependency updates: one manifest with one section, its lockfile, entries from a registry of the rule's and from elsewhere.
MCUpdateRules == {[actors |-> {"bot"}, paths |-> {<<Deep>>}, kind |-> "dependency_update", max |-> 200, registries |-> {"registry"}],
                  [actors |-> {"bot"}, paths |-> {<<Deep>>}, kind |-> "dependency_update", max |-> 200, registries |-> {}]}
Manifest(names, version) == [sections |-> [s \in {"dependencies"} |-> [n \in names |-> version]], rest |-> "rest"]
Manifests == {Manifest({"x"}, 1), Manifest({"x"}, 2), Manifest({"x", "y"}, 1)}
Installed(from, integrity) == [link |-> FALSE, bundled |-> FALSE, resolved |-> from, integrity |-> integrity]
Installs == {Installed("registry", TRUE), Installed("registry", FALSE), Installed("elsewhere", TRUE)}
Folder(link) == [link |-> link, bundled |-> FALSE, resolved |-> Absent, integrity |-> FALSE]
Entries == {<< >>} \cup [{"x"} -> Installs] \cup [{"y"} -> {Installed("registry", TRUE)}]
Lockdocs == {[version |-> 3, rest |-> "rest", root |-> Manifest({"x"}, 1), local |-> l, packages |-> p, legacy |-> << >>] :
               l \in {<< >>} \cup [{"folder"} -> {Folder(TRUE), Folder(FALSE)}], p \in Entries}
            \cup {[version |-> v, rest |-> "rest", root |-> Manifest({"x"}, 2), local |-> << >>, packages |-> << >>, legacy |-> e] :
                    v \in {1, 2}, e \in Entries}
MCDocuments == {(<<pkg>> :> m) @@ (<<lock>> :> d) : m \in Manifests, d \in Lockdocs \cup {Absent}}
MCPackageFiles == {<<Deep, pkg>>}
MCWorkflowFiles == {<<ci, Star>>}
-----------------------------------------------------------------------------
VARIABLE part

vars == <<rulesVars, searchVars, part>>

AllInit == /\ part \in {"questions", "cycles"}
           /\ RulesInit /\ SearchInit
           /\ part # "cycles" => graph = {}

AllNext == \/ part = "questions" /\ UNCHANGED <<searchVars, part>> /\ RulesNext
           \/ part = "cycles" /\ UNCHANGED <<rulesVars, part>> /\ SearchNext

AllSpec == AllInit /\ [][AllNext]_vars
=============================================================================
