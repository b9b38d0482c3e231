------------------------------ MODULE Scaffold ------------------------------
(***************************************************************************)
(* gantry init (cli: init.ts, init-interactive.ts; packages/missions:      *)
(* init/*, file-merge-gxt.ts, substrate-version.ts, planner-identity.ts).  *)
(* It compares the templates of a profile with the working tree, asks      *)
(* whether the managed files that differ may be written over, writes one   *)
(* file after the other, then the version and the local list of planners,  *)
(* and appends to the ignore files the lines that they lack.               *)
(*                                                                         *)
(* Nothing is locked: the user edits, and another init runs, meanwhile.  A *)
(* file is absent, as the template has it, cut short by a crash, or the    *)
(* user's, which is whatever else it holds.  A write that nothing cuts     *)
(* short is one step.                                                      *)
(***************************************************************************)
EXTENDS Naturals

CONSTANTS Strict,                \* the assets of mode managed_strict
          Starters,              \* those of mode scaffold_only: the user's once they are there
          Core,                  \* the assets of every profile
          Composed,              \* the integrations doc and ARCHITECTURE.pointer.yaml
          Manifest, VersionFile, \* MANIFEST.yaml, SUBSTRATE.version.json
          LocalList,             \* the local list of planners
          IgnoreFiles,           \* .gitignore and .prettierignore
          Lines, Fragment,       \* their lines; the lines that init wants in each
          Inits,                 \* the processes that run `gantry init`
          MaxMishaps             \* bound on the edits and crashes together

ASSUME ScaffoldAssumption ==
    /\ Core \subseteq Strict \cup Starters /\ Core # {}
    /\ {Manifest, VersionFile} \subseteq Starters
    /\ Strict \cap Starters = {} /\ Composed \cap (Strict \cup Starters) = {}
    /\ LocalList \notin Strict \cup Starters \cup Composed
    /\ Fragment \in [IgnoreFiles -> SUBSET Lines]
    /\ IgnoreFiles \cap (Strict \cup Starters \cup Composed \cup {LocalList}) = {}
    /\ MaxMishaps \in Nat

Scaffolded == Strict \cup Starters \cup Composed \cup {LocalList}
Profiles == {p \in SUBSET (Strict \cup Starters) : Core \subseteq p}

VARIABLES disk,     \* what is in each file
          ignored,  \* the lines of each ignore file
          inits,    \* the runs of init
          since,    \* history: what somebody else changed since a run looked at it
          mishaps   \* counter for the bound

scaffoldVars == <<disk, ignored, inits, since, mishaps>>

\* A run: where it is, its profile and options, what it has left to write or to merge, what it asked
\* about; the ignore file that it read and the lines it saw there.
NoInit == [pc |-> "none", assets |-> {}, force |-> FALSE, tty |-> FALSE, dry |-> FALSE,
           left |-> {}, shown |-> {}, at |-> {}, seen |-> {}]
Merging == [NoInit EXCEPT !.pc = "fragments", !.left = IgnoreFiles]

ScaffoldInit == /\ disk \in [Scaffolded -> {"absent", "mine"}]
                /\ ignored \in [IgnoreFiles -> SUBSET Lines]
                /\ inits = [i \in Inits |-> NoInit]
                /\ since = [i \in Inits |-> {}]
                /\ mishaps = 0

\* One of the runs, or the user, changes some files: the other runs do not know.
Touch(by, changed) == since' = [i \in Inits |-> IF {i} = by THEN since[i] ELSE since[i] \cup changed]
Put1(f, content) == disk' = [disk EXCEPT ![f] = content]
Go(i, run) == inits' = [inits EXCEPT ![i] = run]
-----------------------------------------------------------------------------
(* The plan.                                                               *)

\* Faulty variant: --force is asked about before the mode.
Writes_Any(assets, force) == {f \in assets : disk[f] = "absent" \/ (disk[f] # "template" /\ force)}

\* planInitAssets: what is absent is written; what differs only if it is managed, and with --force.
Writes(assets, force) == {f \in assets : \/ disk[f] = "absent"
                                         \/ /\ force /\ f \in Strict
                                            /\ disk[f] # "template"}
Conflicts(assets) == {f \in assets \cap Strict : disk[f] \notin {"absent", "template"}}

\* planIntegrationsDocWrite, planArchitecturePointerWrite: never over a file that is there.
ComposedWrites == {f \in Composed : disk[f] = "absent"}

\* scaffoldSubstrate: nothing is awaited between the plan that counts and the first write.
Planned(run, force) == [run EXCEPT !.pc = "write", !.left = Writes(run.assets, force) \cup ComposedWrites]

\* runInit; the profile is that of the flags, or of the answers in the terminal.
InitStart(i) == /\ inits[i] = NoInit
                /\ \E assets \in Profiles, force, tty, dry \in BOOLEAN :
                     Go(i, [NoInit EXCEPT !.pc = "plan", !.assets = assets, !.force = force, !.tty = tty, !.dry = dry])
                /\ UNCHANGED <<disk, ignored, since, mishaps>>

\* init --tutorial in a repository that has a manifest: the ignore files only.
TutorialOnly(i) == /\ inits[i] = NoInit
                   /\ disk[Manifest] # "absent"
                   /\ Go(i, Merging)
                   /\ UNCHANGED <<disk, ignored, since, mishaps>>

\* The profile is cancelled or not valid, or a template is missing.
InitRefused(i) == /\ inits[i].pc = "plan"
                  /\ Go(i, NoInit)
                  /\ UNCHANGED <<disk, ignored, since, mishaps>>

\* resolveInitAssetPlan: conflicts end the run, unless they are forced or there is a terminal to ask in.
InitPlan(i) == LET run == inits[i]
                   conflicts == Conflicts(run.assets)
               IN
               /\ run.pc = "plan"
               /\ \/ /\ run.force \/ conflicts = {}
                     /\ Go(i, IF run.dry THEN NoInit ELSE Planned(run, run.force))
                  \/ /\ ~run.force /\ conflicts # {}
                     /\ Go(i, IF run.tty /\ ~run.dry THEN [run EXCEPT !.pc = "ask", !.shown = conflicts] ELSE NoInit)
               /\ since' = [since EXCEPT ![i] = {}]
               /\ UNCHANGED <<disk, ignored, mishaps>>

\* Faulty variant: the answer takes the plan that was made before it, without the conflicts.
Overwrite_OldPlan(run) == Planned(run, FALSE)

\* promptOverwriteManagedAssets, answered with yes: a new plan, with force.
Overwrite(run) == Planned(run, TRUE)

InitAnswer(i) == /\ inits[i].pc = "ask"
                 /\ \E answer \in {Overwrite(inits[i]), NoInit} : Go(i, answer)
                 /\ UNCHANGED <<disk, ignored, since, mishaps>>
-----------------------------------------------------------------------------
(* The writes.                                                             *)

\* applyInitWrites: the composed files come last.
InitWrite(i) == LET run == inits[i] IN
                /\ run.pc = "write"
                /\ \E f \in run.left :
                     /\ f \in Composed => run.left \subseteq Composed
                     /\ Put1(f, "template")
                     /\ Go(i, [run EXCEPT !.left = @ \ {f}])
                     /\ Touch({i}, {f})
                /\ UNCHANGED <<ignored, mishaps>>

\* ensureSubstrateVersionOnInit
InitVersion(i) == /\ inits[i].pc = "write" /\ inits[i].left = {}
                  /\ IF disk[VersionFile] = "absent" THEN Put1(VersionFile, "template") /\ Touch({i}, {VersionFile})
                     ELSE UNCHANGED <<disk, since>>
                  /\ Go(i, [inits[i] EXCEPT !.pc = "list"])
                  /\ UNCHANGED <<ignored, mishaps>>

\* ensurePlannerAllowlistOnInit: not when the team's list has someone, or git has no user.email.
InitList(i) == /\ inits[i].pc = "list"
               /\ \/ disk[LocalList] = "absent" /\ Put1(LocalList, "template") /\ Touch({i}, {LocalList})
                  \/ UNCHANGED <<disk, since>>
               /\ Go(i, Merging)
               /\ UNCHANGED <<ignored, mishaps>>

\* mergeGxtFragment reads an ignore file...
MergeRead(i) == LET run == inits[i] IN
                /\ run.pc = "fragments"
                /\ \E g \in run.left :
                     /\ Go(i, IF Fragment[g] \subseteq ignored[g] THEN [run EXCEPT !.left = @ \ {g}]
                              ELSE [run EXCEPT !.pc = "append", !.left = @ \ {g}, !.at = {g}, !.seen = ignored[g]])
                     /\ since' = [since EXCEPT ![i] = @ \ {g}]
                /\ UNCHANGED <<disk, ignored, mishaps>>

\* Faulty variant: the missing lines instead of the file.
Merged_Only(run, g) == Fragment[g] \ run.seen

Merged(run, g) == run.seen \cup Fragment[g]

\* ...and writes the whole of it.
MergeWrite(i) == LET run == inits[i] IN
                 /\ run.pc = "append"
                 /\ \E g \in run.at : /\ ignored' = [ignored EXCEPT ![g] = Merged(run, g)]
                                      /\ Touch({i}, {g})
                 /\ Go(i, [run EXCEPT !.pc = "fragments", !.at = {}, !.seen = {}])
                 /\ UNCHANGED <<disk, mishaps>>

InitEnd(i) == /\ inits[i].pc = "fragments" /\ inits[i].left = {}
              /\ Go(i, NoInit)
              /\ UNCHANGED <<disk, ignored, since, mishaps>>
-----------------------------------------------------------------------------
(* Everybody else.                                                         *)

Mishap == mishaps < MaxMishaps /\ mishaps' = mishaps + 1

\* The files that a run may be in the middle of writing.
Open(run) == CASE run.pc = "write" -> IF run.left # {} THEN run.left ELSE {f \in {VersionFile} : disk[f] = "absent"}
               [] run.pc = "list" -> {f \in {LocalList} : disk[f] = "absent"}
               [] OTHER -> {}

\* A kill, or a file that cannot be written; writeFileSync leaves what it has written so far.
InitCrash(i) == /\ inits[i] # NoInit
                /\ Mishap
                /\ \/ UNCHANGED <<disk, ignored, since>>
                   \/ /\ \E f \in Open(inits[i]) : Put1(f, "half") /\ Touch({i}, {f})
                      /\ UNCHANGED ignored
                   \/ /\ \E g \in inits[i].at : /\ \E part \in SUBSET inits[i].seen : ignored' = [ignored EXCEPT ![g] = part]
                                                 /\ Touch({i}, {g})
                      /\ UNCHANGED disk
                /\ Go(i, NoInit)

\* The user, or git, changes or removes a file.
EditFile == /\ Mishap
            /\ \E f \in Scaffolded : /\ \E content \in {"absent", "mine"} : Put1(f, content)
                                     /\ Touch({}, {f})
            /\ UNCHANGED <<ignored, inits>>
EditIgnored == /\ Mishap
               /\ \E g \in IgnoreFiles : /\ \E lines \in SUBSET Lines : ignored' = [ignored EXCEPT ![g] = lines]
                                         /\ Touch({}, {g})
               /\ UNCHANGED <<disk, inits>>

InitStep(i) == \/ InitStart(i) \/ TutorialOnly(i) \/ InitRefused(i) \/ InitPlan(i) \/ InitAnswer(i) \/ InitWrite(i)
               \/ InitVersion(i) \/ InitList(i) \/ MergeRead(i) \/ MergeWrite(i) \/ InitEnd(i) \/ InitCrash(i)

ScaffoldNext == EditFile \/ EditIgnored \/ \E i \in Inits : InitStep(i)

ScaffoldSpec == ScaffoldInit /\ [][ScaffoldNext]_scaffoldVars
-----------------------------------------------------------------------------
(* Properties.                                                             *)

Steps(i) == inits'[i] # inits[i]

\* A file that holds the user's work is written over, or torn, only if init manages it, and then
\* only with --force or when it was among those the user agreed to; also when the answer took long
\* and the second plan found another tree - unless the file was changed after that run looked.
WorkIsKept ==
    \A i \in Inits, f \in Scaffolded :
        Steps(i) /\ disk[f] = "mine" /\ disk'[f] # "mine" =>
            f \in since[i] \/ (f \in Strict /\ (inits[i].force \/ f \in inits[i].shown))

\* A run that is not cut short drops no line of an ignore file, unless it was changed after that run read it.
LinesAreKept ==
    \A i \in Inits, g \in IgnoreFiles :
        Steps(i) /\ ~(ignored[g] \subseteq ignored'[g]) => g \in since[i] \/ inits'[i] = NoInit

\* A run that comes to its last writes has every file of its profile in place, the managed ones as
\* the templates have them, whatever earlier runs left when they were cut short, but for those that
\* somebody else changed since it planned.
ScaffoldIsComplete ==
    \A i \in Inits :
        inits[i].pc = "write" /\ inits'[i].pc = "list" =>
            \A f \in (inits[i].assets \cup Composed) \ since[i] :
                IF f \in Strict THEN disk[f] = "template" ELSE disk[f] # "absent"

\* tests/init.test.ts, "preserves mutable files", "overwrites only managed files": at any moment
\* init writes what it may, and in the end it has written what it must.
InitIsSafe == [][WorkIsKept /\ LinesAreKept /\ ScaffoldIsComplete]_scaffoldVars
=============================================================================
