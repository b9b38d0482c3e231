------------------------------ MODULE Upgrade ------------------------------
(***************************************************************************)
(* gantry upgrade (packages/missions: upgrade/*, atomic-fs.ts,             *)
(* substrate-version.ts, msn-allocate.ts).  `upgrade plan --stage` copies  *)
(* the managed files that differ from the bundle to a staging directory and*)
(* drafts a mission that names them and their hashes; the Planner commits  *)
(* the mission; `upgrade apply` checks the staged files against the hashes,*)
(* copies them to a second directory, renames them into place one by one   *)
(* and writes the version file last.                                       *)
(*                                                                         *)
(* Both directories are one per repository: plans and applies share them.  *)
(* A file's content is the version of the bundle it is from, or the user's.*)
(***************************************************************************)
EXTENDS Integers, FiniteSets, Functions

CONSTANTS Assets,      \* the managed_strict files
          Appliers,    \* the processes that run `gantry upgrade apply`
          Numbers,     \* the numbers of the upgrade band: 9000-9099
          MaxVersion,  \* bound on the versions of the package
          MaxPlans,    \* bound on the plans
          MaxFaults    \* bound on the edits, busy files and crashes together

ASSUME UpgradeAssumption == {MaxVersion, MaxPlans, MaxFaults} \subseteq Nat
ASSUME NumbersAssumption == Numbers \subseteq Nat /\ IsFiniteSet(Numbers)

Edited == -1
HalfCopied == -2           \* a file that was copied in part
Versions == 1 .. MaxVersion

VARIABLES files,     \* the managed files
          pinned,    \* SUBSTRATE.version.json
          bundle,    \* the version of the package
          staging,   \* .gitagent/.upgrade-tmp
          applyTmp,  \* .gitagent/.upgrade-apply-tmp
          tmps,      \* the files named <target>.tmp
          missions,  \* the mission files of the working tree, by number and version
          stamped,   \* those with a commit of the Planner that touches them
          approved,  \* history: the missions as the Planner committed them
          plan,      \* the plan that is being staged
          apply,     \* the applies
          mixed,     \* history: applies whose directories another plan or apply touched
          plans, faults   \* counters for the bounds

upgradeVars == <<files, pinned, bundle, staging, applyTmp, tmps, missions, stamped, approved, plan,
                 apply, mixed, plans, faults>>
repo == <<missions, stamped, approved>>
dirs == <<staging, applyTmp, tmps>>
bounded == <<plans, faults>>

Empty == << >>
NoPlan == [at |-> "none"]
NoApply == [pc |-> "idle"]
NoTarget == "none"
Running == {a \in Appliers : apply[a].pc # "idle"}

UpgradeInit == /\ files \in [Assets -> {0, 1}]
               /\ pinned = 0 /\ bundle = 1
               /\ staging = Empty /\ applyTmp = Empty /\ tmps = Empty
               /\ missions = Empty /\ stamped = {} /\ approved = {}
               /\ plan = NoPlan /\ apply = [a \in Appliers |-> NoApply]
               /\ mixed = {}
               /\ plans = 0 /\ faults = 0

\* The directory f with the file p written.
Put(f, p, c) == [x \in DOMAIN f \cup {p} |-> IF x = p THEN c ELSE f[x]]

Fault == faults < MaxFaults /\ faults' = faults + 1
-----------------------------------------------------------------------------
(* The plan.                                                               *)

\* planInitAssets, upgradeEligibleAssets: a managed file that differs is written, edited or not.
Differing == {p \in Assets : files[p] # bundle}

\* resolveUpgradeMsn: the number asked for, or the first that no mission file has.
Taken == {key[1] : key \in DOMAIN missions}
FirstFree == {n \in Numbers \ Taken : \A k \in Numbers \ Taken : n <= k}

\* resolveUpgradeVersionGate, runUpgradePlan: the staging directory of the last plan goes.
PlanStart == /\ plan = NoPlan /\ plans < MaxPlans
             /\ bundle > pinned
             /\ Differing # {}
             /\ \E n \in FirstFree \cup Taken :
                  plan' = [at |-> "stage", key |-> <<n, bundle>>, writes |-> Differing, left |-> Differing]
             /\ staging' = Empty
             /\ mixed' = mixed \cup Running
             /\ plans' = plans + 1
             /\ UNCHANGED <<files, pinned, bundle, applyTmp, tmps, repo, apply, faults>>

\* writeStagedFiles
Stage == /\ plan # NoPlan
         /\ \E p \in plan.left : /\ staging' = Put(staging, p, plan.key[2])
                                 /\ plan' = [plan EXCEPT !.left = @ \ {p}]
         /\ mixed' = mixed \cup Running
         /\ UNCHANGED <<files, pinned, bundle, applyTmp, tmps, repo, apply, bounded>>

\* buildUpgradeMissionYaml: over the mission file of that name, if there is one.
DraftUpgrade == /\ plan # NoPlan /\ plan.left = {}
                /\ missions' = Put(missions, plan.key, [to |-> plan.key[2], writes |-> plan.writes,
                                                        hashes |-> [p \in plan.writes |-> plan.key[2]]])
                /\ plan' = NoPlan
                /\ UNCHANGED <<files, pinned, bundle, dirs, stamped, approved, apply, mixed, bounded>>

\* A plan that is killed, or cannot write, leaves what it staged.
PlanFails == /\ plan # NoPlan
             /\ plan' = NoPlan
             /\ Fault
             /\ UNCHANGED <<files, pinned, bundle, dirs, repo, apply, mixed, plans>>

\* The Planner commits a mission file.
PlannerCommit == /\ \E key \in DOMAIN missions : /\ stamped' = stamped \cup {key}
                                                 /\ approved' = approved \cup {missions[key]}
                 /\ UNCHANGED <<files, pinned, bundle, dirs, missions, plan, apply, mixed, bounded>>

\* The user edits a managed file; the package is updated.
EditAsset == /\ Fault
             /\ \E p \in Assets : files' = [files EXCEPT ![p] = Edited]
             /\ UNCHANGED <<pinned, bundle, dirs, repo, plan, apply, mixed, plans>>
Update == /\ bundle < MaxVersion /\ bundle' = bundle + 1
          /\ UNCHANGED <<files, pinned, dirs, repo, plan, apply, mixed, bounded>>
-----------------------------------------------------------------------------
(* The apply.                                                              *)

\* runUpgradeApply reads the mission in the working tree; its stamp is that of the file's name.
ApplyStart(a) == /\ apply[a] = NoApply
                 /\ \E key \in stamped \cap DOMAIN missions :
                      apply' = [apply EXCEPT ![a] = [pc |-> "check", mission |-> missions[key],
                                                     left |-> missions[key].writes, target |-> NoTarget]]
                 /\ mixed' = IF Running = {} THEN mixed ELSE mixed \cup Running \cup {a}
                 /\ UNCHANGED <<files, pinned, bundle, dirs, repo, plan, bounded>>

\* Faulty variant: the staged files need only be there.
HashesHold_Exist(hashes) == DOMAIN hashes \subseteq DOMAIN staging

\* verifyStagedHashes: also a missing directory is a missing file.
HashesHold(hashes) == /\ DOMAIN hashes \subseteq DOMAIN staging
                      /\ \A p \in DOMAIN hashes : staging[p] = hashes[p]

\* Neither directory is touched when the check fails.
Check(a) == /\ apply[a].pc = "check"
            /\ IF HashesHold(apply[a].mission.hashes)
               THEN /\ apply' = [apply EXCEPT ![a].pc = "copy"]
                    /\ applyTmp' = Empty
               ELSE /\ apply' = [apply EXCEPT ![a] = NoApply]
                    /\ UNCHANGED applyTmp
            /\ UNCHANGED <<files, pinned, bundle, staging, tmps, repo, plan, mixed, bounded>>

\* stageWritesForApply
Copy(a) == /\ apply[a].pc = "copy"
           /\ \E p \in apply[a].left :
                IF p \in DOMAIN staging
                THEN /\ applyTmp' = Put(applyTmp, p, staging[p])
                     /\ apply' = [apply EXCEPT ![a] =
                          IF apply[a].left = {p}
                          THEN [apply[a] EXCEPT !.pc = "promote", !.left = apply[a].mission.writes]
                          ELSE [apply[a] EXCEPT !.left = @ \ {p}]]
                ELSE /\ apply' = [apply EXCEPT ![a].pc = "clean staging"]
                     /\ UNCHANGED applyTmp
           /\ UNCHANGED <<files, pinned, bundle, staging, tmps, repo, plan, mixed, bounded>>

\* The file p is in place: on to the next, or to the version file.
Promoted(a, p) == apply' = [apply EXCEPT ![a] = [apply[a] EXCEPT !.left = @ \ {p}, !.target = NoTarget,
                                 !.pc = IF apply[a].left = {p} THEN "version" ELSE "promote"]]
Fails(a) == apply' = [apply EXCEPT ![a].pc = "clean"]

\* promoteFileAtomic: a rename.
Promote(a) == /\ apply[a].pc = "promote"
              /\ \E p \in apply[a].left :
                   IF p \in DOMAIN applyTmp
                   THEN /\ files' = [files EXCEPT ![p] = applyTmp[p]]
                        /\ applyTmp' = Restrict(applyTmp, DOMAIN applyTmp \ {p})
                        /\ Promoted(a, p)
                   ELSE /\ Fails(a)
                        /\ UNCHANGED <<files, applyTmp>>
              /\ UNCHANGED <<pinned, bundle, staging, tmps, repo, plan, mixed, bounded>>

\* Faulty variant: the file itself is copied over.
CopyBegin_InPlace(p) == /\ files' = [files EXCEPT ![p] = HalfCopied]
                        /\ tmps' = Put(tmps, p, HalfCopied)

\* A copy beside the target, which takes a while.
CopyBegin(p) == /\ tmps' = Put(tmps, p, HalfCopied)
                /\ UNCHANGED files

\* The target is busy, three times.
PromoteBusy(a) == /\ apply[a].pc = "promote"
                  /\ Fault
                  /\ \E p \in apply[a].left \cap DOMAIN applyTmp :
                       /\ CopyBegin(p)
                       /\ apply' = [apply EXCEPT ![a].pc = "fill", ![a].target = p]
                  /\ UNCHANGED <<pinned, bundle, staging, applyTmp, repo, plan, mixed, plans>>

\* The copy has the name until it ends, whoever renames it meanwhile.
FillTmp(a) == LET p == apply[a].target IN
              /\ apply[a].pc = "fill"
              /\ IF p \in DOMAIN applyTmp
                 THEN /\ tmps' = Put(tmps, p, applyTmp[p])
                      /\ apply' = [apply EXCEPT ![a].pc = "swap"]
                 ELSE /\ Fails(a)
                      /\ UNCHANGED tmps
              /\ UNCHANGED <<files, pinned, bundle, staging, applyTmp, repo, plan, mixed, bounded>>

\* The second rename; then the staged copy goes.
Swap(a) == LET p == apply[a].target IN
           /\ apply[a].pc = "swap"
           /\ IF p \in DOMAIN tmps
              THEN /\ files' = [files EXCEPT ![p] = tmps[p]]
                   /\ tmps' = Restrict(tmps, DOMAIN tmps \ {p})
                   /\ applyTmp' = Restrict(applyTmp, DOMAIN applyTmp \ {p})
                   /\ Promoted(a, p)
              ELSE /\ Fails(a)
                   /\ UNCHANGED <<files, tmps, applyTmp>>
           /\ UNCHANGED <<pinned, bundle, staging, repo, plan, mixed, bounded>>

\* Still busy: the .tmp goes and the error is thrown.
SwapBusy(a) == /\ apply[a].pc = "swap"
               /\ Fault
               /\ tmps' = Restrict(tmps, DOMAIN tmps \ {apply[a].target})
               /\ Fails(a)
               /\ UNCHANGED <<files, pinned, bundle, staging, applyTmp, repo, plan, mixed, plans>>

\* Faulty variant: the version is written before the files.
WriteVersion_First(a) == /\ apply[a].pc \in {"promote", "version"}
                         /\ pinned' = apply[a].mission.to
                         /\ IF apply[a].pc = "version" THEN apply' = [apply EXCEPT ![a].pc = "clean"]
                            ELSE UNCHANGED apply
                         /\ UNCHANGED <<files, bundle, dirs, repo, plan, mixed, bounded>>

\* writeSubstrateVersionFile
WriteVersion(a) == /\ apply[a].pc = "version"
                   /\ pinned' = apply[a].mission.to
                   /\ apply' = [apply EXCEPT ![a].pc = "clean"]
                   /\ UNCHANGED <<files, bundle, dirs, repo, plan, mixed, bounded>>

\* finally: both directories go, also after a failure; in stageWritesForApply applyTmpRoot is "".
CleanUp(a) == /\ apply[a].pc \in {"clean", "clean staging"}
              /\ applyTmp' = IF apply[a].pc = "clean" THEN Empty ELSE applyTmp
              /\ staging' = Empty
              /\ apply' = [apply EXCEPT ![a] = NoApply]
              /\ UNCHANGED <<files, pinned, bundle, tmps, repo, plan, mixed, bounded>>

\* A kill passes over the finally.
ApplyCrash(a) == /\ apply[a] # NoApply
                 /\ Fault
                 /\ apply' = [apply EXCEPT ![a] = NoApply]
                 /\ UNCHANGED <<files, pinned, bundle, dirs, repo, plan, mixed, plans>>

ApplyStep(a) == \/ ApplyStart(a) \/ Check(a) \/ Copy(a) \/ Promote(a) \/ PromoteBusy(a) \/ FillTmp(a)
                \/ Swap(a) \/ SwapBusy(a) \/ WriteVersion(a) \/ CleanUp(a) \/ ApplyCrash(a)

UpgradeNext == \/ PlanStart \/ Stage \/ DraftUpgrade \/ PlanFails \/ PlannerCommit \/ EditAsset \/ Update
               \/ \E a \in Appliers : ApplyStep(a)

UpgradeSpec == UpgradeInit /\ [][UpgradeNext]_upgradeVars
-----------------------------------------------------------------------------
(* Properties.                                                             *)

\* A managed file is never seen, nor left after a crash, with a part of its content, unless two
\* applies were mixed: the .tmp beside a file is one for both.
NeverHalf == mixed = {} => \A p \in Assets : files[p] # HalfCopied

\* The version file never runs ahead of the files: whatever failed or crashed on the way, no
\* managed file is older than the version that is pinned, unless two applies were mixed.
NoOldAsset == mixed = {} => \A p \in Assets : files[p] >= pinned \/ files[p] = Edited

\* An upgrade that fails or is killed anywhere leaves whole files, none older than the pinned version.
UpgradeIsWhole == NeverHalf /\ NoOldAsset

\* What an apply puts in place has the hash that its mission names, unless a plan or another
\* apply touched the directories while it ran.
InstallChecked ==
    \A a \in Appliers, p \in Assets :
        files'[p] # files[p] /\ files'[p] # Edited /\ apply'[a] # apply[a] /\ a \notin mixed =>
            files'[p] = apply[a].mission.hashes[p]
InstallsWhatWasChecked == [][InstallChecked]_upgradeVars

\* ...and the Planner approved that mission, as it is: not so, a plan under the same number
\* writes over the file, and the stamp is that of the name.
AppliesWhatWasApproved == \A a \in Appliers : apply[a] # NoApply => apply[a].mission \in approved
=============================================================================
