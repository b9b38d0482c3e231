----------------------------- MODULE CageJournal -----------------------------
(***************************************************************************)
(* The baseline journal of cage-journal.ts, under the session cage         *)
(* (cage-run.ts) and the watch (cage-watch-run.ts) that share it.          *)
(*                                                                         *)
(* A wrapper is one run of `gantry cage` or `gantry cage watch`.  It can be *)
(* killed between any two steps.  Every file of the journal directory is   *)
(* renamed into place or removed in a step of its own: journal.json (man), *)
(* its sidecar journal.sha256 (manSha), pids.json (pids), pids.sha256      *)
(* (pidSha) and the blobs.  A sidecar is the value its file had when it was *)
(* written.  What the wrapper does between journal operations (restore      *)
(* live, ask the operator) is CageWatch's business and only appears here   *)
(* as far as it moves the files or the baseline.                           *)
(*                                                                         *)
(* A definition whose name has an underscore is a faulty variant of the    *)
(* one that follows it, and no part of the specification.                  *)
(***************************************************************************)
EXTENDS CageFiles

CONSTANTS
  Wrappers,    \* runs of the cage, each at most once
  Watches,     \* those that are `cage watch`: no process is spawned
  Start,       \* the files at the beginning
  Config,      \* .cage.yaml
  Always,      \* paths the built-in rules protect
  Lists,       \* what a rule file of a given content adds: [RuleFiles -> [Entry -> SUBSET Paths]]
  Blockable,   \* paths whose restore may fail
  Concurrent,  \* whether a wrapper may start while another starts or ends
  RulesChange  \* whether rule files may appear, or be accepted, while a wrapper or its journal is there

ASSUME JournalAssumption ==
  /\ Watches \subseteq Wrappers
  /\ Start \in Snapshot
  /\ Config \in Always /\ Always \subseteq Paths
  /\ Config \in DOMAIN Lists /\ DOMAIN Lists \subseteq Paths
  /\ \A r \in DOMAIN Lists : Lists[r] \in [Entry -> SUBSET Paths]
  /\ \A r \in DOMAIN Lists, e, f \in Entry : ShaOf(e) = ShaOf(f) => Lists[r][e] = Lists[r][f]
  /\ None \notin [owner : Wrappers, base : Snapshot]
  /\ \A S \in SUBSET (Wrappers \X {"child", "helper"}) : S # None
  /\ Blockable \subseteq Paths
  /\ Concurrent \in BOOLEAN /\ RulesChange \in BOOLEAN

VARIABLES
  disk,                             \* the files
  man, manSha, pids, pidSha, blobs, \* the journal directory
  pc,         \* where each wrapper is
  mem,        \* its baseline
  plan,       \* the paths its plan protects
  todo,       \* changes it is restoring
  alive,      \* processes of caged commands
  approved,   \* history: the content each path should have
  torn,       \* history: a wrapper was killed while it replaced or removed journal files
  lost,       \* history: something left the reach of the journal (see README.md)
  failed      \* history: a restore failed

dir     == <<man, manSha, pids, pidSha, blobs>>
own     == <<mem, plan, todo>>
history == <<approved, torn, lost, failed>>
vars    == <<disk, dir, pc, own, alive, history>>

Manifest == [owner : Wrappers, base : Snapshot]
Procs    == Wrappers \X {"child", "helper"}
Child(w)  == <<w, "child">>
Helper(w) == <<w, "helper">>

Over     == {"off", "dead", "corrupt", "active", "failed", "done"}
Starting == {"orphans", "config", "scan", "restore", "clear", "plan", "wipe", "blobs", "manifest",
             "manifestSha", "pids", "pidsSha"}
Working  == {"spawn", "refresh", "refreshSha", "running", "acceptManifest", "acceptSha", "final"}
Live(w)  == pc[w] \notin Over

NoFiles == [p \in Paths |-> None]

(* buildCagePlan: the built-in floor and what the rule files add to it.    *)
PlanOf(d) == Always \cup UNION {Lists[r][d[r]] : r \in DOMAIN Lists}

(* takeCageSnapshot: only the plan's paths are looked at.                  *)
Seen(pl, d) == [p \in Paths |-> IF p \in pl THEN d[p] ELSE None]

(* The digests of the blobs a manifest with these entries names.           *)
BlobsOf(base) == {ShaOf(base[p]) : p \in {q \in Paths : base[q] # None}}

Init ==
  /\ disk = Start
  /\ man = None /\ manSha = None /\ pids = None /\ pidSha = None /\ blobs = {}
  /\ pc = [w \in Wrappers |-> "off"]
  /\ mem = [w \in Wrappers |-> NoFiles]
  /\ plan = [w \in Wrappers |-> {}] /\ todo = [w \in Wrappers |-> {}]
  /\ alive = {}
  /\ approved = Start /\ torn = FALSE /\ lost = FALSE /\ failed = FALSE

Go(w, l) == pc' = [pc EXCEPT ![w] = l]
At(w, l, next) == pc[w] = l /\ Go(w, next)

------------------------------------------------------------------------------
(* recoverCageJournal *)

Free(w) == Concurrent \/ \A v \in Wrappers \ {w} : pc[v] \in Over \cup {"running"}

(* readManifest, the owner and the blobs, all before anything is touched:  *)
(* without a manifest there is nothing to recover; a torn one, or a missing *)
(* blob, is corrupt; an owner that runs refuses the start.                 *)
Begin(w) ==
  /\ pc[w] = "off" /\ Free(w)
  /\ \/ man = None /\ Go(w, "plan") /\ UNCHANGED mem
     \/ man # None /\ manSha # man /\ Go(w, "corrupt") /\ UNCHANGED mem
     \/ /\ man # None /\ manSha = man
        /\ \/ Live(man.owner) /\ Go(w, "active") /\ UNCHANGED mem
           \/ ~Live(man.owner) /\ ~(BlobsOf(man.base) \subseteq blobs) /\ Go(w, "corrupt") /\ UNCHANGED mem
           \/ /\ ~Live(man.owner) /\ BlobsOf(man.base) \subseteq blobs
              /\ Go(w, "orphans") /\ mem' = [mem EXCEPT ![w] = man.base]
  /\ UNCHANGED <<disk, dir, plan, todo, alive, history>>

(* The recorded processes are left running. *)
KillOrphans_None(w) ==
  /\ At(w, "orphans", "config")
  /\ UNCHANGED <<disk, dir, own, alive, history>>

(* killOrphans: the recorded processes only.                               *)
KillOrphans(w) ==
  /\ pc[w] = "orphans"
  /\ IF pids # None /\ pidSha # pids
     THEN Go(w, "corrupt") /\ UNCHANGED <<alive, lost>>
     ELSE LET recorded == IF pids = None THEN {} ELSE pids IN
          /\ Go(w, "config")
          /\ alive' = alive \ recorded
          /\ lost' = (lost \/ alive' # {})
  /\ UNCHANGED <<disk, dir, own, approved, torn, failed>>

(* The plan is rebuilt from the .cage.yaml the killed session left.        *)
RestoreConfig_Skipped(w) == At(w, "config", "scan") /\ UNCHANGED <<disk, dir, own, alive, history>>

(* .cage.yaml is written back before the plan is rebuilt from it, if the   *)
(* baseline has one.  A file that is there keeps its permission bits.      *)
RestoreConfig(w) ==
  LET base == mem[w][Config]
      differs == base # None /\ ShaOf(disk[Config]) # base.sha
      written == IF disk[Config] = None THEN base ELSE [disk[Config] EXCEPT !.sha = base.sha]
  IN
  /\ \/ At(w, "config", "scan") /\ disk' = IF differs THEN [disk EXCEPT ![Config] = written] ELSE disk
     \/ differs /\ Config \in Blockable /\ At(w, "config", "failed") /\ UNCHANGED disk
  /\ UNCHANGED <<dir, own, alive, history>>

(* The plan is rebuilt, and what it sees compared with the journal.        *)
Rescan(w) ==
  /\ pc[w] = "scan"
  /\ todo' = [todo EXCEPT ![w] = Changes(mem[w], Seen(PlanOf(disk), disk))]
  /\ Go(w, IF todo'[w] = {} THEN "clear" ELSE "restore")
  /\ UNCHANGED <<disk, dir, mem, plan, alive, history>>

(* resolveCageChanges, one path; a restore that fails is only reported.    *)
RestoreOne(w, p) ==
  /\ pc[w] \in {"restore", "final"} /\ p \in todo[w]
  /\ todo' = [todo EXCEPT ![w] = @ \ {p}]
  /\ Go(w, IF todo'[w] # {} THEN pc[w] ELSE IF pc[w] = "restore" THEN "clear" ELSE "dispose")
  /\ \/ disk' = Reverted(disk, mem[w], p) /\ UNCHANGED failed
     \/ p \in Blockable /\ failed' = TRUE /\ UNCHANGED disk
  /\ UNCHANGED <<dir, mem, plan, alive, approved, torn, lost>>

(* fs.rmSync(dir, { recursive }): one entry after the other.               *)
RemoveOne(w) ==
  /\ pc[w] \in {"clear", "wipe", "dispose"}
  /\ \/ man # None    /\ man' = None    /\ UNCHANGED <<manSha, pids, pidSha, blobs>>
     \/ manSha # None /\ manSha' = None /\ UNCHANGED <<man, pids, pidSha, blobs>>
     \/ pids # None   /\ pids' = None   /\ UNCHANGED <<man, manSha, pidSha, blobs>>
     \/ pidSha # None /\ pidSha' = None /\ UNCHANGED <<man, manSha, pids, blobs>>
     \/ blobs # {}    /\ blobs' = {}    /\ UNCHANGED <<man, manSha, pids, pidSha>>
  /\ UNCHANGED <<disk, pc, own, alive, history>>

Emptied == man = None /\ manSha = None /\ pids = None /\ pidSha = None /\ blobs = {}

Cleared(w)  == Emptied /\ At(w, "clear", "plan")   /\ UNCHANGED <<disk, dir, own, alive, history>>
Wiped(w)    == Emptied /\ At(w, "wipe", "blobs")   /\ UNCHANGED <<disk, dir, own, alive, history>>
Disposed(w) == /\ Emptied /\ At(w, "dispose", "done")
               /\ mem' = [mem EXCEPT ![w] = NoFiles]
               /\ UNCHANGED <<disk, dir, plan, todo, alive, history>>

------------------------------------------------------------------------------
(* The plan, the baseline and writeCageJournal *)

TakeBaseline(w) ==
  /\ At(w, "plan", "wipe")
  /\ plan' = [plan EXCEPT ![w] = PlanOf(disk)]
  /\ mem' = [mem EXCEPT ![w] = Seen(plan'[w], disk)]
  /\ UNCHANGED <<disk, dir, todo, alive, history>>

(* The entries are listed and their bytes left out. *)
WriteBlobs_None(w) == At(w, "blobs", "manifest") /\ UNCHANGED <<disk, dir, own, alive, history>>

WriteBlobs(w) ==
  /\ At(w, "blobs", "manifest")
  /\ blobs' = blobs \cup BlobsOf(mem[w])
  /\ UNCHANGED <<disk, man, manSha, pids, pidSha, own, alive, history>>

(* From the rename of journal.json on, the protected paths have a baseline *)
(* to come back to.                                                        *)
WriteManifest(w) ==
  /\ \/ At(w, "manifest", "manifestSha")
     \/ At(w, "acceptManifest", "acceptSha")
  /\ man' = [owner |-> w, base |-> mem[w]]
  /\ approved' = [p \in Paths |-> IF p \in plan[w] THEN mem[w][p] ELSE approved[p]]
  /\ UNCHANGED <<disk, manSha, pids, pidSha, blobs, own, alive, torn, lost, failed>>

WriteManifestSha(w) ==
  /\ At(w, "manifestSha", "pids") \/ At(w, "acceptSha", "running")
  /\ manSha' = [owner |-> w, base |-> mem[w]]
  /\ UNCHANGED <<disk, man, pids, pidSha, blobs, own, alive, history>>

WritePids(w) ==
  /\ At(w, "pids", "pidsSha")
  /\ pids' = {}
  /\ UNCHANGED <<disk, man, manSha, pidSha, blobs, own, alive, history>>

WritePidsSha(w) ==
  /\ At(w, "pidsSha", IF w \in Watches THEN "running" ELSE "spawn")
  /\ pidSha' = {}
  /\ UNCHANGED <<disk, man, manSha, pids, blobs, own, alive, history>>

------------------------------------------------------------------------------
(* The session or the watch *)

Spawn(w) ==
  /\ At(w, "spawn", "refresh")
  /\ alive' = alive \cup {Child(w)}
  /\ UNCHANGED <<disk, dir, own, history>>

(* trackTree: the command, and its descendants while it lives.             *)
Tree(w) == {Child(w)} \cup (IF Child(w) \in alive THEN {Helper(w)} \cap alive ELSE {})

(* refreshPids: at spawn and then by the timer.                            *)
RefreshPids(w) ==
  /\ At(w, "refresh", "refreshSha") \/ (w \notin Watches /\ At(w, "running", "refreshSha"))
  /\ pids' = Tree(w)
  /\ UNCHANGED <<disk, man, manSha, pidSha, blobs, own, alive, history>>

RefreshPidsSha(w) ==
  /\ At(w, "refreshSha", "running")
  /\ pidSha' = pids
  /\ UNCHANGED <<disk, man, manSha, pids, blobs, own, alive, history>>

(* A live restore of the session, a refused or timed out one of the watch. *)
RestoreLive(w, p) ==
  /\ pc[w] = "running" /\ p \in plan[w] /\ EntryChanged(mem[w][p], disk[p])
  /\ disk' = Reverted(disk, mem[w], p)
  /\ UNCHANGED <<dir, pc, own, alive, history>>

(* The operator accepts a change: memory first, then replaceBaseline, whose *)
(* blobs come before the manifest that names them.                         *)
Accept(w, p) ==
  /\ w \in Watches /\ At(w, "running", "acceptManifest")
  /\ RulesChange \/ p \notin DOMAIN Lists
  /\ p \in plan[w] /\ EntryChanged(mem[w][p], disk[p])
  /\ mem' = [mem EXCEPT ![w][p] = disk[p]]
  /\ blobs' = blobs \cup BlobsOf(mem'[w])
  /\ UNCHANGED <<disk, man, manSha, pids, pidSha, plan, todo, alive, history>>

(* The exit diff: after the command is gone, or when the watch is stopped. *)
FinalScan(w) ==
  /\ pc[w] = "running" /\ Child(w) \notin alive
  /\ todo' = [todo EXCEPT ![w] = Changes(mem[w], Seen(plan[w], disk))]
  /\ Go(w, IF todo'[w] = {} THEN "dispose" ELSE "final")
  /\ lost' = (lost \/ alive # {})
  /\ UNCHANGED <<disk, dir, mem, plan, alive, approved, torn, failed>>

------------------------------------------------------------------------------
(* The environment *)

(* kill -9, a power cut: at any point. *)
Crash(w) ==
  /\ Live(w)
  /\ Go(w, "dead")
  /\ torn' = (torn \/ (pc[w] \in {"clear", "dispose"} /\ man # None)
                   \/ pc[w] \in {"manifestSha", "pidsSha", "refreshSha", "acceptSha"})
  /\ todo' = [todo EXCEPT ![w] = {}] /\ mem' = [mem EXCEPT ![w] = NoFiles]
  /\ UNCHANGED <<disk, dir, plan, alive, approved, lost, failed>>

ChildForks(w) ==
  /\ Child(w) \in alive /\ Helper(w) \notin alive
  /\ alive' = alive \cup {Helper(w)}
  /\ UNCHANGED <<disk, dir, pc, own, history>>

ProcessExits(x) ==
  /\ x \in alive
  /\ alive' = alive \ {x}
  /\ UNCHANGED <<disk, dir, pc, own, history>>

(* A rule file the baseline cannot put back before the plan is rebuilt: any *)
(* other than .cage.yaml, or a .cage.yaml that was not there.              *)
NewRule(p) ==
  /\ p \in DOMAIN Lists
  /\ \/ man # None /\ (p # Config \/ man.base[p] = None)
     \/ \E w \in Wrappers : Live(w) /\ (p # Config \/ mem[w][p] = None)

(* A caged process writes.  The content is not to stay if the plan of its  *)
(* session protects the path.                                              *)
CagedWrite(w, p, e) ==
  /\ {Child(w), Helper(w)} \cap alive # {} /\ disk[p] # e
  /\ RulesChange \/ ~NewRule(p)
  /\ disk' = [disk EXCEPT ![p] = e]
  /\ approved' = IF p \in plan[w] THEN approved ELSE [approved EXCEPT ![p] = e]
  /\ UNCHANGED <<dir, pc, own, alive, torn, lost, failed>>

(* Anybody else writes.  While a journal protects the path the content is  *)
(* not to stay; a write that follows the last look at the files is lost    *)
(* to the journal.                                                         *)
OutsideWrite(p, e) ==
  LET guarded == man # None /\ p \in plan[man.owner] IN
  /\ disk[p] # e /\ (RulesChange \/ ~NewRule(p))
  /\ disk' = [disk EXCEPT ![p] = e]
  /\ approved' = IF guarded THEN approved ELSE [approved EXCEPT ![p] = e]
  /\ lost' = (lost \/ (guarded /\ \E w \in Wrappers : pc[w] \in {"scan", "restore", "clear", "final", "dispose"}))
  /\ UNCHANGED <<dir, pc, own, alive, torn, failed>>

(* The operator follows the hint of GXT_CAGE_JOURNAL_CORRUPT: restore the  *)
(* files by hand and remove the directory.                                 *)
OperatorClears(w) ==
  /\ At(w, "corrupt", "done") /\ \A v \in Wrappers : ~Live(v)
  /\ disk' = approved
  /\ man' = None /\ manSha' = None /\ pids' = None /\ pidSha' = None /\ blobs' = {}
  /\ lost' = (lost \/ alive # {})
  /\ UNCHANGED <<own, alive, approved, torn, failed>>

Recover(w) == Begin(w) \/ KillOrphans(w) \/ RestoreConfig(w) \/ Rescan(w) \/ RemoveOne(w) \/ Cleared(w)
Write(w)   == TakeBaseline(w) \/ Wiped(w) \/ WriteBlobs(w) \/ WriteManifest(w) \/ WriteManifestSha(w)
                \/ WritePids(w) \/ WritePidsSha(w)
Run(w)     == Spawn(w) \/ RefreshPids(w) \/ RefreshPidsSha(w) \/ FinalScan(w) \/ Disposed(w)
                \/ \E p \in Paths : RestoreOne(w, p) \/ RestoreLive(w, p) \/ Accept(w, p)
Outside    == \/ \E w \in Wrappers : Crash(w) \/ ChildForks(w) \/ OperatorClears(w)
              \/ \E x \in Procs : ProcessExits(x)
              \/ \E p \in Paths, e \in Entry : OutsideWrite(p, e) \/ \E w \in Wrappers : CagedWrite(w, p, e)

Next == Outside \/ \E w \in Wrappers : Recover(w) \/ Write(w) \/ Run(w)

Spec == Init /\ [][Next]_vars

------------------------------------------------------------------------------
TypeOK ==
  /\ disk \in Snapshot /\ approved \in Snapshot
  /\ man \in Manifest \cup {None} /\ manSha \in Manifest \cup {None}
  /\ pids \in (SUBSET Procs) \cup {None} /\ pidSha \in (SUBSET Procs) \cup {None}
  /\ blobs \subseteq Shas
  /\ pc \in [Wrappers -> Over \cup Starting \cup Working \cup {"dispose"}]
  /\ mem \in [Wrappers -> Snapshot]
  /\ plan \in [Wrappers -> SUBSET Paths] /\ todo \in [Wrappers -> SUBSET Paths]
  /\ alive \subseteq Procs
  /\ torn \in BOOLEAN /\ lost \in BOOLEAN /\ failed \in BOOLEAN

(* A wrapper takes its baseline from files that hold what they should: what *)
(* a killed session, its orphans or the agent of a killed watch left       *)
(* behind never becomes the state later restores bring back.               *)
TamperNeverBaseline ==
  \A w \in Wrappers : pc[w] = "plan" /\ ~lost /\ ~failed => disk = approved

(* No process of an interrupted session runs beside the next one.          *)
OrphansGone ==
  \A w \in Wrappers : pc[w] \in Working /\ ~lost => alive \subseteq {Child(w), Helper(w)}

(* A session and a watch, or two of either, never run at once.             *)
OneAtATime ==
  \A w, v \in Wrappers : pc[w] \in Working /\ pc[v] \in Working => w = v

(* Unless a wrapper is killed between the rename of a file and of its      *)
(* sidecar, or while it removes the directory, the next one recovers: no   *)
(* other kill leaves a journal that is refused as corrupt.                 *)
KillIsRecovered == (\E w \in Wrappers : pc[w] = "corrupt") => torn

(* What the next wrapper finds of a killed one - its journal, its processes *)
(* - it reads, and ends.                                                   *)
KillIsCleanedUp == KillIsRecovered /\ OrphansGone

(* Recovery writes and removes only what the interrupted run protected.    *)
OnlyProtectedRestored ==
  [][\A w \in Wrappers, p \in Paths :
       pc[w] = "restore" /\ todo'[w] # todo[w] /\ disk'[p] # disk[p] => p \in plan[man.owner]]_vars
=============================================================================
