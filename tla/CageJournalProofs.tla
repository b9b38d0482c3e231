------------------------- MODULE CageJournalProofs -------------------------
(***************************************************************************)
(* Proofs about CageJournal: its types, that the wrapper after a killed one *)
(* cleans up behind it, and that no wrapper takes tampered files for its    *)
(* baseline.                                                               *)
(*                                                                         *)
(* The last two hold where no two wrappers start or end at the same time    *)
(* (~Concurrent: cage-journal.ts takes no lock between reading the manifest *)
(* and writing its own) and, for the baseline, where no rule file appears   *)
(* or is accepted while a journal is there (~RulesChange: the plan of the   *)
(* recovery is then not the plan of the killed run).  TLC finds             *)
(* counterexamples to both without these hypotheses; see README.md.         *)
(*                                                                         *)
(* The inductive invariant IInv says, in this order, who is at work, whom   *)
(* the journal belongs to at each step of the protocol, which of its files  *)
(* are whole, which processes can be left, and how the files, the manifest  *)
(* and what the operator approved hang together.                           *)
(***************************************************************************)
EXTENDS CageJournal, TLAPS

(* The stages in which the journal is the wrapper's own, those that bring  *)
(* back what a killed run left, and those between the plan and the journal. *)
Owned      == {"manifestSha", "pids", "pidsSha"} \cup Working
Recovering == {"orphans", "config", "scan", "restore"}
Unwritten  == {"wipe", "blobs", "manifest"}

(* At most one wrapper is between its start and its end.                   *)
SoleInv == \A v, w \in Wrappers : Live(v) /\ Live(w) => v = w

(* Whose the journal is: nobody's from the plan to the rename of the new   *)
(* manifest, one's own while running, a dead wrapper's during a recovery.  *)
(* The baseline in memory is the manifest's, except between an accepted    *)
(* change and the manifest that records it.                                *)
OwnerInv ==
  /\ \A w \in Wrappers :
       /\ pc[w] \in {"plan"} \cup Unwritten => man = None
       /\ pc[w] \in {"blobs", "manifest", "manifestSha", "pids"} => pids = None
       /\ pc[w] \in Owned => man # None /\ man.owner = w
       /\ pc[w] \in Owned \ {"acceptManifest"} => man.base = mem[w]
       /\ pc[w] \in Recovering => man # None /\ pc[man.owner] = "dead" /\ manSha = man /\ mem[w] = man.base
       /\ pc[w] = "clear" /\ man # None => pc[man.owner] = "dead"
       /\ pc[w] = "dispose" /\ man # None => man.owner = w
  /\ man # None => pc[man.owner] \in Owned \cup {"dead", "dispose"}

(* A journal readManifest and readPids accept.                             *)
Whole == manSha = man /\ BlobsOf(man.base) \subseteq blobs /\ (pids = None \/ pidSha = pids)

(* Which sidecar or blob may be behind at which step; a journal whose owner*)
(* was killed is whole unless the kill fell between a file and its sidecar *)
(* or into the removal of the directory.                                   *)
DirInv ==
  /\ \A w \in Wrappers :
       /\ pc[w] = "manifest" => BlobsOf(mem[w]) \subseteq blobs
       /\ pc[w] \in Owned =>
            /\ pc[w] \in {"manifestSha", "acceptSha"} \/ manSha = man
            /\ pc[w] \in {"pidsSha", "refreshSha"} \/ pids = None \/ pidSha = pids
            /\ BlobsOf(man.base) \subseteq blobs /\ BlobsOf(mem[w]) \subseteq blobs
            /\ pc[w] = "pidsSha" => pids = {}
  /\ man # None /\ pc[man.owner] = "dead" /\ (\A w \in Wrappers : pc[w] # "clear") /\ ~torn => Whole

(* As long as nothing left the journal's reach, the processes that live are*)
(* those of the journal's owner, which is running or has been killed.      *)
AliveInv ==
  ~lost /\ alive # {} =>
    /\ man # None /\ alive \subseteq {Child(man.owner), Helper(man.owner)}
    /\ \/ pc[man.owner] \in Working \ {"spawn", "final"}
       \/ pc[man.owner] = "dead" /\ \A w \in Wrappers : Live(w) => pc[w] = "orphans"

(* The files as they are once .cage.yaml has been put back.                *)
Configured(d, base) == [d EXCEPT ![Config] = IF base[Config] = None THEN d[Config] ELSE base[Config]]

(* pl is the plan the files give once .cage.yaml is put back, base has     *)
(* nothing outside it, and every other rule file is the baseline's.        *)
Planned(d, base, pl) ==
  /\ Always \subseteq pl
  /\ \A p \in Paths \ pl : base[p] = None
  /\ pl = PlanOf(Configured(d, base))
  /\ \A r \in DOMAIN Lists \cap pl : r # Config \/ base[r] = None => d[r] = base[r]

(* Without a journal the files are what was approved.  With one, its       *)
(* baseline is what was approved of the protected paths, and the other     *)
(* paths are as approved.                                                  *)
GuardInv ==
  /\ man = None => disk = approved
  /\ man # None =>
       /\ \A p \in plan[man.owner] : approved[p] = man.base[p]
       /\ \A p \in Paths \ plan[man.owner] : disk[p] = approved[p]
       /\ Planned(disk, man.base, plan[man.owner])

(* What each stage may rely on.                                            *)
StageInv(w) ==
  /\ pc[w] \in Unwritten \cup Owned => Planned(disk, mem[w], plan[w])
  /\ pc[w] \in {"clear", "dispose"} => disk = approved
  /\ pc[w] = "scan" => mem[w][Config] = None \/ ShaOf(disk[Config]) = ShaOf(mem[w][Config])
  /\ pc[w] \in {"restore", "final"} =>
       /\ todo[w] \subseteq plan[man.owner]
       /\ \A p \in Paths : disk[p] # approved[p] => p \in todo[w]

(* The files, as long as nothing is lost and no restore failed.            *)
DataInv == ~lost /\ ~failed => GuardInv /\ \A w \in Wrappers : StageInv(w)

(* The inductive invariant.                                                *)
IInv == TypeOK /\ SoleInv /\ OwnerInv /\ DirInv /\ KillIsRecovered /\ AliveInv /\ DataInv

-----------------------------------------------------------------------------
(* What a snapshot, a plan and the blobs of a baseline are.                *)
LEMMA SnapshotFacts ==
  ASSUME NEW d \in Snapshot, NEW pl
  PROVE  /\ Seen(pl, d) \in Snapshot /\ NoFiles \in Snapshot
         /\ PlanOf(d) \subseteq Paths /\ Always \subseteq PlanOf(d)
         /\ BlobsOf(d) \subseteq Shas
         /\ \A b \in Snapshot, p \in Paths : Reverted(d, b, p) \in Snapshot
<1>1. Seen(pl, d) \in Snapshot /\ NoFiles \in Snapshot
  BY DEF Seen, NoFiles, Snapshot, Entry
<1>2. PlanOf(d) \subseteq Paths /\ Always \subseteq PlanOf(d)
  <2>1. \A r \in DOMAIN Lists : Lists[r][d[r]] \subseteq Paths
    BY JournalAssumption DEF Snapshot
  <2> QED  BY <2>1, JournalAssumption DEF PlanOf
<1>3. BlobsOf(d) \subseteq Shas
  BY DEF BlobsOf, Snapshot, Entry, ShaOf
<1>4. \A b \in Snapshot, p \in Paths : Reverted(d, b, p) \in Snapshot
  BY DEF Reverted, Snapshot
<1> QED  BY <1>1, <1>2, <1>3, <1>4

(* The command and its descendant are two processes.                       *)
LEMMA ProcFacts ==
  ASSUME NEW w \in Wrappers
  PROVE  Child(w) \in Procs /\ Helper(w) \in Procs /\ Child(w) # Helper(w) /\ Tree(w) \subseteq {Child(w), Helper(w)}
<1>1. Child(w) \in Procs /\ Helper(w) \in Procs /\ Child(w) # Helper(w)
  BY DEF Child, Helper, Procs
<1> QED  BY <1>1 DEF Tree

(* The initial state has its types.                                        *)
LEMMA JournalTypeInit == Init => TypeOK
<1> SUFFICES ASSUME Init PROVE TypeOK
  OBVIOUS
<1>1. Start \in Snapshot
  BY JournalAssumption
<1>2. NoFiles \in Snapshot
  BY <1>1, SnapshotFacts
<1> QED  BY <1>1, <1>2 DEF Init, TypeOK, Over

(* Every step keeps the types.                                             *)
LEMMA JournalTypeStep == ASSUME TypeOK, [Next]_vars PROVE TypeOK'
<1> USE DEF TypeOK, At, Go, Over, Starting, Working, dir, own, history
<1>1. ASSUME NEW w \in Wrappers, Begin(w) PROVE TypeOK'
  BY <1>1 DEF Begin, Manifest
<1>2. ASSUME NEW w \in Wrappers, KillOrphans(w) PROVE TypeOK'
  BY <1>2 DEF KillOrphans
<1>3. ASSUME NEW w \in Wrappers, RestoreConfig(w) PROVE TypeOK'
  <2> DEFINE base == mem[w][Config]
             written == IF disk[Config] = None THEN base ELSE [disk[Config] EXCEPT !.sha = base.sha]
  <2>1. Config \in Paths /\ base \in Entry /\ disk[Config] \in Entry
    BY JournalAssumption DEF Snapshot
  <2>2. base # None => written \in Entry
    BY <2>1 DEF Entry
  <2>3. [disk EXCEPT ![Config] = written] \in Snapshot \/ base = None
    BY <2>1, <2>2 DEF Snapshot
  <2>4. disk' \in Snapshot
    BY <1>3, <2>3 DEF RestoreConfig
  <2> QED  BY <1>3, <2>4 DEF RestoreConfig
<1>4. ASSUME NEW w \in Wrappers, Rescan(w) PROVE TypeOK'
  <2>1. Changes(mem[w], Seen(PlanOf(disk), disk)) \subseteq Paths
    BY DEF Changes
  <2> QED  BY <1>4, <2>1 DEF Rescan
<1>5. ASSUME NEW w \in Wrappers, RemoveOne(w) PROVE TypeOK'
  BY <1>5 DEF RemoveOne
<1>6. ASSUME NEW w \in Wrappers, Cleared(w) PROVE TypeOK'
  BY <1>6 DEF Cleared
<1>7. ASSUME NEW w \in Wrappers, TakeBaseline(w) PROVE TypeOK'
  <2>1. PlanOf(disk) \subseteq Paths /\ Seen(PlanOf(disk), disk) \in Snapshot
    BY SnapshotFacts
  <2>2. plan'[w] = PlanOf(disk)
    BY <1>7 DEF TakeBaseline
  <2> QED  BY <1>7, <2>1, <2>2 DEF TakeBaseline
<1>8. ASSUME NEW w \in Wrappers, Wiped(w) PROVE TypeOK'
  BY <1>8 DEF Wiped
<1>9. ASSUME NEW w \in Wrappers, WriteBlobs(w) PROVE TypeOK'
  BY <1>9, mem[w] \in Snapshot, SnapshotFacts DEF WriteBlobs
<1>10. ASSUME NEW w \in Wrappers, WriteManifest(w) PROVE TypeOK'
  BY <1>10 DEF WriteManifest, Manifest, Snapshot
<1>11. ASSUME NEW w \in Wrappers, WriteManifestSha(w) PROVE TypeOK'
  BY <1>11 DEF WriteManifestSha, Manifest
<1>12. ASSUME NEW w \in Wrappers, WritePids(w) PROVE TypeOK'
  BY <1>12 DEF WritePids
<1>13. ASSUME NEW w \in Wrappers, WritePidsSha(w) PROVE TypeOK'
  BY <1>13 DEF WritePidsSha
<1>14. ASSUME NEW w \in Wrappers, Spawn(w) PROVE TypeOK'
  BY <1>14, ProcFacts DEF Spawn
<1>15. ASSUME NEW w \in Wrappers, RefreshPids(w) PROVE TypeOK'
  BY <1>15, ProcFacts, Tree(w) \subseteq Procs DEF RefreshPids
<1>16. ASSUME NEW w \in Wrappers, RefreshPidsSha(w) PROVE TypeOK'
  BY <1>16 DEF RefreshPidsSha
<1>17. ASSUME NEW w \in Wrappers, FinalScan(w) PROVE TypeOK'
  <2>1. Changes(mem[w], Seen(plan[w], disk)) \subseteq Paths
    BY DEF Changes
  <2> QED  BY <1>17, <2>1 DEF FinalScan
<1>18. ASSUME NEW w \in Wrappers, Disposed(w) PROVE TypeOK'
  <2>1. NoFiles \in Snapshot
    BY SnapshotFacts
  <2> QED  BY <1>18, <2>1 DEF Disposed
<1>19. ASSUME NEW w \in Wrappers, Crash(w) PROVE TypeOK'
  <2>1. NoFiles \in Snapshot
    BY SnapshotFacts
  <2>2. torn' \in BOOLEAN
    BY <1>19 DEF Crash
  <2> QED  BY <1>19, <2>1, <2>2 DEF Crash
<1>20. ASSUME NEW w \in Wrappers, ChildForks(w) PROVE TypeOK'
  BY <1>20, ProcFacts DEF ChildForks
<1>21. ASSUME NEW w \in Wrappers, OperatorClears(w) PROVE TypeOK'
  BY <1>21 DEF OperatorClears
<1>22. ASSUME NEW w \in Wrappers, NEW p \in Paths, RestoreOne(w, p) PROVE TypeOK'
  BY <1>22, mem[w] \in Snapshot, SnapshotFacts DEF RestoreOne
<1>23. ASSUME NEW w \in Wrappers, NEW p \in Paths, RestoreLive(w, p) PROVE TypeOK'
  BY <1>23, mem[w] \in Snapshot, SnapshotFacts DEF RestoreLive
<1>24. ASSUME NEW w \in Wrappers, NEW p \in Paths, Accept(w, p) PROVE TypeOK'
  <2>1. mem' \in [Wrappers -> Snapshot]
    BY <1>24 DEF Accept, Snapshot
  <2>2. BlobsOf(mem'[w]) \subseteq Shas
    BY <2>1, SnapshotFacts
  <2> QED  BY <1>24, <2>1, <2>2 DEF Accept
<1>25. ASSUME NEW x \in Procs, ProcessExits(x) PROVE TypeOK'
  BY <1>25 DEF ProcessExits
<1>26. ASSUME NEW p \in Paths, NEW e \in Entry, OutsideWrite(p, e) PROVE TypeOK'
  BY <1>26 DEF OutsideWrite, Snapshot
<1>27. ASSUME NEW w \in Wrappers, NEW p \in Paths, NEW e \in Entry, CagedWrite(w, p, e) PROVE TypeOK'
  BY <1>27 DEF CagedWrite, Snapshot
<1>28. CASE UNCHANGED vars
  BY <1>28 DEF vars
<1> QED
  BY <1>1, <1>2, <1>3, <1>4, <1>5, <1>6, <1>7, <1>8, <1>9, <1>10, <1>11, <1>12, <1>13, <1>14,
     <1>15, <1>16, <1>17, <1>18, <1>19, <1>20, <1>21, <1>22, <1>23, <1>24, <1>25, <1>26, <1>27, <1>28
  DEF Next, Outside, Recover, Write, Run
(* Begin is refused while another wrapper starts or ends, and answers      *)
(* ACTIVE while one runs: the running one's journal is there.              *)
LEMMA SoleStep ==
  ASSUME ~Concurrent, TypeOK, SoleInv, OwnerInv, DirInv, [Next]_vars
  PROVE  SoleInv'
<1> USE DEF TypeOK, SoleInv, Live, Over, Starting, Working, At, Go, dir, own, history
<1>1. ASSUME NEW w \in Wrappers, Begin(w) PROVE SoleInv'
  BY <1>1 DEF Begin, OwnerInv, DirInv, Free, Owned
<1>2. ASSUME NEW w \in Wrappers, KillOrphans(w) PROVE SoleInv'
  BY <1>2 DEF KillOrphans
<1>3. ASSUME NEW w \in Wrappers, RestoreConfig(w) PROVE SoleInv'
  BY <1>3 DEF RestoreConfig
<1>4. ASSUME NEW w \in Wrappers, Rescan(w) PROVE SoleInv'
  BY <1>4 DEF Rescan
<1>5. ASSUME NEW w \in Wrappers, RemoveOne(w) PROVE SoleInv'
  BY <1>5 DEF RemoveOne
<1>6. ASSUME NEW w \in Wrappers, Cleared(w) PROVE SoleInv'
  BY <1>6 DEF Cleared
<1>7. ASSUME NEW w \in Wrappers, TakeBaseline(w) PROVE SoleInv'
  BY <1>7 DEF TakeBaseline
<1>8. ASSUME NEW w \in Wrappers, Wiped(w) PROVE SoleInv'
  BY <1>8 DEF Wiped
<1>9. ASSUME NEW w \in Wrappers, WriteBlobs(w) PROVE SoleInv'
  BY <1>9 DEF WriteBlobs
<1>10. ASSUME NEW w \in Wrappers, WriteManifest(w) PROVE SoleInv'
  BY <1>10 DEF WriteManifest
<1>11. ASSUME NEW w \in Wrappers, WriteManifestSha(w) PROVE SoleInv'
  BY <1>11 DEF WriteManifestSha
<1>12. ASSUME NEW w \in Wrappers, WritePids(w) PROVE SoleInv'
  BY <1>12 DEF WritePids
<1>13. ASSUME NEW w \in Wrappers, WritePidsSha(w) PROVE SoleInv'
  BY <1>13 DEF WritePidsSha
<1>14. ASSUME NEW w \in Wrappers, Spawn(w) PROVE SoleInv'
  BY <1>14 DEF Spawn
<1>15. ASSUME NEW w \in Wrappers, RefreshPids(w) PROVE SoleInv'
  BY <1>15 DEF RefreshPids
<1>16. ASSUME NEW w \in Wrappers, RefreshPidsSha(w) PROVE SoleInv'
  BY <1>16 DEF RefreshPidsSha
<1>17. ASSUME NEW w \in Wrappers, FinalScan(w) PROVE SoleInv'
  BY <1>17 DEF FinalScan
<1>18. ASSUME NEW w \in Wrappers, Disposed(w) PROVE SoleInv'
  BY <1>18 DEF Disposed
<1>19. ASSUME NEW w \in Wrappers, Crash(w) PROVE SoleInv'
  BY <1>19 DEF Crash
<1>20. ASSUME NEW w \in Wrappers, ChildForks(w) PROVE SoleInv'
  BY <1>20 DEF ChildForks
<1>21. ASSUME NEW w \in Wrappers, OperatorClears(w) PROVE SoleInv'
  BY <1>21 DEF OperatorClears
<1>22. ASSUME NEW w \in Wrappers, NEW p \in Paths, RestoreOne(w, p) PROVE SoleInv'
  BY <1>22 DEF RestoreOne
<1>23. ASSUME NEW w \in Wrappers, NEW p \in Paths, RestoreLive(w, p) PROVE SoleInv'
  BY <1>23 DEF RestoreLive
<1>24. ASSUME NEW w \in Wrappers, NEW p \in Paths, Accept(w, p) PROVE SoleInv'
  BY <1>24 DEF Accept
<1>25. ASSUME NEW x \in Procs, ProcessExits(x) PROVE SoleInv'
  BY <1>25 DEF ProcessExits
<1>26. ASSUME NEW p \in Paths, NEW e \in Entry, OutsideWrite(p, e) PROVE SoleInv'
  BY <1>26 DEF OutsideWrite
<1>27. ASSUME NEW w \in Wrappers, NEW p \in Paths, NEW e \in Entry, CagedWrite(w, p, e) PROVE SoleInv'
  BY <1>27 DEF CagedWrite
<1>28. CASE UNCHANGED vars
  BY <1>28 DEF vars
<1> QED
  BY <1>1, <1>2, <1>3, <1>4, <1>5, <1>6, <1>7, <1>8, <1>9, <1>10, <1>11, <1>12, <1>13, <1>14,
     <1>15, <1>16, <1>17, <1>18, <1>19, <1>20, <1>21, <1>22, <1>23, <1>24, <1>25, <1>26, <1>27, <1>28
  DEF Next, Outside, Recover, Write, Run

(* Every step keeps OwnerInv: the journal passes from a wrapper to its     *)
(* successor only through its removal.                                     *)
LEMMA OwnerStep ==
  ASSUME ~Concurrent, TypeOK, SoleInv, OwnerInv, [Next]_vars
  PROVE  OwnerInv'
<1> USE DEF TypeOK, SoleInv, OwnerInv, Live, Over, Starting, Working, Owned, Recovering, Unwritten, At, Go, dir, own, history
<1>1. ASSUME NEW w \in Wrappers, Begin(w) PROVE OwnerInv'
  <2>1. CASE man = None
    BY <1>1, <2>1 DEF Begin
  <2>2. CASE man # None
    <3>1. man.owner \in Wrappers /\ man.owner # w
      BY <1>1, <2>2 DEF Begin, Manifest
    <3>2. CASE pc'[w] = "orphans"
      <4>1. pc[man.owner] = "dead" /\ manSha = man /\ mem' = [mem EXCEPT ![w] = man.base]
        BY <1>1, <2>2, <3>1, <3>2 DEF Begin
      <4> QED  BY <1>1, <2>2, <3>1, <3>2, <4>1 DEF Begin
    <3>3. CASE pc'[w] \in {"corrupt", "active"}
      BY <1>1, <2>2, <3>1, <3>3 DEF Begin
    <3> QED  BY <1>1, <2>2, <3>2, <3>3 DEF Begin
  <2> QED  BY <2>1, <2>2
<1>2. ASSUME NEW w \in Wrappers, KillOrphans(w) PROVE OwnerInv'
  <2>1. pc' = [pc EXCEPT ![w] = "config"] \/ pc' = [pc EXCEPT ![w] = "corrupt"]
    BY <1>2 DEF KillOrphans
  <2>2. pc[w] = "orphans" /\ UNCHANGED <<man, manSha, pids, mem>>
    BY <1>2 DEF KillOrphans
  <2>3. man # None /\ man.owner \in Wrappers /\ man.owner # w
    BY <2>2 DEF Manifest
  <2> QED  BY <2>1, <2>2, <2>3
<1>3. ASSUME NEW w \in Wrappers, RestoreConfig(w) PROVE OwnerInv'
  <2>1. pc' = [pc EXCEPT ![w] = "scan"] \/ pc' = [pc EXCEPT ![w] = "failed"]
    BY <1>3 DEF RestoreConfig
  <2>2. pc[w] = "config" /\ UNCHANGED <<man, manSha, pids, mem>>
    BY <1>3 DEF RestoreConfig
  <2>3. man # None /\ man.owner \in Wrappers /\ man.owner # w
    BY <2>2 DEF Manifest
  <2> QED  BY <2>1, <2>2, <2>3
<1>4. ASSUME NEW w \in Wrappers, Rescan(w) PROVE OwnerInv'
  BY <1>4 DEF Rescan
<1>5. ASSUME NEW w \in Wrappers, RemoveOne(w) PROVE OwnerInv'
  BY <1>5 DEF RemoveOne
<1>6. ASSUME NEW w \in Wrappers, Cleared(w) PROVE OwnerInv'
  BY <1>6 DEF Cleared, Emptied
<1>7. ASSUME NEW w \in Wrappers, TakeBaseline(w) PROVE OwnerInv'
  BY <1>7 DEF TakeBaseline
<1>8. ASSUME NEW w \in Wrappers, Wiped(w) PROVE OwnerInv'
  BY <1>8 DEF Wiped, Emptied
<1>9. ASSUME NEW w \in Wrappers, WriteBlobs(w) PROVE OwnerInv'
  BY <1>9 DEF WriteBlobs
<1>10. ASSUME NEW w \in Wrappers, WriteManifest(w) PROVE OwnerInv'
  <2>1. man' = [owner |-> w, base |-> mem[w]] /\ man' # None
    BY <1>10, mem[w] \in Snapshot, JournalAssumption DEF WriteManifest
  <2>2. man' \in Manifest /\ man'.owner = w /\ man'.base = mem[w]
    BY <2>1 DEF Manifest
  <2>3. \A v \in Wrappers : v # w => ~Live(v) /\ pc'[v] = pc[v]
    BY <1>10 DEF WriteManifest
  <2>4. pc'[w] \in {"manifestSha", "acceptSha"} /\ pids' = pids /\ mem' = mem /\ (pc[w] = "manifest" => pids = None)
    BY <1>10 DEF WriteManifest
  <2>5. pc'[w] = "manifestSha" => pids' = None
    BY <1>10 DEF WriteManifest
  <2>6. pc'[man'.owner] \in Owned \cup {"dead", "dispose"}
    BY <2>2, <2>4
  <2>7. \A v \in Wrappers : v # w => pc'[v] \in Over
    BY <2>3
  <2> HIDE DEF Owned, Recovering, Unwritten
  <2> QED  BY <2>1, <2>2, <2>4, <2>5, <2>6, <2>7 DEF Owned, Recovering, Unwritten
<1>11. ASSUME NEW w \in Wrappers, WriteManifestSha(w) PROVE OwnerInv'
  BY <1>11 DEF WriteManifestSha
<1>12. ASSUME NEW w \in Wrappers, WritePids(w) PROVE OwnerInv'
  BY <1>12 DEF WritePids
<1>13. ASSUME NEW w \in Wrappers, WritePidsSha(w) PROVE OwnerInv'
  BY <1>13 DEF WritePidsSha
<1>14. ASSUME NEW w \in Wrappers, Spawn(w) PROVE OwnerInv'
  BY <1>14 DEF Spawn
<1>15. ASSUME NEW w \in Wrappers, RefreshPids(w) PROVE OwnerInv'
  BY <1>15 DEF RefreshPids
<1>16. ASSUME NEW w \in Wrappers, RefreshPidsSha(w) PROVE OwnerInv'
  BY <1>16 DEF RefreshPidsSha
<1>17. ASSUME NEW w \in Wrappers, FinalScan(w) PROVE OwnerInv'
  BY <1>17 DEF FinalScan
<1>18. ASSUME NEW w \in Wrappers, Disposed(w) PROVE OwnerInv'
  BY <1>18 DEF Disposed, Emptied
<1>19. ASSUME NEW w \in Wrappers, Crash(w) PROVE OwnerInv'
  BY <1>19 DEF Crash
<1>20. ASSUME NEW w \in Wrappers, ChildForks(w) PROVE OwnerInv'
  BY <1>20 DEF ChildForks
<1>21. ASSUME NEW w \in Wrappers, OperatorClears(w) PROVE OwnerInv'
  BY <1>21 DEF OperatorClears
<1>22. ASSUME NEW w \in Wrappers, NEW p \in Paths, RestoreOne(w, p) PROVE OwnerInv'
  BY <1>22 DEF RestoreOne
<1>23. ASSUME NEW w \in Wrappers, NEW p \in Paths, RestoreLive(w, p) PROVE OwnerInv'
  BY <1>23 DEF RestoreLive
<1>24. ASSUME NEW w \in Wrappers, NEW p \in Paths, Accept(w, p) PROVE OwnerInv'
  BY <1>24 DEF Accept
<1>25. ASSUME NEW x \in Procs, ProcessExits(x) PROVE OwnerInv'
  BY <1>25 DEF ProcessExits
<1>26. ASSUME NEW p \in Paths, NEW e \in Entry, OutsideWrite(p, e) PROVE OwnerInv'
  BY <1>26 DEF OutsideWrite
<1>27. ASSUME NEW w \in Wrappers, NEW p \in Paths, NEW e \in Entry, CagedWrite(w, p, e) PROVE OwnerInv'
  BY <1>27 DEF CagedWrite
<1>28. CASE UNCHANGED vars
  BY <1>28 DEF vars
<1> QED
  BY <1>1, <1>2, <1>3, <1>4, <1>5, <1>6, <1>7, <1>8, <1>9, <1>10, <1>11, <1>12, <1>13, <1>14,
     <1>15, <1>16, <1>17, <1>18, <1>19, <1>20, <1>21, <1>22, <1>23, <1>24, <1>25, <1>26, <1>27, <1>28
  DEF Next, Outside, Recover, Write, Run

(* Every step keeps DirInv.                                                *)
LEMMA DirStep ==
  ASSUME ~Concurrent, TypeOK, SoleInv, OwnerInv, DirInv, [Next]_vars
  PROVE  DirInv'
<1> USE DEF TypeOK, SoleInv, OwnerInv, DirInv, Whole, Live, Over, Starting, Working, Owned, Recovering, Unwritten, At, Go, dir, own, history
<1>1. ASSUME NEW w \in Wrappers, Begin(w) PROVE DirInv'
  <2>1. pc'[w] \in {"plan", "corrupt", "active", "orphans"} /\ pc[w] = "off" /\ UNCHANGED dir
    BY <1>1 DEF Begin
  <2>2. \A v \in Wrappers : v # w => pc'[v] = pc[v] /\ mem'[v] = mem[v]
    BY <1>1 DEF Begin
  <2>3. man # None => man.owner \in Wrappers
    BY DEF Manifest
  <2>4. ASSUME man # None, pc'[man.owner] = "dead", \A v \in Wrappers : pc'[v] # "clear", ~torn'
        PROVE  Whole
    <3>1. pc[man.owner] = "dead" /\ (\A v \in Wrappers : pc[v] # "clear")
      BY <2>1, <2>2, <2>3, <2>4
    <3>2. ~torn
      BY <1>1, <2>4 DEF Begin
    <3> QED  BY <2>4, <3>1, <3>2
  <2>5. Whole => Whole'
    BY <2>1
  <2> QED  BY <2>1, <2>2, <2>4, <2>5
<1>2. ASSUME NEW w \in Wrappers, KillOrphans(w) PROVE DirInv'
  BY <1>2 DEF KillOrphans
<1>3. ASSUME NEW w \in Wrappers, RestoreConfig(w) PROVE DirInv'
  BY <1>3 DEF RestoreConfig
<1>4. ASSUME NEW w \in Wrappers, Rescan(w) PROVE DirInv'
  BY <1>4 DEF Rescan
<1>5. ASSUME NEW w \in Wrappers, RemoveOne(w) PROVE DirInv'
  BY <1>5 DEF RemoveOne
<1>6. ASSUME NEW w \in Wrappers, Cleared(w) PROVE DirInv'
  BY <1>6 DEF Cleared, Emptied
<1>7. ASSUME NEW w \in Wrappers, TakeBaseline(w) PROVE DirInv'
  BY <1>7 DEF TakeBaseline
<1>8. ASSUME NEW w \in Wrappers, Wiped(w) PROVE DirInv'
  BY <1>8 DEF Wiped, Emptied
<1>9. ASSUME NEW w \in Wrappers, WriteBlobs(w) PROVE DirInv'
  BY <1>9 DEF WriteBlobs
<1>10. ASSUME NEW w \in Wrappers, WriteManifest(w) PROVE DirInv'
  BY <1>10 DEF WriteManifest
<1>11. ASSUME NEW w \in Wrappers, WriteManifestSha(w) PROVE DirInv'
  <2>1. pc'[w] \in {"pids", "running"} /\ pc[w] \in {"manifestSha", "acceptSha"} /\ UNCHANGED <<man, pids, pidSha, blobs, mem>>
    BY <1>11 DEF WriteManifestSha
  <2>2. \A v \in Wrappers : v # w => pc'[v] = pc[v] /\ pc[v] \in Over
    BY <1>11 DEF WriteManifestSha
  <2>3. man # None /\ man.owner = w /\ man.base = mem[w] /\ man \in Manifest
    BY <2>1
  <2>4. man = [owner |-> w, base |-> mem[w]]
    BY <2>3 DEF Manifest
  <2>5. manSha' = man
    BY <1>11, <2>4 DEF WriteManifestSha
  <2>6. pc[w] = "manifestSha" => pids = None
    BY <2>1
  <2>7. pids = None \/ pidSha = pids
    BY <2>1
  <2>8. BlobsOf(man.base) \subseteq blobs /\ BlobsOf(mem[w]) \subseteq blobs
    BY <2>1
  <2>9. DirInv!1'
    BY <2>1, <2>2, <2>5, <2>7, <2>8
  <2> QED  BY <2>1, <2>2, <2>3, <2>9
<1>12. ASSUME NEW w \in Wrappers, WritePids(w) PROVE DirInv'
  BY <1>12 DEF WritePids
<1>13. ASSUME NEW w \in Wrappers, WritePidsSha(w) PROVE DirInv'
  BY <1>13 DEF WritePidsSha
<1>14. ASSUME NEW w \in Wrappers, Spawn(w) PROVE DirInv'
  BY <1>14 DEF Spawn
<1>15. ASSUME NEW w \in Wrappers, RefreshPids(w) PROVE DirInv'
  BY <1>15 DEF RefreshPids
<1>16. ASSUME NEW w \in Wrappers, RefreshPidsSha(w) PROVE DirInv'
  BY <1>16 DEF RefreshPidsSha
<1>17. ASSUME NEW w \in Wrappers, FinalScan(w) PROVE DirInv'
  BY <1>17 DEF FinalScan
<1>18. ASSUME NEW w \in Wrappers, Disposed(w) PROVE DirInv'
  BY <1>18 DEF Disposed, Emptied
<1>19. ASSUME NEW w \in Wrappers, Crash(w) PROVE DirInv'
  <2>1. pc'[w] = "dead" /\ pc[w] \notin Over /\ UNCHANGED dir
    BY <1>19 DEF Crash
  <2>2. \A v \in Wrappers : v # w => pc'[v] = pc[v] /\ pc[v] \in Over /\ mem'[v] = mem[v]
    BY <1>19 DEF Crash
  <2>3. torn' = (torn \/ (pc[w] \in {"clear", "dispose"} /\ man # None)
                   \/ pc[w] \in {"manifestSha", "pidsSha", "refreshSha", "acceptSha"})
    BY <1>19 DEF Crash
  <2>4. man # None => man.owner \in Wrappers
    BY DEF Manifest
  <2>5. ASSUME man # None, ~torn' PROVE Whole
    <3>1. CASE man.owner = w
      <4>1. pc[w] \in Owned \ {"manifestSha", "pidsSha", "refreshSha", "acceptSha"}
        BY <2>1, <2>3, <2>5, <3>1
      <4> QED  BY <2>5, <3>1, <4>1
    <3>2. CASE man.owner # w
      <4>1. pc[man.owner] = "dead" /\ ~torn /\ pc[w] # "clear"
        BY <2>2, <2>3, <2>4, <2>5, <3>2
      <4> QED  BY <2>2, <2>5, <4>1
    <3> QED  BY <3>1, <3>2
  <2>6. Whole => Whole'
    BY <2>1
  <2> QED  BY <2>1, <2>2, <2>5, <2>6
<1>20. ASSUME NEW w \in Wrappers, ChildForks(w) PROVE DirInv'
  BY <1>20 DEF ChildForks
<1>21. ASSUME NEW w \in Wrappers, OperatorClears(w) PROVE DirInv'
  BY <1>21 DEF OperatorClears
<1>22. ASSUME NEW w \in Wrappers, NEW p \in Paths, RestoreOne(w, p) PROVE DirInv'
  BY <1>22 DEF RestoreOne
<1>23. ASSUME NEW w \in Wrappers, NEW p \in Paths, RestoreLive(w, p) PROVE DirInv'
  BY <1>23 DEF RestoreLive
<1>24. ASSUME NEW w \in Wrappers, NEW p \in Paths, Accept(w, p) PROVE DirInv'
  BY <1>24 DEF Accept
<1>25. ASSUME NEW x \in Procs, ProcessExits(x) PROVE DirInv'
  BY <1>25 DEF ProcessExits
<1>26. ASSUME NEW p \in Paths, NEW e \in Entry, OutsideWrite(p, e) PROVE DirInv'
  BY <1>26 DEF OutsideWrite
<1>27. ASSUME NEW w \in Wrappers, NEW p \in Paths, NEW e \in Entry, CagedWrite(w, p, e) PROVE DirInv'
  BY <1>27 DEF CagedWrite
<1>28. CASE UNCHANGED vars
  BY <1>28 DEF vars
<1> QED
  BY <1>1, <1>2, <1>3, <1>4, <1>5, <1>6, <1>7, <1>8, <1>9, <1>10, <1>11, <1>12, <1>13, <1>14,
     <1>15, <1>16, <1>17, <1>18, <1>19, <1>20, <1>21, <1>22, <1>23, <1>24, <1>25, <1>26, <1>27, <1>28
  DEF Next, Outside, Recover, Write, Run

(* Only a torn journal is refused as corrupt: Begin finds the sidecar and  *)
(* the blobs of a dead owner's manifest, KillOrphans the sidecar of its    *)
(* pids.                                                                   *)
LEMMA RecoveredStep ==
  ASSUME ~Concurrent, TypeOK, SoleInv, OwnerInv, DirInv, KillIsRecovered, [Next]_vars
  PROVE  KillIsRecovered'
<1> USE DEF TypeOK, SoleInv, OwnerInv, DirInv, Whole, KillIsRecovered, Live, Over, Starting, Working, Owned, Recovering, Unwritten, At, Go, dir, own, history
<1>1. ASSUME NEW w \in Wrappers, Begin(w) PROVE KillIsRecovered'
  <2>1. torn' = torn /\ (\A v \in Wrappers : v # w => pc'[v] = pc[v] /\ pc[v] \in Over \cup {"running"})
    BY <1>1 DEF Begin, Free
  <2>2. ASSUME pc'[w] = "corrupt" PROVE torn
    <3>1. pc[w] = "off" /\ man # None /\ (manSha # man \/ (~Live(man.owner) /\ ~(BlobsOf(man.base) \subseteq blobs)))
      BY <1>1, <2>2 DEF Begin
    <3>2. man.owner \in Wrappers /\ man.owner # w /\ pc[man.owner] \in {"running", "dead"}
      BY <2>1, <3>1 DEF Manifest
    <3>3. pc[man.owner] = "running" => manSha = man
      BY <3>2
    <3>4. pc[man.owner] = "dead"
      BY <3>1, <3>2, <3>3
    <3>5. \A v \in Wrappers : pc[v] # "clear"
      BY <2>1, <3>1
    <3> QED  BY <3>1, <3>4, <3>5
  <2> QED  BY <2>1, <2>2
<1>2. ASSUME NEW w \in Wrappers, KillOrphans(w) PROVE KillIsRecovered'
  BY <1>2 DEF KillOrphans
<1>3. ASSUME NEW w \in Wrappers, RestoreConfig(w) PROVE KillIsRecovered'
  BY <1>3 DEF RestoreConfig
<1>4. ASSUME NEW w \in Wrappers, Rescan(w) PROVE KillIsRecovered'
  BY <1>4 DEF Rescan
<1>5. ASSUME NEW w \in Wrappers, RemoveOne(w) PROVE KillIsRecovered'
  BY <1>5 DEF RemoveOne
<1>6. ASSUME NEW w \in Wrappers, Cleared(w) PROVE KillIsRecovered'
  BY <1>6 DEF Cleared, Emptied
<1>7. ASSUME NEW w \in Wrappers, TakeBaseline(w) PROVE KillIsRecovered'
  BY <1>7 DEF TakeBaseline
<1>8. ASSUME NEW w \in Wrappers, Wiped(w) PROVE KillIsRecovered'
  BY <1>8 DEF Wiped, Emptied
<1>9. ASSUME NEW w \in Wrappers, WriteBlobs(w) PROVE KillIsRecovered'
  BY <1>9 DEF WriteBlobs
<1>10. ASSUME NEW w \in Wrappers, WriteManifest(w) PROVE KillIsRecovered'
  BY <1>10 DEF WriteManifest
<1>11. ASSUME NEW w \in Wrappers, WriteManifestSha(w) PROVE KillIsRecovered'
  BY <1>11 DEF WriteManifestSha
<1>12. ASSUME NEW w \in Wrappers, WritePids(w) PROVE KillIsRecovered'
  BY <1>12 DEF WritePids
<1>13. ASSUME NEW w \in Wrappers, WritePidsSha(w) PROVE KillIsRecovered'
  BY <1>13 DEF WritePidsSha
<1>14. ASSUME NEW w \in Wrappers, Spawn(w) PROVE KillIsRecovered'
  BY <1>14 DEF Spawn
<1>15. ASSUME NEW w \in Wrappers, RefreshPids(w) PROVE KillIsRecovered'
  BY <1>15 DEF RefreshPids
<1>16. ASSUME NEW w \in Wrappers, RefreshPidsSha(w) PROVE KillIsRecovered'
  BY <1>16 DEF RefreshPidsSha
<1>17. ASSUME NEW w \in Wrappers, FinalScan(w) PROVE KillIsRecovered'
  BY <1>17 DEF FinalScan
<1>18. ASSUME NEW w \in Wrappers, Disposed(w) PROVE KillIsRecovered'
  BY <1>18 DEF Disposed, Emptied
<1>19. ASSUME NEW w \in Wrappers, Crash(w) PROVE KillIsRecovered'
  BY <1>19 DEF Crash
<1>20. ASSUME NEW w \in Wrappers, ChildForks(w) PROVE KillIsRecovered'
  BY <1>20 DEF ChildForks
<1>21. ASSUME NEW w \in Wrappers, OperatorClears(w) PROVE KillIsRecovered'
  BY <1>21 DEF OperatorClears
<1>22. ASSUME NEW w \in Wrappers, NEW p \in Paths, RestoreOne(w, p) PROVE KillIsRecovered'
  BY <1>22 DEF RestoreOne
<1>23. ASSUME NEW w \in Wrappers, NEW p \in Paths, RestoreLive(w, p) PROVE KillIsRecovered'
  BY <1>23 DEF RestoreLive
<1>24. ASSUME NEW w \in Wrappers, NEW p \in Paths, Accept(w, p) PROVE KillIsRecovered'
  BY <1>24 DEF Accept
<1>25. ASSUME NEW x \in Procs, ProcessExits(x) PROVE KillIsRecovered'
  BY <1>25 DEF ProcessExits
<1>26. ASSUME NEW p \in Paths, NEW e \in Entry, OutsideWrite(p, e) PROVE KillIsRecovered'
  BY <1>26 DEF OutsideWrite
<1>27. ASSUME NEW w \in Wrappers, NEW p \in Paths, NEW e \in Entry, CagedWrite(w, p, e) PROVE KillIsRecovered'
  BY <1>27 DEF CagedWrite
<1>28. CASE UNCHANGED vars
  BY <1>28 DEF vars
<1> QED
  BY <1>1, <1>2, <1>3, <1>4, <1>5, <1>6, <1>7, <1>8, <1>9, <1>10, <1>11, <1>12, <1>13, <1>14,
     <1>15, <1>16, <1>17, <1>18, <1>19, <1>20, <1>21, <1>22, <1>23, <1>24, <1>25, <1>26, <1>27, <1>28
  DEF Next, Outside, Recover, Write, Run

(* Beyond the removal of the orphans, and before the command is spawned, no*)
(* process of a caged command lives.                                       *)
LEMMA AliveFacts ==
  ASSUME ~Concurrent, TypeOK, SoleInv, OwnerInv, AliveInv, ~lost, NEW w \in Wrappers, Live(w),
         pc[w] \notin (Working \ {"spawn", "final"}) \cup {"orphans"}
  PROVE  alive = {}
<1> SUFFICES ASSUME alive # {} PROVE FALSE
  OBVIOUS
<1>1. man # None /\ man.owner \in Wrappers
  BY DEF AliveInv, TypeOK, Manifest
<1>2. CASE pc[man.owner] \in Working \ {"spawn", "final"}
  <2>1. Live(man.owner)
    BY <1>2 DEF Live, Working, Over
  <2> QED  BY <1>1, <1>2, <2>1 DEF SoleInv
<1>3. CASE pc[man.owner] = "dead" /\ \A v \in Wrappers : Live(v) => pc[v] = "orphans"
  BY <1>3
<1> QED  BY <1>2, <1>3 DEF AliveInv

(* Every step keeps AliveInv.                                              *)
LEMMA AliveStep ==
  ASSUME ~Concurrent, TypeOK, SoleInv, OwnerInv, AliveInv, [Next]_vars
  PROVE  AliveInv'
<1> USE DEF TypeOK, SoleInv, OwnerInv, AliveInv, Live, Over, Starting, Working, Owned, Recovering, Unwritten, At, Go, dir, own, history
<1>1. ASSUME NEW w \in Wrappers, Begin(w) PROVE AliveInv'
  <2>1. pc'[w] \in {"plan", "corrupt", "active", "orphans"} /\ pc[w] = "off" /\ UNCHANGED <<man, lost, alive>>
    BY <1>1 DEF Begin
  <2>2. \A v \in Wrappers : v # w => pc'[v] = pc[v] /\ pc[v] \in Over \cup {"running"}
    BY <1>1 DEF Begin, Free
  <2> SUFFICES ASSUME ~lost, alive # {} PROVE AliveInv'
    BY <2>1
  <2>3. man # None /\ man.owner \in Wrappers /\ pc[man.owner] \in {"running", "dead"} /\ man.owner # w
    BY <2>1, <2>2 DEF Manifest
  <2>4. pc'[man.owner] = pc[man.owner]
    BY <2>2, <2>3
  <2>5. CASE pc[man.owner] = "running"
    BY <2>1, <2>3, <2>4, <2>5
  <2>6. CASE pc[man.owner] = "dead"
    <3>1. \A v \in Wrappers : v # w => pc'[v] \in Over
      BY <2>2, <2>6
    <3>2. pc'[w] # "plan"
      BY <1>1, <2>3 DEF Begin
    <3> QED  BY <2>1, <2>3, <2>4, <2>6, <3>1, <3>2
  <2> QED  BY <2>3, <2>5, <2>6
<1>2. ASSUME NEW w \in Wrappers, KillOrphans(w) PROVE AliveInv'
  <2>1. CASE pids # None /\ pidSha # pids
    <3>1. pc[w] = "orphans" /\ pc' = [pc EXCEPT ![w] = "corrupt"] /\ UNCHANGED <<man, alive, lost>>
      BY <1>2, <2>1 DEF KillOrphans
    <3>2. pc[man.owner] = "dead" /\ man # None /\ man.owner \in Wrappers /\ man.owner # w
      BY <3>1 DEF Manifest
    <3> QED  BY <3>1, <3>2
  <2>2. CASE ~(pids # None /\ pidSha # pids)
    <3>1. lost' = (lost \/ alive' # {})
      BY <1>2, <2>2 DEF KillOrphans
    <3> QED  BY <3>1
  <2> QED  BY <2>1, <2>2
<1>3. ASSUME NEW w \in Wrappers, RestoreConfig(w) PROVE AliveInv'
  <2>1. lost \/ alive = {}
    BY <1>3, AliveFacts DEF RestoreConfig
  <2>2. lost' = lost /\ alive' = alive
    BY <1>3 DEF RestoreConfig
  <2> QED  BY <2>1, <2>2
<1>4. ASSUME NEW w \in Wrappers, Rescan(w) PROVE AliveInv'
  <2>1. lost \/ alive = {}
    BY <1>4, AliveFacts DEF Rescan
  <2>2. lost' = lost /\ alive' = alive
    BY <1>4 DEF Rescan
  <2> QED  BY <2>1, <2>2
<1>5. ASSUME NEW w \in Wrappers, RemoveOne(w) PROVE AliveInv'
  <2>1. lost \/ alive = {}
    BY <1>5, AliveFacts DEF RemoveOne
  <2>2. lost' = lost /\ alive' = alive
    BY <1>5 DEF RemoveOne
  <2> QED  BY <2>1, <2>2
<1>6. ASSUME NEW w \in Wrappers, Cleared(w) PROVE AliveInv'
  <2>1. lost \/ alive = {}
    BY <1>6, AliveFacts DEF Cleared
  <2>2. lost' = lost /\ alive' = alive
    BY <1>6 DEF Cleared
  <2> QED  BY <2>1, <2>2
<1>7. ASSUME NEW w \in Wrappers, TakeBaseline(w) PROVE AliveInv'
  <2>1. lost \/ alive = {}
    BY <1>7, AliveFacts DEF TakeBaseline
  <2>2. lost' = lost /\ alive' = alive
    BY <1>7 DEF TakeBaseline
  <2> QED  BY <2>1, <2>2
<1>8. ASSUME NEW w \in Wrappers, Wiped(w) PROVE AliveInv'
  <2>1. lost \/ alive = {}
    BY <1>8, AliveFacts DEF Wiped
  <2>2. lost' = lost /\ alive' = alive
    BY <1>8 DEF Wiped
  <2> QED  BY <2>1, <2>2
<1>9. ASSUME NEW w \in Wrappers, WriteBlobs(w) PROVE AliveInv'
  <2>1. lost \/ alive = {}
    BY <1>9, AliveFacts DEF WriteBlobs
  <2>2. lost' = lost /\ alive' = alive
    BY <1>9 DEF WriteBlobs
  <2> QED  BY <2>1, <2>2
<1>10. ASSUME NEW w \in Wrappers, WriteManifest(w) PROVE AliveInv'
  <2>1. man' = [owner |-> w, base |-> mem[w]] /\ man' # None /\ UNCHANGED <<lost, alive>>
    BY <1>10, mem[w] \in Snapshot, JournalAssumption DEF WriteManifest
  <2>2. man'.owner = w
    BY <2>1
  <2>3. CASE pc[w] = "manifest"
    <3>1. lost \/ alive = {}
      BY <2>3, AliveFacts
    <3> QED  BY <2>1, <3>1
  <2>4. CASE pc[w] = "acceptManifest"
    <3>1. man # None /\ man.owner = w
      BY <2>4
    <3>2. pc'[w] = "acceptSha"
      BY <1>10, <2>4 DEF WriteManifest
    <3> QED  BY <2>1, <2>2, <3>1, <3>2
  <2> QED  BY <1>10, <2>3, <2>4 DEF WriteManifest
<1>11. ASSUME NEW w \in Wrappers, WriteManifestSha(w) PROVE AliveInv'
  BY <1>11 DEF WriteManifestSha
<1>12. ASSUME NEW w \in Wrappers, WritePids(w) PROVE AliveInv'
  <2>1. lost \/ alive = {}
    BY <1>12, AliveFacts DEF WritePids
  <2>2. lost' = lost /\ alive' = alive
    BY <1>12 DEF WritePids
  <2> QED  BY <2>1, <2>2
<1>13. ASSUME NEW w \in Wrappers, WritePidsSha(w) PROVE AliveInv'
  <2>1. lost \/ alive = {}
    BY <1>13, AliveFacts DEF WritePidsSha
  <2>2. lost' = lost /\ alive' = alive
    BY <1>13 DEF WritePidsSha
  <2> QED  BY <2>1, <2>2
<1>14. ASSUME NEW w \in Wrappers, Spawn(w) PROVE AliveInv'
  BY <1>14 DEF Spawn
<1>15. ASSUME NEW w \in Wrappers, RefreshPids(w) PROVE AliveInv'
  BY <1>15 DEF RefreshPids
<1>16. ASSUME NEW w \in Wrappers, RefreshPidsSha(w) PROVE AliveInv'
  BY <1>16 DEF RefreshPidsSha
<1>17. ASSUME NEW w \in Wrappers, FinalScan(w) PROVE AliveInv'
  BY <1>17 DEF FinalScan
<1>18. ASSUME NEW w \in Wrappers, Disposed(w) PROVE AliveInv'
  <2>1. lost \/ alive = {}
    BY <1>18, AliveFacts DEF Disposed
  <2>2. lost' = lost /\ alive' = alive
    BY <1>18 DEF Disposed
  <2> QED  BY <2>1, <2>2
<1>19. ASSUME NEW w \in Wrappers, Crash(w) PROVE AliveInv'
  BY <1>19 DEF Crash
<1>20. ASSUME NEW w \in Wrappers, ChildForks(w) PROVE AliveInv'
  <2>1. Child(w) \in alive /\ alive' = alive \cup {Helper(w)} /\ UNCHANGED <<man, pc, lost>>
    BY <1>20 DEF ChildForks
  <2>2. ASSUME ~lost PROVE alive' \subseteq {Child(man.owner), Helper(man.owner)}
    <3>1. Child(w) \in {Child(man.owner), Helper(man.owner)}
      BY <2>1, <2>2
    <3>2. w = man.owner
      BY <3>1 DEF Child, Helper
    <3> QED  BY <2>1, <2>2, <3>2
  <2> QED  BY <2>1, <2>2
<1>21. ASSUME NEW w \in Wrappers, OperatorClears(w) PROVE AliveInv'
  BY <1>21 DEF OperatorClears
<1>22. ASSUME NEW w \in Wrappers, NEW p \in Paths, RestoreOne(w, p) PROVE AliveInv'
  <2>1. lost \/ alive = {}
    BY <1>22, AliveFacts DEF RestoreOne
  <2>2. lost' = lost /\ alive' = alive
    BY <1>22 DEF RestoreOne
  <2> QED  BY <2>1, <2>2
<1>23. ASSUME NEW w \in Wrappers, NEW p \in Paths, RestoreLive(w, p) PROVE AliveInv'
  BY <1>23 DEF RestoreLive
<1>24. ASSUME NEW w \in Wrappers, NEW p \in Paths, Accept(w, p) PROVE AliveInv'
  BY <1>24 DEF Accept
<1>25. ASSUME NEW x \in Procs, ProcessExits(x) PROVE AliveInv'
  BY <1>25 DEF ProcessExits
<1>26. ASSUME NEW p \in Paths, NEW e \in Entry, OutsideWrite(p, e) PROVE AliveInv'
  BY <1>26 DEF OutsideWrite
<1>27. ASSUME NEW w \in Wrappers, NEW p \in Paths, NEW e \in Entry, CagedWrite(w, p, e) PROVE AliveInv'
  BY <1>27 DEF CagedWrite
<1>28. CASE UNCHANGED vars
  BY <1>28 DEF vars
<1> QED
  BY <1>1, <1>2, <1>3, <1>4, <1>5, <1>6, <1>7, <1>8, <1>9, <1>10, <1>11, <1>12, <1>13, <1>14,
     <1>15, <1>16, <1>17, <1>18, <1>19, <1>20, <1>21, <1>22, <1>23, <1>24, <1>25, <1>26, <1>27, <1>28
  DEF Next, Outside, Recover, Write, Run

(* The plan depends on the content of the rule files only.                 *)
LEMMA PlanOfAgrees ==
  ASSUME NEW d \in Snapshot, NEW e \in Snapshot, \A r \in DOMAIN Lists : ShaOf(d[r]) = ShaOf(e[r])
  PROVE  PlanOf(d) = PlanOf(e)
<1>1. \A r \in DOMAIN Lists : d[r] \in Entry /\ e[r] \in Entry
  BY JournalAssumption DEF Snapshot
<1>2. \A r \in DOMAIN Lists : Lists[r][d[r]] = Lists[r][e[r]]
  BY <1>1, JournalAssumption
<1> QED  BY <1>2 DEF PlanOf

(* A write that leaves the rule files, other than a .cage.yaml that can be *)
(* put back, leaves the plan.                                              *)
LEMMA PlannedKept ==
  ASSUME NEW d \in Snapshot, NEW e \in Snapshot, NEW base \in Snapshot, NEW pl, Planned(d, base, pl),
         \A r \in DOMAIN Lists : r # Config \/ base[r] = None => e[r] = d[r]
  PROVE  Planned(e, base, pl)
<1>1. Config \in Paths /\ base[Config] \in Entry /\ d[Config] \in Entry /\ e[Config] \in Entry
  BY JournalAssumption DEF Snapshot
<1>2. Configured(d, base) \in Snapshot /\ Configured(e, base) \in Snapshot
  BY <1>1 DEF Configured, Snapshot
<1>3. \A r \in DOMAIN Lists : Configured(d, base)[r] = Configured(e, base)[r]
  BY <1>1, JournalAssumption DEF Configured, Snapshot
<1>4. PlanOf(Configured(d, base)) = PlanOf(Configured(e, base))
  BY <1>2, <1>3, PlanOfAgrees
<1> QED  BY <1>4 DEF Planned

(* With .cage.yaml put back, the plan rebuilt is the plan of the baseline. *)
LEMMA PlannedIsPlan ==
  ASSUME NEW d \in Snapshot, NEW base \in Snapshot, NEW pl, Planned(d, base, pl),
         base[Config] = None \/ ShaOf(d[Config]) = ShaOf(base[Config])
  PROVE  PlanOf(d) = pl
<1>1. Config \in Paths /\ base[Config] \in Entry /\ d[Config] \in Entry
  BY JournalAssumption DEF Snapshot
<1>2. Configured(d, base) \in Snapshot
  BY <1>1 DEF Configured, Snapshot
<1>3. \A r \in DOMAIN Lists : ShaOf(Configured(d, base)[r]) = ShaOf(d[r])
  BY <1>1, JournalAssumption DEF Configured, Snapshot
<1> QED  BY <1>2, <1>3, PlanOfAgrees DEF Planned

(* A baseline just taken is planned.                                       *)
LEMMA BaselineIsPlanned ==
  ASSUME NEW d \in Snapshot
  PROVE  Planned(d, Seen(PlanOf(d), d), PlanOf(d))
<1> DEFINE base == Seen(PlanOf(d), d)
<1>1. base \in Snapshot /\ Always \subseteq PlanOf(d) /\ Config \in Always /\ Config \in Paths
  BY SnapshotFacts, JournalAssumption
<1>2. base[Config] = d[Config]
  BY <1>1 DEF Seen
<1>3. Configured(d, base) = d
  BY <1>1, <1>2 DEF Configured, Snapshot
<1>4. \A p \in Paths \ PlanOf(d) : base[p] = None
  BY DEF Seen
<1>5. \A r \in DOMAIN Lists \cap PlanOf(d) : d[r] = base[r]
  BY JournalAssumption DEF Seen
<1> QED  BY <1>1, <1>3, <1>4, <1>5 DEF Planned

(* A scan of the protected paths against the baseline finds every path that*)
(* is not as it should be, and only protected ones.                        *)
LEMMA ScanFindsAll ==
  ASSUME NEW d \in Snapshot, NEW base \in Snapshot, NEW pl \in SUBSET Paths, NEW good \in Snapshot,
         \A p \in Paths \ pl : base[p] = None,
         \A p \in pl : good[p] = base[p],
         \A p \in Paths \ pl : d[p] = good[p]
  PROVE  /\ Changes(base, Seen(pl, d)) \subseteq pl
         /\ \A p \in Paths : d[p] # good[p] => p \in Changes(base, Seen(pl, d))
         /\ Changes(base, Seen(pl, d)) = {} => d = good
<1>1. \A p \in Paths : p \in Changes(base, Seen(pl, d)) <=> p \in pl /\ base[p] # d[p]
  BY DEF Changes, Seen, EntryChanged
<1>2. Changes(base, Seen(pl, d)) \subseteq Paths
  BY DEF Changes
<1>3. \A p \in Paths : d[p] # good[p] => p \in Changes(base, Seen(pl, d))
  BY <1>1
<1>4. Changes(base, Seen(pl, d)) = {} => d = good
  BY <1>3 DEF Snapshot
<1> QED  BY <1>1, <1>2, <1>3, <1>4

(* Every step keeps DataInv: the recovery finds every path that is not as  *)
(* approved and clears the journal only after it has put all of them back. *)
LEMMA DataStep ==
  ASSUME ~Concurrent, ~RulesChange, TypeOK, SoleInv, OwnerInv, AliveInv, DataInv, [Next]_vars
  PROVE  DataInv'
<1> SUFFICES ASSUME ~lost', ~failed'
             PROVE  GuardInv' /\ \A v \in Wrappers : StageInv(v)'
  BY DEF DataInv
<1> USE DEF Live, Over, Starting, Working, Owned, Recovering, Unwritten, At, Go, dir, own, history
<1>a. /\ man # None => man \in Manifest /\ man.owner \in Wrappers /\ man.base \in Snapshot
      /\ disk \in Snapshot /\ approved \in Snapshot
      /\ \A v \in Wrappers : mem[v] \in Snapshot /\ plan[v] \in SUBSET Paths
  BY DEF TypeOK, Manifest
<1>t. TypeOK'
  BY JournalTypeStep
<1>b. ~lost /\ ~failed => GuardInv /\ \A v \in Wrappers : StageInv(v)
  BY DEF DataInv
<1>1. ASSUME NEW w \in Wrappers, Begin(w) PROVE (GuardInv /\ \A v \in Wrappers : StageInv(v))'
  BY <1>1, <1>a, <1>b DEF Begin, TypeOK, SoleInv, OwnerInv, GuardInv, StageInv
<1>2. ASSUME NEW w \in Wrappers, KillOrphans(w) PROVE (GuardInv /\ \A v \in Wrappers : StageInv(v))'
  BY <1>2, <1>a, <1>b DEF KillOrphans, TypeOK, SoleInv, OwnerInv, GuardInv, StageInv
<1>3. ASSUME NEW w \in Wrappers, RestoreConfig(w) PROVE (GuardInv /\ \A v \in Wrappers : StageInv(v))'
  <2>o. w \in Wrappers /\ \A v \in Wrappers : v # w => pc[v] \in Over /\ pc'[v] = pc[v]
    BY <1>3 DEF TypeOK, SoleInv, RestoreConfig
  <2> DEFINE base == mem[w][Config]
             written == IF disk[Config] = None THEN base ELSE [disk[Config] EXCEPT !.sha = base.sha]
  <2>1. pc[w] = "config" /\ pc'[w] \in {"scan", "failed"} /\ UNCHANGED <<dir, own, history>>
    BY <1>3 DEF RestoreConfig, TypeOK
  <2>2. man # None /\ mem[w] = man.base
    BY <2>1 DEF OwnerInv
  <2>3. Config \in Paths /\ base \in Entry /\ disk[Config] \in Entry /\ Config \in Always
    BY <1>a, JournalAssumption DEF Snapshot
  <2>4. Config \in plan[man.owner]
    BY <1>a, <1>b, <2>1, <2>2, <2>3 DEF GuardInv, Planned
  <2>5. /\ \A p \in Paths : p # Config => disk'[p] = disk[p]
        /\ base = None => disk' = disk
    BY <1>3, <1>a DEF RestoreConfig, Snapshot
  <2>6. Planned(disk', man.base, plan[man.owner])
    <3>1. \A r \in DOMAIN Lists : r # Config \/ man.base[r] = None => disk'[r] = disk[r]
      BY <2>2, <2>5, JournalAssumption
    <3> QED  BY <1>a, <1>b, <1>t, <2>1, <2>2, <3>1, PlannedKept DEF GuardInv, TypeOK
  <2>7. pc'[w] = "scan" => base = None \/ ShaOf(disk'[Config]) = ShaOf(base)
    <3>1. CASE base # None /\ ShaOf(disk[Config]) # base.sha
      <4>1. written.sha = base.sha /\ written # None
        BY <2>3, <3>1, NoneAssumption DEF Entry
      <4>2. pc'[w] = "scan" => disk'[Config] = written
        <5> SUFFICES ASSUME pc'[w] = "scan" PROVE disk'[Config] = written
          OBVIOUS
        <5>1. ~(pc' = [pc EXCEPT ![w] = "failed"])
          BY <2>o DEF TypeOK
        <5>2. disk' = [disk EXCEPT ![Config] = written]
          BY <1>3, <3>1, <5>1 DEF RestoreConfig
        <5> QED  BY <1>a, <2>3, <5>2 DEF Snapshot
      <4> QED  BY <3>1, <4>1, <4>2 DEF ShaOf
    <3>2. CASE ~(base # None /\ ShaOf(disk[Config]) # base.sha)
      <4>1. disk' = disk
        BY <1>3, <3>2 DEF RestoreConfig
      <4> QED  BY <3>2, <4>1 DEF ShaOf
    <3> QED  BY <3>1, <3>2
  <2>8. GuardInv'
    BY <1>b, <2>1, <2>2, <2>4, <2>5, <2>6 DEF GuardInv
  <2> QED  BY <2>o, <2>1, <2>7, <2>8 DEF StageInv
<1>4. ASSUME NEW w \in Wrappers, Rescan(w) PROVE (GuardInv /\ \A v \in Wrappers : StageInv(v))'
  <2>o. w \in Wrappers /\ \A v \in Wrappers : v # w => pc[v] \in Over /\ pc'[v] = pc[v]
    BY <1>4 DEF TypeOK, SoleInv, Rescan
  <2>1. pc[w] = "scan" /\ pc'[w] \in {"clear", "restore"} /\ UNCHANGED <<disk, dir, mem, plan, history>>
    BY <1>4 DEF Rescan, TypeOK
  <2>2. man # None /\ mem[w] = man.base
    BY <2>1 DEF OwnerInv
  <2>3. PlanOf(disk) = plan[man.owner]
    BY <1>a, <1>b, <2>1, <2>2, PlannedIsPlan DEF GuardInv, StageInv
  <2>4. todo'[w] = Changes(mem[w], Seen(plan[man.owner], disk))
    BY <1>4, <2>3 DEF Rescan, TypeOK
  <2>5. /\ todo'[w] \subseteq plan[man.owner]
        /\ \A p \in Paths : disk[p] # approved[p] => p \in todo'[w]
        /\ todo'[w] = {} => disk = approved
    <3>1. /\ \A p \in Paths \ plan[man.owner] : man.base[p] = None
          /\ \A p \in plan[man.owner] : approved[p] = man.base[p]
          /\ \A p \in Paths \ plan[man.owner] : disk[p] = approved[p]
      BY <1>b, <2>1, <2>2 DEF GuardInv, Planned
    <3> QED  BY <1>a, <2>2, <2>4, <3>1, ScanFindsAll
  <2>6. pc'[w] = "clear" => todo'[w] = {}
    BY <1>4 DEF Rescan, TypeOK
  <2>7. GuardInv'
    BY <1>b, <2>1 DEF GuardInv
  <2> QED  BY <2>o, <2>1, <2>5, <2>6, <2>7 DEF StageInv
<1>5. ASSUME NEW w \in Wrappers, RemoveOne(w) PROVE (GuardInv /\ \A v \in Wrappers : StageInv(v))'
  BY <1>5, <1>a, <1>b DEF RemoveOne, TypeOK, SoleInv, OwnerInv, GuardInv, StageInv
<1>6. ASSUME NEW w \in Wrappers, Cleared(w) PROVE (GuardInv /\ \A v \in Wrappers : StageInv(v))'
  BY <1>6, <1>a, <1>b DEF Cleared, TypeOK, SoleInv, OwnerInv, GuardInv, StageInv, Emptied
<1>7. ASSUME NEW w \in Wrappers, TakeBaseline(w) PROVE (GuardInv /\ \A v \in Wrappers : StageInv(v))'
  <2>o. w \in Wrappers /\ \A v \in Wrappers : v # w => pc[v] \in Over /\ pc'[v] = pc[v]
    BY <1>7 DEF TypeOK, SoleInv, TakeBaseline
  <2>1. /\ pc[w] = "plan" /\ pc'[w] = "wipe" /\ UNCHANGED <<disk, dir, history>>
        /\ plan'[w] = PlanOf(disk) /\ mem'[w] = Seen(PlanOf(disk), disk)
    BY <1>7 DEF TakeBaseline, TypeOK
  <2>2. man = None
    BY <2>1 DEF OwnerInv
  <2>3. Planned(disk, mem'[w], plan'[w])
    BY <1>a, <2>1, BaselineIsPlanned
  <2>4. GuardInv'
    BY <1>b, <2>1, <2>2 DEF GuardInv
  <2> QED  BY <2>o, <2>1, <2>3, <2>4 DEF StageInv
<1>8. ASSUME NEW w \in Wrappers, Wiped(w) PROVE (GuardInv /\ \A v \in Wrappers : StageInv(v))'
  BY <1>8, <1>a, <1>b DEF Wiped, TypeOK, SoleInv, OwnerInv, GuardInv, StageInv, Emptied
<1>9. ASSUME NEW w \in Wrappers, WriteBlobs(w) PROVE (GuardInv /\ \A v \in Wrappers : StageInv(v))'
  BY <1>9, <1>a, <1>b DEF WriteBlobs, TypeOK, SoleInv, OwnerInv, GuardInv, StageInv
<1>10. ASSUME NEW w \in Wrappers, WriteManifest(w) PROVE (GuardInv /\ \A v \in Wrappers : StageInv(v))'
  <2>o. w \in Wrappers /\ \A v \in Wrappers : v # w => pc[v] \in Over /\ pc'[v] = pc[v]
    BY <1>10 DEF TypeOK, SoleInv, WriteManifest
  <2>1. /\ pc[w] = "manifest" \/ pc[w] = "acceptManifest"
        /\ pc'[w] \in {"manifestSha", "acceptSha"} /\ UNCHANGED <<disk, own, lost, failed>>
        /\ man' = [owner |-> w, base |-> mem[w]] /\ man' # None
    BY <1>10, <1>a, JournalAssumption DEF WriteManifest, TypeOK
  <2>2. man'.owner = w /\ man'.base = mem[w]
    BY <2>1
  <2>3. Planned(disk, mem[w], plan[w])
    BY <1>b, <2>1 DEF StageInv
  <2>4. \A p \in Paths : approved'[p] = IF p \in plan[w] THEN mem[w][p] ELSE approved[p]
    BY <1>10 DEF WriteManifest
  <2>5. \A p \in Paths \ plan[w] : disk[p] = approved[p]
    <3>1. man = None \/ man.owner = w
      BY <2>1 DEF OwnerInv
    <3> QED  BY <1>b, <2>1, <3>1 DEF GuardInv
  <2>6. GuardInv'
    BY <1>a, <2>1, <2>2, <2>3, <2>4, <2>5 DEF GuardInv
  <2> QED  BY <2>o, <2>1, <2>3, <2>6 DEF StageInv
<1>11. ASSUME NEW w \in Wrappers, WriteManifestSha(w) PROVE (GuardInv /\ \A v \in Wrappers : StageInv(v))'
  BY <1>11, <1>a, <1>b DEF WriteManifestSha, TypeOK, SoleInv, OwnerInv, GuardInv, StageInv
<1>12. ASSUME NEW w \in Wrappers, WritePids(w) PROVE (GuardInv /\ \A v \in Wrappers : StageInv(v))'
  BY <1>12, <1>a, <1>b DEF WritePids, TypeOK, SoleInv, OwnerInv, GuardInv, StageInv
<1>13. ASSUME NEW w \in Wrappers, WritePidsSha(w) PROVE (GuardInv /\ \A v \in Wrappers : StageInv(v))'
  BY <1>13, <1>a, <1>b DEF WritePidsSha, TypeOK, SoleInv, OwnerInv, GuardInv, StageInv
<1>14. ASSUME NEW w \in Wrappers, Spawn(w) PROVE (GuardInv /\ \A v \in Wrappers : StageInv(v))'
  BY <1>14, <1>a, <1>b DEF Spawn, TypeOK, SoleInv, OwnerInv, GuardInv, StageInv
<1>15. ASSUME NEW w \in Wrappers, RefreshPids(w) PROVE (GuardInv /\ \A v \in Wrappers : StageInv(v))'
  BY <1>15, <1>a, <1>b DEF RefreshPids, TypeOK, SoleInv, OwnerInv, GuardInv, StageInv
<1>16. ASSUME NEW w \in Wrappers, RefreshPidsSha(w) PROVE (GuardInv /\ \A v \in Wrappers : StageInv(v))'
  BY <1>16, <1>a, <1>b DEF RefreshPidsSha, TypeOK, SoleInv, OwnerInv, GuardInv, StageInv
<1>17. ASSUME NEW w \in Wrappers, FinalScan(w) PROVE (GuardInv /\ \A v \in Wrappers : StageInv(v))'
  <2>o. w \in Wrappers /\ \A v \in Wrappers : v # w => pc[v] \in Over /\ pc'[v] = pc[v]
    BY <1>17 DEF TypeOK, SoleInv, FinalScan
  <2>1. pc[w] = "running" /\ pc'[w] \in {"dispose", "final"} /\ UNCHANGED <<disk, dir, mem, plan, approved, failed>> /\ ~lost
    BY <1>17 DEF FinalScan, TypeOK
  <2>2. man # None /\ mem[w] = man.base /\ man.owner = w
    BY <2>1 DEF OwnerInv
  <2>4. todo'[w] = Changes(mem[w], Seen(plan[man.owner], disk))
    BY <1>17, <2>2 DEF FinalScan, TypeOK
  <2>5. /\ todo'[w] \subseteq plan[man.owner]
        /\ \A p \in Paths : disk[p] # approved[p] => p \in todo'[w]
        /\ todo'[w] = {} => disk = approved
    <3>1. /\ \A p \in Paths \ plan[man.owner] : man.base[p] = None
          /\ \A p \in plan[man.owner] : approved[p] = man.base[p]
          /\ \A p \in Paths \ plan[man.owner] : disk[p] = approved[p]
      BY <1>b, <2>1, <2>2 DEF GuardInv, Planned
    <3> QED  BY <1>a, <2>2, <2>4, <3>1, ScanFindsAll
  <2>6. pc'[w] = "dispose" => todo'[w] = {}
    BY <1>17 DEF FinalScan, TypeOK
  <2>7. GuardInv'
    BY <1>b, <2>1 DEF GuardInv
  <2> QED  BY <1>b, <2>o, <2>1, <2>5, <2>6, <2>7 DEF StageInv
<1>18. ASSUME NEW w \in Wrappers, Disposed(w) PROVE (GuardInv /\ \A v \in Wrappers : StageInv(v))'
  BY <1>18, <1>a, <1>b DEF Disposed, TypeOK, SoleInv, OwnerInv, GuardInv, StageInv, Emptied
<1>19. ASSUME NEW w \in Wrappers, Crash(w) PROVE (GuardInv /\ \A v \in Wrappers : StageInv(v))'
  BY <1>19, <1>a, <1>b DEF Crash, TypeOK, SoleInv, OwnerInv, GuardInv, StageInv
<1>20. ASSUME NEW w \in Wrappers, ChildForks(w) PROVE (GuardInv /\ \A v \in Wrappers : StageInv(v))'
  BY <1>20, <1>a, <1>b DEF ChildForks, TypeOK, SoleInv, OwnerInv, GuardInv, StageInv
<1>21. ASSUME NEW w \in Wrappers, OperatorClears(w) PROVE (GuardInv /\ \A v \in Wrappers : StageInv(v))'
  BY <1>21, <1>a, <1>b DEF OperatorClears, TypeOK, SoleInv, OwnerInv, GuardInv, StageInv
<1>22. ASSUME NEW w \in Wrappers, NEW p \in Paths, RestoreOne(w, p) PROVE (GuardInv /\ \A v \in Wrappers : StageInv(v))'
  <2>o. w \in Wrappers /\ \A v \in Wrappers : v # w => pc[v] \in Over /\ pc'[v] = pc[v]
    BY <1>22 DEF TypeOK, SoleInv, RestoreOne
  <2>1. /\ pc[w] \in {"restore", "final"} /\ p \in todo[w] /\ ~failed /\ ~lost
        /\ todo'[w] = todo[w] \ {p} /\ UNCHANGED <<dir, mem, plan, approved>>
        /\ disk' = [disk EXCEPT ![p] = mem[w][p]]
        /\ pc'[w] \in {pc[w], "clear", "dispose"} /\ (pc'[w] \in {"clear", "dispose"} => todo'[w] = {})
    BY <1>22 DEF RestoreOne, TypeOK, Reverted
  <2>2. man # None /\ mem[w] = man.base /\ p \in plan[man.owner] /\ (pc[w] = "final" => man.owner = w)
    BY <1>b, <2>1 DEF OwnerInv, StageInv
  <2>3. \A r \in DOMAIN Lists : r # Config \/ man.base[r] = None => disk'[r] = disk[r]
    BY <1>a, <1>b, <2>1, <2>2, JournalAssumption DEF GuardInv, Planned, Snapshot
  <2>4. Planned(disk', man.base, plan[man.owner])
    BY <1>a, <1>b, <1>t, <2>1, <2>2, <2>3, PlannedKept DEF GuardInv, TypeOK
  <2>5. GuardInv'
    BY <1>a, <1>b, <2>1, <2>2, <2>4 DEF GuardInv, Snapshot
  <2>6. disk'[p] = approved'[p] /\ \A q \in Paths : disk'[q] # approved'[q] => q \in todo'[w]
    BY <1>a, <1>b, <2>1, <2>2 DEF GuardInv, StageInv, Snapshot
  <2>7. pc'[w] \in {"clear", "dispose"} => disk' = approved'
    BY <1>t, <2>1, <2>6 DEF Snapshot, TypeOK
  <2>8. todo'[w] \subseteq plan[man.owner]
    BY <1>b, <2>1 DEF StageInv
  <2>9. pc'[w] = "final" => Planned(disk', mem[w], plan[w])
    BY <2>1, <2>2, <2>4
  <2> QED  BY <2>o, <2>1, <2>5, <2>6, <2>7, <2>8, <2>9 DEF StageInv
<1>23. ASSUME NEW w \in Wrappers, NEW p \in Paths, RestoreLive(w, p) PROVE (GuardInv /\ \A v \in Wrappers : StageInv(v))'
  <2>o. w \in Wrappers /\ \A v \in Wrappers : v # w => pc[v] \in Over /\ pc'[v] = pc[v]
    BY <1>23 DEF TypeOK, SoleInv, RestoreLive
  <2>1. /\ pc[w] = "running" /\ p \in plan[w] /\ UNCHANGED <<dir, pc, own, history>>
        /\ disk' = [disk EXCEPT ![p] = mem[w][p]]
    BY <1>23 DEF RestoreLive, Reverted
  <2>2. man # None /\ mem[w] = man.base /\ p \in plan[man.owner] /\ man.owner = w
    BY <2>1 DEF OwnerInv
  <2>3. \A r \in DOMAIN Lists : r # Config \/ man.base[r] = None => disk'[r] = disk[r]
    BY <1>a, <1>b, <2>1, <2>2, JournalAssumption DEF GuardInv, Planned, Snapshot
  <2>4. Planned(disk', man.base, plan[man.owner])
    BY <1>a, <1>b, <1>t, <2>1, <2>2, <2>3, PlannedKept DEF GuardInv, TypeOK
  <2>5. GuardInv'
    BY <1>a, <1>b, <2>1, <2>2, <2>4 DEF GuardInv, Snapshot
  <2>6. Planned(disk', mem[w], plan[w])
    BY <2>2, <2>4
  <2> QED  BY <2>o, <2>1, <2>5, <2>6 DEF StageInv
<1>24. ASSUME NEW w \in Wrappers, NEW p \in Paths, Accept(w, p) PROVE (GuardInv /\ \A v \in Wrappers : StageInv(v))'
  <2>o. w \in Wrappers /\ \A v \in Wrappers : v # w => pc[v] \in Over /\ pc'[v] = pc[v]
    BY <1>24 DEF TypeOK, SoleInv, Accept
  <2>1. /\ pc[w] = "running" /\ pc'[w] = "acceptManifest" /\ p \notin DOMAIN Lists /\ p \in plan[w]
        /\ mem' = [mem EXCEPT ![w][p] = disk[p]] /\ UNCHANGED <<disk, man, plan, history>>
    BY <1>24 DEF Accept, TypeOK
  <2>2. Planned(disk, mem[w], plan[w])
    BY <1>b, <2>1 DEF StageInv
  <2>3. \A q \in Paths : q # p => mem'[w][q] = mem[w][q]
    BY <1>a, <2>1 DEF Snapshot, TypeOK
  <2>4. Config # p /\ Config \in Paths /\ DOMAIN Lists \subseteq Paths
    BY <2>1, JournalAssumption
  <2>5. Configured(disk, mem'[w]) = Configured(disk, mem[w])
    BY <2>3, <2>4 DEF Configured
  <2>6. Planned(disk, mem'[w], plan[w])
    <3>1. \A q \in Paths \ plan[w] : mem'[w][q] = None
      BY <2>1, <2>2, <2>3 DEF Planned
    <3>2. \A r \in DOMAIN Lists \cap plan[w] : r # Config \/ mem'[w][r] = None => disk[r] = mem'[w][r]
      BY <2>1, <2>2, <2>3, <2>4 DEF Planned
    <3> QED  BY <2>2, <2>5, <3>1, <3>2 DEF Planned
  <2>7. GuardInv'
    BY <1>b, <2>1 DEF GuardInv
  <2> QED  BY <2>o, <2>1, <2>6, <2>7 DEF StageInv
<1>25. ASSUME NEW x \in Procs, ProcessExits(x) PROVE (GuardInv /\ \A v \in Wrappers : StageInv(v))'
  BY <1>25, <1>a, <1>b DEF ProcessExits, TypeOK, SoleInv, OwnerInv, GuardInv, StageInv
<1>26. ASSUME NEW p \in Paths, NEW e \in Entry, OutsideWrite(p, e) PROVE (GuardInv /\ \A v \in Wrappers : StageInv(v))'
  <2> DEFINE guarded == man # None /\ p \in plan[man.owner]
  <2>1. /\ ~NewRule(p) /\ UNCHANGED <<dir, pc, own, failed>> /\ ~lost
        /\ disk' = [disk EXCEPT ![p] = e]
        /\ approved' = IF guarded THEN approved ELSE [approved EXCEPT ![p] = e]
        /\ guarded => \A v \in Wrappers : pc[v] \notin {"scan", "restore", "clear", "final", "dispose"}
    BY <1>26 DEF OutsideWrite
  <2>2. man # None => Planned(disk', man.base, plan[man.owner])
    <3> SUFFICES ASSUME man # None PROVE Planned(disk', man.base, plan[man.owner])
      OBVIOUS
    <3>1. \A r \in DOMAIN Lists : r # Config \/ man.base[r] = None => disk'[r] = disk[r]
      BY <1>a, <2>1, JournalAssumption DEF NewRule, Snapshot
    <3>2. Planned(disk, man.base, plan[man.owner])
      BY <1>b, <2>1 DEF GuardInv
    <3>3. disk' \in Snapshot
      BY <1>t DEF TypeOK
    <3> HIDE DEF Live, Over, Starting, Working, Owned, Recovering, Unwritten, At, Go, dir, own, history
    <3> QED  BY <1>a, <3>1, <3>2, <3>3, PlannedKept
  <2>3. GuardInv'
    BY <1>a, <1>b, <2>1, <2>2 DEF GuardInv, Snapshot
  <2>4. ASSUME NEW v \in Wrappers, pc[v] \in Unwritten \cup Owned PROVE Planned(disk', mem[v], plan[v])
    <3>1. Planned(disk, mem[v], plan[v])
      BY <1>b, <2>1, <2>4 DEF StageInv
    <3>2. \A r \in DOMAIN Lists : r # Config \/ mem[v][r] = None => disk'[r] = disk[r]
      BY <1>a, <2>1, <2>4, JournalAssumption DEF NewRule, Snapshot
    <3> QED  BY <1>a, <1>t, <3>1, <3>2, PlannedKept DEF TypeOK
  <2>5. ASSUME NEW v \in Wrappers, pc[v] \in {"clear", "dispose"} PROVE disk' = approved'
    BY <1>b, <2>1, <2>5 DEF StageInv
  <2>6. ASSUME NEW v \in Wrappers, pc[v] = "scan" PROVE disk'[Config] = disk[Config]
    <3>1. man # None /\ Config \in plan[man.owner]
      BY <1>b, <2>1, <2>6, JournalAssumption DEF OwnerInv, GuardInv, Planned
    <3>2. p # Config
      BY <2>1, <2>6, <3>1
    <3> QED  BY <1>a, <2>1, <3>2, JournalAssumption DEF Snapshot
  <2>7. ASSUME NEW v \in Wrappers, pc[v] \in {"restore", "final"}, NEW q \in Paths, disk'[q] # approved'[q]
        PROVE  q \in todo[v]
    BY <1>a, <1>b, <2>1, <2>7 DEF StageInv, Snapshot
  <2>8. ASSUME NEW v \in Wrappers PROVE StageInv(v)'
    BY <1>b, <2>1, <2>4, <2>5, <2>6, <2>7 DEF StageInv
  <2> QED  BY <2>3, <2>8
<1>27. ASSUME NEW w \in Wrappers, NEW p \in Paths, NEW e \in Entry, CagedWrite(w, p, e) PROVE (GuardInv /\ \A v \in Wrappers : StageInv(v))'
  <2>1. /\ {Child(w), Helper(w)} \cap alive # {} /\ ~NewRule(p) /\ UNCHANGED <<dir, pc, own, lost, failed>>
        /\ disk' = [disk EXCEPT ![p] = e]
        /\ approved' = IF p \in plan[w] THEN approved ELSE [approved EXCEPT ![p] = e]
    BY <1>27 DEF CagedWrite
  <2>2. man # None /\ man.owner = w /\ alive # {}
    <3>1. man # None /\ alive \subseteq {Child(man.owner), Helper(man.owner)}
      BY <2>1 DEF AliveInv
    <3> QED  BY <2>1, <3>1 DEF Child, Helper
  <2>3. \A v \in Wrappers : pc[v] \notin {"plan", "scan", "restore", "clear", "final", "dispose"} \cup Unwritten
    BY <1>a, <2>1, <2>2 DEF AliveInv, SoleInv
  <2>4. \A r \in DOMAIN Lists : r # Config \/ man.base[r] = None => disk'[r] = disk[r]
    BY <1>a, <2>1, <2>2, JournalAssumption DEF NewRule, Snapshot
  <2>5. Planned(disk', man.base, plan[man.owner])
    BY <1>a, <1>b, <1>t, <2>1, <2>2, <2>4, PlannedKept DEF GuardInv, TypeOK
  <2>6. GuardInv'
    BY <1>a, <1>b, <2>1, <2>2, <2>5 DEF GuardInv, Snapshot
  <2>7. ASSUME NEW v \in Wrappers, pc[v] \in Owned PROVE Planned(disk', mem[v], plan[v])
    <3>1. Planned(disk, mem[v], plan[v])
      BY <1>b, <2>1, <2>7 DEF StageInv
    <3>2. \A r \in DOMAIN Lists : r # Config \/ mem[v][r] = None => disk'[r] = disk[r]
      BY <1>a, <2>1, <2>7, JournalAssumption DEF NewRule, Snapshot
    <3> QED  BY <1>a, <1>t, <3>1, <3>2, PlannedKept DEF TypeOK
  <2> QED  BY <2>1, <2>3, <2>6, <2>7 DEF StageInv
<1>28. CASE UNCHANGED vars
  BY <1>b, <1>28 DEF vars, TypeOK, SoleInv, OwnerInv, GuardInv, StageInv
<1> QED
  BY <1>1, <1>2, <1>3, <1>4, <1>5, <1>6, <1>7, <1>8, <1>9, <1>10, <1>11, <1>12, <1>13, <1>14,
     <1>15, <1>16, <1>17, <1>18, <1>19, <1>20, <1>21, <1>22, <1>23, <1>24, <1>25, <1>26, <1>27, <1>28
  DEF Next, Outside, Recover, Write, Run
(* The inductive invariant holds initially.                                *)
LEMMA JournalInvInit == Init => IInv
<1> SUFFICES ASSUME Init PROVE IInv
  OBVIOUS
<1>1. TypeOK
  BY JournalTypeInit
<1>2. SoleInv /\ OwnerInv /\ DirInv /\ KillIsRecovered /\ AliveInv
  BY DEF Init, SoleInv, OwnerInv, DirInv, KillIsRecovered, AliveInv, Live, Over, Owned, Unwritten, Recovering, Working
<1>3. DataInv
  BY DEF Init, DataInv, GuardInv, StageInv, Owned, Unwritten, Working
<1> QED  BY <1>1, <1>2, <1>3 DEF IInv

(* The inductive invariant is inductive.                                   *)
LEMMA JournalInvStep ==
  ASSUME ~Concurrent, ~RulesChange, IInv, [Next]_vars
  PROVE  IInv'
BY JournalTypeStep, SoleStep, OwnerStep, DirStep, RecoveredStep, AliveStep, DataStep DEF IInv

(* The types of CageJournal, without a hypothesis.                         *)
THEOREM JournalTypeCorrect == Spec => []TypeOK
<1>1. Init => TypeOK
  BY JournalTypeInit
<1>2. TypeOK /\ [Next]_vars => TypeOK'
  BY JournalTypeStep
<1> QED  BY <1>1, <1>2, PTL DEF Spec

(* The part of the invariant that does not depend on the rule files.       *)
LEMMA CleanupStep ==
  ASSUME ~Concurrent, TypeOK, SoleInv, OwnerInv, DirInv, KillIsRecovered, AliveInv, [Next]_vars
  PROVE  (TypeOK /\ SoleInv /\ OwnerInv /\ DirInv /\ KillIsRecovered /\ AliveInv)'
BY JournalTypeStep, SoleStep, OwnerStep, DirStep, RecoveredStep, AliveStep

(* recoverCageJournal of cage-journal.ts: whatever step of whatever earlier*)
(* wrapper a kill fell on, unless it tore a file from its sidecar, the next*)
(* wrapper does not refuse the journal, and no process of the killed run   *)
(* lives beside its own.                                                   *)
THEOREM KillsAreCleanedUp == ASSUME ~Concurrent PROVE Spec => []KillIsCleanedUp
<1> DEFINE I == TypeOK /\ SoleInv /\ OwnerInv /\ DirInv /\ KillIsRecovered /\ AliveInv
<1>1. Init => I
  BY JournalInvInit DEF IInv
<1>2. I /\ [Next]_vars => I'
  BY CleanupStep
<1>3. I => KillIsCleanedUp
  <2> SUFFICES ASSUME I, NEW w \in Wrappers, pc[w] \in Working, ~lost, alive # {}
               PROVE  alive \subseteq {Child(w), Helper(w)}
    BY DEF KillIsCleanedUp, OrphansGone
  <2>1. man # None /\ man.owner = w
    BY DEF OwnerInv, Owned
  <2> QED  BY <2>1 DEF AliveInv
<1> QED  BY <1>1, <1>2, <1>3, PTL DEF Spec

(* buildCagePlan and takeCageSnapshot of a wrapper that starts: the files  *)
(* it takes for its baseline are what was approved, whatever the killed    *)
(* wrappers, their commands and the agent wrote before.                    *)
THEOREM BaselinesAreApproved ==
  ASSUME ~Concurrent, ~RulesChange PROVE Spec => []TamperNeverBaseline
<1>1. Init => IInv
  BY JournalInvInit
<1>2. IInv /\ [Next]_vars => IInv'
  BY JournalInvStep
<1>3. IInv => TamperNeverBaseline
  <2> SUFFICES ASSUME IInv, NEW w \in Wrappers, pc[w] = "plan", ~lost, ~failed PROVE disk = approved
    BY DEF TamperNeverBaseline
  <2>1. man = None
    BY DEF IInv, OwnerInv
  <2> QED  BY <2>1 DEF IInv, DataInv, GuardInv
<1> QED  BY <1>1, <1>2, <1>3, PTL DEF Spec

=============================================================================
