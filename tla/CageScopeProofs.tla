--------------------------- MODULE CageScopeProofs ---------------------------
(***************************************************************************)
(* Two passes at the exit are enough for every scope whose .gitignore      *)
(* files are all part of the baseline: ExitRestoresScope as a theorem of   *)
(* CageScope's specification, for any number of files, contents, lists and *)
(* .gitignore files.                                                       *)
(***************************************************************************)
EXTENDS CageScope, TLAPS

(* Every .gitignore is there when the session starts, is captured, and is  *)
(* one the cage restores.  Without this two passes are not enough: a       *)
(* .gitignore the command creates may hide itself.                         *)
RulesInBaseline == IgnoreFiles \subseteq (OutOfScope \ Overrides) \cap Added(Start, RealIndex)

(* The paths ExitRestoresScope speaks of. *)
Guarded == (OutOfScope \ Overrides) \ Ignored(Start)

Done(ps)    == \A p \in ps : disk[p] = Start[p]
InHand(ps)  == \A p \in ps : p \in todo \/ disk[p] = Start[p]

(* What is at the baseline, or about to be, in each phase of the exit.  A   *)
(* pass lists every guarded path that differs as soon as the .gitignore     *)
(* files are those of the baseline, and it always lists those files: if     *)
(* git passes over one it counts as deleted.                                *)
ExitInv ==
  /\ TypeOK
  /\ base = ScopeEntries(Start, Added(Start, RealIndex))
  /\ pc = "first" => InHand(IF again THEN IgnoreFiles ELSE Guarded)
  /\ pc = "again" => Done(IgnoreFiles)
  /\ pc = "second" => InHand(Guarded)
  /\ pc = "over" => Done(Guarded)

(* The baseline holds the start of every guarded path.                     *)
LEMMA BaseOfGuarded ==
  ASSUME NEW p \in Guarded
  PROVE  ScopeEntries(Start, Added(Start, RealIndex))[p] = Start[p]
<1>1. p \in Paths /\ p \in OutOfScope /\ p \notin Ignored(Start)
  BY DEF Guarded, OutOfScope
<1>2. CASE Start[p] = None
  BY <1>1, <1>2 DEF ScopeEntries
<1>3. CASE Start[p] # None
  BY <1>1, <1>3 DEF ScopeEntries, Added
<1> QED  BY <1>2, <1>3

(* And that of every .gitignore file.                                      *)
LEMMA BaseOfRules ==
  ASSUME RulesInBaseline, NEW i \in IgnoreFiles
  PROVE  /\ ScopeEntries(Start, Added(Start, RealIndex))[i] = Start[i]
         /\ Start[i] # None /\ i \in OutOfScope \ Overrides /\ i \in Paths
BY DEF RulesInBaseline, ScopeEntries, Added, OutOfScope

(* A capture lists every .gitignore file that differs from the baseline.    *)
LEMMA CheckSeesRules ==
  ASSUME RulesInBaseline, base = ScopeEntries(Start, Added(Start, RealIndex)), Check,
         NEW i \in IgnoreFiles, disk[i] # Start[i]
  PROVE  i \in todo'
<1>1. base[i] = Start[i] /\ Start[i] # None /\ i \in OutOfScope \ Overrides /\ i \in Paths
  BY BaseOfRules
<1>2. ScopeEntries(disk, index')[i] \in {disk[i], None}
  BY <1>1 DEF ScopeEntries
<1>3. ScopeEntries(disk, index')[i] # base[i]
  BY <1>1, <1>2
<1> QED  BY <1>1, <1>3 DEF Check, Restorable, Changes, EntryChanged

(* Under the baseline's .gitignore files it lists every guarded path that   *)
(* differs.                                                                 *)
LEMMA CheckSeesGuarded ==
  ASSUME base = ScopeEntries(Start, Added(Start, RealIndex)), Check, Done(IgnoreFiles),
         NEW p \in Guarded, disk[p] # Start[p]
  PROVE  p \in todo'
<1>1. p \in Paths /\ p \in OutOfScope /\ p \notin Overrides /\ base[p] = Start[p]
  BY BaseOfGuarded DEF Guarded, OutOfScope
<1>2. Ignored(disk) = Ignored(Start)
  BY DEF Ignored, Done
<1>3. p \notin Ignored(disk)
  BY <1>2 DEF Guarded
<1>4. ScopeEntries(disk, index')[p] = disk[p]
  BY <1>1, <1>3 DEF ScopeEntries, Check, Added
<1> QED  BY <1>1, <1>4 DEF Check, Restorable, Changes, EntryChanged

(* Every variable keeps its type, and nothing inside the area is ever       *)
(* listed for a restore.                                                    *)
THEOREM ScopeTypeCorrect == Spec => []TypeOK
<1>1. Init => TypeOK
  BY ScopeAssumption DEF Init, TypeOK, Snapshot, ScopeEntries, Added, Entry
<1>2. TypeOK /\ [Next]_vars => TypeOK'
  <2> SUFFICES ASSUME TypeOK, [Next]_vars PROVE TypeOK'
    OBVIOUS
  <2> DEFINE Phases == {"run", "tick", "exit", "first", "again", "second", "over"}
  <2>1. ASSUME Check PROVE index' \subseteq Paths /\ todo' \subseteq OutOfScope \ Overrides
    <3>1. index' \subseteq Paths
      BY <2>1 DEF Check, Added
    <3>2. ASSUME NEW p \in Paths, p \notin OutOfScope PROVE base[p] = ScopeEntries(disk, index')[p]
      BY <3>2 DEF TypeOK, ScopeEntries
    <3> QED  BY <2>1, <3>1, <3>2 DEF Check, Restorable, Changes, EntryChanged
  <2>2. ASSUME NEW p \in Paths, NEW next \in Phases, Restored(p, next), next # pc, pc \notin {"run", "over"}
        PROVE  TypeOK'
    <3>1. disk' \in Snapshot
      BY <2>2 DEF TypeOK, Restored, Reverted, Snapshot
    <3> QED  BY <2>2, <3>1 DEF TypeOK, Restored
  <2>3. CASE TickScan
    BY <2>1, <2>3 DEF TickScan, TypeOK
  <2>4. CASE CommandEnds
    BY <2>4 DEF CommandEnds, TypeOK
  <2>5. CASE FirstPass
    BY <2>1, <2>5 DEF FirstPass, TypeOK
  <2>6. CASE SecondPass
    BY <2>1, <2>6 DEF SecondPass, TypeOK
  <2>7. ASSUME NEW p \in Paths, TickRestore(p) PROVE TypeOK'
    BY <2>2, <2>7 DEF TickRestore
  <2>8. ASSUME NEW p \in Paths, PassRestore(p) PROVE TypeOK'
    BY <2>2, <2>8 DEF PassRestore
  <2>9. ASSUME NEW p \in Paths, NEW e \in Entry, CommandWrites(p, e) PROVE TypeOK'
    BY <2>9 DEF CommandWrites, TypeOK, Snapshot
  <2>10. CASE UNCHANGED vars
    BY <2>10 DEF vars, TypeOK, OutOfScope
  <2> QED  BY <2>3, <2>4, <2>5, <2>6, <2>7, <2>8, <2>9, <2>10 DEF Next, CageStep
<1> QED  BY <1>1, <1>2, PTL DEF Spec

(* One restore of a pass: whatever was done or in hand stays so, because a  *)
(* guarded path is restored to its content at the start.                    *)
LEMMA RestoreKeeps ==
  ASSUME TypeOK, base = ScopeEntries(Start, Added(Start, RealIndex)),
         NEW p \in Paths, NEW next, Restored(p, next),
         NEW ps, InHand(ps), \A q \in ps : q \in Paths /\ base[q] = Start[q]
  PROVE  InHand(ps)' /\ (todo' = {} => Done(ps)')
<1>1. ASSUME NEW q \in ps PROVE q \in todo' \/ disk'[q] = Start[q]
  <2>1. CASE q = p
    BY <2>1 DEF Restored, Reverted, TypeOK, Snapshot
  <2>2. CASE q # p
    BY <2>2 DEF Restored, Reverted, TypeOK, Snapshot, InHand
  <2> QED  BY <2>1, <2>2
<1> QED  BY <1>1 DEF InHand, Done

(* Init => ExitInv, and ExitInv is inductive. *)
LEMMA ExitInvInductive ==
  ASSUME RulesInBaseline
  PROVE  (Init => ExitInv) /\ (ExitInv /\ TypeOK' /\ [Next]_vars => ExitInv')
<1>1. Init => ExitInv
  <2> SUFFICES ASSUME Init PROVE ExitInv
    OBVIOUS
  <2>1. TypeOK
    BY ScopeAssumption DEF Init, TypeOK, Snapshot, ScopeEntries, Added, Entry
  <2> QED  BY <2>1 DEF Init, ExitInv
<1>2. ExitInv /\ TypeOK' /\ [Next]_vars => ExitInv'
  <2> SUFFICES ASSUME ExitInv, TypeOK', [Next]_vars PROVE ExitInv'
    OBVIOUS
  <2> DEFINE B == ScopeEntries(Start, Added(Start, RealIndex))
  <2>1. base = B /\ TypeOK
    BY DEF ExitInv
  <2>2. \A p \in Guarded : p \in Paths /\ base[p] = Start[p]
    BY <2>1, BaseOfGuarded DEF Guarded, OutOfScope
  <2>3. \A i \in IgnoreFiles : i \in Paths /\ base[i] = Start[i]
    BY <2>1, BaseOfRules
  <2>4. base' = base
    BY DEF Next, vars, CageStep, TickScan, CommandEnds, FirstPass, SecondPass, TickRestore, PassRestore,
           Restored, CommandWrites
  <2>5. CASE TickScan
    BY <2>1, <2>4, <2>5 DEF TickScan, ExitInv
  <2>6. CASE CommandEnds
    BY <2>1, <2>4, <2>6 DEF CommandEnds, ExitInv
  <2>7. CASE FirstPass
    <3>1. Check /\ disk' = disk
      BY <2>7 DEF FirstPass
    <3>2. \A i \in IgnoreFiles : disk[i] # Start[i] => i \in todo'
      BY <2>1, <3>1, CheckSeesRules
    <3>3. CASE again'
      <4>1. pc' = "first"
        BY <2>7, <3>3 DEF FirstPass
      <4> QED  BY <2>1, <2>4, <3>1, <3>2, <3>3, <4>1 DEF ExitInv, InHand
    <3>4. CASE ~again'
      <4>1. Done(IgnoreFiles)
        BY <2>7, <3>2, <3>4 DEF FirstPass, Done
      <4>2. \A p \in Guarded : disk[p] # Start[p] => p \in todo'
        BY <2>1, <3>1, <4>1, CheckSeesGuarded
      <4>3. pc' = "first" \/ (pc' = "over" /\ todo' = {})
        BY <2>7 DEF FirstPass
      <4> QED  BY <2>1, <2>4, <3>1, <3>4, <4>2, <4>3 DEF ExitInv, InHand, Done, Guarded
    <3> QED  BY <3>3, <3>4
  <2>8. CASE SecondPass
    <3>1. Check /\ disk' = disk /\ Done(IgnoreFiles)
      BY <2>8 DEF SecondPass, ExitInv
    <3>2. \A p \in Guarded : disk[p] # Start[p] => p \in todo'
      BY <2>1, <3>1, CheckSeesGuarded
    <3>3. pc' = "second" \/ (pc' = "over" /\ todo' = {})
      BY <2>8 DEF SecondPass
    <3> QED  BY <2>1, <2>4, <3>1, <3>2, <3>3 DEF ExitInv, InHand, Done, Guarded
  <2>9. ASSUME NEW p \in Paths, TickRestore(p) PROVE ExitInv'
    BY <2>1, <2>4, <2>9 DEF TickRestore, Restored, ExitInv
  <2>10. ASSUME NEW p \in Paths, PassRestore(p) PROVE ExitInv'
    <3>1. CASE pc = "first"
      <4>1. Restored(p, IF again THEN "again" ELSE "over") /\ again' = again
        BY <2>10, <3>1 DEF PassRestore, Restored
      <4>2. pc' = "first" \/ (todo' = {} /\ pc' = IF again THEN "again" ELSE "over")
        BY <3>1, <4>1 DEF Restored
      <4>3. CASE again
        <5>1. InHand(IgnoreFiles)' /\ (todo' = {} => Done(IgnoreFiles)')
          BY <2>1, <2>3, <3>1, <4>1, <4>3, RestoreKeeps DEF ExitInv
        <5> QED  BY <2>1, <2>4, <4>1, <4>2, <4>3, <5>1 DEF ExitInv
      <4>4. CASE ~again
        <5>1. InHand(Guarded)' /\ (todo' = {} => Done(Guarded)')
          <6>1. InHand(Guarded)
            BY <3>1, <4>4 DEF ExitInv
          <6>2. ASSUME NEW q \in Guarded PROVE q \in todo' \/ disk'[q] = Start[q]
            BY <2>1, <2>2, <4>1, <6>1, RestoreKeeps DEF InHand
          <6> QED  BY <6>2 DEF InHand, Done, Guarded, OutOfScope
        <5> QED  BY <2>1, <2>4, <4>1, <4>2, <4>4, <5>1 DEF ExitInv
      <4> QED  BY <4>3, <4>4
    <3>2. CASE pc = "second"
      <4>1. Restored(p, "over") /\ InHand(Guarded)
        BY <2>10, <3>2 DEF PassRestore, ExitInv
      <4>2. pc' = "second" \/ (todo' = {} /\ pc' = "over")
        BY <3>2, <4>1 DEF Restored
      <4>3. ASSUME NEW q \in Guarded PROVE q \in todo' \/ disk'[q] = Start[q]
        BY <2>1, <2>2, <4>1, RestoreKeeps DEF InHand
      <4> QED  BY <2>1, <2>4, <4>2, <4>3 DEF ExitInv, InHand, Done, Guarded
    <3> QED  BY <2>10, <3>1, <3>2 DEF PassRestore
  <2>11. ASSUME NEW p \in Paths, NEW e \in Entry, CommandWrites(p, e) PROVE ExitInv'
    BY <2>1, <2>4, <2>11 DEF CommandWrites, ExitInv
  <2>12. CASE UNCHANGED vars
    BY <2>1, <2>4, <2>12 DEF vars, ExitInv, InHand, Done, Guarded
  <2> QED  BY <2>5, <2>6, <2>7, <2>8, <2>9, <2>10, <2>11, <2>12 DEF Next, CageStep
<1> QED  BY <1>1, <1>2

(* When the session ends every path outside the area that git would track   *)
(* under the baseline's .gitignore files is as it was (finalChanges).       *)
THEOREM ScopeRestored == ASSUME RulesInBaseline PROVE Spec => []ExitRestoresScope
<1>1. ExitInv => ExitRestoresScope
  BY DEF ExitInv, ExitRestoresScope, Done, Guarded, OutOfScope
<1> QED  BY <1>1, ScopeTypeCorrect, ExitInvInductive, PTL DEF Spec

(* The cage itself, unlike its command, writes only outside the area, and   *)
(* no overridden path: what a check lists for a restore lies there.         *)
THEOREM AreaIsUntouched == Spec => AreaUntouched
<1>1. TypeOK /\ [Next]_vars => [CageStep => \A p \in Paths : disk'[p] # disk[p] => p \notin Overrides /\ \E a \in Areas : p \notin a]_vars
  <2> SUFFICES ASSUME TypeOK, CageStep, NEW p \in Paths, disk'[p] # disk[p]
               PROVE  p \notin Overrides /\ \E a \in Areas : p \notin a
    OBVIOUS
  <2>1. ASSUME NEW q \in Paths, NEW next, Restored(q, next) PROVE p \notin Overrides /\ \E a \in Areas : p \notin a
    <3>1. p = q
      BY <2>1 DEF Restored, Reverted, TypeOK, Snapshot
    <3>2. p \in OutOfScope \ Overrides
      BY <2>1, <3>1 DEF Restored, TypeOK
    <3> QED  BY <3>2 DEF OutOfScope
  <2>2. \E q \in Paths : TickRestore(q) \/ PassRestore(q)
    BY DEF CageStep, TickScan, CommandEnds, FirstPass, SecondPass
  <2> QED  BY <2>1, <2>2 DEF TickRestore, PassRestore
<1> QED  BY <1>1, ScopeTypeCorrect, PTL DEF Spec, AreaUntouched
==============================================================================
