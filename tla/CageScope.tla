------------------------------ MODULE CageScope ------------------------------
(***************************************************************************)
(* A session with a scope (`allow_only:`, `--allow-only`): cage-scope.ts,  *)
(* the scope part of cage-snapshot.ts and the two passes of finalChanges.  *)
(*                                                                         *)
(* A snapshot of a scope is a git tree, written with `git add -A` through  *)
(* an index of the session's own that starts as a copy of the real one and *)
(* is used for every check.  So what a check can see depends on the        *)
(* .gitignore files that are on disk at that moment, and on what the       *)
(* earlier checks left in the index.                                       *)
(*                                                                         *)
(* Restores do not fail here (CageSession has those), and no in-memory     *)
(* rule covers a path.  A definition whose name has an underscore is a     *)
(* faulty variant of the one that follows it, and no part of the           *)
(* specification.                                                          *)
(***************************************************************************)
EXTENDS CageFiles

CONSTANTS
  Areas,        \* the allowed areas: one for each list that is set
  Overrides,    \* --allow-override
  IgnoreFiles,  \* the .gitignore files
  Hides,        \* what one of a given content ignores: [IgnoreFiles -> [Entry -> SUBSET Paths]]
  RealIndex,    \* the paths git tracks
  Start         \* the files when the session starts

ASSUME ScopeAssumption ==
  /\ Areas \subseteq SUBSET Paths /\ Areas # {}
  /\ Overrides \subseteq Paths /\ IgnoreFiles \subseteq Paths /\ RealIndex \subseteq Paths
  /\ Start \in Snapshot
  /\ Hides \in [IgnoreFiles -> [Entry -> SUBSET Paths]]

VARIABLES
  disk,    \* the files
  index,   \* the paths in the session's temporary index
  base,    \* the out-of-scope entries of the baseline
  pc,      \* "run", "tick", "exit", "first", "again", "second" or "over"
  todo,    \* changes the running check has still to restore
  again,   \* the first pass restores a .gitignore
  touched  \* history: paths the command wrote since they were last restored

vars == <<disk, index, base, pc, todo, again, touched>>

(* git's exclusion by the .gitignore files that are on disk.               *)
Ignored(d) == UNION {Hides[i][d[i]] : i \in IgnoreFiles}

(* captureCageScopeTree: after `git add -A`, the index has every file on   *)
(* disk it already had, and every other that is not ignored.               *)
Added(d, idx) == {p \in Paths : d[p] # None /\ (p \in idx \/ p \notin Ignored(d))}

(* judgePath of the areas: a path has to lie inside every one of them.     *)
OutOfScope == {p \in Paths : \E a \in Areas : p \notin a}

(* addCageScopeEntries: those of the tree's files that lie outside.        *)
ScopeEntries(d, idx) == [p \in Paths |-> IF p \in OutOfScope \cap idx THEN d[p] ELSE None]

(* Overridden paths are reported and kept.                                 *)
Restorable(current) == Changes(base, current) \ Overrides

Init ==
  /\ disk = Start
  /\ index = Added(Start, RealIndex)
  /\ base = ScopeEntries(Start, index)
  /\ pc = "run" /\ todo = {} /\ again = FALSE /\ touched = {}

------------------------------------------------------------------------------
(* A check: capture, and list what is to be restored.                      *)
Check ==
  /\ index' = Added(disk, index)
  /\ todo' = Restorable(ScopeEntries(disk, index'))

TickScan ==
  /\ pc = "run"
  /\ Check
  /\ pc' = IF todo' = {} THEN "run" ELSE "tick"
  /\ UNCHANGED <<disk, base, again, touched>>

Restored(p, next) ==
  /\ p \in todo
  /\ disk' = Reverted(disk, base, p)
  /\ touched' = touched \ {p}
  /\ todo' = todo \ {p}
  /\ pc' = IF todo' = {} THEN next ELSE pc
  /\ UNCHANGED <<index, base, again>>

TickRestore(p) == pc = "tick" /\ Restored(p, "run")

CommandEnds == pc = "run" /\ pc' = "exit" /\ UNCHANGED <<disk, index, base, todo, again, touched>>

(* The exit diff is taken once. *)
FirstPass_Only ==
  /\ pc = "exit"
  /\ Check
  /\ again' = FALSE
  /\ pc' = IF todo' = {} THEN "over" ELSE "first"
  /\ UNCHANGED <<disk, base, touched>>

(* finalChanges: the exit diff, and one more if it restores a .gitignore.  *)
FirstPass ==
  /\ pc = "exit"
  /\ Check
  /\ again' = (todo' \cap IgnoreFiles # {})
  /\ pc' = IF todo' = {} THEN "over" ELSE "first"
  /\ UNCHANGED <<disk, base, touched>>

SecondPass ==
  /\ pc = "again"
  /\ Check
  /\ pc' = IF todo' = {} THEN "over" ELSE "second"
  /\ UNCHANGED <<disk, base, again, touched>>

PassRestore(p) ==
  \/ pc = "first" /\ Restored(p, IF again THEN "again" ELSE "over")
  \/ pc = "second" /\ Restored(p, "over")

(* The command writes any file while it runs, also between the restores of *)
(* one check.                                                              *)
CommandWrites(p, e) ==
  /\ pc \in {"run", "tick"} /\ disk[p] # e
  /\ disk' = [disk EXCEPT ![p] = e]
  /\ touched' = touched \cup {p}
  /\ UNCHANGED <<index, base, pc, todo, again>>

CageStep == TickScan \/ CommandEnds \/ FirstPass \/ SecondPass
              \/ \E p \in Paths : TickRestore(p) \/ PassRestore(p)

Next == CageStep \/ \E p \in Paths, e \in Entry : CommandWrites(p, e)

Spec == Init /\ [][Next]_vars

------------------------------------------------------------------------------
TypeOK ==
  /\ disk \in Snapshot /\ base \in Snapshot /\ {p \in Paths : base[p] # None} \subseteq OutOfScope
  /\ index \subseteq Paths /\ todo \subseteq OutOfScope \ Overrides /\ touched \subseteq Paths
  /\ pc \in {"run", "tick", "exit", "first", "again", "second", "over"}
  /\ again \in BOOLEAN /\ (pc \in {"run", "over"} => todo = {})

(* When the session ends, every path outside any of the lists that git     *)
(* would track under the .gitignore files of the baseline is as it was:    *)
(* edits undone, new files removed, deleted ones back, whatever the        *)
(* command did to .gitignore.                                              *)
ExitRestoresScope ==
  pc = "over" =>
    \A p \in Paths \ (Overrides \cup Ignored(Start)) :
       (\E a \in Areas : p \notin a) => disk[p] = Start[p]

(* The cage writes nothing inside the area, and no overridden path.        *)
AreaUntouched ==
  [][CageStep => \A p \in Paths : disk'[p] # disk[p] => p \notin Overrides /\ \E a \in Areas : p \notin a]_vars

(* Files the baseline's .gitignore excludes are left alone.                *)
IgnoredLeftAlone ==
  [][CageStep => \A p \in Ignored(Start) \ RealIndex : disk'[p] = disk[p]]_vars

(* What a check restores was rewritten since the cage last restored it.    *)
RestoresOnlyRewritten ==
  [][\A p \in Paths : TickRestore(p) => p \in touched]_vars
==============================================================================
