------------------------------ MODULE CageFiles ------------------------------
(***************************************************************************)
(* What the cage knows of a protected file: the entry a snapshot keeps,    *)
(* the difference between two snapshots, and what a restore writes.        *)
(* packages/cage/src/cage-snapshot.ts and cage-revert.ts.                  *)
(*                                                                         *)
(* A snapshot is a function from Paths to Entry.  A file's content is only *)
(* known by its sha256, so an entry is the pair of a digest and the        *)
(* permission bits; the entry of a file that is not there is None (the     *)
(* JavaScript null).                                                       *)
(***************************************************************************)
EXTENDS Naturals, FiniteSets

CONSTANTS
  Paths,    \* the protected paths of the plan
  Shas,     \* content digests
  Modes,    \* permission bits (st.mode & 0o7777)
  None      \* null: no file, no digest

ASSUME NoneAssumption == None \notin Shas /\ None \notin [sha : Shas, mode : Modes]

Entry == [sha : Shas, mode : Modes] \cup {None}

Snapshot == [Paths -> Entry]

(* c.after?.sha256 ?? null *)
ShaOf(e) == IF e = None THEN None ELSE e.sha

(* entryChanged, with the added and deleted cases of diffCageSnapshots:    *)
(* content or permission bits differ; the modification time is ignored.    *)
EntryChanged(before, after) == before # after

(* The paths diffCageSnapshots(before, after) lists. *)
Changes(before, after) == {p \in Paths : EntryChanged(before[p], after[p])}

(* revertChange on success: an added file is removed, anything else is     *)
(* written back with its baseline bytes and permission bits.               *)
Reverted(files, baseline, p) == [files EXCEPT ![p] = baseline[p]]
==============================================================================
