----------------------------- MODULE CageSession -----------------------------
(***************************************************************************)
(* One `gantry cage -- <cmd>` session once its journal is written: the     *)
(* supervised process tree (cage-process.ts), the live check that restores *)
(* and halts (cage-watch.ts), the exit diff (cage-run.ts) and the status   *)
(* of the report (cage-report.ts).                                         *)
(*                                                                         *)
(* The command and its descendants run, fork, die and write at any moment. *)
(* The wrapper is one event loop: a tick is a snapshot, the restores that  *)
(* follow from it and the halt; the exit event, a signal and the end of a  *)
(* grace period are handled between ticks.  terminate() calls queue up     *)
(* behind one another on the promise `pending`.                            *)
(*                                                                         *)
(* A definition whose name has an underscore is a faulty variant of the    *)
(* one that follows it, and no part of the specification.                  *)
(***************************************************************************)
EXTENDS CageFiles

CONSTANTS
  Command,      \* the process the wrapper spawns
  Helpers,      \* processes its tree may fork, each at most once
  Start,        \* the protected set at the baseline
  ReportPaths,  \* paths whose rule only reports
  Blockable,    \* paths whose restore may fail
  Limit,        \* live restores of one path before it is contested
  HaltModes,    \* the values haltOn may start with
  MaxSignals    \* bound on the signals sent to the wrapper

ASSUME SessionAssumption ==
  /\ Command \notin Helpers
  /\ None \notin Paths \cup Helpers \cup {Command}
  /\ \A S \in SUBSET (Helpers \cup {Command}) : S # None
  /\ Start \in Snapshot /\ ReportPaths \subseteq Paths /\ Blockable \subseteq Paths
  /\ Limit \in Nat \ {0} /\ HaltModes \subseteq BOOLEAN /\ MaxSignals \in Nat

VARIABLES
  disk,
  haltOn,      \* whether a contested path halts the command (--contest-limit is not 0)
  alive, parent, forked, \* the process tree; an orphan's parent is None
  pc,          \* the wrapper: "run", "settle", "final", "over", or "killed" by a signal
  exited,      \* the exit event has been handled, and the signal handlers are off
  queued,      \* terminate() calls not finished
  first,       \* the listing of the terminate() in its grace period, None if there is none
  signals,     \* signals sent to the wrapper
  todo,        \* changes the running tick, or the exit diff, has still to restore
  ticking,     \* a tick runs
  restores,    \* restoresByPath, up to Limit + 1
  contested,   \* contested paths
  halt,        \* the path that tripped the limit, or None
  halting,     \* the running tick is the one that set it
  live,        \* paths restored live
  final,       \* paths of the exit diff, and those of them that could not be restored
  unrestored,
  listed,      \* history: processes some terminate() listed first
  late         \* history: a process wrote after the exit diff

tree    == <<alive, parent, forked>>
control == <<exited, queued, first, signals>>
watch   == <<todo, ticking, restores, contested, halt, halting, live>>
exit    == <<final, unrestored>>
vars    == <<disk, haltOn, tree, pc, control, watch, exit, listed, late>>

Procs   == Helpers \cup {Command}
Revert  == Paths \ ReportPaths

Init ==
  /\ disk = Start /\ haltOn \in HaltModes
  /\ alive = {Command} /\ parent = [h \in Helpers |-> None] /\ forked = {}
  /\ pc = "run" /\ exited = FALSE /\ queued = 0 /\ first = None /\ signals = 0
  /\ todo = {} /\ ticking = FALSE /\ restores = [p \in Paths |-> 0] /\ contested = {}
  /\ halt = None /\ halting = FALSE /\ live = {}
  /\ final = {} /\ unrestored = {}
  /\ listed = {} /\ late = FALSE

------------------------------------------------------------------------------
(* Processes *)

(* listDescendantPids: those a chain of parents leads up to the command.   *)
Descendants ==
  {h \in alive \cap Helpers :
     \A S \in SUBSET Procs :
        Command \in S /\ (\A x \in alive \cap Helpers : parent[x] \in S => x \in S) => h \in S}

Tree == Descendants \cup {Command}

(* Children of the dead are reparented. *)
Die(dead) ==
  /\ alive' = alive \ dead
  /\ parent' = [h \in Helpers |-> IF parent[h] \in dead THEN None ELSE parent[h]]

Fork(x, h) ==
  /\ x \in alive /\ h \in Helpers \ forked
  /\ forked' = forked \cup {h} /\ alive' = alive \cup {h}
  /\ parent' = [parent EXCEPT ![h] = x]
  /\ UNCHANGED <<haltOn, disk, pc, control, watch, exit, listed, late>>

Exit(x) ==
  /\ x \in alive /\ Die({x})
  /\ UNCHANGED <<haltOn, disk, forked, pc, control, watch, exit, listed, late>>

Ended == pc \in {"over", "killed"}

Write(p, e) ==
  /\ alive # {} /\ ~Ended /\ disk[p] # e
  /\ disk' = [disk EXCEPT ![p] = e]
  /\ late' = (late \/ pc = "final")
  /\ UNCHANGED <<haltOn, tree, pc, control, watch, exit, listed>>

------------------------------------------------------------------------------
(* startCaged *)

(* A terminate() whose turn has come runs before any other event.          *)
Free == ~ticking /\ ~(queued > 0 /\ first = None)

(* The command's exit event: the handlers are removed, done resolves.      *)
ExitEvent ==
  /\ Free /\ pc = "run" /\ Command \notin alive
  /\ exited' = TRUE /\ pc' = "settle"
  /\ UNCHANGED <<haltOn, disk, tree, queued, first, signals, watch, exit, listed, late>>

(* A trapped signal; once the handlers are off it has its default effect.  *)
Signal ==
  /\ signals < MaxSignals /\ ~Ended
  /\ signals' = signals + 1
  /\ IF exited
     THEN pc' = "killed" /\ UNCHANGED queued
     ELSE Free /\ queued' = queued + 1 /\ UNCHANGED pc
  /\ UNCHANGED <<haltOn, disk, tree, exited, first, watch, exit, listed, late>>

(* terminate(): nothing if the exit event came, else SIGTERM to all listed, *)
(* which they may obey (Exit) or not.                                      *)
TerminateSkip ==
  /\ ~ticking /\ queued > 0 /\ first = None /\ exited
  /\ queued' = queued - 1
  /\ UNCHANGED <<haltOn, disk, tree, pc, exited, first, signals, watch, exit, listed, late>>

Terminate ==
  /\ ~ticking /\ queued > 0 /\ first = None /\ ~exited
  /\ first' = Tree /\ listed' = listed \cup Tree
  /\ UNCHANGED <<haltOn, disk, tree, pc, exited, queued, signals, watch, exit, late>>

(* The tree is listed again, and only that listing killed. *)
Kill_Relisted ==
  /\ Free /\ first # None
  /\ Die(Tree)
  /\ first' = None /\ queued' = queued - 1
  /\ UNCHANGED <<haltOn, disk, forked, pc, exited, signals, watch, exit, listed, late>>

(* No SIGKILL after the grace period. *)
Kill_Never ==
  /\ Free /\ first # None
  /\ first' = None /\ queued' = queued - 1
  /\ UNCHANGED <<haltOn, disk, tree, pc, exited, signals, watch, exit, listed, late>>

(* The grace period is over: SIGKILL to both listings.                     *)
Kill ==
  /\ Free /\ first # None
  /\ Die(Tree \cup first)
  /\ first' = None /\ queued' = queued - 1
  /\ UNCHANGED <<haltOn, disk, forked, pc, exited, signals, watch, exit, listed, late>>

------------------------------------------------------------------------------
(* startCageWatch *)

OverLimit_OffByOne(p) == restores[p] > Limit

OverLimit(p) == restores[p] >= Limit

(* tick(): the snapshot, and shouldRestore for each of its changes.  Past  *)
(* the limit the first path trips the halt, and is restored all the same;  *)
(* without a halt the path is contested.                                   *)
TickScan ==
  /\ Free /\ pc \in {"run", "settle"}
  /\ LET changed == (Changes(Start, disk) \cap Revert) \ contested
         over == {p \in changed : OverLimit(p)}
     IN  /\ changed # {} /\ ticking' = TRUE
         /\ IF haltOn
            THEN /\ todo' = changed /\ UNCHANGED contested
                 /\ halting' = (halt = None /\ over # {})
                 /\ IF halting' THEN halt' \in over ELSE UNCHANGED halt
            ELSE /\ todo' = changed \ over /\ contested' = contested \cup over
                 /\ UNCHANGED <<halt, halting>>
  /\ UNCHANGED <<haltOn, disk, tree, pc, control, restores, live, exit, listed, late>>

TickRestore(p) ==
  /\ ticking /\ p \in todo
  /\ todo' = todo \ {p}
  /\ \/ /\ disk' = Reverted(disk, Start, p)
        /\ restores' = [restores EXCEPT ![p] = IF @ <= Limit THEN @ + 1 ELSE @]
        /\ live' = live \cup {p}
     \/ p \in Blockable /\ UNCHANGED <<disk, restores, live>>
  /\ UNCHANGED <<haltOn, tree, pc, control, ticking, contested, halt, halting, exit, listed, late>>

(* onHalt: child.terminate(graceMs), once.                                 *)
TickEnd ==
  /\ ticking /\ todo = {}
  /\ ticking' = FALSE /\ halting' = FALSE
  /\ queued' = IF halting THEN queued + 1 ELSE queued
  /\ UNCHANGED <<haltOn, disk, tree, pc, exited, first, signals, todo, restores, contested, halt, live, exit, listed, late>>

------------------------------------------------------------------------------
(* runSession after child.done, finalChanges and the report *)

(* settled(), then the watch is stopped and the exit diff taken.           *)
FinalScan ==
  /\ Free /\ pc = "settle" /\ queued = 0
  /\ final' = Changes(Start, disk)
  /\ todo' = final' \cap Revert
  /\ pc' = IF todo' = {} THEN "over" ELSE "final"
  /\ UNCHANGED <<haltOn, disk, tree, control, ticking, restores, contested, halt, halting, live, unrestored, listed, late>>

FinalRestore(p) ==
  /\ pc = "final" /\ p \in todo
  /\ todo' = todo \ {p}
  /\ pc' = IF todo' = {} THEN "over" ELSE "final"
  /\ \/ disk' = Reverted(disk, Start, p) /\ UNCHANGED unrestored
     \/ p \in Blockable /\ unrestored' = unrestored \cup {p} /\ UNCHANGED disk
  /\ UNCHANGED <<haltOn, tree, control, ticking, restores, contested, halt, halting, live, final, listed, late>>

(* A live restore decides the outcome of its path. *)
Unresolved_LiveWins == unrestored \ live

(* mergeChanges: the outcome of the exit diff replaces the live one.       *)
Unresolved == unrestored

(* cageStatus                                                              *)
Status ==
  IF halt # None THEN "halted"
  ELSE IF (live \cup final) \cap Revert # {}
  THEN IF Unresolved = {} THEN "violations_reverted" ELSE "violations_unresolved"
  ELSE "ok"

ProcessActs == \/ \E x \in Procs : Exit(x) \/ \E h \in Helpers : Fork(x, h)
               \/ \E p \in Paths, e \in Entry : Write(p, e)
TickStep    == (\E p \in Paths : TickRestore(p)) \/ TickEnd
Supervise   == ExitEvent \/ TerminateSkip \/ Terminate \/ Kill
Finish      == FinalScan \/ \E p \in Paths : FinalRestore(p)

Next == ProcessActs \/ Signal \/ TickScan \/ TickStep \/ Supervise \/ Finish

Spec == Init /\ [][Next]_vars

(* The event loop gets to every pending event between two ticks (timers,   *)
(* child exits and promise callbacks have phases of their own), and what   *)
(* it started it finishes.  Nothing is assumed of the processes.           *)
Fairness == /\ WF_vars(TickStep) /\ WF_vars(Finish) /\ SF_vars(FinalScan)
            /\ SF_vars(ExitEvent) /\ WF_vars(TerminateSkip) /\ WF_vars(Terminate) /\ SF_vars(Kill)

FairSpec == Spec /\ Fairness

------------------------------------------------------------------------------
TypeOK ==
  /\ disk \in Snapshot /\ haltOn \in BOOLEAN
  /\ alive \subseteq Procs /\ forked \subseteq Helpers
  /\ parent \in [Helpers -> Procs \cup {None}]
  /\ pc \in {"run", "settle", "final", "over", "killed"} /\ exited \in BOOLEAN
  /\ queued \in 0 .. MaxSignals + 1 /\ signals \in 0 .. MaxSignals
  /\ first \in (SUBSET Procs) \cup {None}
  /\ todo \subseteq Revert /\ ticking \in BOOLEAN /\ halting \in BOOLEAN
  /\ restores \in [Paths -> 0 .. Limit + 1]
  /\ contested \subseteq Paths /\ halt \in Paths \cup {None}
  /\ live \subseteq Paths /\ final \subseteq Paths /\ unrestored \subseteq final
  /\ listed \subseteq Procs /\ late \in BOOLEAN

(* After a halt or a trapped signal every process terminate() listed is    *)
(* gone when the exit diff is taken, also those whose parents died between *)
(* the two listings: none of them writes after the diff.                   *)
ListedAreGone == pc \in {"final", "over"} => alive \cap listed = {}

(* The session ends with every restore-rule path at the baseline, the      *)
(* contested ones too, unless a restore failed or a surviving process      *)
(* wrote after the exit diff.                                              *)
ExitIsClean ==
  pc = "over" /\ ~late /\ unrestored = {} => \A p \in Revert : disk[p] = Start[p]

(* A tampered path that stayed is never reported as restored.              *)
UnresolvedIsReported ==
  pc = "over" /\ ~late /\ (\E p \in Revert : disk[p] # Start[p])
     => Status \in {"violations_unresolved", "halted"}

(* Without a halt a path is restored live Limit times and then left to the *)
(* exit diff.                                                              *)
LiveRestoresBounded == ~haltOn => \A p \in Paths : restores[p] <= Limit

(* A command that is halted ends, and the report with it, whatever signals *)
(* it ignores and whatever it forks.                                       *)
HaltEnds == halt # None ~> Ended

(* No signal ends the wrapper before it has restored.                      *)
OutlivesSignals == pc # "killed"
=============================================================================
