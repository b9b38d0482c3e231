-------------------------- MODULE CageSessionProofs --------------------------
(***************************************************************************)
(* What a session guarantees for every process tree, every set of paths    *)
(* and any limit: how it ends, and what it restored.  And what a flight of *)
(* runtime exec, with which it shares no state, answers.                   *)
(***************************************************************************)
EXTENDS CageSession, RuntimeExec, TLAPS

(* A terminate() is queued for each signal and for the one halt; the halt  *)
(* of the running tick has still to be queued.                             *)
Counted ==
  /\ halting => ticking /\ halt # None
  /\ queued + (IF halting THEN 1 ELSE 0) <= signals + (IF halt = None THEN 0 ELSE 1)

(* Which listed processes may be alive: those of the terminate() that is   *)
(* in its grace period.  Nobody asks for one after the exit diff.          *)
Listing ==
  /\ exited <=> pc # "run"
  /\ alive \cup listed \subseteq forked \cup {Command}
  /\ alive \cap listed \subseteq (IF first = None THEN {} ELSE first)
  /\ first # None => queued > 0
  /\ pc \in {"final", "over"} => queued = 0 /\ ~ticking

(* Without a halt, a tick only restores paths under the limit.             *)
Bounded ==
  ~haltOn => \A p \in Paths : restores[p] <= Limit /\ (ticking /\ p \in todo => restores[p] < Limit)

(* What the exit diff has dealt with.                                      *)
Ending ==
  /\ pc \in {"run", "settle"} => unrestored = {}
  /\ pc = "over" => todo = {}
  /\ pc = "final" => todo \subseteq final
  /\ unrestored \subseteq Revert
  /\ pc \in {"final", "over"} /\ ~late =>
        \A p \in Revert \ todo : disk[p] = Start[p] \/ p \in unrestored

SessionInv == TypeOK /\ Counted /\ Listing /\ Bounded /\ Ending

------------------------------------------------------------------------------
LEMMA TreeType == ASSUME TypeOK PROVE Tree \subseteq Procs /\ Tree \subseteq alive \cup {Command} /\ Tree # None
BY SessionAssumption DEF TypeOK, Tree, Descendants, Procs

LEMMA DieType ==
  ASSUME TypeOK, NEW dead, Die(dead)
  PROVE  /\ alive' \subseteq alive /\ alive' \cap dead = {}
         /\ parent' \in [Helpers -> Procs \cup {None}]
BY DEF TypeOK, Die

LEMMA InvInit == Init => SessionInv
<1> SUFFICES ASSUME Init PROVE SessionInv
  OBVIOUS
<1>1. TypeOK
  <2>1. restores \in [Paths -> 0 .. Limit + 1] /\ queued \in 0 .. MaxSignals + 1 /\ signals \in 0 .. MaxSignals
    BY SessionAssumption DEF Init
  <2>2. parent \in [Helpers -> Procs \cup {None}] /\ alive \subseteq Procs /\ haltOn \in BOOLEAN /\ disk \in Snapshot
    BY SessionAssumption DEF Init, Procs
  <2> QED  BY <2>1, <2>2 DEF Init, TypeOK
<1>2. Counted /\ Listing /\ Bounded /\ Ending
  BY SessionAssumption DEF Init, Counted, Listing, Bounded, Ending
<1> QED  BY <1>1, <1>2 DEF SessionInv

(* The processes of the command: they fork, exit and write.                *)
LEMMA InvProcesses == SessionInv /\ ProcessActs => SessionInv'
<1> SUFFICES ASSUME SessionInv, ProcessActs PROVE SessionInv'
  OBVIOUS
<1> USE DEF SessionInv, control, watch, exit
<1>1. ASSUME NEW x \in Procs, Exit(x) PROVE SessionInv'
  <2>1. Die({x}) /\ UNCHANGED <<haltOn, disk, forked, pc, control, watch, exit, listed, late>>
    BY <1>1 DEF Exit
  <2>2. alive' \subseteq alive /\ parent' \in [Helpers -> Procs \cup {None}]
    BY <2>1, DieType
  <2>3. TypeOK'
    BY <2>1, <2>2 DEF TypeOK
  <2>4. Listing'
    BY <2>1, <2>2 DEF Listing
  <2> QED  BY <2>1, <2>3, <2>4 DEF Counted, Bounded, Ending
<1>2. ASSUME NEW x \in Procs, NEW h \in Helpers, Fork(x, h) PROVE SessionInv'
  <2>1. h \notin forked \cup {Command}
    BY <1>2, SessionAssumption DEF Fork
  <2>2. TypeOK'
    BY <1>2 DEF Fork, TypeOK, Procs
  <2>3. Listing'
    BY <1>2, <2>1 DEF Fork, Listing
  <2> QED  BY <1>2, <2>2, <2>3 DEF Fork, Counted, Bounded, Ending
<1>3. ASSUME NEW p \in Paths, NEW e \in Entry, Write(p, e) PROVE SessionInv'
  <2>1. TypeOK'
    BY <1>3 DEF Write, tree, TypeOK, Snapshot
  <2>2. Counted' /\ Listing' /\ Bounded'
    BY <1>3 DEF Write, tree, Counted, Listing, Bounded
  <2>3. Ending'
    BY <1>3 DEF Write, Ended, Ending
  <2> QED  BY <2>1, <2>2, <2>3
<1> QED  BY <1>1, <1>2, <1>3 DEF ProcessActs

(* Signals, the exit event and terminate().                                *)
LEMMA InvSupervise == SessionInv /\ (Signal \/ Supervise) => SessionInv'
<1> SUFFICES ASSUME SessionInv, Signal \/ Supervise PROVE SessionInv'
  OBVIOUS
<1> USE DEF SessionInv, tree, watch, exit
<1>0. queued \in Nat /\ signals \in Nat /\ MaxSignals \in Nat
  BY SessionAssumption DEF TypeOK
<1>1. CASE Signal
  <2>1. signals' = signals + 1 /\ signals < MaxSignals /\ UNCHANGED <<disk, haltOn, tree, exited, first, watch, exit, listed, late>>
    BY <1>1 DEF Signal
  <2>2. CASE exited
    <3>1. pc' = "killed" /\ UNCHANGED queued
      BY <1>1, <2>2 DEF Signal
    <3> QED  BY <1>0, <2>1, <2>2, <3>1 DEF TypeOK, Counted, Listing, Bounded, Ending
  <2>3. CASE ~exited
    <3>1. queued' = queued + 1 /\ pc = "run" /\ UNCHANGED pc
      BY <1>1, <2>3 DEF Signal, Listing
    <3>2. Counted' /\ queued' \in 0 .. MaxSignals + 1 /\ signals' \in 0 .. MaxSignals
      BY <1>0, <2>1, <3>1 DEF Counted
    <3>3. TypeOK'
      BY <2>1, <3>1, <3>2 DEF TypeOK
    <3> QED  BY <1>0, <2>1, <3>1, <3>2, <3>3 DEF Listing, Bounded, Ending
  <2> QED  BY <2>2, <2>3
<1>2. CASE ExitEvent
  BY <1>2 DEF ExitEvent, TypeOK, Counted, Listing, Bounded, Ending
<1>3. CASE TerminateSkip
  <2>1. queued' = queued - 1 /\ queued > 0 /\ first = None
        /\ UNCHANGED <<haltOn, disk, tree, pc, exited, first, signals, watch, exit, listed, late>>
    BY <1>3 DEF TerminateSkip
  <2>2. TypeOK' /\ Counted'
    BY <1>0, <2>1 DEF TypeOK, Counted
  <2> QED  BY <1>0, <2>1, <2>2 DEF Listing, Bounded, Ending
<1>4. CASE Terminate
  <2>1. first' = Tree /\ listed' = listed \cup Tree /\ first = None /\ queued > 0
        /\ UNCHANGED <<haltOn, disk, tree, pc, exited, queued, signals, watch, exit, late>>
    BY <1>4 DEF Terminate
  <2>2. TypeOK'
    BY <2>1, TreeType DEF TypeOK
  <2>3. Listing'
    BY <2>1, TreeType DEF Listing
  <2> QED  BY <2>1, <2>2, <2>3 DEF Counted, Bounded, Ending
<1>5. CASE Kill
  <2>1. Die(Tree \cup first) /\ first # None /\ first' = None /\ queued' = queued - 1
        /\ UNCHANGED <<haltOn, disk, forked, pc, exited, signals, watch, exit, listed, late>>
    BY <1>5 DEF Kill
  <2>2. alive' \subseteq alive /\ alive' \cap first = {} /\ parent' \in [Helpers -> Procs \cup {None}]
    BY <2>1, DieType
  <2>3. queued > 0 /\ pc \notin {"final", "over"}
    BY <2>1 DEF Listing
  <2>4. TypeOK'
    BY <1>0, <2>1, <2>2, <2>3 DEF TypeOK
  <2>5. Counted'
    BY <1>0, <2>1 DEF Counted
  <2>6. Listing'
    BY <2>1, <2>2, <2>3 DEF Listing
  <2> QED  BY <2>1, <2>4, <2>5, <2>6 DEF Bounded, Ending
<1> QED  BY <1>1, <1>2, <1>3, <1>4, <1>5 DEF Supervise

(* The live check.                                                         *)
LEMMA InvTick == SessionInv /\ (TickScan \/ TickStep) => SessionInv'
<1> SUFFICES ASSUME SessionInv, TickScan \/ TickStep PROVE SessionInv'
  OBVIOUS
<1> USE DEF SessionInv, tree, control, exit
<1>0. /\ queued \in Nat /\ signals \in Nat /\ Limit \in Nat /\ MaxSignals \in Nat
      /\ restores \in [Paths -> 0 .. Limit + 1] /\ \A p \in Paths : restores[p] \in Nat
  BY SessionAssumption DEF TypeOK
<1>1. CASE TickScan
  <2> DEFINE changed == (Changes(Start, disk) \cap Revert) \ contested
             over == {p \in changed : OverLimit(p)}
  <2>1. /\ Free /\ pc \in {"run", "settle"} /\ ticking' = TRUE
        /\ UNCHANGED <<haltOn, disk, tree, pc, control, restores, live, exit, listed, late>>
    BY <1>1 DEF TickScan
  <2>2. changed \subseteq Revert /\ Revert \subseteq Paths /\ ~halting
    BY <2>1 DEF Free, Revert, Counted
  <2>3. CASE haltOn
    <3>1. /\ todo' = changed /\ UNCHANGED contested
          /\ halting' = (halt = None /\ over # {})
          /\ IF halting' THEN halt' \in over ELSE UNCHANGED halt
      BY <1>1, <2>3 DEF TickScan
    <3>2. halt' \in Paths \cup {None} /\ (halting' => halt = None /\ halt' # None) /\ (~halting' => UNCHANGED halt)
      BY <2>2, <3>1, SessionAssumption DEF TypeOK
    <3>3. halting' \in BOOLEAN
      BY <3>1
    <3>4. Counted'
      BY <1>0, <2>1, <2>2, <3>2, <3>3 DEF Counted
    <3>5. TypeOK'
      BY <2>1, <2>2, <3>1, <3>2, <3>3 DEF TypeOK
    <3> QED  BY <2>1, <2>3, <3>4, <3>5 DEF Listing, Bounded, Ending
  <2>4. CASE ~haltOn
    <3>1. todo' = changed \ over /\ contested' = contested \cup over /\ UNCHANGED <<halt, halting>>
      BY <1>1, <2>4 DEF TickScan
    <3>2. \A p \in todo' : restores[p] < Limit
      BY <1>0, <2>2, <3>1 DEF OverLimit
    <3>3. TypeOK'
      BY <2>1, <2>2, <3>1 DEF TypeOK
    <3>4. Bounded'
      BY <2>1, <3>2 DEF Bounded
    <3> QED  BY <2>1, <2>2, <3>1, <3>3, <3>4 DEF Counted, Listing, Ending
  <2> QED  BY <2>3, <2>4
<1>2. ASSUME NEW p \in Paths, TickRestore(p) PROVE SessionInv'
  <2>1. /\ ticking /\ p \in todo /\ todo' = todo \ {p}
        /\ UNCHANGED <<haltOn, tree, pc, control, ticking, contested, halt, halting, exit, listed, late>>
    BY <1>2 DEF TickRestore
  <2>2. pc \notin {"final", "over"}
    BY <2>1 DEF Listing
  <2>3. \/ /\ disk' = Reverted(disk, Start, p)
           /\ restores' = [restores EXCEPT ![p] = IF @ <= Limit THEN @ + 1 ELSE @]
           /\ live' = live \cup {p}
        \/ UNCHANGED <<disk, restores, live>>
    BY <1>2 DEF TickRestore
  <2>4. disk' \in Snapshot /\ live' \subseteq Paths
    BY <2>3, SessionAssumption DEF TypeOK, Reverted, Snapshot
  <2>5. restores' \in [Paths -> 0 .. Limit + 1]
    BY <1>0, <2>3
  <2>6. TypeOK'
    BY <2>1, <2>4, <2>5 DEF TypeOK
  <2>7. Bounded'
    BY <1>0, <2>1, <2>3 DEF Bounded
  <2> QED  BY <2>1, <2>2, <2>6, <2>7 DEF Counted, Listing, Ending
<1>3. CASE TickEnd
  <2>1. /\ ticking /\ ticking' = FALSE /\ halting' = FALSE
        /\ queued' = IF halting THEN queued + 1 ELSE queued
        /\ UNCHANGED <<haltOn, disk, tree, pc, exited, first, signals, todo, restores, contested, halt, live, exit, listed, late>>
    BY <1>3 DEF TickEnd
  <2>2. halting \in BOOLEAN /\ pc \notin {"final", "over"}
    BY <2>1 DEF TypeOK, Listing
  <2>3. Counted' /\ queued' \in 0 .. MaxSignals + 1
    BY <1>0, <2>1, <2>2 DEF Counted, TypeOK
  <2>4. TypeOK'
    BY <2>1, <2>3 DEF TypeOK
  <2>5. Listing'
    BY <1>0, <2>1, <2>2 DEF Listing
  <2> QED  BY <2>1, <2>2, <2>3, <2>4, <2>5 DEF Bounded, Ending
<1> QED  BY <1>1, <1>2, <1>3 DEF TickStep

(* The exit diff.                                                          *)
LEMMA InvFinish == SessionInv /\ Finish => SessionInv'
<1> SUFFICES ASSUME SessionInv, Finish PROVE SessionInv'
  OBVIOUS
<1> USE DEF SessionInv, tree, control
<1>1. CASE FinalScan
  <2>1. /\ Free /\ pc = "settle" /\ queued = 0
        /\ final' = Changes(Start, disk) /\ todo' = final' \cap Revert
        /\ pc' = IF todo' = {} THEN "over" ELSE "final"
        /\ UNCHANGED <<haltOn, disk, tree, control, ticking, restores, contested, halt, halting, live, unrestored, listed, late>>
    BY <1>1 DEF FinalScan
  <2>2. ~ticking /\ exited
    BY <2>1 DEF Free, Listing
  <2>3. unrestored' \subseteq final'
    BY <2>1 DEF Ending
  <2>4. TypeOK'
    BY <2>1, <2>3 DEF TypeOK, Changes
  <2>5. Ending'
    BY <2>1 DEF Ending, Changes, EntryChanged, Revert
  <2> QED  BY <2>1, <2>2, <2>4, <2>5 DEF Counted, Listing, Bounded
<1>2. ASSUME NEW p \in Paths, FinalRestore(p) PROVE SessionInv'
  <2>1. /\ pc = "final" /\ p \in todo /\ todo' = todo \ {p}
        /\ pc' = IF todo' = {} THEN "over" ELSE "final"
        /\ \/ disk' = Reverted(disk, Start, p) /\ UNCHANGED unrestored
           \/ unrestored' = unrestored \cup {p} /\ UNCHANGED disk
        /\ UNCHANGED <<haltOn, tree, control, ticking, restores, contested, halt, halting, live, final, listed, late>>
    BY <1>2 DEF FinalRestore
  <2>2. p \in final /\ p \in Revert /\ ~ticking /\ disk \in Snapshot /\ Start \in Snapshot
    BY <2>1, SessionAssumption DEF Ending, TypeOK, Listing
  <2>3. disk' \in Snapshot
    BY <2>1, <2>2 DEF Reverted, Snapshot
  <2>4. TypeOK'
    BY <2>1, <2>2, <2>3 DEF TypeOK
  <2>5. ~late' => \A q \in Revert \ todo' : disk'[q] = Start[q] \/ q \in unrestored'
    BY <2>1, <2>2 DEF Ending, Reverted, Snapshot, Revert
  <2>6. Ending'
    BY <2>1, <2>2, <2>5 DEF Ending
  <2> QED  BY <2>1, <2>2, <2>4, <2>6 DEF Counted, Listing, Bounded
<1> QED  BY <1>1, <1>2 DEF Finish

LEMMA SessionInvariant == Spec => []SessionInv
<1>1. SessionInv /\ [Next]_vars => SessionInv'
  <2> SUFFICES ASSUME SessionInv, [Next]_vars PROVE SessionInv'
    OBVIOUS
  <2>1. CASE Next
    BY <2>1, InvProcesses, InvSupervise, InvTick, InvFinish DEF Next
  <2>2. CASE UNCHANGED vars
    BY <2>2 DEF vars, tree, control, watch, exit, SessionInv, TypeOK, Counted, Listing, Bounded, Ending
  <2> QED  BY <2>1, <2>2
<1> QED  BY InvInit, <1>1, PTL DEF Spec

------------------------------------------------------------------------------
(* Every variable of a session keeps its type; with it, no more            *)
(* terminations are queued than there were signals and halts.              *)
THEOREM SessionTypeCorrect == Spec => []TypeOK
<1>1. SessionInv => TypeOK
  BY DEF SessionInv
<1> QED  BY SessionInvariant, <1>1, PTL

(* No process that terminate() listed first lives on to write after the    *)
(* exit diff, however large the tree, and however it loses its parents.    *)
THEOREM ListedProcessesGone == Spec => []ListedAreGone
<1>1. SessionInv => ListedAreGone
  BY DEF SessionInv, Listing, ListedAreGone
<1> QED  BY SessionInvariant, <1>1, PTL

(* The exit diff leaves every restore-rule path at the baseline unless its *)
(* restore failed or somebody wrote after the diff.                        *)
THEOREM SessionEndsClean == Spec => []ExitIsClean
<1>1. SessionInv => ExitIsClean
  BY DEF SessionInv, Ending, ExitIsClean
<1> QED  BY SessionInvariant, <1>1, PTL

(* What the exit diff could not restore is what the report calls           *)
(* unresolved, whatever the live check did with it before.                 *)
THEOREM TamperIsReported == Spec => []UnresolvedIsReported
<1>1. SessionInv => UnresolvedIsReported
  <2> SUFFICES ASSUME SessionInv, pc = "over", ~late, NEW p \in Revert, disk[p] # Start[p]
               PROVE  Status \in {"violations_unresolved", "halted"}
    BY DEF UnresolvedIsReported
  <2>1. p \in unrestored /\ p \in (live \cup final) \cap Revert
    BY DEF SessionInv, Ending, TypeOK
  <2> QED  BY <2>1 DEF Status, Unresolved
<1> QED  BY SessionInvariant, <1>1, PTL

(* With the halt off, no path is restored live more than Limit times.      *)
THEOREM RestoresAreBounded == Spec => []LiveRestoresBounded
<1>1. SessionInv => LiveRestoresBounded
  BY DEF SessionInv, Bounded, LiveRestoresBounded
<1> QED  BY SessionInvariant, <1>1, PTL

-----------------------------------------------------------------------------
(* The flights of runtime exec.                                            *)

FileStates == [c : Contents \cup {Deleted}, t : Nat]
FlightSteps == {"idle", "spawn", "run", "scan", "open", "fill", "read", "done"}

FlightType ==
  /\ file \in [Watched -> FileStates] /\ writes \in Nat
  /\ by \in [Watched -> Flights \cup {Nothing, Editor}]
  /\ flightPc \in [Flights -> FlightSteps]
  /\ DOMAIN base = Flights /\ base = [f \in Flights |-> base[f]]
  /\ \A f \in Flights : flightPc[f] # "idle" => base[f] \in [Zone -> FileStates]
  /\ answer = [f \in Flights |-> answer[f]]

(* Two flights that are under way at once both know, or would.              *)
FlightsApart == \A f, g \in Flights : f # g /\ Flying(f) /\ Flying(g) => f \in overlapping

(* What a flight wrote last, before its scan, is what the scan found sound.  *)
Kept(f, x) == \/ file[x] = base[f][x]
              \/ file[x].t = base[f][x].t /\ {file[x].c, base[f][x].c} \subseteq Big
ScanSaw(f) == flightPc[f] \in Scanned /\ answer[f].status \in Silent =>
                 \A x \in Zone : by[x] = f /\ <<f, x>> \notin seenLate => Kept(f, x)

(* An error file that a flight wrote alone is its own.                       *)
Own(f) == [by |-> f, status |-> answer[f].status]
ErrorKept(f) == /\ flightPc[f] = "read" /\ f \notin overlapping => errorFile = Own(f)
                /\ flightPc[f] = "done" /\ answer[f].status \notin {"success", "command_error"} =>
                      answer[f].error = Own(f) \/ (f \notin Mcp /\ f \in overlapping)

FlightInv == FlightType /\ FlightsApart /\ \A f \in Flights : ScanSaw(f) /\ ErrorKept(f)

LEMMA FlightStart == FlightInit => FlightInv
<1> SUFFICES ASSUME FlightInit PROVE FlightInv
  OBVIOUS
<1>1. (CHOOSE c \in Big : TRUE) \in Contents
  BY FlightAssumption
<1>2. FlightType
  BY <1>1 DEF FlightInit, FlightType, FileStates, FlightSteps
<1> QED  BY <1>2 DEF FlightInit, FlightInv, FlightsApart, Flying, ScanSaw, Scanned, ErrorKept

LEMMA WriteFileKept ==
  ASSUME FlightInv, NEW who \in Flights \cup {Editor}, NEW x \in Watched, WriteFile(who, x) PROVE FlightInv'
<1>1. /\ UNCHANGED <<errorFile, flightPc, process, base, answer, overlapping>>
      /\ writes' = writes + 1 /\ by' = [by EXCEPT ![x] = who]
      /\ seenLate' = IF who # Editor /\ flightPc[who] \in Scanned THEN seenLate \cup {<<who, x>>} ELSE seenLate
      /\ ChangeFile(x)
  BY DEF WriteFile
<1>2. file' \in [Watched -> FileStates] /\ \A y \in Watched : y # x => file'[y] = file[y]
  <2>1. file[x] \in FileStates /\ file[x].t \in Nat /\ writes \in Nat /\ file \in [Watched -> FileStates]
    BY DEF FlightInv, FlightType, FileStates
  <2>2. PICK to : to \in FileStates /\ file' = [file EXCEPT ![x] = to]
    <3>1. CASE \E to \in [c : Contents, t : {file[x].t, writes + 1}] : file' = [file EXCEPT ![x] = to]
      <4> PICK to \in [c : Contents, t : {file[x].t, writes + 1}] : file' = [file EXCEPT ![x] = to]
        BY <3>1
      <4>1. to \in FileStates
        BY <2>1 DEF FileStates
      <4> QED  BY <4>1
    <3>2. CASE file' = [file EXCEPT ![x] = [c |-> Deleted, t |-> 0]]
      <4>1. [c |-> Deleted, t |-> 0] \in FileStates
        BY DEF FileStates
      <4> QED  BY <3>2, <4>1
    <3> QED  BY <1>1, <3>1, <3>2 DEF ChangeFile
  <2> QED  BY <2>1, <2>2
<1>3. FlightType'
  <2>1. by' \in [Watched -> Flights \cup {Nothing, Editor}] /\ writes' \in Nat
    BY <1>1 DEF FlightInv, FlightType
  <2> QED  BY <1>1, <1>2, <2>1 DEF FlightInv, FlightType
<1>4. FlightsApart'
  BY <1>1 DEF FlightInv, FlightsApart, Flying
<1>5. ASSUME NEW f \in Flights PROVE ScanSaw(f)'
  <2> SUFFICES ASSUME flightPc[f] \in Scanned, answer[f].status \in Silent, NEW y \in Zone,
                      by'[y] = f, <<f, y>> \notin seenLate'
               PROVE  Kept(f, y)'
    BY <1>1 DEF ScanSaw
  <2>1. y # x
    BY <1>1, FlightAssumption DEF FlightInv, FlightType, Watched
  <2>2. by[y] = f /\ <<f, y>> \notin seenLate /\ file'[y] = file[y]
    BY <1>1, <1>2, <2>1 DEF FlightInv, FlightType, Watched
  <2> QED  BY <1>1, <2>2 DEF FlightInv, ScanSaw, Kept
<1>6. ASSUME NEW f \in Flights PROVE ErrorKept(f)'
  BY <1>1 DEF FlightInv, ErrorKept, Own
<1> QED  BY <1>3, <1>4, <1>5, <1>6 DEF FlightInv

LEMMA BeginKept == ASSUME FlightInv, NEW g \in Flights, Begin(g) PROVE FlightInv'
<1>1. /\ flightPc[g] = "idle" /\ base' = [base EXCEPT ![g] = [x \in Zone |-> file[x]]]
      /\ flightPc' = [flightPc EXCEPT ![g] = "spawn"]
      /\ overlapping' = IF {h \in Flights \ {g} : Flying(h)} = {} THEN overlapping
                        ELSE overlapping \cup {h \in Flights \ {g} : Flying(h)} \cup {g}
      /\ UNCHANGED <<onDisk, errorFile, process, answer>>
  BY DEF Begin, FlightGoto
<1>2. \A f \in Flights \ {g} : flightPc'[f] = flightPc[f] /\ base'[f] = base[f]
  BY <1>1 DEF FlightInv, FlightType
<1>3. flightPc'[g] = "spawn" /\ base'[g] \in [Zone -> FileStates]
  BY <1>1 DEF FlightInv, FlightType, Watched
<1>4. FlightType'
  <2>1. base' = [f \in Flights |-> base'[f]] /\ DOMAIN base' = Flights
    BY <1>1 DEF FlightInv, FlightType
  <2> QED  BY <1>1, <1>2, <1>3, <2>1 DEF FlightInv, FlightType, FlightSteps, onDisk
<1>5. FlightsApart'
  BY <1>1, <1>2, <1>3 DEF FlightInv, FlightsApart, Flying
<1>6. ASSUME NEW f \in Flights PROVE ScanSaw(f)'
  BY <1>1, <1>2, <1>3 DEF FlightInv, ScanSaw, Scanned, Kept, onDisk
<1>7. ASSUME NEW f \in Flights PROVE ErrorKept(f)'
  BY <1>1, <1>2, <1>3 DEF FlightInv, ErrorKept, Own
<1> QED  BY <1>4, <1>5, <1>6, <1>7 DEF FlightInv

(* A step of a flight, after which its own answer and file of errors hold;  *)
(* the others are where they were.                                          *)
LEMMA FlightMoves ==
  ASSUME FlightInv, NEW g \in Flights, NEW step \in FlightSteps \ {"idle"},
         Flying(g), FlightGoto(g, step),
         UNCHANGED <<onDisk, base, overlapping>>,
         answer' = [answer EXCEPT ![g] = answer'[g]],
         errorFile' # errorFile => flightPc[g] \in {"open", "fill", "read"},
         ScanSaw(g)', ErrorKept(g)'
  PROVE  FlightInv'
<1>1. /\ flightPc' = [flightPc EXCEPT ![g] = step]
      /\ \A f \in Flights \ {g} : flightPc'[f] = flightPc[f] /\ answer'[f] = answer[f]
      /\ flightPc'[g] = step
  BY DEF FlightGoto, FlightInv, FlightType
<1>2. FlightType'
  BY <1>1 DEF FlightInv, FlightType, onDisk, Flying
<1>3. FlightsApart'
  BY <1>1 DEF FlightInv, FlightsApart, Flying
<1>4. ASSUME NEW f \in Flights, f # g PROVE ScanSaw(f)' /\ ErrorKept(f)'
  <2>1. ScanSaw(f)'
    BY <1>1, <1>4 DEF FlightInv, ScanSaw, Kept, onDisk
  <2>2. flightPc[f] = "read" /\ f \notin overlapping => errorFile' = errorFile
    BY <1>4 DEF FlightInv, FlightsApart, Flying
  <2>3. ErrorKept(f)'
    BY <1>1, <1>4, <2>2 DEF FlightInv, ErrorKept, Own
  <2> QED  BY <2>1, <2>3
<1> QED  BY <1>2, <1>3, <1>4 DEF FlightInv

(* A file that compares as the same is the same, or a big one.              *)
LEMMA SameIsKept == ASSUME FlightInv, NEW f \in Flights, flightPc[f] # "idle", Violations(f) = {} PROVE \A x \in Zone : Kept(f, x)
<1> SUFFICES ASSUME NEW x \in Zone PROVE Kept(f, x)
  OBVIOUS
<1>1. Same(base[f][x], file[x])
  BY DEF Violations
<1>2. base[f][x] \in FileStates /\ file[x] \in FileStates
  BY DEF FlightInv, FlightType, Watched
<1>3. \A a, b \in FileStates : a.c = b.c /\ a.t = b.t => a = b
  BY DEF FileStates
<1> QED  BY <1>1, <1>2, <1>3 DEF Same, Kept

LEMMA ExecStepKept == ASSUME FlightInv, NEW f \in Flights, ExecStep(f) PROVE FlightInv'
<1>0. answer = [answer EXCEPT ![f] = answer[f]] /\ f \in DOMAIN answer /\ f \in DOMAIN flightPc
  BY DEF FlightInv, FlightType
<1>1. CASE Spawn(f) \/ Exited(f)
  <2>1. /\ flightPc[f] \in {"spawn", "run"} /\ UNCHANGED <<onDisk, errorFile, base, answer, overlapping>>
        /\ \E step \in {"run", "scan"} : FlightGoto(f, step)
    BY <1>1 DEF Spawn, Exited
  <2> PICK step \in {"run", "scan"} : FlightGoto(f, step)
    BY <2>1
  <2>2. flightPc'[f] = step
    BY <1>0 DEF FlightGoto
  <2> QED  BY <1>0, <2>1, <2>2, FlightMoves DEF FlightSteps, Flying, ScanSaw, Scanned, ErrorKept
<1>2. CASE Scan(f)
  <2> PICK broken \in BOOLEAN, failed \in BOOLEAN :
             /\ Report(f, StatusOf(f, broken, failed), Nothing)
             /\ FlightGoto(f, IF StatusOf(f, broken, failed) = "success" THEN "done" ELSE "open")
    BY <1>2 DEF Scan
  <2>1. flightPc[f] = "scan" /\ UNCHANGED <<onDisk, errorFile, base, overlapping>>
    BY <1>2 DEF Scan, Forget
  <2> DEFINE status == StatusOf(f, broken, failed)
             step == IF status = "success" THEN "done" ELSE "open"
  <2>2. /\ answer' = [answer EXCEPT ![f] = [status |-> status, error |-> Nothing]]
        /\ answer'[f].status = status /\ flightPc'[f] = step
    BY <1>0 DEF Report, FlightGoto
  <2>3. status \in Silent => Violations(f) = {}
    BY DEF StatusOf, Silent
  <2>4. ScanSaw(f)'
    <3> SUFFICES ASSUME answer'[f].status \in Silent, NEW x \in Zone PROVE Kept(f, x)'
      BY DEF ScanSaw
    <3>1. Kept(f, x)
      BY <2>1, <2>2, <2>3, SameIsKept
    <3> QED  BY <3>1, <2>1 DEF Kept, onDisk
  <2>5. ErrorKept(f)'
    BY <2>2 DEF ErrorKept
  <2>6. step \in FlightSteps \ {"idle"} /\ FlightGoto(f, step)
    BY DEF FlightSteps
  <2>7. answer' = [answer EXCEPT ![f] = answer'[f]]
    BY <1>0, <2>2
  <2> HIDE DEF step, status
  <2> QED  BY <2>1, <2>4, <2>5, <2>6, <2>7, FlightMoves DEF Flying
<1>3. CASE ScanThrows(f)
  <2>1. /\ flightPc[f] = "scan" /\ UNCHANGED <<onDisk, errorFile, base, overlapping>> /\ FlightGoto(f, "open")
        /\ answer' = [answer EXCEPT ![f] = [status |-> "runtime_error", error |-> Nothing]]
    BY <1>3 DEF ScanThrows, Forget, Report
  <2>2. answer'[f].status = "runtime_error" /\ flightPc'[f] = "open" /\ answer' = [answer EXCEPT ![f] = answer'[f]]
    BY <1>0, <2>1 DEF FlightGoto
  <2> QED  BY <2>1, <2>2, FlightMoves DEF FlightSteps, Flying, ScanSaw, Silent, ErrorKept
<1>4. CASE OpenError(f) \/ FillError(f)
  <2>1. /\ UNCHANGED <<onDisk, base, answer, overlapping>>
        /\ \/ flightPc[f] = "open" /\ FlightGoto(f, "fill")
           \/ flightPc[f] = "fill" /\ FlightGoto(f, "read") /\ errorFile' = [by |-> f, status |-> answer[f].status]
    BY <1>4 DEF OpenError, FillError
  <2> PICK step \in {"fill", "read"} : FlightGoto(f, step) /\ (step = "read" => errorFile' = Own(f))
    BY <2>1 DEF Own
  <2>2. flightPc'[f] = step
    BY <1>0 DEF FlightGoto
  <2>3. ScanSaw(f)'
    BY <2>1, <2>2 DEF FlightInv, ScanSaw, Scanned, Kept, onDisk
  <2>4. ErrorKept(f)'
    BY <2>1, <2>2 DEF ErrorKept, Own
  <2> QED  BY <1>0, <2>1, <2>3, <2>4, FlightMoves DEF FlightSteps, Flying
<1>5. CASE ReadError(f) \/ WriteAgain(f)
  <2>1. /\ flightPc[f] = "read" /\ UNCHANGED <<onDisk, base, overlapping>> /\ FlightGoto(f, "done")
    BY <1>5 DEF ReadError, WriteAgain
  <2>2. \/ Report(f, "command_error", Nothing)
        \/ f \notin Mcp /\ Report(f, answer[f].status, errorFile)
        \/ Report(f, answer[f].status, Own(f))
    BY <1>5 DEF ReadError, WriteAgain, Own
  <2>3. /\ answer' = [answer EXCEPT ![f] = answer'[f]] /\ flightPc'[f] = "done"
        /\ answer'[f].status \in {answer[f].status, "command_error"}
        /\ answer'[f].status # "command_error" =>
             /\ answer'[f].status = answer[f].status
             /\ answer'[f].error = Own(f) \/ (f \notin Mcp /\ answer'[f].error = errorFile)
    BY <1>0, <2>1, <2>2 DEF FlightGoto, Report
  <2>4. ScanSaw(f)'
    BY <2>1, <2>3 DEF FlightInv, ScanSaw, Scanned, Silent, Kept, onDisk
  <2>5. ErrorKept(f)'
    BY <2>1, <2>3 DEF FlightInv, ErrorKept, Own
  <2> QED  BY <2>1, <2>3, <2>4, <2>5, FlightMoves DEF FlightSteps, Flying
<1> QED  BY <1>1, <1>2, <1>3, <1>4, <1>5 DEF ExecStep

LEMMA FlightStays ==
  ASSUME FlightInv, UNCHANGED <<file, writes, by, errorFile, flightPc, base, answer, seenLate, overlapping>>
  PROVE  FlightInv'
BY DEF FlightInv, FlightType, FlightsApart, Flying, ScanSaw, Kept, ErrorKept, Own

LEMMA FlightStep == FlightInv /\ [FlightNext]_flightVars => FlightInv'
<1> SUFFICES ASSUME FlightInv, [FlightNext]_flightVars PROVE FlightInv'
  OBVIOUS
<1>1. CASE EditorWrites
  BY <1>1, WriteFileKept DEF EditorWrites, Watched
<1>2. ASSUME NEW f \in Flights, Begin(f) \/ ExecStep(f) \/ Timer(f) \/ WorkerStep(f) PROVE FlightInv'
  <2>1. CASE WorkerWrites(f)
    BY <2>1, WriteFileKept DEF WorkerWrites
  <2>2. CASE Timer(f) \/ Ends(f) \/ Obeys(f) \/ Ignores(f)
    BY <2>2, FlightStays DEF Timer, Ends, Obeys, Ignores, onDisk
  <2> QED  BY <1>2, <2>1, <2>2, BeginKept, ExecStepKept DEF WorkerStep
<1>3. CASE UNCHANGED flightVars
  BY <1>3, FlightStays DEF flightVars
<1> QED  BY <1>1, <1>2, <1>3 DEF FlightNext

(* A flight that reports no violation left each file of the zones as it had *)
(* found it, but for what came after the scan and big files whose mtime was *)
(* kept; and the failure it reports is its own, unless another overlapped   *)
(* it (detectForbiddenViolations, buildRuntimeExecResult,                   *)
(* writeAgentErrorFile).                                                    *)
THEOREM FlightsTellTheTruth == FlightSpec => []FlightsAreTold
<1>1. FlightInv => FlightsAreTold
  BY DEF FlightInv, ScanSaw, Scanned, Kept, ErrorKept, Own, FlightsAreTold, ZonesAreKept, ErrorIsItsOwn, Answered
<1> QED  BY <1>1, FlightStart, FlightStep, PTL DEF FlightSpec
=============================================================================
