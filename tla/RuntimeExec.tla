---------------------------- MODULE RuntimeExec ----------------------------
(***************************************************************************)
(* gantry runtime exec (packages/missions: runtime-exec.ts,                *)
(* runtime-exec-process.ts, forbidden-scan.ts, error-payloads.ts; src/cli: *)
(* commands/runtime.ts, mcp/mcp-runtime.ts): a flight takes base of the   *)
(* forbidden zones, runs a worker under a timeout, and takes base again.  *)
(*                                                                         *)
(* Two flights, an editor and what a worker leaves running share the files *)
(* and the one file for the last error.                                    *)
(***************************************************************************)
EXTENDS Naturals, FiniteSets, TLC

CONSTANTS Flights,
          Mcp,        \* the flights an MCP server runs; the others are the command's
          Timed,      \* the flights with a timeout
          Obedient,   \* the flights whose worker ends on SIGTERM
          Zone,       \* the files in the forbidden zones of the mission
          Outside,    \* the files in neither the zones nor the edit roots
          Contents,
          Big,        \* the contents beyond MAX_HASH_BYTES, all of one size
          Deleted, Editor, Nothing, TornError,
          MaxWrites   \* bound on the writes

ASSUME FlightAssumption == /\ Mcp \cup Timed \cup Obedient \subseteq Flights /\ Editor \notin Flights
                           /\ Big \subseteq Contents /\ Big # {}

Watched == Zone \cup Outside

VARIABLES file,      \* file[x]: its content and mtime
          writes,    \* writes so far, and the clock of mtimes
          by,        \* history: who wrote a file last
          errorFile, \* .ignored-last-error.json: Nothing, Torn, or the flight and status in it
          flightPc, worker, rest, \* a flight, its worker, and what the worker started and left running
          timedOut,         \* the timer fired
          base,             \* the files of the zones as a flight found them
          answer,           \* what a flight answered: its status and the error reported with it
          seenLate,         \* history: files written by a worker after its flight had seen them
          overlapping       \* history: flights that overlapped another one

flightVars == <<file, writes, by, errorFile, flightPc, worker, rest, timedOut, base,
                answer, seenLate, overlapping>>
onDisk == <<file, writes, by, seenLate>>
process == <<worker, rest, timedOut>>

FlightInit == /\ file = [x \in Watched |-> [c |-> CHOOSE c \in Big : TRUE, t |-> 0]]
              /\ writes = 0 /\ by = [x \in Watched |-> Nothing]
              /\ errorFile = Nothing
              /\ flightPc = [f \in Flights |-> "idle"]
              /\ worker = [f \in Flights |-> "none"] /\ rest = [f \in Flights |-> FALSE]
              /\ timedOut = [f \in Flights |-> FALSE]
              /\ base = [f \in Flights |-> << >>]
              /\ answer = [f \in Flights |-> Nothing]
              /\ seenLate = {} /\ overlapping = {}

FlightGoto(f, step) == flightPc' = [flightPc EXCEPT ![f] = step]
Flying(f) == flightPc[f] \notin {"idle", "done"}
-----------------------------------------------------------------------------
(* The files.                                                              *)

\* A new content, with a new mtime or, by a tool that keeps it, the old one; the old content
\* again; or the file goes.
ChangeFile(x) ==
        \/ \E to \in [c : Contents, t : {file[x].t, writes + 1}] : to # file[x] /\ file' = [file EXCEPT ![x] = to]
        \/ file[x].c # Deleted /\ file' = [file EXCEPT ![x] = [c |-> Deleted, t |-> 0]]

Scanned == {"open", "fill", "read", "done"}
WriteFile(who, x) == /\ writes < MaxWrites
                     /\ ChangeFile(x)
                     /\ writes' = writes + 1
                     /\ by' = [by EXCEPT ![x] = who]
                     /\ seenLate' = IF who # Editor /\ flightPc[who] \in Scanned THEN seenLate \cup {<<who, x>>} ELSE seenLate
                     /\ UNCHANGED <<errorFile, flightPc, process, base, answer, overlapping>>

WorkerWrites(f) == /\ worker[f] = "running" \/ rest[f]
                   /\ \E x \in Watched : WriteFile(f, x)

EditorWrites == \E x \in Zone : WriteFile(Editor, x)
-----------------------------------------------------------------------------
(* beginRuntimeFlight.                                                     *)

\* The mission, its scope and buildForbiddenBaseline.  A file is compared with itself only: what
\* is written while the others are read makes no difference, so that they are read at once.
Begin(f) == /\ flightPc[f] = "idle"
            /\ base' = [base EXCEPT ![f] = [x \in Zone |-> file[x]]]
            /\ FlightGoto(f, "spawn")
            /\ LET others == {g \in Flights \ {f} : Flying(g)}
               IN overlapping' = IF others = {} THEN overlapping ELSE overlapping \cup others \cup {f}
            /\ UNCHANGED <<onDisk, errorFile, process, answer>>

\* spawn: a command that cannot be run is a worker that ended with no code.
Spawn(f) == /\ flightPc[f] = "spawn"
            /\ \/ worker' = [worker EXCEPT ![f] = "running"] /\ FlightGoto(f, "run")
               \/ FlightGoto(f, "scan") /\ UNCHANGED worker
            /\ UNCHANGED <<onDisk, errorFile, rest, timedOut, base, answer, overlapping>>
-----------------------------------------------------------------------------
(* The worker.                                                             *)

\* It ends of its own accord, and may leave processes.
Ends(f) == /\ worker[f] = "running"
           /\ worker' = [worker EXCEPT ![f] = "ended"]
           /\ \E left \in BOOLEAN : rest' = [rest EXCEPT ![f] = left]
           /\ UNCHANGED <<onDisk, errorFile, flightPc, timedOut, base, answer, overlapping>>

\* Faulty variant: the timer tells nobody.
Timer_NoKill(f) == /\ f \in Timed /\ flightPc[f] = "run" /\ ~timedOut[f]
                   /\ timedOut' = [timedOut EXCEPT ![f] = TRUE]
                   /\ UNCHANGED <<onDisk, errorFile, flightPc, worker, rest, base, answer, overlapping>>

\* The timer: SIGTERM, to the worker and no other process, once.
Timer(f) == /\ f \in Timed /\ flightPc[f] = "run" /\ ~timedOut[f]
            /\ timedOut' = [timedOut EXCEPT ![f] = TRUE]
            /\ worker' = [worker EXCEPT ![f] = IF @ = "running" THEN "told" ELSE @]
            /\ UNCHANGED <<onDisk, errorFile, flightPc, rest, base, answer, overlapping>>

\* A worker that was told ends, or runs on as if nothing had been said.
Obeys(f) == /\ worker[f] = "told" /\ f \in Obedient
            /\ worker' = [worker EXCEPT ![f] = "ended"]
            /\ \E left \in BOOLEAN : rest' = [rest EXCEPT ![f] = left]
            /\ UNCHANGED <<onDisk, errorFile, flightPc, timedOut, base, answer, overlapping>>

Ignores(f) == /\ worker[f] = "told" /\ f \notin Obedient
              /\ worker' = [worker EXCEPT ![f] = "running"]
              /\ UNCHANGED <<onDisk, errorFile, flightPc, rest, timedOut, base, answer, overlapping>>

\* "exit" resolves the wait, and the timer is cleared.
Exited(f) == /\ flightPc[f] = "run" /\ worker[f] = "ended"
             /\ worker' = [worker EXCEPT ![f] = "none"]
             /\ FlightGoto(f, "scan")
             /\ UNCHANGED <<onDisk, errorFile, rest, timedOut, base, answer, overlapping>>
-----------------------------------------------------------------------------
(* What it did.                                                            *)

\* Faulty variant: mtimes are not compared.
Same_HashOnly(a, b) == a.c = b.c \/ {a.c, b.c} \subseteq Big

\* Hashes, sizes and mtimes are compared; a big file has no hash.
Same(a, b) == a.t = b.t /\ (a.c = b.c \/ {a.c, b.c} \subseteq Big)

Violations(f) == {x \in Zone : ~Same(base[f][x], file[x])}

\* Faulty variant: a timeout hides what the worker did.
StatusOf_TimeoutFirst(f, broken, failed) ==
    IF timedOut[f] THEN "timeout"
    ELSE IF Violations(f) # {} THEN "forbidden_zone_violation"
    ELSE IF broken THEN "contract_violation"
    ELSE IF failed THEN "worker_failed" ELSE "success"

\* buildRuntimeExecResult
StatusOf(f, broken, failed) ==
    IF Violations(f) # {} THEN "forbidden_zone_violation"
    ELSE IF broken THEN "contract_violation"
    ELSE IF timedOut[f] THEN "timeout"
    ELSE IF failed THEN "worker_failed" ELSE "success"

Report(f, status, error) == answer' = [answer EXCEPT ![f] = [status |-> status, error |-> error]]

Forget(f) == /\ timedOut' = [timedOut EXCEPT ![f] = FALSE]
             /\ UNCHANGED <<worker, rest, base>>

\* detectForbiddenViolations; scanContractImports finds banned imports or none, the worker's code
\* was zero or not, and the result is put together.  A success leaves the error file as it is.
Scan(f) == /\ flightPc[f] = "scan"
           /\ \E broken, failed \in BOOLEAN :
                 /\ Report(f, StatusOf(f, broken, failed), Nothing)
                 /\ FlightGoto(f, IF StatusOf(f, broken, failed) = "success" THEN "done" ELSE "open")
           /\ Forget(f)
           /\ UNCHANGED <<onDisk, errorFile, overlapping>>

\* One of the scans throws: an error that knows nothing of violations.
ScanThrows(f) == /\ flightPc[f] = "scan"
                 /\ Report(f, "runtime_error", Nothing)
                 /\ FlightGoto(f, "open")
                 /\ Forget(f)
                 /\ UNCHANGED <<onDisk, errorFile, overlapping>>

\* Faulty variant: a timeout is not written to the error file.
OpenError_NotTimeout(f) ==
    /\ flightPc[f] = "open"
    /\ IF answer[f].status = "timeout" THEN errorFile' = errorFile /\ FlightGoto(f, "read")
                                       ELSE errorFile' = TornError /\ FlightGoto(f, "fill")
    /\ UNCHANGED <<onDisk, process, base, answer, overlapping>>

\* writeAgentErrorFile empties the file and fills it.
OpenError(f) == /\ flightPc[f] = "open"
                /\ errorFile' = TornError
                /\ FlightGoto(f, "fill")
                /\ UNCHANGED <<onDisk, process, base, answer, overlapping>>

FillError(f) == /\ flightPc[f] = "fill"
                /\ errorFile' = [by |-> f, status |-> answer[f].status]
                /\ FlightGoto(f, "read")
                /\ UNCHANGED <<onDisk, process, base, answer, overlapping>>

\* The command reads the file again.  One that does not parse is an error of the command's.
ReadError(f) == /\ flightPc[f] = "read" /\ f \notin Mcp
                /\ IF errorFile = TornError THEN Report(f, "command_error", Nothing)
                                              ELSE Report(f, answer[f].status, errorFile)
                /\ FlightGoto(f, "done")
                /\ UNCHANGED <<onDisk, errorFile, process, base, overlapping>>

\* An MCP server writes it once more and answers with what it wrote.
WriteAgain(f) == /\ flightPc[f] = "read" /\ f \in Mcp
                 /\ errorFile' = [by |-> f, status |-> answer[f].status]
                 /\ Report(f, answer[f].status, errorFile')
                 /\ FlightGoto(f, "done")
                 /\ UNCHANGED <<onDisk, process, base, overlapping>>
-----------------------------------------------------------------------------
ExecStep(f) == \/ Spawn(f) \/ Exited(f) \/ Scan(f)
               \/ ScanThrows(f) \/ OpenError(f) \/ FillError(f) \/ ReadError(f) \/ WriteAgain(f)
WorkerStep(f) == WorkerWrites(f) \/ Ends(f) \/ Obeys(f) \/ Ignores(f)
FlightNext == EditorWrites \/ \E f \in Flights : Begin(f) \/ ExecStep(f) \/ Timer(f) \/ WorkerStep(f)

\* The program runs on, timers fire, and a worker that obeys ends when told; no other worker need
\* ever end, and nobody need write anything.
FlightFairness == /\ \A f \in Flights : WF_flightVars(ExecStep(f))
                  /\ \A f \in Timed : WF_flightVars(Timer(f)) /\ WF_flightVars(Obeys(f))
FlightSpec == FlightInit /\ [][FlightNext]_flightVars /\ FlightFairness
-----------------------------------------------------------------------------
(* Properties.                                                             *)

Silent == {"success", "worker_failed", "timeout", "contract_violation"}
Answered(f) == flightPc[f] = "done" /\ answer[f].status \in Silent

\* A flight that reports no violation left every file of the zones as it had found it: one its
\* worker, or what that left running, wrote last is what it was, unless it was written after the
\* scan had seen it, or has no hash and kept its mtime.
ZonesAreKept ==
    \A f \in Flights, x \in Zone :
        Answered(f) /\ by[x] = f /\ <<f, x>> \notin seenLate =>
            \/ file[x] = base[f][x]
            \/ file[x].t = base[f][x].t /\ {file[x].c, base[f][x].c} \subseteq Big

\* What is reported with a failure is that failure, unless another flight overlapped this one; a
\* flight of an MCP server never reports another's.
ErrorIsItsOwn ==
    \A f \in Flights :
        flightPc[f] = "done" /\ answer[f].status \notin {"success", "command_error"} =>
                  answer[f].error = [by |-> f, status |-> answer[f].status] \/ (f \notin Mcp /\ f \in overlapping)

\* What a flight answers is true of the zones, and about itself.
FlightsAreTold == ZonesAreKept /\ ErrorIsItsOwn

\* A flight with a timeout comes back, whatever its worker does, if SIGTERM ends that worker.
TimeoutsEnd == \A f \in Timed \cap Obedient : flightPc[f] = "run" ~> flightPc[f] = "done"

\* "Kill executor after N milliseconds": it is told to end, and may ignore that.
TimeoutsKill == \A f \in Timed : flightPc[f] = "run" ~> flightPc[f] = "done"

\* docs/concepts/scope.md: runtime exec is a check of edit roots and forbidden zones.  No file out
\* of the zones is looked at.
EditRootsAreKept ==
    \A f \in Flights, x \in Outside :
        flightPc[f] = "done" /\ answer[f].status = "success" => by[x] # f
=============================================================================
