------------------------------ MODULE GateRun ------------------------------
(***************************************************************************)
(* The gate of gantry verify (packages/missions: gate-adapters/*,          *)
(* gate-log-writer.ts, gate.ts): a shell command whose output goes to a log*)
(* file, and which passes on exit code 0 when the text the mission asks for*)
(* is in the log.                                                          *)
(*                                                                         *)
(* The log is named after the mission: the gates of two verify processes   *)
(* have one file, each its own position in it.  Output comes in chunks.    *)
(***************************************************************************)
EXTENDS Naturals, Sequences, SequencesExt, FiniteSets

CONSTANTS Gates,
          Typed,     \* the gates of a tool adapter: it parses what it captured
          Chunks, Needle,     \* a chunk of output, and the one with the text looked for
          Hole,      \* what is between the end of a file and a write beyond it
          LogCap,    \* MAX_IO_BUFFER_BYTES: how much of a log is read, and of stdout captured
          MaxOutput  \* bound on the output of a gate

ASSUME CapAssumption == LogCap \in Nat \ {0}

VARIABLES gateLog,       \* the file
          gatePc, at,    \* at[g]: where g writes next
          stdout,    \* stdout[g]: what g has put out
          held,      \* its output is held open by a process it left running
          code,      \* its exit code is zero
          found,     \* the findings: "none", or why there are some
          overlapped \* history: gates that ran while another one did

gateVars == <<gateLog, gatePc, at, stdout, held, code, found, overlapped>>

GateInit == /\ gateLog = << >>
            /\ gatePc = [g \in Gates |-> "idle"] /\ at = [g \in Gates |-> 0]
            /\ stdout = [g \in Gates |-> << >>]
            /\ held = [g \in Gates |-> FALSE] /\ code = [g \in Gates |-> FALSE]
            /\ found = [g \in Gates |-> "running"]
            /\ overlapped = {}

GateGoto(g, step) == gatePc' = [gatePc EXCEPT ![g] = step]
Others(g) == {h \in Gates \ {g} : gatePc[h] \notin {"idle", "done"}}

\* Faulty variant: the log of the run before is not emptied.
GateStart_Keeps(g) == /\ gatePc[g] = "idle"
                      /\ GateGoto(g, "run")
                      /\ overlapped' = IF Others(g) = {} THEN overlapped ELSE overlapped \cup Others(g) \cup {g}
                      /\ UNCHANGED <<gateLog, at, stdout, held, code, found>>

\* createWriteStream with flags "w".
GateStart(g) == /\ gatePc[g] = "idle"
                /\ gateLog' = << >>
                /\ GateGoto(g, "run")
                /\ overlapped' = IF Others(g) = {} THEN overlapped ELSE overlapped \cup Others(g) \cup {g}
                /\ UNCHANGED <<at, stdout, held, code, found>>

\* In a file that another gate emptied since, a chunk lands beyond the end.
PutAt(g, c) == [i \in 1 .. IF Len(gateLog) > at[g] THEN Len(gateLog) ELSE at[g] + 1 |->
                  IF i = at[g] + 1 THEN c ELSE IF i <= Len(gateLog) THEN gateLog[i] ELSE Hole]

\* A chunk, of the command or of what it left running.
Output(g) == /\ gatePc[g] = "run" \/ held[g]
             /\ Len(stdout[g]) < MaxOutput
             /\ \E c \in Chunks : /\ stdout' = [stdout EXCEPT ![g] = Append(@, c)]
                                  /\ gateLog' = PutAt(g, c)
             /\ at' = [at EXCEPT ![g] = @ + 1]
             /\ UNCHANGED <<gatePc, held, code, found, overlapped>>

\* The command ends; its output may stay open.
GateExit(g) == /\ gatePc[g] = "run"
               /\ \E ok, open \in BOOLEAN : /\ code' = [code EXCEPT ![g] = ok]
                                            /\ held' = [held EXCEPT ![g] = open]
               /\ GateGoto(g, "exited")
               /\ UNCHANGED <<gateLog, at, stdout, found, overlapped>>

Release(g) == /\ held[g]
              /\ held' = [held EXCEPT ![g] = FALSE]
              /\ UNCHANGED <<gateLog, gatePc, at, stdout, code, found, overlapped>>

\* Faulty variant: the end of the command is waited for, not that of its output.
Closed_OnExit(g) == /\ gatePc[g] = "exited"
                    /\ GateGoto(g, "judge")
                    /\ UNCHANGED <<gateLog, at, stdout, held, code, found, overlapped>>

\* waitForChildClose: not "exit" but "close", when nobody holds the output.
Closed(g) == /\ gatePc[g] = "exited" /\ ~held[g]
             /\ GateGoto(g, "judge")
             /\ UNCHANGED <<gateLog, at, stdout, held, code, found, overlapped>>

LastPart(s) == IF Len(s) <= LogCap THEN s ELSE SubSeq(s, Len(s) - LogCap + 1, Len(s))
Truncated(g) == Len(stdout[g]) >= LogCap

\* What a tool's parser makes of its output: chunks are diagnostics, or nothing it can read.
Diagnostics(s) == {c \in ToSet(s) : c # Needle}

\* readGateLogAbs reads the end of a long log.
Matched(g) == Needle \in ToSet(LastPart(gateLog))

\* findingsFromRun
GateFinding(g) ==
        IF code[g] /\ Matched(g) THEN {"none"}
        ELSE IF g \notin Typed THEN {"failed"}
        ELSE IF Truncated(g) THEN {"truncated", "diagnostics and truncated"}
        ELSE {"unparseable"} \cup (IF Diagnostics(stdout[g]) = {} THEN {"failed"} ELSE {"diagnostics"})

\* evaluateGatePhase: a gate without findings passes.
JudgeGate(g) == /\ gatePc[g] = "judge"
                /\ \E v \in GateFinding(g) : found' = [found EXCEPT ![g] = v]
                /\ GateGoto(g, "done")
                /\ UNCHANGED <<gateLog, at, stdout, held, code, overlapped>>

GateNext == \E g \in Gates : \/ GateStart(g) \/ Output(g) \/ GateExit(g) \/ Release(g) \/ Closed(g) \/ JudgeGate(g)

GateSpec == GateInit /\ [][GateNext]_gateVars
-----------------------------------------------------------------------------
(* Properties.                                                             *)

Passed(g) == found[g] = "none"

\* A gate passes on its own output alone: it ended with 0, and the text is in the last part of
\* all that was put out, what its children wrote included.  Two gates at once are the exception.
GateIsItsOwn ==
    \A g \in Gates : gatePc[g] = "done" /\ g \notin overlapped =>
        (Passed(g) <=> code[g] /\ Needle \in ToSet(LastPart(stdout[g])))

\* ...without the exception: a gate can pass on what another one wrote.
PassIsItsOwn == \A g \in Gates : Passed(g) => Needle \in ToSet(stdout[g])
=============================================================================
