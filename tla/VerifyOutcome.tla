---------------------------- MODULE VerifyOutcome ----------------------------
(***************************************************************************)
(* What gantry verify leaves behind once a mission has been evaluated:     *)
(* the remediation feed with its circuit breaker, the row in the ledger    *)
(* and, for --break-glass, the audit (packages/missions:                   *)
(* remediation-pipeline.ts, finding-fingerprint.ts, payload.ts,            *)
(* break-glass.ts; src/cli/flows: verify-run.ts, verify-presenters.ts).    *)
(*                                                                         *)
(* The feed is one file for all missions.  It is read, and some steps later*)
(* replaced by a rename, by any number of processes, without a lock.       *)
(* VerifyRun models how a mission is evaluated; here that is a choice.     *)
(***************************************************************************)
EXTENDS Naturals, Sequences, SequencesExt, FiniteSets

CONSTANTS Procs,     \* verify processes
          Missions,
          Reports,   \* the sets of findings a failed phase can have
          RingCap,   \* DIGEST_RING_CAP
          Audited,   \* what a break-glass audit can name
          NoNote,    \* there is no gxt-bypass note
          NoRun,   \* a process is between two runs
          MaxRuns    \* bound on the runs

ASSUME RingAssumption == RingCap \in Nat \ {0}
ASSUME NoteAssumption == NoNote \notin Missions

VARIABLES feed,      \* NEXT_REMEDIATION.json: its mission, if it names one, and its digests
          rows,      \* the kinds of rows in the ledger
          notes,     \* notes[c]: the mission the gxt-bypass note on c is about
          auditCommit, \* there is an empty [GXT-AUDIT] commit
          started,   \* runs so far
          stage, cur,   \* cur[p]: what came of the run p is at
          ring,      \* ring[p]: the digests p read from the feed
          overtaken, \* history: processes since whose reading another one wrote the feed
          log        \* history: what was done to the feed, in order

outcomeVars == <<feed, rows, notes, auditCommit, started, stage, cur, ring, overtaken, log>>

Cleared == [msn |-> {}, ring |-> << >>]

\* What comes of evaluating a mission, or of --break-glass, which evaluates nothing.
Evaluations == [outcome : {"failed"}, m : Missions, report : Reports]
               \cup [outcome : {"passed", "init"}] \cup [outcome : {"bypass"}, m : Missions]

OutcomeInit == /\ feed = Cleared
               /\ rows = {}
               /\ notes = [c \in Audited |-> NoNote]
               /\ auditCommit = FALSE
               /\ stage = [p \in Procs |-> "idle"]
               /\ started = 0
               /\ cur = [p \in Procs |-> NoRun]
               /\ ring = [p \in Procs |-> << >>]
               /\ overtaken = {}
               /\ log = << >>

AtStage(p, step) == stage' = [stage EXCEPT ![p] = step]
EndRun(p) == AtStage(p, "idle") /\ cur' = [cur EXCEPT ![p] = NoRun]
-----------------------------------------------------------------------------
(* Findings.                                                               *)

\* Faulty variant: the key of a finding has its line.
DigestOf_Lines(report) == report

\* computeFindingsDigest: where a finding is by gate, file and rule, not by line; no order.
DigestOf(report) == {f.key : f \in report}

\* appendDigestToRing: the newest last, no digest twice.
RingWith(digests, d) ==
    LET others == IF d \in ToSet(digests) THEN SelectSeq(digests, LAMBDA e : e # d) ELSE digests
        whole == Append(others, d)
    IN SubSeq(whole, IF Len(whole) > RingCap THEN Len(whole) - RingCap + 1 ELSE 1, Len(whole))

\* Faulty variant: the ring is taken whichever mission the feed is of.
RingOf_AnyMission(m) == feed.ring

\* persistVerifyFailure: the ring of the feed, when the feed is this mission's.
RingOf(m) == IF feed.msn = {m} THEN feed.ring ELSE << >>
-----------------------------------------------------------------------------
(* A run.                                                                  *)

\* loadVerifyContext and the phases, or the break-glass path that skips them.
Evaluate(p) ==
    /\ stage[p] = "idle" /\ started < MaxRuns
    /\ started' = started + 1
    /\ \E e \in Evaluations :
          /\ cur' = [cur EXCEPT ![p] = e]
          /\ AtStage(p, CASE e.outcome = "failed" -> "read"
                          [] e.outcome = "passed" -> "ledger"
                          [] e.outcome = "init"   -> "initFailure"
                          [] e.outcome = "bypass" -> "audit")
    /\ UNCHANGED <<feed, rows, notes, auditCommit, ring, overtaken, log>>

\* settleRun: the feed as it is now.
ReadFeed(p) == /\ stage[p] = "read"
               /\ ring' = [ring EXCEPT ![p] = RingOf(cur[p].m)]
               /\ AtStage(p, "persist")
               /\ UNCHANGED <<feed, rows, notes, auditCommit, started, cur, overtaken, log>>

\* What is kept of a run when it writes the feed; clean is set by the swap.
Failure(p, recurred) == [outcome |-> "failed", m |-> cur[p].m, report |-> cur[p].report,
                         recurred |-> recurred, clean |-> TRUE]
NoFailure(outcome) == [outcome |-> outcome, recurred |-> FALSE, clean |-> TRUE]

\* writeBestEffort: the swap may fail, and nobody is told.
SwapFeed(p, to, entry) ==
        \E ok \in BOOLEAN :
           /\ feed' = IF ok THEN to ELSE feed
           /\ overtaken' = (IF ok THEN overtaken \cup {q \in Procs : stage[q] = "persist"}
                                  ELSE overtaken) \ {p}
           /\ log' = Append(log, [entry EXCEPT !.clean = ok /\ p \notin overtaken])

Persist(p) ==
    /\ stage[p] = "persist"
    /\ LET d == DigestOf(cur[p].report)
           recurred == d \in ToSet(ring[p])
       IN SwapFeed(p, [msn |-> {cur[p].m}, ring |-> IF recurred THEN ring[p] ELSE RingWith(ring[p], d)],
                   Failure(p, recurred))
    /\ ring' = [ring EXCEPT ![p] = << >>]
    /\ AtStage(p, "ledger")
    /\ UNCHANGED <<rows, notes, auditCommit, started, cur>>

\* appendLedgerIfEnabled: a row, or a warning.  A failed run ends here.
Row(kind) == rows' = rows \cup {kind} \/ UNCHANGED rows

Ledger(p) == /\ stage[p] = "ledger"
             /\ IF cur[p].outcome = "failed"
                THEN Row("verify_findings") /\ EndRun(p)
                ELSE Row("receipt") /\ AtStage(p, "export") /\ UNCHANGED cur
             /\ UNCHANGED <<feed, notes, auditCommit, started, ring, overtaken, log>>

\* --export, after the row: an error makes the run an init failure.
Export(p) == /\ stage[p] = "export"
             /\ \E next \in {"clear", "initFailure"} : AtStage(p, next)
             /\ UNCHANGED <<feed, rows, notes, auditCommit, started, cur, ring, overtaken, log>>

\* clearRemediationSnapshot: a pass of any mission.
ClearFeed(p) == /\ stage[p] = "clear"
                /\ SwapFeed(p, Cleared, NoFailure("passed"))
                /\ EndRun(p)
                /\ UNCHANGED <<rows, notes, auditCommit, started, ring>>

\* persistedInitFailure: a feed that names no mission.
InitFailure(p) == /\ stage[p] = "initFailure"
                  /\ SwapFeed(p, [msn |-> {}, ring |-> <<{"init"}>>], NoFailure("init"))
                  /\ EndRun(p)
                  /\ UNCHANGED <<rows, notes, auditCommit, started, ring>>

RunCrash(p) == /\ stage[p] # "idle"
               /\ EndRun(p)
               /\ ring' = [ring EXCEPT ![p] = << >>]
               /\ overtaken' = overtaken \ {p}
               /\ UNCHANGED <<feed, rows, notes, auditCommit, started, log>>
-----------------------------------------------------------------------------
(* --break-glass.                                                          *)

\* Not authorised, no such commit, or git notes failed: exit 2, and no row.
AuditFails(p) == /\ stage[p] = "audit"
                 /\ EndRun(p)
                 /\ UNCHANGED <<feed, rows, notes, auditCommit, started, ring, overtaken, log>>

\* git notes add -f: in place of the note that is there.
Note(p) == /\ \E c \in Audited : notes' = [notes EXCEPT ![c] = cur[p].m]
           /\ UNCHANGED auditCommit

\* --audit-commit
CommitAudit(p) == auditCommit' = TRUE /\ UNCHANGED notes

\* runBreakGlassAudit
Audit(p) == /\ stage[p] = "audit"
            /\ Note(p) \/ CommitAudit(p)
            /\ AtStage(p, "row")
            /\ UNCHANGED <<feed, rows, started, cur, ring, overtaken, log>>

BypassRow(p) == /\ stage[p] = "row"
                /\ Row("break_glass")
                /\ EndRun(p)
                /\ UNCHANGED <<feed, notes, auditCommit, started, ring, overtaken, log>>

OutcomeNext == \E p \in Procs :
                  \/ Evaluate(p) \/ ReadFeed(p) \/ Persist(p) \/ Ledger(p) \/ Export(p) \/ ClearFeed(p)
                  \/ InitFailure(p) \/ RunCrash(p) \/ AuditFails(p) \/ Audit(p) \/ BypassRow(p)

OutcomeSpec == OutcomeInit /\ [][OutcomeNext]_outcomeVars
-----------------------------------------------------------------------------
(* Properties.                                                             *)

\* Two failures that differ in nothing but lines.
SameFailure(i, j) == /\ log[i].outcome = "failed" /\ log[j].outcome = "failed"
                     /\ log[i].m = log[j].m
                     /\ {f.key : f \in log[i].report} = {f.key : f \in log[j].report}
Between(i, j) == {k \in DOMAIN log : i < k /\ k < j}
OtherFailures(i, j) == {{f.key : f \in log[k].report} : k \in {k \in Between(i, j) : ~SameFailure(i, k)}}
FailuresOnly(i, j) == \A k \in Between(i, j) : log[k].outcome = "failed" /\ log[k].m = log[i].m

\* The breaker stops a loop: a failure that was not stopped and comes back, at whatever lines, is
\* stopped, when since then that mission alone was verified, it never passed, fewer other failures
\* than the ring holds were seen, and every feed was written and none overtaken.
LoopsAreStopped ==
    \A j \in DOMAIN log : \A i \in 1 .. j - 1 :
           /\ SameFailure(i, j) /\ ~log[i].recurred
           /\ \A k \in i .. j : log[k].clean
           /\ FailuresOnly(i, j)
           /\ Cardinality(OtherFailures(i, j)) < RingCap
        => log[j].recurred

\* It stops nothing else: a run stopped for a recurrence had the same failure of the same mission
\* before, whatever ran beside it; and since that failure there was neither a pass nor another
\* mission's feed, unless a feed was overtaken or not written.
StopsOnlyLoops ==
    \A j \in DOMAIN log : log[j].recurred =>
        \E i \in 1 .. j - 1 : /\ SameFailure(i, j)
                              /\ (\A k \in 1 .. j : log[k].clean) => FailuresOnly(i, j)

\* The circuit breaker of remediation-pipeline.ts: it stops a loop, and it stops nothing else.
BreakerIsExact == LoopsAreStopped /\ StopsOnlyLoops

\* ADR-0040: on each failed verify of a mission a digest already in its ring stops the loop, and
\* only a PASS clears the ring.  The one feed is every mission's: a failure of another one, or an
\* error before the phases, empties it as a pass does.
OnlyPassesForget ==
    LET its(i, j) == {k \in Between(i, j) : log[k].outcome = "failed" /\ log[k].m = log[i].m}
        others(i, j) == {{f.key : f \in log[k].report} : k \in {k \in its(i, j) : ~SameFailure(i, k)}}
    IN  \A j \in DOMAIN log : \A i \in 1 .. j - 1 :
           /\ SameFailure(i, j) /\ ~log[i].recurred
           /\ \A k \in i .. j : log[k].clean
           /\ \A k \in Between(i, j) : log[k].outcome # "passed"
           /\ Cardinality(others(i, j)) < RingCap
        => log[j].recurred

\* A break_glass row in the ledger is never the only trace of a bypass: the audit came before it.
RowsAreAudited ==
    "break_glass" \in rows => auditCommit \/ \E c \in Audited : notes[c] # NoNote

\* ADR-0021: the notes are the immutable ledger of bypasses.  git notes add -f replaces one.
NotesAreKept == [][\A c \in Audited : notes[c] # NoNote => notes'[c] = notes[c]]_outcomeVars
=============================================================================
