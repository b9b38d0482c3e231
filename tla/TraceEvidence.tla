---------------------------- MODULE TraceEvidence ----------------------------
(***************************************************************************)
(* Trace rows (packages/missions: trace-quote.ts, trace-evidence.ts,       *)
(* executor-log-line-map.ts, mission-verify/phase-steps.ts): a PASS row    *)
(* quotes a line of EXECUTOR_LOG.md.  verify looks the quote up, at the    *)
(* line that the row names or, when lines were added above it, at the only *)
(* line that has it; then it asks which commit the line is from and        *)
(* whether the roots of the skill have changed since.                      *)
(*                                                                         *)
(* A line is the set of the texts in it: a quote or a freeform anchor is a *)
(* text; a row that has a freeform anchor names line 0.  The content under the roots is a version number.  verify's three *)
(* reads (the log, git blame, git diff) are one step.                      *)
(***************************************************************************)
EXTENDS Naturals, Sequences, FiniteSets, FiniteSetsExt, SequencesExt

CONSTANTS Texts,       \* quotes, and timestamps that anchor them
          Placeholder, \* the quote of a row that was only legislated
          Blank,       \* an empty quote
          Lines,       \* what the executor may log: sets of texts
          Rows,        \* trace rows that the executor may write
          Tables,      \* numbers of trace rows
          HasRoots,    \* does the skill of the mission have roots?
          MaxVersion,  \* bound on the content under the roots
          MaxLines, MaxHistory, MaxSteps  \* bounds on the log, the history and the edits

ASSUME TextsAssumption == {Placeholder, Blank} \cap Texts = {} /\ Placeholder # Blank /\ \A l \in Lines : l \subseteq Texts
ASSUME TraceAssumption == {MaxVersion, MaxLines, MaxHistory, MaxSteps} \subseteq Nat /\ Tables \subseteq Nat

VARIABLES source,   \* the content under the roots, in the working tree
          log,      \* EXECUTOR_LOG.md: each line with its commit, 0 while it has none
          history,  \* the content under the roots in each commit
          rows,     \* the trace rows of the mission
          traced,  \* what verify answered, when it was the last step
          steps     \* counter for the bound

traceVars == <<source, log, history, rows, traced, steps>>

NoLog == << >>
NotVerified == [kind |-> "none"]

\* buildLegislativeTraceRows
Legislated == [dod |-> 1, quote |-> Placeholder, line |-> 1, text |-> Blank, status |-> "PENDING"]

TraceInit == /\ source = 0 /\ log = NoLog /\ history = <<0>>
             /\ \E n \in Tables : rows = [k \in 1 .. n |-> [Legislated EXCEPT !.dod = k]]
             /\ traced = NotVerified /\ steps = 0
-----------------------------------------------------------------------------
(* The executor.                                                           *)

Step == steps < MaxSteps /\ steps' = steps + 1 /\ traced' = NotVerified

EditSource(version) == /\ Step /\ version # source /\ source' = version
                       /\ UNCHANGED <<log, history, rows>>

AppendLine(line) == /\ Step /\ Len(log) < MaxLines /\ log' = Append(log, [has |-> line, from |-> 0])
                    /\ UNCHANGED <<source, history, rows>>

\* Lines move: something is written above them, or the log is started anew.
PrependLine(line) == /\ Step /\ Len(log) < MaxLines /\ log' = <<[has |-> line, from |-> 0]>> \o log
                     /\ UNCHANGED <<source, history, rows>>
Restart == /\ Step /\ log # NoLog /\ log' = NoLog
           /\ UNCHANGED <<source, history, rows>>

WriteRow(k, row) == /\ Step /\ rows[k] # row /\ rows' = [rows EXCEPT ![k] = row]
                    /\ UNCHANGED <<source, log, history>>

CommitLog == /\ Len(history) < MaxHistory /\ traced' = NotVerified
             /\ history' = Append(history, source)
             /\ LET stamped(l) == [l EXCEPT !.from = IF @ = 0 THEN Len(history) + 1 ELSE @]
                IN  log' = [n \in DOMAIN log |-> stamped(log[n])]
             /\ UNCHANGED <<source, rows, steps>>
-----------------------------------------------------------------------------
(* isLegislativeStub: nothing but placeholders is claimed.                 *)

PassRows == {k \in DOMAIN rows : rows[k].status = "PASS"}
PendingRows == {k \in DOMAIN rows : rows[k].status = "PENDING"}
AllPlaceholders(set) == \A k \in set : rows[k].quote = Placeholder

IsStub == /\ AllPlaceholders(PassRows)
          /\ \/ PendingRows # {} /\ AllPlaceholders(PendingRows)
             \/ PassRows # {}
             \/ PendingRows = {}
-----------------------------------------------------------------------------
(* trace-quote.ts                                                          *)

LinesWith(text) == {n \in DOMAIN log : text \in log[n].has}   \* quoteLineNumbers
IsNumeric(row) == row.line # 0
Exact(row) == row.line \in LinesWith(row.quote)
Anchored(row) == LinesWith(row.quote) \cap LinesWith(row.text)

\* missingQuoteKind
Missing(row) == IF row.quote = Placeholder THEN "placeholder_quote" ELSE "quote_missing"

\* resolveDriftFromMap: one line with the quote is taken for the one that was meant.
Drift(row) == IF Cardinality(LinesWith(row.quote)) > 1 THEN "ambiguous" ELSE "drifted"

\* verifyTraceRows, of one PASS row: --strict-trace refuses a line that moved, --fuzzy-trace overrides it.
Trace(row, strict, fuzzy) ==
    CASE row.quote = Blank -> "empty_quote"
      [] row.quote # Blank /\ LinesWith(row.quote) = {} -> Missing(row)
      [] row.quote # Blank /\ LinesWith(row.quote) # {} /\ IsNumeric(row) ->
             IF Exact(row) THEN "ok" ELSE IF strict /\ ~fuzzy THEN "strict_line_drift" ELSE Drift(row)
      [] row.quote # Blank /\ LinesWith(row.quote) # {} /\ ~IsNumeric(row) ->
             IF Anchored(row) = {} THEN "anchor_mismatch" ELSE "ok"

\* Faulty variant: the line that the row names, wherever the quote is.
Resolved_Declared(row) == IF row.line \in DOMAIN log THEN row.line ELSE Min(LinesWith(row.quote))

\* resolveQuoteLineNumber
Resolved(row) == IF ~IsNumeric(row) THEN Min(Anchored(row))
                 ELSE IF Exact(row) THEN row.line ELSE Min(LinesWith(row.quote))

\* buildResolvedQuoteLines: what was found for a row that drifted is kept by its dod_id, the last one's
\* for all of the same id.
ResolvedLine(k, strict, fuzzy) ==
    LET drifted == {d \in PassRows : rows[d].dod = rows[k].dod /\ Trace(rows[d], strict, fuzzy) = "drifted"}
    IN  IF drifted = {} THEN Resolved(rows[k]) ELSE Resolved(rows[Max(drifted)])
-----------------------------------------------------------------------------
(* trace-evidence.ts                                                       *)

\* Faulty variant: the content is compared with the commit that the last line is from.
Stale_Newest(n) == /\ HasRoots /\ log[n].from # 0
                   /\ history[Max({log[m].from : m \in DOMAIN log})] # source

\* verifyTraceEvidenceFreshness: git blame of the line, git diff of the roots against the working tree;
\* a line without a commit and a skill without roots are not asked.
Stale(n) == HasRoots /\ log[n].from # 0 /\ history[log[n].from] # source

\* evaluateTracePhase, the first failure; without rows, and before the executor's evidence, there is
\* nothing to judge here.
Answer(strict, fuzzy, skip) ==
    LET traces == {Trace(rows[k], strict, fuzzy) : k \in PassRows}
        stale == {k \in PassRows : Stale(ResolvedLine(k, strict, fuzzy))}
    IN  IF PendingRows # {} THEN [kind |-> "pending"]
        ELSE IF log = NoLog /\ PassRows # {} THEN [kind |-> "executor_log_missing"]
        ELSE IF traces \subseteq {"ok", "drifted"} /\ (skip \/ stale = {}) THEN [kind |-> "ok", skip |-> skip]
        ELSE IF traces \subseteq {"ok", "drifted"} THEN [kind |-> "stale_evidence"]
        ELSE [kind |-> "trace"]

\* A mission without rows is judged by its run record; before a push one that claims nothing passes.
VerifyTrace(strict, fuzzy, skip, prePush) ==
         /\ rows # << >>
         /\ traced' = IF prePush /\ IsStub THEN [kind |-> "pre_push_stub"] ELSE Answer(strict, fuzzy, skip)
         /\ UNCHANGED <<source, log, history, rows, steps>>
-----------------------------------------------------------------------------
TraceNext == \/ \E v \in 0 .. MaxVersion : EditSource(v)
             \/ \E l \in Lines : AppendLine(l) \/ PrependLine(l)
             \/ Restart
             \/ \E k \in DOMAIN rows, row \in Rows : WriteRow(k, row)
             \/ CommitLog
             \/ \E strict, fuzzy, skip, prePush \in BOOLEAN : VerifyTrace(strict, fuzzy, skip, prePush)

TraceSpec == TraceInit /\ [][TraceNext]_traceVars
-----------------------------------------------------------------------------
\* The line that a PASS row quotes: the one that it names, the only one that has the quote, or one with
\* its timestamp.
Quoted(row) == IF ~IsNumeric(row) THEN Anchored(row)
               ELSE IF Exact(row) THEN {row.line}
               ELSE {n \in LinesWith(row.quote) : LinesWith(row.quote) = {n}}

IsFresh(n) == log[n].from = 0 \/ history[log[n].from] = source

\* RULES.md, stale evidence: a verification that passes has, for each PASS row, a line of the log with
\* the row's quote that is not committed yet or was committed with the content that the roots have now -
\* wherever the line has moved since the row was written (resolveQuoteLineNumber,
\* verifyTraceEvidenceFreshness).  Asked of rows whose dod_id no other row has.
TraceIsFresh ==
    traced.kind = "ok" /\ ~traced.skip /\ HasRoots =>
       \A k \in PassRows : (\A d \in PassRows \ {k} : rows[d].dod # rows[k].dod) =>
                               \E n \in Quoted(rows[k]) : IsFresh(n)

\* The same of every row: false where two rows have one dod_id.
EveryTraceIsFresh ==
    traced.kind = "ok" /\ ~traced.skip /\ HasRoots => \A k \in PassRows : \E n \in Quoted(rows[k]) : IsFresh(n)
=============================================================================
