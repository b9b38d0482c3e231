----------------------------- MODULE LedgerChain -----------------------------
(***************************************************************************)
(* The compliance ledger (packages/plane: ledger-append.ts, ledger-chain.ts*)
(* and the push and fetch of src/cli/commands/ledger.ts).  The ledger of a *)
(* repository is the git ref refs/gxt/ledger: a line of commits, one entry *)
(* each, every entry carrying the hash of the one before it.  Commands in  *)
(* separate processes append to it with no lock: each reads the tip, makes *)
(* a commit on top of it and moves the ref with a compare-and-swap,        *)
(* retrying a bounded number of times.                                     *)
(*                                                                         *)
(* A commit names its whole history, so it is modelled as the sequence of  *)
(* the entries from the first to its own.  A repository is a clone or the  *)
(* remote "origin"; push and fetch move a ref forward only.                *)
(***************************************************************************)
EXTENDS Naturals, Sequences, FiniteSets, SequencesExt

CONSTANTS Clones,       \* repositories commands run in
          Origin,       \* the remote the clones push to and fetch from
          Calls,        \* calls of appendLedgerEntry, each in a process of its own
          RepoOf,       \* the clone each call appends to
          Genesis,      \* the hash the first entry carries
          MaxAttempts,  \* LEDGER_CAS_MAX_ATTEMPTS
          MaxFaults     \* bound on the git commands that fail

ASSUME CallsAssumption == RepoOf \in [Calls -> Clones]
ASSUME OriginAssumption == Origin \notin Clones
ASSUME AttemptsAssumption == MaxAttempts \in Nat \ {0}
ASSUME FaultsAssumption == MaxFaults \in Nat

VARIABLES ref,          \* ref[r]: the commit refs/gxt/ledger names in r, << >> when there is none
          pc,           \* pc[c]: where call c is in appendLedgerEntry
          attempt,      \* attempt[c]: its failed attempts
          tip,          \* tip[c]: the tip it read in this attempt
          marred,       \* the calls told that a swap failed which had taken place
          startLen,     \* history: the length of the ledger when the call began
          hit           \* history: the git failures each call met

Repos == Clones \cup {Origin}
Entries == [by : Calls, try : Nat, prev : {Genesis} \cup (Calls \X Nat)]
Chains == Seq(Entries)

\* entryHash: SHA-256 of the entry, which its call and attempt tell apart from every other.
EntryHash(e) == <<e.by, e.try>>

\* prev_entry_hash of an entry that follows `chain`.
NextPrev(chain) == IF chain = << >> THEN Genesis ELSE EntryHash(chain[Len(chain)])

Working == {"read", "tip"}
Places == {"call", "landed", "done", "exhausted", "broken", "dead"} \cup Working

TypeOK == /\ ref \in [Repos -> Chains]
          /\ pc \in [Calls -> Places]
          /\ attempt \in [Calls -> 0 .. MaxAttempts]
          /\ \A c \in Calls : pc[c] \in Working \cup {"call"} => attempt[c] < MaxAttempts
          /\ tip \in [Calls -> Chains]
          /\ marred \subseteq Calls
          /\ startLen \in [Calls -> Nat]
          /\ hit \in [Calls -> Nat]

vars == <<ref, pc, attempt, tip, marred, startLen, hit>>

Init == /\ ref = [r \in Repos |-> << >>]
        /\ pc = [c \in Calls |-> "call"]
        /\ attempt = [c \in Calls |-> 0]
        /\ tip = [c \in Calls |-> << >>]
        /\ marred = {}
        /\ startLen = [c \in Calls |-> 0]
        /\ hit = [c \in Calls |-> 0]

Goto(c, place) == pc' = [pc EXCEPT ![c] = place]

\* A git command of call c fails.
Fault(c) == /\ FoldFunction(+, 0, hit) < MaxFaults
            /\ hit' = [hit EXCEPT ![c] = @ + 1]
-----------------------------------------------------------------------------
(* One call of appendLedgerEntry.                                          *)

Call(c) == /\ pc[c] = "call"
           /\ Goto(c, "read")
           /\ startLen' = [startLen EXCEPT ![c] = Len(ref[RepoOf[c]])]
           /\ UNCHANGED <<ref, attempt, tip, marred, hit>>

ReadTip(c) == /\ pc[c] = "read"
              /\ tip' = [tip EXCEPT ![c] = ref[RepoOf[c]]]
              /\ Goto(c, "tip")
              /\ UNCHANGED <<ref, attempt, marred, startLen, hit>>

\* gitRevParse answers null when git fails, as it does when there is no ref.
ReadTipFails(c) == /\ pc[c] = "read"
                   /\ ref[RepoOf[c]] # << >>
                   /\ Fault(c)
                   /\ tip' = [tip EXCEPT ![c] = << >>]
                   /\ Goto(c, "tip")
                   /\ UNCHANGED <<ref, attempt, marred, startLen>>

\* readLedgerEntryAt, buildLedgerEntry, commitLedgerEntry: the commit on top of the tip, whose
\* objects no other process sees before the ref names it.
NewCommit(c) == Append(tip[c], [by |-> c, try |-> attempt[c], prev |-> NextPrev(tip[c])])

\* The call leaves the attempt, and what it read in it, behind.
Leave(c, place) == /\ Goto(c, place)
                   /\ tip' = [tip EXCEPT ![c] = << >>]

\* Faulty variant: a tip that cannot be read counts as an empty ledger.
BuildFails_Genesis(c) ==
    /\ pc[c] = "tip"
    /\ Fault(c)
    /\ ref[RepoOf[c]] = tip[c]
    /\ ref' = [ref EXCEPT ![RepoOf[c]] =
                 Append(@, [by |-> c, try |-> attempt[c], prev |-> Genesis])]
    /\ Leave(c, "landed")
    /\ UNCHANGED <<attempt, marred, startLen>>

\* An unreadable tip, or a commit git cannot make (LEDGER_CHAIN_BROKEN).
BuildFails(c) == /\ pc[c] = "tip"
                 /\ Fault(c)
                 /\ Leave(c, "broken")
                 /\ UNCHANGED <<ref, attempt, marred, startLen>>

\* Faulty variant: one attempt too few.
Retry_TooFew(c) == /\ attempt' = [attempt EXCEPT ![c] = @ + 1]
                   /\ Leave(c, IF attempt[c] + 2 < MaxAttempts THEN "read" ELSE "exhausted")

\* The swap is reported as failed: the next attempt, or LEDGER_CAS_EXHAUSTED.
Retry(c) == /\ attempt' = [attempt EXCEPT ![c] = @ + 1]
            /\ Leave(c, IF attempt[c] + 1 < MaxAttempts THEN "read" ELSE "exhausted")

\* Faulty variant: git update-ref without the value that the ref must still have.
Swap_Blind(c) == ref' = [ref EXCEPT ![RepoOf[c]] = NewCommit(c)]

\* git update-ref, given the value the ref must still have.
Swap(c) == /\ ref[RepoOf[c]] = tip[c]
           /\ ref' = [ref EXCEPT ![RepoOf[c]] = NewCommit(c)]

Cas(c) == /\ pc[c] = "tip"
          /\ \/ Swap(c) /\ Leave(c, "landed") /\ UNCHANGED attempt
             \/ ref[RepoOf[c]] # tip[c] /\ Retry(c) /\ UNCHANGED ref
          /\ UNCHANGED <<marred, startLen, hit>>

\* git update-ref fails for another reason: the ref is locked, a hook refuses.
CasFails(c) == /\ pc[c] = "tip"
               /\ Fault(c)
               /\ Retry(c)
               /\ UNCHANGED <<ref, marred, startLen>>

\* git moves the ref and is killed before it can say so.
CasUnreported(c) == /\ pc[c] = "tip"
                    /\ Fault(c)
                    /\ Swap(c)
                    /\ Retry(c)
                    /\ marred' = marred \cup {c}
                    /\ UNCHANGED startLen

Return(c) == /\ pc[c] = "landed"
             /\ Goto(c, "done")
             /\ UNCHANGED <<ref, attempt, tip, marred, startLen, hit>>

\* The process ends; a commit no ref names is garbage.
Crash(c) == /\ pc[c] \in Working \cup {"landed"}
            /\ Leave(c, "dead")
            /\ UNCHANGED <<ref, attempt, marred, startLen, hit>>
-----------------------------------------------------------------------------
(* gantry ledger push and gantry ledger fetch.                             *)

\* Faulty variant: a forced update.
FastForward_Forced(from, to) == /\ ref[from] # << >>
                                /\ ref' = [ref EXCEPT ![to] = ref[from]]
                                /\ UNCHANGED <<pc, attempt, tip, marred, startLen, hit>>

\* refs/gxt/ledger of `to` moves to that of `from` when that is a fast-forward.
FastForward(from, to) == /\ ref[from] # << >>
                         /\ IsPrefix(ref[to], ref[from])
                         /\ ref' = [ref EXCEPT ![to] = ref[from]]
                         /\ UNCHANGED <<pc, attempt, tip, marred, startLen, hit>>

Push(r) == FastForward(r, Origin)
Fetch(r) == FastForward(Origin, r)

CallStep(c) == \/ Call(c) \/ ReadTip(c) \/ ReadTipFails(c) \/ BuildFails(c)
               \/ Cas(c) \/ CasFails(c) \/ CasUnreported(c) \/ Return(c) \/ Crash(c)

Next == \/ \E c \in Calls : CallStep(c)
        \/ \E r \in Clones : Push(r) \/ Fetch(r)

Spec == Init /\ [][Next]_vars
-----------------------------------------------------------------------------
(* Properties.                                                             *)

\* verifyLedgerChain finds nothing wrong with a chain.
ChainOK(chain) ==
    \A i \in 1 .. Len(chain) :
        chain[i].prev = IF i = 1 THEN Genesis ELSE EntryHash(chain[i - 1])

\* Every ledger, in every clone and at the remote, verifies at every moment: however appends,
\* git failures, crashes, pushes and fetches interleave, each entry carries the hash of the
\* one before it.
Linked == \A r \in Repos : ChainOK(ref[r])

EntriesOf(r, c) == {i \in 1 .. Len(ref[r]) : ref[r][i].by = c}

\* What the caller of appendLedgerEntry is told is what happened, unless git itself misinformed
\* the call: an entry that was returned is in the ledger exactly once, for good; a call that
\* threw left none; a call whose process died left one or none.
AnswerIsTrue ==
    \A c \in Calls \ marred :
        LET n == Cardinality(EntriesOf(RepoOf[c], c)) IN
        /\ pc[c] \in {"landed", "done"} => n = 1
        /\ pc[c] = "dead" => n <= 1
        /\ pc[c] \notin {"landed", "done", "dead"} => n = 0

\* The ledger is what it says: whole, and with the entries that its callers were promised.
LedgerStands == Linked /\ AnswerIsTrue

\* A call gives up (LEDGER_CAS_EXHAUSTED) only after the ledger grew, or git failed, as often
\* as it tried: appenders that only compete with each other cannot all be refused, and with no
\* git failure a call competing with fewer than MaxAttempts others always gets through.
GivesUpOvertaken ==
    \A c \in Calls :
        pc[c] = "exhausted" => MaxAttempts + startLen[c] <= Len(ref[RepoOf[c]]) + hit[c]

\* Whose entries a chain holds, and what a call at `place` has been told.
By(chain) == [i \in 1 .. Len(chain) |-> chain[i].by]
AnswerAt(place) == CASE place \in Working \cup {"call"}    -> "open"
                     [] place = "landed"                   -> "recorded"
                     [] place \in {"exhausted", "broken"}  -> "refused"
                     [] place \in {"done", "dead"}         -> place

\* Reading the tip, committing on top of it and moving the ref by compare-and-swap implements
\* the append-only log of LedgerLog: no repository's ledger ever loses or reorders an entry.
LL == INSTANCE LedgerLog WITH log <- [r \in Repos |-> By(ref[r])],
                              answer <- [c \in Calls |-> AnswerAt(pc[c])]
ImplementsLedgerLog == LL!Spec
=============================================================================
