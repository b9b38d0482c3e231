------------------------------ MODULE LedgerLog ------------------------------
(***************************************************************************)
(* What the compliance ledger promises the commands that append to it:     *)
(* each repository has one log, which is only ever extended; a call that   *)
(* is answered "done" put one entry in the log of its repository; a call   *)
(* that is refused put none.  The one exception is a call git itself       *)
(* misinforms (`marred`): its entry is in the log and it does not know.    *)
(***************************************************************************)
EXTENDS Naturals, Sequences, SequencesExt

CONSTANTS Repos,     \* the clones and the shared remote
          Calls,     \* calls of appendLedgerEntry
          RepoOf     \* the repository each call appends to

VARIABLES log,       \* log[r]: the calls whose entries repository r holds, oldest first
          answer,    \* answer[c]: what call c has been told
          marred     \* the calls git misinformed

vars == <<log, answer, marred>>

Init == /\ log = [r \in Repos |-> << >>]
        /\ answer = [c \in Calls |-> "open"]
        /\ marred = {}

\* The entry of a call becomes part of the log, at its end.
Extend(c) == log' = [log EXCEPT ![RepoOf[c]] = Append(@, c)]

Record(c) == /\ answer[c] = "open"
             /\ Extend(c)
             /\ answer' = [answer EXCEPT ![c] = "recorded"]
             /\ UNCHANGED marred

\* Git records the entry and says it did not; the call tries again or is refused.
Mar(c) == /\ answer[c] = "open"
          /\ Extend(c)
          /\ marred' = marred \cup {c}
          /\ answer' \in {answer, [answer EXCEPT ![c] = "refused"]}

Done(c) == /\ answer[c] = "recorded"
           /\ answer' = [answer EXCEPT ![c] = "done"]
           /\ UNCHANGED <<log, marred>>

Refuse(c) == /\ answer[c] = "open"
             /\ answer' = [answer EXCEPT ![c] = "refused"]
             /\ UNCHANGED <<log, marred>>

Die(c) == /\ answer[c] \in {"open", "recorded"}
          /\ answer' = [answer EXCEPT ![c] = "dead"]
          /\ UNCHANGED <<log, marred>>

\* One repository takes over the log of another that continues its own.
Sync(r, s) == /\ IsPrefix(log[r], log[s])
              /\ log' = [log EXCEPT ![r] = log[s]]
              /\ UNCHANGED <<answer, marred>>

Next == \/ \E c \in Calls : Record(c) \/ Mar(c) \/ Done(c) \/ Refuse(c) \/ Die(c)
        \/ \E r, s \in Repos : Sync(r, s)

Spec == Init /\ [][Next]_vars
=============================================================================
