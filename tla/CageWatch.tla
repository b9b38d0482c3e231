------------------------------ MODULE CageWatch ------------------------------
(***************************************************************************)
(* `gantry cage watch`: the decision engine of cage-watch-decisions.ts and *)
(* the loop of cage-watch-run.ts that drives it, for a plan without scope. *)
(*                                                                         *)
(* Three parties act on the files.  The agent (any process of the user)    *)
(* writes at any moment, also between two file operations of one handler,  *)
(* and can make a path unrestorable.  The operator reads the prompt on the *)
(* screen and presses a key, which the terminal hands to the event loop    *)
(* later.  The watch runs one handler at a time: tick(), answer(key) or    *)
(* stop().  A handler is cut into steps wherever it goes back to the disk; *)
(* what it does in memory between two such points is one step.             *)
(*                                                                         *)
(* A definition whose name has an underscore is a faulty variant of the    *)
(* one that follows it, and no part of the specification: README.md says   *)
(* which property each of them breaks.                                     *)
(***************************************************************************)
EXTENDS CageFiles

CONSTANTS
  ReportPaths,     \* paths whose rule only reports (lockfiles, mode: report)
  TooBig,          \* entries over maxFileBytes, which accept cannot hold
  Start,           \* the protected set when the watch starts
  Unshown,         \* undefined: not shown to the operator yet
  Timeout,         \* decisionTimeoutMs, in units of the clock
  RejectLimit,     \* CAGE_WATCH_REJECT_LIMIT
  Written,         \* what the agent may write to each path
  Blockable,       \* paths the agent can make unrestorable
  JournalCanFail   \* whether writing the journal may throw

ASSUME WatchAssumption ==
  /\ ReportPaths \subseteq Paths
  /\ TooBig \subseteq Entry \ {None}
  /\ Start \in Snapshot
  /\ \A p \in Paths \ ReportPaths : Start[p] \notin TooBig
  /\ Unshown \notin Shas \cup {None} /\ None \notin {"a", "r"}
  /\ Timeout \in Nat \ {0}
  /\ RejectLimit \in Nat \ {0}
  /\ Written \in [Paths -> SUBSET Entry]
  /\ Blockable \subseteq Paths
  /\ JournalCanFail \in BOOLEAN

VARIABLES
  disk,       \* the files
  blocked,    \* paths whose restore throws (read-only directory, ...)
  quiet,      \* the agent has stopped for good
  baseline,   \* input.baseline.entries
  journal,    \* the entries of the manifest last written
  pending,    \* keys of the Map `pending`
  older,      \* its insertion order: <<p, q>> when p was queued before q
  ask,        \* its values: sha, shownSha and the time left to the deadline
  rejects,    \* counted rejections, up to RejectLimit
  contested,  \* paths restored without asking
  accepted,   \* paths with a decision "accepted"
  restored,   \* some decision has another outcome
  kept,       \* report-mode paths seen changed
  pc,         \* the handler that runs and where it is
  scan,       \* the snapshot the running handler works from
  todo,       \* changes of that snapshot not handled yet
  screen,     \* the question last printed
  key,        \* the key in the terminal's buffer, None if there is none
  prompted,   \* history: the digests shown for each path
  late        \* history: the agent acted after stop() began

files   == <<disk, blocked, quiet>>
asking  == <<pending, older, ask>>
counts  == <<rejects, contested>>
summary == <<accepted, restored, kept>>
loop    == <<pc, scan, todo>>
term    == <<screen, key, prompted>>
vars    == <<files, baseline, journal, asking, counts, summary, loop, term, late>>

Watched  == Paths \ ReportPaths
Digest   == Shas \cup {None}
Question == [path : Paths, sha : Digest]
NoQuestion == None
Key      == {"a", "r"}
Asked    == [sha : Digest, shown : Digest \cup {Unshown}, left : 0 .. Timeout]
Handlers == {"idle", "observe", "expire", "reject", "leftover", "stopped"}

NotAsked == [sha |-> None, shown |-> Unshown, left |-> 0]
NoScan   == Start

(* The first key of the Map: the oldest pending decision. *)
IsHead(p, pend, order) == p \in pend /\ \A q \in pend \ {p} : <<p, q>> \in order

Init ==
  /\ disk = Start /\ blocked = {} /\ quiet = FALSE
  /\ baseline = Start /\ journal = Start
  /\ pending = {} /\ older = {} /\ ask = [p \in Paths |-> NotAsked]
  /\ rejects = [p \in Paths |-> 0] /\ contested = {}
  /\ accepted = {} /\ restored = FALSE /\ kept = {}
  /\ pc = "idle" /\ scan = NoScan /\ todo = {}
  /\ screen = NoQuestion /\ key = None
  /\ prompted = [p \in Paths |-> {}] /\ late = FALSE

------------------------------------------------------------------------------
(* Pieces of the handlers.  Each describes part of the next state. *)

(* Map.delete for every path of `gone`, with the fields of the others kept. *)
Dequeue(gone) ==
  /\ pending' = pending \ gone
  /\ older' = {e \in older : e[1] \notin gone /\ e[2] \notin gone}

(* promptHead: show the oldest decision unless its current digest is the one *)
(* already shown.  `asks` are the values before the prompt.                  *)
PromptHead(asks) ==
  LET stale(p) == IsHead(p, pending', older') /\ asks[p].shown # asks[p].sha
      shown(p) == IF stale(p) THEN [asks[p] EXCEPT !.shown = asks[p].sha] ELSE asks[p]
  IN  /\ ask' = [p \in Paths |-> shown(p)]
      /\ prompted' = [p \in Paths |-> IF stale(p) THEN prompted[p] \cup {asks[p].sha} ELSE prompted[p]]
      /\ \/ \E p \in Paths : stale(p) /\ screen' = [path |-> p, sha |-> asks[p].sha]
         \/ (\A p \in Paths : ~stale(p)) /\ UNCHANGED screen

(* restoreChange: write the baseline entry back and record the outcome; a  *)
(* restore that throws is recorded too, and the change stays on disk.      *)
RestoreChange(p) ==
  /\ disk' = IF p \in blocked THEN disk ELSE Reverted(disk, baseline, p)
  /\ restored' = TRUE

(* countRejection *)
CountRejection(p) ==
  /\ rejects' = [rejects EXCEPT ![p] = IF @ < RejectLimit THEN @ + 1 ELSE @]
  /\ contested' = IF rejects'[p] >= RejectLimit THEN contested \cup {p} ELSE contested

(* restore(p, "rejected" | "timed_out"): the decision is taken off the Map *)
(* first; only a restore that took effect counts toward the limit.         *)
Restore(p) ==
  /\ Dequeue({p})
  /\ IF EntryChanged(baseline[p], disk[p])
     THEN /\ RestoreChange(p)
          /\ IF p \in blocked THEN UNCHANGED counts ELSE CountRejection(p)
     ELSE UNCHANGED <<disk, restored, counts>>

------------------------------------------------------------------------------
(* tick() *)

(* The changes of a fresh snapshot; a pending path that is no longer       *)
(* changed is dropped as resolved.                                         *)
TickScan ==
  /\ pc = "idle"
  /\ scan' = disk
  /\ todo' = Changes(baseline, disk)
  /\ Dequeue(pending \ todo')
  /\ pc' = IF todo' = {} THEN "expire" ELSE "observe"
  /\ UNCHANGED <<files, baseline, journal, ask, counts, summary, term, late>>

(* A rewrite restarts the countdown. *)
PutQuestion_Extends(p) ==
  /\ pending' = pending \cup {p}
  /\ older' = IF p \in pending THEN older ELSE older \cup (pending \X {p})
  /\ ask' = [ask EXCEPT ![p].sha = ShaOf(scan[p]), ![p].left = Timeout]

(* observe() turns a change into a question, or updates the one pending. A *)
(* rewrite never moves the deadline.                                       *)
PutQuestion(p) ==
  LET sha == ShaOf(scan[p]) IN
  IF p \in pending
  THEN ask' = [ask EXCEPT ![p].sha = sha] /\ UNCHANGED <<pending, older>>
  ELSE /\ pending' = pending \cup {p}
       /\ older' = older \cup (pending \X {p})
       /\ ask' = [ask EXCEPT ![p] = [sha |-> sha, shown |-> Unshown, left |-> Timeout]]

Observed(p) ==
  /\ todo' = todo \ {p}
  /\ pc' = IF todo' = {} THEN "expire" ELSE "observe"
  /\ scan' = IF todo' = {} THEN NoScan ELSE scan
  /\ UNCHANGED <<blocked, quiet, baseline, journal, rejects, accepted, term, late>>

(* A report-mode change is logged and kept, never asked about. *)
ObserveReport(p) ==
  /\ pc = "observe" /\ p \in todo \cap ReportPaths
  /\ kept' = kept \cup {p}
  /\ Observed(p)
  /\ UNCHANGED <<disk, asking, contested, restored>>

ObserveAsk(p) ==
  /\ pc = "observe" /\ p \in todo \ (ReportPaths \cup contested)
  /\ PutQuestion(p)
  /\ Observed(p)
  /\ UNCHANGED <<disk, contested, restored, kept>>

(* A contested path is left alone until the exit, as in a session. *)
ObserveContested_Leaves(p) ==
  /\ pc = "observe" /\ p \in (todo \ ReportPaths) \cap contested
  /\ Observed(p)
  /\ UNCHANGED <<disk, contested, asking, restored, kept>>

(* A contested path is restored without asking.  If that fails it goes     *)
(* back to asking.                                                         *)
ObserveContested(p) ==
  /\ pc = "observe" /\ p \in (todo \ ReportPaths) \cap contested
  /\ RestoreChange(p)
  /\ IF p \in blocked
     THEN contested' = contested \ {p} /\ PutQuestion(p)
     ELSE UNCHANGED <<contested, asking>>
  /\ Observed(p)
  /\ UNCHANGED kept

Overdue == {p \in pending : ask[p].left = 0}

ExpireOne(p) ==
  /\ pc = "expire" /\ p \in Overdue
  /\ Restore(p)
  /\ UNCHANGED <<blocked, quiet, baseline, journal, ask, accepted, kept, loop, term, late>>

TickEnd ==
  /\ pc = "expire" /\ Overdue = {}
  /\ UNCHANGED <<pending, older>>
  /\ PromptHead(ask)
  /\ pc' = "idle"
  /\ UNCHANGED <<files, baseline, journal, counts, summary, scan, todo, key, late>>

------------------------------------------------------------------------------
(* answer(key) *)

Delivered(p, letter) ==
  /\ pc = "idle" /\ key = letter
  /\ IsHead(p, pending, older)
  /\ key' = None

(* The next question is only printed by the next tick. *)
AnswerReject_NoPrompt(p) ==
  /\ Delivered(p, "r")
  /\ Restore(p)
  /\ UNCHANGED <<blocked, quiet, baseline, journal, ask, accepted, kept, loop, screen, prompted, late>>

AnswerReject(p) ==
  /\ Delivered(p, "r")
  /\ Restore(p)
  /\ PromptHead(ask)
  /\ UNCHANGED <<blocked, quiet, baseline, journal, accepted, kept, loop, late>>

(* A key with nothing pending does nothing. *)
AnswerNothing ==
  /\ pc = "idle" /\ key # None /\ pending = {}
  /\ key' = None
  /\ UNCHANGED <<files, baseline, journal, asking, counts, summary, loop, screen, prompted, late>>

(* The file is not hashed again before it is kept. *)
StillAsShown_Unchecked(p) ==
  EntryChanged(baseline[p], disk[p]) /\ disk[p] \notin TooBig

(* currentEntry() finds the state that was shown: still changed, and       *)
(* either still gone, or the same digest in a file small enough to hold.   *)
StillAsShown(p) ==
  /\ EntryChanged(baseline[p], disk[p])
  /\ ShaOf(disk[p]) = ask[p].shown
  /\ disk[p] \notin TooBig

(* accept() when the file is no longer what was shown: the question is     *)
(* refreshed and asked again.                                              *)
AcceptStale(p) ==
  /\ Delivered(p, "a") /\ ~StillAsShown(p)
  /\ UNCHANGED <<pending, older>>
  /\ LET sha == IF EntryChanged(baseline[p], disk[p]) THEN ShaOf(disk[p]) ELSE None
     IN  PromptHead([ask EXCEPT ![p].shown = Unshown, ![p].sha = sha])
  /\ UNCHANGED <<files, baseline, journal, counts, summary, loop, late>>

(* accept() when it is: baseline, journal, Map and decision, in this order. *)
Accept(p) ==
  /\ Delivered(p, "a") /\ StillAsShown(p)
  /\ baseline' = [baseline EXCEPT ![p] = disk[p]]
  /\ journal' = baseline'
  /\ Dequeue({p})
  /\ accepted' = accepted \cup {p}
  /\ PromptHead(ask)
  /\ UNCHANGED <<files, counts, restored, kept, loop, late>>

(* replaceBaseline throws after the baseline in memory moved: the handler  *)
(* is abandoned there and the error logged.                                *)
AcceptFails(p) ==
  /\ JournalCanFail
  /\ Delivered(p, "a") /\ StillAsShown(p)
  /\ baseline' = [baseline EXCEPT ![p] = disk[p]]
  /\ UNCHANGED <<files, journal, asking, counts, summary, loop, screen, prompted, late>>

------------------------------------------------------------------------------
(* stop() and the end of watchWithPlan *)

Stop ==
  /\ pc = "idle"
  /\ pc' = "reject" /\ key' = None
  /\ UNCHANGED <<files, baseline, journal, asking, counts, summary, scan, todo, screen, prompted, late>>

StopReject(p) ==
  /\ pc = "reject" /\ IsHead(p, pending, older)
  /\ Restore(p)
  /\ UNCHANGED <<blocked, quiet, baseline, journal, ask, accepted, kept, loop, term, late>>

(* Contested paths are skipped. *)
StopScan_Uncontested ==
  /\ pc = "reject" /\ pending = {}
  /\ todo' = Changes(baseline, disk) \ (ReportPaths \cup contested)
  /\ pc' = IF todo' = {} THEN "stopped" ELSE "leftover"
  /\ UNCHANGED <<files, baseline, journal, asking, counts, summary, scan, term, late>>

StopScan ==
  /\ pc = "reject" /\ pending = {}
  /\ todo' = Changes(baseline, disk) \ ReportPaths
  /\ pc' = IF todo' = {} THEN "stopped" ELSE "leftover"
  /\ UNCHANGED <<files, baseline, journal, asking, counts, summary, scan, term, late>>

(* restored_at_exit; after the last one the journal is disposed.           *)
StopRestore(p) ==
  /\ pc = "leftover" /\ p \in todo
  /\ RestoreChange(p)
  /\ todo' = todo \ {p}
  /\ pc' = IF todo' = {} THEN "stopped" ELSE "leftover"
  /\ UNCHANGED <<blocked, quiet, baseline, journal, asking, counts, accepted, kept, scan, term, late>>

Tick       == TickScan \/ (\E p \in Paths : ObserveReport(p) \/ ObserveAsk(p) \/ ObserveContested(p)
                                             \/ ExpireOne(p)) \/ TickEnd
Answer     == AnswerNothing \/ \E p \in Paths : AnswerReject(p) \/ AcceptStale(p) \/ Accept(p) \/ AcceptFails(p)
Stopping   == StopScan \/ \E p \in Paths : StopReject(p) \/ StopRestore(p)

------------------------------------------------------------------------------
(* The environment *)

Stopped == pc = "stopped"

AgentActs ==
  /\ ~quiet /\ ~Stopped
  /\ late' = (late \/ pc \in {"reject", "leftover"})
  /\ UNCHANGED <<baseline, journal, asking, counts, summary, loop, term>>

AgentWrite(p, e) == AgentActs /\ e \in Written[p] \ {disk[p]} /\ disk' = [disk EXCEPT ![p] = e] /\ UNCHANGED <<blocked, quiet>>
AgentBlock(p)    == AgentActs /\ p \in Blockable \ blocked /\ blocked' = blocked \cup {p} /\ UNCHANGED <<disk, quiet>>
AgentUnblock(p)  == AgentActs /\ p \in blocked /\ blocked' = blocked \ {p} /\ UNCHANGED <<disk, quiet>>
AgentQuits       == AgentActs /\ quiet' = TRUE /\ UNCHANGED <<disk, blocked>>

(* One unit of time passes for every deadline not reached yet. *)
Clock ==
  /\ ~Stopped /\ pending # Overdue
  /\ ask' = [p \in Paths |-> IF p \in pending \ Overdue THEN [ask[p] EXCEPT !.left = @ - 1] ELSE ask[p]]
  /\ UNCHANGED <<files, baseline, journal, pending, older, counts, summary, loop, term, late>>

(* The operator answers the question on the screen.  The key waits in the  *)
(* terminal's buffer until the event loop is free; by then a tick may have *)
(* put another question there.                                             *)
Press(letter) ==
  /\ ~Stopped /\ key = None /\ screen # NoQuestion
  /\ key' = letter
  /\ UNCHANGED <<files, baseline, journal, asking, counts, summary, loop, screen, prompted, late>>

Environment ==
  \/ \E p \in Paths, e \in Entry : AgentWrite(p, e)
  \/ \E p \in Paths : AgentBlock(p) \/ AgentUnblock(p)
  \/ AgentQuits
  \/ Clock
  \/ \E letter \in Key : Press(letter)

Next == Tick \/ Answer \/ Stop \/ Stopping \/ Environment

Spec == Init /\ [][Next]_vars

(* The timer runs tick() and time passes; nothing is assumed of the agent, *)
(* the operator, or of anybody stopping the watch.                         *)
Fairness == WF_vars(Tick) /\ WF_vars(Stopping) /\ WF_vars(Clock)

FairSpec == Spec /\ Fairness

------------------------------------------------------------------------------
TypeOK ==
  /\ disk \in Snapshot /\ baseline \in Snapshot /\ journal \in Snapshot /\ scan \in Snapshot
  /\ blocked \subseteq Paths /\ contested \subseteq Paths /\ accepted \subseteq Paths
  /\ kept \subseteq Paths /\ todo \subseteq Paths
  /\ quiet \in BOOLEAN /\ restored \in BOOLEAN /\ late \in BOOLEAN
  /\ pending \subseteq Paths /\ older \subseteq Paths \X Paths
  /\ ask \in [Paths -> Asked]
  /\ rejects \in [Paths -> 0 .. RejectLimit]
  /\ pc \in Handlers
  /\ screen \in Question \cup {NoQuestion} /\ key \in Key \cup {None}
  /\ prompted \in [Paths -> SUBSET Digest]

(* Whatever the watch would bring back with a restore is either what was   *)
(* there when it started or content the operator has been shown: no write  *)
(* the agent slips in while a decision is taken enters the baseline unseen *)
(* (currentEntry hashes the file again before accept() keeps it).          *)
KeptWasShown ==
  \A p \in Paths : baseline[p] = Start[p] \/ ShaOf(baseline[p]) \in prompted[p]

(* Between handlers the oldest decision is on the screen with its current  *)
(* digest, so a key never answers a question nobody was asked: tick(),     *)
(* answer() and a refused accept() all end in promptHead().                *)
HeadIsShown ==
  pc = "idle" => \A p \in Paths : IsHead(p, pending, older) =>
                    /\ ask[p].shown = ask[p].sha
                    /\ screen = [path |-> p, sha |-> ask[p].sha]

(* The manifest on disk holds the baseline in memory, so a kill -9 between *)
(* two handlers loses no accepted change and brings back no rejected one.  *)
JournalIsBaseline == journal = baseline

(* A path rejected RejectLimit times is not asked about again.             *)
ContestedNotAsked ==
  [][\A p \in Paths : p \in pending' \ pending => rejects[p] < RejectLimit]_vars

(* Exit code 0 (no decision but "accepted") means that every watched file  *)
(* is as it was at the start or was accepted, unless the agent wrote while *)
(* stop() ran.                                                             *)
CleanExitMeansApproved ==
  Stopped /\ ~restored /\ ~late => \A p \in Watched : disk[p] = Start[p] \/ p \in accepted

(* stop() leaves nothing undecided on disk, also no change that no tick    *)
(* has seen yet, unless a restore fails or the agent writes meanwhile.     *)
ExitRestores ==
  Stopped /\ ~late /\ blocked = {} => \A p \in Watched : disk[p] = baseline[p]

(* Every question ends, answered or not, however often the agent rewrites  *)
(* the file while it is pending.                                           *)
QuestionsEnd == \A p \in Paths : (p \in pending) ~> (p \notin pending)

(* Once the agent leaves the files alone, and they can be restored, every  *)
(* watched file ends up at the baseline and stays there, whether or not    *)
(* anybody answers.  A write that lands while stop() runs is not covered:  *)
(* nothing scans for it.                                                   *)
Settles ==
  (quiet /\ blocked = {} /\ ~late) ~> [](\A p \in Watched : disk[p] = baseline[p])
==============================================================================
