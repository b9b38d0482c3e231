--------------------------- MODULE CageWatchProofs ---------------------------
(***************************************************************************)
(* What CageWatch guarantees for every set of paths, contents, timeouts    *)
(* and faults.                                                             *)
(***************************************************************************)
EXTENDS CageWatch, TLAPS

LEMMA EntryFacts ==
  /\ \A e \in Entry : ShaOf(e) \in Digest
  /\ None \in Digest /\ NotAsked \in Asked /\ Unshown \notin Digest
<1>1. \A e \in Entry : ShaOf(e) \in Digest
  BY NoneAssumption DEF Entry, ShaOf, Digest
<1>2. NotAsked \in Asked
  BY WatchAssumption DEF NotAsked, Asked, Digest
<1> QED
  BY <1>1, <1>2, WatchAssumption DEF Digest

(* The pieces of the handlers keep the types of what they assign. *)
LEMMA DequeueType ==
  ASSUME TypeOK, NEW gone, Dequeue(gone)
  PROVE  pending' \subseteq Paths /\ older' \subseteq Paths \X Paths
BY DEF TypeOK, Dequeue

LEMMA RestoreChangeType ==
  ASSUME TypeOK, NEW p \in Paths, RestoreChange(p)
  PROVE  disk' \in Snapshot /\ restored' \in BOOLEAN
BY DEF TypeOK, RestoreChange, Reverted, Snapshot

LEMMA CountRejectionType ==
  ASSUME TypeOK, NEW p \in Paths, CountRejection(p)
  PROVE  rejects' \in [Paths -> 0 .. RejectLimit] /\ contested' \subseteq Paths
BY WatchAssumption DEF TypeOK, CountRejection

LEMMA RestoreType ==
  ASSUME TypeOK, NEW p \in Paths, Restore(p)
  PROVE  /\ disk' \in Snapshot /\ restored' \in BOOLEAN
         /\ pending' \subseteq Paths /\ older' \subseteq Paths \X Paths
         /\ rejects' \in [Paths -> 0 .. RejectLimit] /\ contested' \subseteq Paths
<1>1. pending' \subseteq Paths /\ older' \subseteq Paths \X Paths
  BY DequeueType DEF Restore
<1>2. CASE EntryChanged(baseline[p], disk[p])
  <2>1. disk' \in Snapshot /\ restored' \in BOOLEAN
    BY <1>2, RestoreChangeType DEF Restore
  <2>2. rejects' \in [Paths -> 0 .. RejectLimit] /\ contested' \subseteq Paths
    BY <1>2, CountRejectionType DEF Restore, counts, TypeOK
  <2> QED  BY <1>1, <2>1, <2>2
<1>3. CASE ~EntryChanged(baseline[p], disk[p])
  BY <1>1, <1>3 DEF Restore, counts, TypeOK
<1> QED  BY <1>2, <1>3

LEMMA PromptHeadType ==
  ASSUME TypeOK, NEW asks \in [Paths -> Asked], PromptHead(asks)
  PROVE  /\ ask' \in [Paths -> Asked]
         /\ prompted' \in [Paths -> SUBSET Digest]
         /\ screen' \in Question \cup {NoQuestion}
<1>1. \A p \in Paths : asks[p] \in Asked /\ asks[p].sha \in Digest
  BY DEF Asked
<1>2. \A p \in Paths : [asks[p] EXCEPT !.shown = asks[p].sha] \in Asked
  BY DEF Asked
<1>3. ask' \in [Paths -> Asked]
  BY <1>1, <1>2 DEF PromptHead
<1>4. prompted' \in [Paths -> SUBSET Digest]
  BY <1>1 DEF PromptHead, TypeOK
<1>5. screen' \in Question \cup {NoQuestion}
  BY <1>1 DEF PromptHead, Question, TypeOK
<1> QED  BY <1>3, <1>4, <1>5

LEMMA PutQuestionType ==
  ASSUME TypeOK, NEW p \in Paths, PutQuestion(p)
  PROVE  /\ pending' \subseteq Paths /\ older' \subseteq Paths \X Paths
         /\ ask' \in [Paths -> Asked]
<1>1. scan[p] \in Entry /\ ShaOf(scan[p]) \in Digest
  BY EntryFacts DEF TypeOK, Snapshot
<1>2. [sha |-> ShaOf(scan[p]), shown |-> Unshown, left |-> Timeout] \in Asked
  BY <1>1, WatchAssumption DEF Asked
<1>3. [ask[p] EXCEPT !.sha = ShaOf(scan[p])] \in Asked
  BY <1>1 DEF TypeOK, Asked
<1> QED
  BY <1>1, <1>2, <1>3 DEF PutQuestion, TypeOK

------------------------------------------------------------------------------

LEMMA TypeInit == Init => TypeOK
<1> SUFFICES ASSUME Init PROVE TypeOK
  OBVIOUS
<1>1. ask \in [Paths -> Asked] /\ pending \subseteq Paths /\ older \subseteq Paths \X Paths
  BY EntryFacts DEF Init
<1>2. rejects \in [Paths -> 0 .. RejectLimit] /\ prompted \in [Paths -> SUBSET Digest]
  BY WatchAssumption DEF Init
<1> QED
  BY <1>1, <1>2, WatchAssumption DEF Init, TypeOK, NoScan, NoQuestion, Handlers

LEMMA TypeTick == TypeOK /\ Tick => TypeOK'
<1> SUFFICES ASSUME TypeOK, Tick PROVE TypeOK'
  OBVIOUS
<1> USE DEF files, asking, counts, summary, loop, term
<1>1. CASE TickScan
  BY <1>1, DequeueType DEF TickScan, TypeOK, Changes, Handlers
<1>2. ASSUME NEW p \in Paths, ObserveReport(p) PROVE TypeOK'
  BY <1>2, WatchAssumption DEF ObserveReport, Observed, TypeOK, Handlers, NoScan
<1>3. ASSUME NEW p \in Paths, ObserveAsk(p) PROVE TypeOK'
  <2>1. PutQuestion(p) /\ Observed(p)
    BY <1>3 DEF ObserveAsk
  <2> QED
    BY <1>3, <2>1, PutQuestionType, WatchAssumption DEF ObserveAsk, Observed, TypeOK, Handlers, NoScan
<1>4. ASSUME NEW p \in Paths, ObserveContested(p) PROVE TypeOK'
  <2>1. RestoreChange(p) /\ Observed(p) /\ UNCHANGED kept
    BY <1>4 DEF ObserveContested
  <2>2. disk' \in Snapshot /\ restored' \in BOOLEAN
    BY <2>1, RestoreChangeType
  <2>3. CASE p \in blocked
    <3>1. PutQuestion(p) /\ contested' = contested \ {p}
      BY <1>4, <2>3 DEF ObserveContested
    <3> QED
      BY <2>1, <2>2, <3>1, PutQuestionType, WatchAssumption DEF Observed, TypeOK, Handlers, NoScan
  <2>4. CASE p \notin blocked
    BY <1>4, <2>1, <2>2, <2>4, WatchAssumption DEF ObserveContested, Observed, TypeOK, Handlers, NoScan
  <2> QED  BY <2>3, <2>4
<1>5. ASSUME NEW p \in Paths, ExpireOne(p) PROVE TypeOK'
  BY <1>5, RestoreType DEF ExpireOne, TypeOK
<1>6. CASE TickEnd
  <2>1. PromptHead(ask) /\ ask \in [Paths -> Asked]
    BY <1>6 DEF TickEnd, TypeOK
  <2> QED
    BY <1>6, <2>1, PromptHeadType DEF TickEnd, TypeOK, Handlers
<1> QED  BY <1>1, <1>2, <1>3, <1>4, <1>5, <1>6 DEF Tick

LEMMA TypeAnswer == TypeOK /\ Answer => TypeOK'
<1> SUFFICES ASSUME TypeOK, Answer PROVE TypeOK'
  OBVIOUS
<1> USE DEF files, asking, counts, summary, loop, term, Delivered
<1>1. CASE AnswerNothing
  BY <1>1 DEF AnswerNothing, TypeOK
<1>2. ASSUME NEW p \in Paths, AnswerReject(p) PROVE TypeOK'
  <2>1. PromptHead(ask) /\ Restore(p) /\ ask \in [Paths -> Asked]
    BY <1>2 DEF AnswerReject, TypeOK
  <2> QED
    BY <1>2, <2>1, PromptHeadType, RestoreType DEF AnswerReject, TypeOK
<1>3. ASSUME NEW p \in Paths, AcceptStale(p) PROVE TypeOK'
  <2> DEFINE sha == IF EntryChanged(baseline[p], disk[p]) THEN ShaOf(disk[p]) ELSE None
             asks == [ask EXCEPT ![p].shown = Unshown, ![p].sha = sha]
  <2>1. sha \in Digest
    BY EntryFacts DEF TypeOK, Snapshot
  <2>2. asks \in [Paths -> Asked]
    BY <2>1 DEF TypeOK, Asked
  <2>3. PromptHead(asks)
    BY <1>3 DEF AcceptStale
  <2> HIDE DEF asks
  <2> QED
    BY <1>3, <2>2, <2>3, PromptHeadType DEF AcceptStale, TypeOK
<1>4. ASSUME NEW p \in Paths, Accept(p) PROVE TypeOK'
  <2>1. PromptHead(ask) /\ Dequeue({p}) /\ ask \in [Paths -> Asked]
    BY <1>4 DEF Accept, TypeOK
  <2>2. baseline' \in Snapshot /\ journal' \in Snapshot
    BY <1>4 DEF Accept, TypeOK, Snapshot
  <2> QED
    BY <1>4, <2>1, <2>2, PromptHeadType, DequeueType DEF Accept, TypeOK
<1>5. ASSUME NEW p \in Paths, AcceptFails(p) PROVE TypeOK'
  BY <1>5 DEF AcceptFails, TypeOK, Snapshot
<1> QED  BY <1>1, <1>2, <1>3, <1>4, <1>5 DEF Answer

LEMMA TypeStop == TypeOK /\ (Stop \/ Stopping) => TypeOK'
<1> SUFFICES ASSUME TypeOK, Stop \/ Stopping PROVE TypeOK'
  OBVIOUS
<1> USE DEF files, asking, counts, summary, loop, term
<1>1. CASE Stop
  BY <1>1 DEF Stop, TypeOK, Handlers
<1>2. CASE StopScan
  BY <1>2 DEF StopScan, TypeOK, Changes, Handlers
<1>3. ASSUME NEW p \in Paths, StopReject(p) PROVE TypeOK'
  BY <1>3, RestoreType DEF StopReject, TypeOK
<1>4. ASSUME NEW p \in Paths, StopRestore(p) PROVE TypeOK'
  BY <1>4, RestoreChangeType DEF StopRestore, TypeOK, Handlers
<1> QED  BY <1>1, <1>2, <1>3, <1>4 DEF Stopping

LEMMA TypeEnvironment == TypeOK /\ Environment => TypeOK'
<1> SUFFICES ASSUME TypeOK, Environment PROVE TypeOK'
  OBVIOUS
<1> USE DEF files, asking, counts, summary, loop, term, AgentActs
<1>1. ASSUME NEW p \in Paths, NEW e \in Entry, AgentWrite(p, e) PROVE TypeOK'
  BY <1>1 DEF AgentWrite, TypeOK, Snapshot
<1>2. ASSUME NEW p \in Paths, AgentBlock(p) \/ AgentUnblock(p) PROVE TypeOK'
  BY <1>2 DEF AgentBlock, AgentUnblock, TypeOK
<1>3. CASE AgentQuits
  BY <1>3 DEF AgentQuits, TypeOK
<1>4. CASE Clock
  <2>1. ASSUME NEW p \in pending \ Overdue PROVE [ask[p] EXCEPT !.left = @ - 1] \in Asked
    <3>1. ask[p] \in Asked /\ ask[p].left # 0
      BY DEF TypeOK, Overdue
    <3>2. ask[p].left \in 0 .. Timeout /\ ask[p].left - 1 \in 0 .. Timeout
      BY <3>1, WatchAssumption DEF Asked
    <3> QED  BY <3>1, <3>2 DEF Asked
  <2>2. ask' \in [Paths -> Asked]
    BY <1>4, <2>1 DEF Clock, TypeOK
  <2> QED
    BY <1>4, <2>2 DEF Clock, TypeOK
<1>5. ASSUME NEW letter \in Key, Press(letter) PROVE TypeOK'
  BY <1>5 DEF Press, TypeOK
<1> QED  BY <1>1, <1>2, <1>3, <1>4, <1>5 DEF Environment

(* Every variable keeps its type, whatever the agent, the operator and the *)
(* disk do.                                                                *)
THEOREM TypeCorrect == Spec => []TypeOK
<1>1. TypeOK /\ [Next]_vars => TypeOK'
  <2> SUFFICES ASSUME TypeOK, [Next]_vars PROVE TypeOK'
    OBVIOUS
  <2>1. CASE Next
    BY <2>1, TypeTick, TypeAnswer, TypeStop, TypeEnvironment DEF Next
  <2>2. CASE UNCHANGED vars
    BY <2>2 DEF vars, files, asking, counts, summary, loop, term, TypeOK
  <2> QED  BY <2>1, <2>2
<1> QED  BY TypeInit, <1>1, PTL DEF Spec

------------------------------------------------------------------------------
(* KeptWasShown is not inductive: an accept keeps the digest `shown` of    *)
(* the question, and nothing in KeptWasShown says that this digest was     *)
(* printed.  The strengthening says so for every question.                 *)
ShownWasPrompted == \A p \in Paths : ask[p].shown \in prompted[p] \cup {Unshown}

KeptInv == TypeOK /\ ShownWasPrompted /\ KeptWasShown

(* A prompt adds what it shows to the history and removes nothing.         *)
LEMMA PromptHeadShows ==
  ASSUME TypeOK, NEW asks \in [Paths -> Asked], PromptHead(asks),
         \A p \in Paths : asks[p].shown \in prompted[p] \cup {Unshown}
  PROVE  ShownWasPrompted' /\ \A p \in Paths : prompted[p] \subseteq prompted'[p]
<1> DEFINE stale(p) == IsHead(p, pending', older') /\ asks[p].shown # asks[p].sha
<1>1. \A p \in Paths : /\ ask'[p] = IF stale(p) THEN [asks[p] EXCEPT !.shown = asks[p].sha] ELSE asks[p]
                       /\ prompted'[p] = IF stale(p) THEN prompted[p] \cup {asks[p].sha} ELSE prompted[p]
  BY DEF PromptHead, TypeOK
<1>2. \A p \in Paths : [asks[p] EXCEPT !.shown = asks[p].sha].shown = asks[p].sha
  BY DEF Asked
<1> HIDE DEF stale
<1> QED  BY <1>1, <1>2 DEF ShownWasPrompted

(* The same, for a handler that leaves the baseline alone.                 *)
LEMMA PromptHeadKeeps ==
  ASSUME KeptInv, NEW asks \in [Paths -> Asked], PromptHead(asks), UNCHANGED baseline,
         \A p \in Paths : asks[p].shown \in prompted[p] \cup {Unshown}
  PROVE  ShownWasPrompted' /\ KeptWasShown'
BY PromptHeadShows DEF KeptInv, KeptWasShown

(* A step that asks nothing new on the screen and keeps nothing.           *)
LEMMA QuietKeeps ==
  ASSUME KeptInv, UNCHANGED <<baseline, prompted>>,
         \A p \in Paths : ask'[p].shown \in {ask[p].shown, Unshown}
  PROVE  ShownWasPrompted' /\ KeptWasShown'
BY DEF KeptInv, KeptWasShown, ShownWasPrompted

LEMMA PutQuestionKeeps ==
  ASSUME TypeOK, NEW p \in Paths, PutQuestion(p)
  PROVE  \A q \in Paths : ask'[q].shown \in {ask[q].shown, Unshown}
<1>1. ask \in [Paths -> Asked] /\ \A q \in Paths : ask[q] \in Asked
  BY DEF TypeOK
<1>2. CASE p \in pending
  <2>1. ask' = [ask EXCEPT ![p].sha = ShaOf(scan[p])]
    BY <1>2 DEF PutQuestion
  <2> QED  BY <1>1, <2>1 DEF Asked
<1>3. CASE p \notin pending
  BY <1>1, <1>3 DEF PutQuestion
<1> QED  BY <1>2, <1>3

LEMMA KeptTick == KeptInv /\ Tick => ShownWasPrompted' /\ KeptWasShown'
<1> SUFFICES ASSUME KeptInv, Tick PROVE ShownWasPrompted' /\ KeptWasShown'
  OBVIOUS
<1> USE DEF asking, term
<1>0. TypeOK /\ ask \in [Paths -> Asked] /\ \A p \in Paths : ask[p].shown \in prompted[p] \cup {Unshown}
  BY DEF KeptInv, TypeOK, ShownWasPrompted
<1>1. CASE TickScan
  BY <1>1, QuietKeeps DEF TickScan
<1>2. ASSUME NEW p \in Paths, ObserveReport(p) PROVE ShownWasPrompted' /\ KeptWasShown'
  BY <1>2, QuietKeeps DEF ObserveReport, Observed
<1>3. ASSUME NEW p \in Paths, ObserveAsk(p) PROVE ShownWasPrompted' /\ KeptWasShown'
  <2>1. PutQuestion(p) /\ UNCHANGED <<baseline, prompted>>
    BY <1>3 DEF ObserveAsk, Observed
  <2> QED  BY <1>0, <2>1, PutQuestionKeeps, QuietKeeps
<1>4. ASSUME NEW p \in Paths, ObserveContested(p) PROVE ShownWasPrompted' /\ KeptWasShown'
  <2>1. UNCHANGED <<baseline, prompted>> /\ (PutQuestion(p) \/ UNCHANGED ask)
    BY <1>4 DEF ObserveContested, Observed
  <2> QED  BY <1>0, <2>1, PutQuestionKeeps, QuietKeeps
<1>5. ASSUME NEW p \in Paths, ExpireOne(p) PROVE ShownWasPrompted' /\ KeptWasShown'
  BY <1>5, QuietKeeps DEF ExpireOne
<1>6. CASE TickEnd
  BY <1>0, <1>6, PromptHeadKeeps DEF TickEnd
<1> QED  BY <1>1, <1>2, <1>3, <1>4, <1>5, <1>6 DEF Tick

(* What an accept keeps has the digest that was shown for it.              *)
LEMMA AcceptedWasPrompted ==
  ASSUME KeptInv, NEW p \in Paths, StillAsShown(p)
  PROVE  ShaOf(disk[p]) \in prompted[p]
<1>1. ShaOf(disk[p]) \in Digest
  BY EntryFacts DEF KeptInv, TypeOK, Snapshot
<1> QED  BY <1>1, EntryFacts DEF StillAsShown, KeptInv, ShownWasPrompted

LEMMA KeptAnswer == KeptInv /\ Answer => ShownWasPrompted' /\ KeptWasShown'
<1> SUFFICES ASSUME KeptInv, Answer PROVE ShownWasPrompted' /\ KeptWasShown'
  OBVIOUS
<1> USE DEF asking, term
<1>0. TypeOK /\ ask \in [Paths -> Asked] /\ \A p \in Paths : ask[p].shown \in prompted[p] \cup {Unshown}
  BY DEF KeptInv, TypeOK, ShownWasPrompted
<1>1. CASE AnswerNothing
  BY <1>1, QuietKeeps DEF AnswerNothing
<1>2. ASSUME NEW p \in Paths, AnswerReject(p) PROVE ShownWasPrompted' /\ KeptWasShown'
  BY <1>0, <1>2, PromptHeadKeeps DEF AnswerReject
<1>3. ASSUME NEW p \in Paths, AcceptStale(p) PROVE ShownWasPrompted' /\ KeptWasShown'
  <2> DEFINE sha == IF EntryChanged(baseline[p], disk[p]) THEN ShaOf(disk[p]) ELSE None
             asks == [ask EXCEPT ![p].shown = Unshown, ![p].sha = sha]
  <2>1. sha \in Digest
    BY EntryFacts DEF KeptInv, TypeOK, Snapshot
  <2>2. asks \in [Paths -> Asked]
    BY <1>0, <2>1 DEF Asked
  <2>3. \A q \in Paths : asks[q].shown \in prompted[q] \cup {Unshown}
    BY <1>0 DEF Asked
  <2>4. PromptHead(asks) /\ UNCHANGED baseline
    BY <1>3 DEF AcceptStale
  <2> HIDE DEF asks
  <2> QED  BY <2>2, <2>3, <2>4, PromptHeadKeeps
<1>4. ASSUME NEW p \in Paths, Accept(p) PROVE ShownWasPrompted' /\ KeptWasShown'
  <2>1. PromptHead(ask) /\ baseline' = [baseline EXCEPT ![p] = disk[p]] /\ StillAsShown(p)
    BY <1>4 DEF Accept
  <2>2. ShownWasPrompted' /\ \A q \in Paths : prompted[q] \subseteq prompted'[q]
    BY <1>0, <2>1, PromptHeadShows
  <2>3. baseline \in Snapshot /\ ShaOf(disk[p]) \in prompted[p]
    BY <1>0, <2>1, AcceptedWasPrompted DEF TypeOK
  <2> QED  BY <2>1, <2>2, <2>3 DEF KeptInv, KeptWasShown, Snapshot
<1>5. ASSUME NEW p \in Paths, AcceptFails(p) PROVE ShownWasPrompted' /\ KeptWasShown'
  <2>1. UNCHANGED <<ask, prompted>> /\ baseline' = [baseline EXCEPT ![p] = disk[p]] /\ StillAsShown(p)
    BY <1>5 DEF AcceptFails
  <2>2. baseline \in Snapshot /\ ShaOf(disk[p]) \in prompted[p]
    BY <1>0, <2>1, AcceptedWasPrompted DEF TypeOK
  <2> QED  BY <2>1, <2>2 DEF KeptInv, KeptWasShown, ShownWasPrompted, Snapshot
<1> QED  BY <1>1, <1>2, <1>3, <1>4, <1>5 DEF Answer

LEMMA KeptOthers == KeptInv /\ (Stop \/ Stopping \/ Environment) => ShownWasPrompted' /\ KeptWasShown'
<1> SUFFICES ASSUME KeptInv, Stop \/ Stopping \/ Environment PROVE ShownWasPrompted' /\ KeptWasShown'
  OBVIOUS
<1> USE DEF asking, term
<1>1. CASE Stop \/ Stopping
  <2>1. UNCHANGED <<baseline, prompted, ask>>
    BY <1>1 DEF Stop, Stopping, StopScan, StopReject, StopRestore
  <2> QED  BY <2>1, QuietKeeps
<1>2. CASE Clock
  <2>1. \A p \in Paths : ask[p] \in Asked
    BY DEF KeptInv, TypeOK
  <2>2. UNCHANGED <<baseline, prompted>> /\ \A p \in Paths : ask'[p].shown = ask[p].shown
    BY <1>2, <2>1 DEF Clock, Asked
  <2> QED  BY <2>2, QuietKeeps
<1>3. CASE Environment /\ ~Clock
  <2>1. UNCHANGED <<baseline, prompted, ask>>
    BY <1>3 DEF Environment, AgentWrite, AgentBlock, AgentUnblock, AgentQuits, AgentActs, Press
  <2> QED  BY <2>1, QuietKeeps
<1> QED  BY <1>1, <1>2, <1>3

(* Nothing enters the baseline that the operator was not shown, for every  *)
(* interleaving of agent, operator, timeouts and failures.                 *)
THEOREM NothingKeptUnseen == Spec => []KeptWasShown
<1>1. Init => KeptInv
  BY TypeInit, EntryFacts DEF Init, KeptInv, ShownWasPrompted, KeptWasShown, NotAsked
<1>2. KeptInv /\ [Next]_vars => KeptInv'
  <2> SUFFICES ASSUME KeptInv, [Next]_vars PROVE KeptInv'
    OBVIOUS
  <2>1. CASE Next
    <3>1. TypeOK'
      BY <2>1, TypeTick, TypeAnswer, TypeStop, TypeEnvironment DEF KeptInv, Next
    <3>2. ShownWasPrompted' /\ KeptWasShown'
      BY <2>1, KeptTick, KeptAnswer, KeptOthers DEF Next
    <3> QED  BY <3>1, <3>2 DEF KeptInv
  <2>2. CASE UNCHANGED vars
    BY <2>2 DEF vars, files, asking, counts, summary, loop, term, KeptInv, TypeOK, ShownWasPrompted, KeptWasShown
  <2> QED  BY <2>1, <2>2
<1>3. KeptInv => KeptWasShown
  BY DEF KeptInv
<1> QED  BY <1>1, <1>2, <1>3, PTL DEF Spec

-----------------------------------------------------------------------------
(* The prompt.                                                             *)

(* HeadIsShown speaks of the times between handlers; within one the prompt *)
(* lags behind.  What holds all the time is that only the first key of the *)
(* Map has been shown anything, and that the screen still shows it: a      *)
(* decision that becomes the first one has not been shown, so promptHead() *)
(* prints it.                                                              *)
QueuedOnce(pend, order) ==
  /\ order \subseteq pend \X pend
  /\ \A p, q \in pend : <<p, q>> \in order => <<q, p>> \notin order

ShownIsHead(pend, order, asks, shows) ==
  \A p \in pend : asks[p].shown # Unshown =>
     IsHead(p, pend, order) /\ shows = [path |-> p, sha |-> asks[p].shown]

PromptInv ==
  /\ TypeOK
  /\ QueuedOnce(pending, older)
  /\ ShownIsHead(pending, older, ask, screen)
  /\ HeadIsShown

(* PromptInv' without TypeOK', which has its own lemmas.                   *)
PromptNext ==
  /\ QueuedOnce(pending', older')
  /\ ShownIsHead(pending', older', ask', screen')
  /\ HeadIsShown'

(* Taking decisions off the Map keeps the order of the others.             *)
LEMMA DequeueOrder ==
  ASSUME PromptInv, NEW gone, Dequeue(gone)
  PROVE  QueuedOnce(pending', older') /\ ShownIsHead(pending', older', ask, screen)
<1>1. QueuedOnce(pending', older')
  BY DEF PromptInv, QueuedOnce, Dequeue
<1>2. \A p \in pending' : IsHead(p, pending, older) => IsHead(p, pending', older')
  BY DEF Dequeue, IsHead
<1>3. pending' \subseteq pending
  BY DEF Dequeue
<1> QED  BY <1>1, <1>2, <1>3 DEF PromptInv, ShownIsHead

(* A new question goes to the end of the Map.                              *)
LEMMA PutQuestionOrder ==
  ASSUME PromptInv, NEW p \in Paths, PutQuestion(p)
  PROVE  QueuedOnce(pending', older') /\ ShownIsHead(pending', older', ask', screen)
<1>1. ask \in [Paths -> Asked] /\ pending \subseteq Paths /\ older \subseteq pending \X pending
  BY DEF PromptInv, TypeOK, QueuedOnce
<1>2. CASE p \in pending
  <2>1. UNCHANGED <<pending, older>> /\ ask' = [ask EXCEPT ![p].sha = ShaOf(scan[p])]
    BY <1>2 DEF PutQuestion
  <2>2. \A q \in Paths : ask'[q].shown = ask[q].shown
    BY <1>1, <2>1 DEF Asked
  <2> QED  BY <1>1, <2>1, <2>2 DEF PromptInv, ShownIsHead, IsHead, QueuedOnce
<1>3. CASE p \notin pending
  <2>1. /\ pending' = pending \cup {p} /\ older' = older \cup (pending \X {p})
        /\ ask' = [ask EXCEPT ![p] = [sha |-> ShaOf(scan[p]), shown |-> Unshown, left |-> Timeout]]
    BY <1>3 DEF PutQuestion
  <2>2. QueuedOnce(pending', older')
    BY <1>1, <1>3, <2>1 DEF PromptInv, QueuedOnce
  <2>3. \A q \in pending : IsHead(q, pending, older) => IsHead(q, pending', older')
    BY <2>1 DEF IsHead
  <2>4. ask'[p].shown = Unshown /\ \A q \in pending : ask'[q] = ask[q]
    BY <1>1, <1>3, <2>1
  <2> QED  BY <2>1, <2>2, <2>3, <2>4 DEF PromptInv, ShownIsHead
<1> QED  BY <1>2, <1>3

(* After promptHead() the first decision is on the screen.                 *)
LEMMA PromptHeadInv ==
  ASSUME NEW asks \in [Paths -> Asked], pending' \subseteq Paths, PromptHead(asks),
         QueuedOnce(pending', older'), ShownIsHead(pending', older', asks, screen)
  PROVE  PromptNext
<1> DEFINE stale(p) == IsHead(p, pending', older') /\ asks[p].shown # asks[p].sha
<1>1. \A p \in Paths : ask'[p] = IF stale(p) THEN [asks[p] EXCEPT !.shown = asks[p].sha] ELSE asks[p]
  BY DEF PromptHead
<1>2. \A p \in Paths : stale(p) => ask'[p].shown = asks[p].sha /\ ask'[p].sha = asks[p].sha
  BY <1>1 DEF Asked
<1>3. \A p \in Paths : ~stale(p) => ask'[p] = asks[p]
  BY <1>1
<1>4. \A p, q : IsHead(p, pending', older') /\ IsHead(q, pending', older') => p = q
  BY DEF IsHead, QueuedOnce
<1>5. \A p \in Paths : asks[p].sha \in Digest
  BY DEF Asked
<1>6. \/ \E p \in Paths : stale(p) /\ screen' = [path |-> p, sha |-> asks[p].sha]
      \/ (\A p \in Paths : ~stale(p)) /\ screen' = screen
  BY DEF PromptHead
<1>7. \A p \in Paths : stale(p) => screen' = [path |-> p, sha |-> asks[p].sha]
  BY <1>4, <1>6
<1>8. \A p \in Paths : IsHead(p, pending', older') /\ ~stale(p) => screen' = [path |-> p, sha |-> asks[p].sha]
  <2> SUFFICES ASSUME NEW p \in Paths, IsHead(p, pending', older'), ~stale(p)
               PROVE  screen' = [path |-> p, sha |-> asks[p].sha]
    OBVIOUS
  <2>1. asks[p].shown = asks[p].sha /\ asks[p].shown # Unshown
    BY <1>5, EntryFacts
  <2>2. screen = [path |-> p, sha |-> asks[p].sha]
    BY <2>1 DEF ShownIsHead, IsHead
  <2>3. \A q \in Paths : ~stale(q)
    BY <1>4
  <2> QED  BY <1>6, <2>2, <2>3
<1>9. \A p \in Paths : IsHead(p, pending', older') =>
         ask'[p].shown = ask'[p].sha /\ screen' = [path |-> p, sha |-> ask'[p].sha]
  BY <1>2, <1>3, <1>7, <1>8
<1>10. ShownIsHead(pending', older', ask', screen')
  <2> SUFFICES ASSUME NEW p \in pending', ask'[p].shown # Unshown
               PROVE  IsHead(p, pending', older') /\ screen' = [path |-> p, sha |-> ask'[p].shown]
    BY DEF ShownIsHead
  <2>1. IsHead(p, pending', older')
    BY <1>3 DEF ShownIsHead
  <2> QED  BY <1>9, <2>1
<1> HIDE DEF stale
<1> QED  BY <1>9, <1>10 DEF PromptNext, HeadIsShown

(* A step that neither prompts nor queues.                                 *)
LEMMA QuietPrompt ==
  ASSUME PromptInv, UNCHANGED <<pending, older, screen>>, pc' = "idle" => pc = "idle",
         \A p \in Paths : ask'[p].shown = ask[p].shown /\ ask'[p].sha = ask[p].sha
  PROVE  PromptNext
<1>1. pending \subseteq Paths
  BY DEF PromptInv, TypeOK
<1> QED  BY <1>1 DEF PromptInv, PromptNext, QueuedOnce, ShownIsHead, HeadIsShown, IsHead

------------------------------------------------------------------------------
LEMMA PromptTick == PromptInv /\ Tick => PromptNext
<1> SUFFICES ASSUME PromptInv, Tick PROVE PromptNext
  OBVIOUS
<1> USE DEF asking, counts, loop, term
<1>1. CASE TickScan
  <2>1. UNCHANGED <<ask, screen>> /\ pc' # "idle" /\ \E gone : Dequeue(gone)
    BY <1>1 DEF TickScan
  <2> QED  BY <2>1, DequeueOrder DEF PromptNext, HeadIsShown
<1>2. ASSUME NEW p \in Paths, ObserveReport(p) PROVE PromptNext
  BY <1>2, QuietPrompt DEF ObserveReport, Observed
<1>3. ASSUME NEW p \in Paths, ObserveAsk(p) PROVE PromptNext
  <2>1. PutQuestion(p) /\ UNCHANGED screen /\ pc' # "idle"
    BY <1>3 DEF ObserveAsk, Observed
  <2> QED  BY <2>1, PutQuestionOrder DEF PromptNext, HeadIsShown
<1>4. ASSUME NEW p \in Paths, ObserveContested(p) PROVE PromptNext
  <2>1. UNCHANGED screen /\ pc' # "idle" /\ (PutQuestion(p) \/ UNCHANGED asking)
    BY <1>4 DEF ObserveContested, Observed
  <2>2. CASE PutQuestion(p)
    BY <2>1, <2>2, PutQuestionOrder DEF PromptNext, HeadIsShown
  <2>3. CASE UNCHANGED asking
    BY <2>1, <2>3, QuietPrompt
  <2> QED  BY <2>1, <2>2, <2>3
<1>5. ASSUME NEW p \in Paths, ExpireOne(p) PROVE PromptNext
  <2>1. Dequeue({p}) /\ UNCHANGED <<ask, screen>> /\ pc' # "idle"
    BY <1>5 DEF ExpireOne, Restore
  <2> QED  BY <2>1, DequeueOrder DEF PromptNext, HeadIsShown
<1>6. CASE TickEnd
  <2>1. UNCHANGED <<pending, older>> /\ PromptHead(ask)
    BY <1>6 DEF TickEnd
  <2>2. ask \in [Paths -> Asked] /\ pending' \subseteq Paths
    BY <2>1 DEF PromptInv, TypeOK
  <2>3. QueuedOnce(pending', older') /\ ShownIsHead(pending', older', ask, screen)
    BY <2>1 DEF PromptInv
  <2> QED  BY <2>1, <2>2, <2>3, PromptHeadInv
<1> QED  BY <1>1, <1>2, <1>3, <1>4, <1>5, <1>6 DEF Tick

LEMMA PromptAnswer == PromptInv /\ Answer => PromptNext
<1> SUFFICES ASSUME PromptInv, Answer PROVE PromptNext
  OBVIOUS
<1> USE DEF asking, counts, loop, term
<1>0. ask \in [Paths -> Asked] /\ pending \subseteq Paths
  BY DEF PromptInv, TypeOK
<1>1. CASE AnswerNothing
  BY <1>1, QuietPrompt DEF AnswerNothing
<1>2. ASSUME NEW p \in Paths, AnswerReject(p) \/ Accept(p) PROVE PromptNext
  <2>1. Dequeue({p}) /\ PromptHead(ask)
    BY <1>2 DEF AnswerReject, Accept, Restore
  <2>2. pending' \subseteq Paths
    BY <1>0, <2>1 DEF Dequeue
  <2> QED  BY <1>0, <2>1, <2>2, DequeueOrder, PromptHeadInv
<1>3. ASSUME NEW p \in Paths, AcceptStale(p) PROVE PromptNext
  <2> DEFINE sha == IF EntryChanged(baseline[p], disk[p]) THEN ShaOf(disk[p]) ELSE None
             asks == [ask EXCEPT ![p].shown = Unshown, ![p].sha = sha]
  <2>1. sha \in Digest
    BY EntryFacts DEF PromptInv, TypeOK, Snapshot
  <2>2. asks \in [Paths -> Asked]
    BY <1>0, <2>1 DEF Asked
  <2>3. UNCHANGED <<pending, older>> /\ PromptHead(asks)
    BY <1>3 DEF AcceptStale
  <2>4. \A q \in Paths : asks[q].shown \in {ask[q].shown, Unshown}
    BY <1>0 DEF Asked
  <2> HIDE DEF asks
  <2>5. QueuedOnce(pending', older') /\ ShownIsHead(pending', older', asks, screen)
    BY <1>0, <2>3, <2>4 DEF PromptInv, ShownIsHead
  <2> QED  BY <1>0, <2>2, <2>3, <2>5, PromptHeadInv
<1>4. ASSUME NEW p \in Paths, AcceptFails(p) PROVE PromptNext
  BY <1>4, QuietPrompt DEF AcceptFails
<1> QED  BY <1>1, <1>2, <1>3, <1>4 DEF Answer

LEMMA PromptOthers == PromptInv /\ (Stop \/ Stopping \/ Environment) => PromptNext
<1> SUFFICES ASSUME PromptInv, Stop \/ Stopping \/ Environment PROVE PromptNext
  OBVIOUS
<1> USE DEF files, asking, counts, loop, term
<1>1. CASE Stop \/ StopScan
  BY <1>1, QuietPrompt DEF Stop, StopScan
<1>2. ASSUME NEW p \in Paths, StopReject(p) PROVE PromptNext
  <2>1. Dequeue({p}) /\ UNCHANGED <<ask, screen>> /\ pc' # "idle"
    BY <1>2 DEF StopReject, Restore
  <2> QED  BY <2>1, DequeueOrder DEF PromptNext, HeadIsShown
<1>3. ASSUME NEW p \in Paths, StopRestore(p) PROVE PromptNext
  BY <1>3, QuietPrompt DEF StopRestore
<1>4. CASE Clock
  <2>1. \A p \in Paths : ask[p] \in Asked
    BY DEF PromptInv, TypeOK
  <2>2. \A p \in Paths : ask'[p].shown = ask[p].shown /\ ask'[p].sha = ask[p].sha
    BY <1>4, <2>1 DEF Clock, Asked
  <2>3. UNCHANGED <<pending, older, screen, pc>>
    BY <1>4 DEF Clock
  <2> QED  BY <2>2, <2>3, QuietPrompt
<1>5. CASE Environment /\ ~Clock
  <2>1. UNCHANGED <<pending, older, ask, screen, pc>>
    BY <1>5 DEF Environment, AgentWrite, AgentBlock, AgentUnblock, AgentQuits, AgentActs, Press
  <2> QED  BY <2>1, QuietPrompt
<1> QED  BY <1>1, <1>2, <1>3, <1>4, <1>5 DEF Stopping

(* Whenever a key can be delivered, the question on the screen is the one  *)
(* it will answer: the oldest decision, with the digest the file was last  *)
(* seen with.                                                              *)
THEOREM PromptIsForTheHead == Spec => []HeadIsShown
<1>1. Init => PromptInv
  <2> SUFFICES ASSUME Init PROVE PromptInv
    OBVIOUS
  <2>1. TypeOK
    BY TypeInit
  <2>2. pending = {} /\ older = {}
    BY DEF Init
  <2> QED  BY <2>1, <2>2 DEF PromptInv, QueuedOnce, ShownIsHead, HeadIsShown, IsHead
<1>2. PromptInv /\ [Next]_vars => PromptInv'
  <2> SUFFICES ASSUME PromptInv, [Next]_vars PROVE PromptInv'
    OBVIOUS
  <2>1. CASE Next
    <3>1. TypeOK'
      BY <2>1, TypeTick, TypeAnswer, TypeStop, TypeEnvironment DEF PromptInv, Next
    <3>2. PromptNext
      BY <2>1, PromptTick, PromptAnswer, PromptOthers DEF Next
    <3> QED  BY <3>1, <3>2 DEF PromptInv, PromptNext, QueuedOnce, ShownIsHead, IsHead
  <2>2. CASE UNCHANGED vars
    <3>1. TypeOK'
      BY <2>2 DEF vars, files, asking, counts, summary, loop, term, PromptInv, TypeOK
    <3>2. PromptNext
      BY <2>2, QuietPrompt DEF vars, asking, loop, term
    <3> QED  BY <3>1, <3>2 DEF PromptInv, PromptNext, QueuedOnce, ShownIsHead, IsHead
  <2> QED  BY <2>1, <2>2
<1>3. PromptInv => HeadIsShown
  BY DEF PromptInv
<1> QED  BY <1>1, <1>2, <1>3, PTL DEF Spec

-----------------------------------------------------------------------------
(* The exit.                                                               *)

(* What is not on the list of stop() is at the baseline, and stays there    *)
(* for as long as nobody writes.                                            *)
ExitInv ==
  /\ TypeOK
  /\ pc = "stopped" => todo = {}
  /\ pc \in {"leftover", "stopped"} /\ ~late /\ blocked = {} => \A p \in Watched \ todo : disk[p] = baseline[p]

(* A handler that ends without reaching the list of stop().                 *)
LEMMA NotAtExit == ASSUME pc' \notin {"leftover", "stopped"}, TypeOK' PROVE ExitInv'
BY DEF ExitInv

LEMMA ExitStays ==
  ASSUME ExitInv, TypeOK', UNCHANGED <<disk, baseline, pc, todo, late, blocked>> PROVE ExitInv'
BY DEF ExitInv

LEMMA ExitAgent == ASSUME ExitInv, TypeOK', AgentActs, UNCHANGED <<pc, todo>> PROVE ExitInv'
<1>1. pc # "stopped" /\ (pc = "leftover" => late')
  BY DEF AgentActs, Stopped
<1> QED  BY <1>1 DEF ExitInv

LEMMA ExitStep == ExitInv /\ Next => ExitInv'
<1> SUFFICES ASSUME ExitInv, Next PROVE ExitInv'
  OBVIOUS
<1>0. TypeOK /\ TypeOK'
  BY TypeTick, TypeAnswer, TypeStop, TypeEnvironment DEF ExitInv, Next
<1> USE DEF files, asking, counts, summary, loop, term
<1>1. CASE Tick
  <2>1. pc' \notin {"leftover", "stopped"}
    BY <1>1 DEF Tick, TickScan, ObserveReport, ObserveAsk, ObserveContested, Observed, ExpireOne, TickEnd
  <2> QED  BY <1>0, <2>1, NotAtExit
<1>2. CASE Answer \/ Stop
  <2>1. pc' \notin {"leftover", "stopped"}
    BY <1>2 DEF Answer, AnswerNothing, AnswerReject, AcceptStale, Accept, AcceptFails, Delivered, Stop
  <2> QED  BY <1>0, <2>1, NotAtExit
<1>3. CASE StopScan
  <2>1. UNCHANGED <<disk, baseline, late, blocked>> /\ todo' = Changes(baseline, disk) \ ReportPaths
        /\ pc' = IF todo' = {} THEN "stopped" ELSE "leftover"
    BY <1>3 DEF StopScan
  <2>2. \A p \in Watched \ todo' : disk[p] = baseline[p]
    BY <2>1 DEF Watched, Changes, EntryChanged
  <2> QED  BY <1>0, <2>1, <2>2 DEF ExitInv
<1>4. ASSUME NEW p \in Paths, StopReject(p) PROVE ExitInv'
  <2>1. pc' = "reject"
    BY <1>4 DEF StopReject
  <2> QED  BY <1>0, <2>1, NotAtExit
<1>5. ASSUME NEW p \in Paths, StopRestore(p) PROVE ExitInv'
  <2>1. /\ UNCHANGED <<baseline, late, blocked>> /\ todo' = todo \ {p} /\ pc = "leftover"
        /\ pc' = IF todo' = {} THEN "stopped" ELSE "leftover"
        /\ disk' = IF p \in blocked THEN disk ELSE [disk EXCEPT ![p] = baseline[p]]
    BY <1>5 DEF StopRestore, RestoreChange, Reverted
  <2>2. blocked = {} /\ ~late => \A q \in Watched \ todo' : disk'[q] = baseline[q]
    BY <1>0, <2>1 DEF ExitInv, TypeOK, Snapshot, Watched
  <2> QED  BY <1>0, <2>1, <2>2 DEF ExitInv
<1>6. CASE Environment
  <2>1. CASE Clock \/ \E letter \in Key : Press(letter)
    BY <1>0, <2>1, ExitStays DEF Clock, Press
  <2>2. CASE ~(Clock \/ \E letter \in Key : Press(letter))
    BY <1>0, <1>6, <2>2, ExitAgent DEF Environment, AgentWrite, AgentBlock, AgentUnblock, AgentQuits, AgentActs
  <2> QED  BY <2>1, <2>2
<1> QED  BY <1>1, <1>2, <1>3, <1>4, <1>5, <1>6 DEF Next, Stopping

(* stop() leaves nothing undecided on disk, also no change that no tick has *)
(* seen yet, unless a restore fails or the agent writes meanwhile.          *)
THEOREM ExitIsClean == Spec => []ExitRestores
<1>1. Init => ExitInv
  BY TypeInit DEF Init, ExitInv
<1>2. ExitInv /\ [Next]_vars => ExitInv'
  <2>1. ASSUME ExitInv, UNCHANGED vars PROVE ExitInv'
    BY <2>1 DEF vars, files, asking, counts, summary, loop, term, ExitInv, TypeOK
  <2> QED  BY <2>1, ExitStep
<1>3. ExitInv => ExitRestores
  BY DEF ExitInv, ExitRestores, Stopped
<1> QED  BY <1>1, <1>2, <1>3, PTL DEF Spec
=============================================================================
