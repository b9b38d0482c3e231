---------------------------- MODULE VerifyProofs ----------------------------
(***************************************************************************)
(* What `gantry verify` promises.  Its runs: what a run record says is     *)
(* true, for any mission, history, gate and number of verify runs, as long *)
(* as nobody edits or commits while the run that writes it works; other    *)
(* runs may work beside it, and crash.  Its rules: no level of law widens  *)
(* another, and a change answers to the contract of its base, for all laws,*)
(* contracts and repositories; the search for import cycles finds them all.*)
(***************************************************************************)
EXTENDS VerifyRun, Rules, CycleSearch, FiniteSetTheorems, WellFoundedInduction, TLAPS

(* A recording run that nobody disturbed holds on to these facts from one   *)
(* phase to the next: the tracked files are those of HEAD from the first    *)
(* look at the tree on; they are what the gate ran on; an untracked file    *)
(* the gate saw is still there, so that the second look finds it.           *)
Recording == {"contract", "others", "stub", "gate", "again", "readHead", "write"}
Gated == {"again", "readHead", "write"}
Looked == {"readHead", "write"}

Held(r) ==
  /\ pc[r] \in Recording => wt.src = commits[head].src
  /\ pc[r] \in Gated => /\ seen[r].src = wt.src
                        /\ <<seen[r].src, seen[r].extra>> \in Passing
                        /\ seen[r].extra => wt.extra
  /\ pc[r] \in Looked => seen[r].extra = FALSE
  /\ pc[r] = "write" => at[r] = head
  /\ pc[r] # "evidence"
  /\ judged[r] # NoRecord =>
       /\ judged[r].head \in 1 .. Len(commits)
       /\ Honest(judged[r], r)

Unjudged(r) == pc[r] \in Recording \cup {"start", "proof", "clean", "evidence"}
                 => judged[r] = NoRecord

RecordInv == /\ TypeOK
             /\ \A r \in Runs : Unjudged(r)
             /\ \A r \in Runs \ disturbed : mode[r] = "record" => Held(r)
-----------------------------------------------------------------------------
(* Type correctness.                                                       *)

(* A phase leaves the repository, or the parts of it named here, typed.     *)
LEMMA VerifyTypeInit == Init => TypeOK
BY StartAssumption DEF Init, TypeOK, Commits, RecordFiles, Phases, Ended

LEMMA VerifyTypeStep == TypeOK /\ [Next]_vars => TypeOK'
<1> SUFFICES ASSUME TypeOK, [Next]_vars PROVE TypeOK'
  OBVIOUS
<1> USE DEF TypeOK, Goto
<1>0. /\ commits[head] \in Commits
      /\ commits[head].src \in Contents /\ commits[head].law \in Laws
      /\ commits[head].rec \in RecordFiles /\ commits[head].planner \in BOOLEAN
      /\ commits[head].parent \in Nat
  <2>1. commits[head] \in Commits
    OBVIOUS
  <2> QED  BY <2>1 DEF Commits
<1>1. ASSUME NEW r \in Runs, Load(r) PROVE TypeOK'
  BY <1>1 DEF Load, repo, Phases
<1>2. ASSUME NEW r \in Runs, Proof(r) PROVE TypeOK'
  BY <1>2 DEF Proof, repo, Phases, Ended
<1>3. ASSUME NEW r \in Runs, Clean(r) PROVE TypeOK'
  BY <1>3 DEF Clean, repo, Phases, Ended
<1>4. ASSUME NEW r \in Runs, Contract(r) PROVE TypeOK'
  BY <1>4 DEF Contract, repo, Phases, Ended
<1>5. ASSUME NEW r \in Runs, Others(r) PROVE TypeOK'
  BY <1>5 DEF Others, repo, Phases, Ended
<1>6. ASSUME NEW r \in Runs, Stub(r) PROVE TypeOK'
  BY <1>6 DEF Stub, repo, Phases, Ended
<1>7. ASSUME NEW r \in Runs, Gate(r) PROVE TypeOK'
  <2>1. wt' \in [src : Contents, law : Laws, rec : RecordFiles, extra : BOOLEAN]
    BY <1>7 DEF Gate
  <2>2. pc' \in [Runs -> Phases]
    BY <1>7 DEF Gate, Phases, Ended
  <2> QED  BY <1>7, <2>1, <2>2 DEF Gate
<1>8. ASSUME NEW r \in Runs, Evidence(r) PROVE TypeOK'
  <2>1. pc' \in [Runs -> Phases] /\ judged' \in [Runs -> RecordFiles]
    <3>1. CASE Accepts(r, wt.rec)
      <4>1. pc' = [pc EXCEPT ![r] = "ledger"] /\ judged' = [judged EXCEPT ![r] = wt.rec]
        BY <1>8, <3>1, Zenon DEF Evidence
      <4> QED  BY <4>1 DEF Phases
    <3>2. CASE ~Accepts(r, wt.rec)
      <4>1. pc' = [pc EXCEPT ![r] = "failed"] /\ judged' = judged
        BY <1>8, <3>2, Zenon DEF Evidence
      <4> QED  BY <4>1 DEF Phases, Ended
    <3> QED  BY <3>1, <3>2
  <2> QED  BY <1>8, <2>1 DEF Evidence, repo
<1>9. ASSUME NEW r \in Runs, CleanAgain(r) PROVE TypeOK'
  BY <1>9 DEF CleanAgain, repo, Phases, Ended
<1>10. ASSUME NEW r \in Runs, ReadHead(r) PROVE TypeOK'
  BY <1>10 DEF ReadHead, repo, Phases
<1>11. ASSUME NEW r \in Runs, OpenRecord(r) PROVE TypeOK'
  <2>1. commits[head].src \in Contents
    BY <1>0
  <2>2. [head |-> at[r], tree |-> commits[head].src, law |-> law[r]] \in RecordFiles
    BY <2>1 DEF RecordFiles, Records
  <2>3. wt' \in [src : Contents, law : Laws, rec : RecordFiles, extra : BOOLEAN]
    BY <1>11 DEF OpenRecord, RecordFiles
  <2> QED  BY <1>11, <2>2, <2>3 DEF OpenRecord, Phases
<1>12. ASSUME NEW r \in Runs, FillRecord(r) PROVE TypeOK'
  BY <1>12 DEF FillRecord, Phases
<1>13. ASSUME NEW r \in Runs, Ledger(r) PROVE TypeOK'
  BY <1>13 DEF Ledger, repo, Phases, Ended, RecordFiles
<1>14. ASSUME NEW r \in Runs, Crash(r) PROVE TypeOK'
  BY <1>14 DEF Crash, repo, Phases, Ended
<1>15. ASSUME Edit PROVE TypeOK'
  <2>1. wt' \in [src : Contents, law : Laws, rec : RecordFiles, extra : BOOLEAN]
    <3>1. PICK w \in Edits : wt' = w
      BY <1>15 DEF Edit
    <3>2. \A s \in Contents : [wt EXCEPT !.src = s]
            \in [src : Contents, law : Laws, rec : RecordFiles, extra : BOOLEAN]
      OBVIOUS
    <3>3. \A l \in Laws : [wt EXCEPT !.law = l]
            \in [src : Contents, law : Laws, rec : RecordFiles, extra : BOOLEAN]
      OBVIOUS
    <3>4. [wt EXCEPT !.extra = ~wt.extra]
            \in [src : Contents, law : Laws, rec : RecordFiles, extra : BOOLEAN]
      OBVIOUS
    <3>5. \/ \E s \in Contents : w = [wt EXCEPT !.src = s]
          \/ \E l \in Laws : w = [wt EXCEPT !.law = l]
          \/ w = [wt EXCEPT !.extra = ~wt.extra]
      BY <3>1, Zenon DEF Edits
    <3> QED  BY <3>1, <3>2, <3>3, <3>4, <3>5
  <2>2. edits' \in Nat /\ disturbed' \subseteq Runs
    BY <1>15 DEF Edit, Running
  <2> QED  BY <1>15, <2>1, <2>2 DEF Edit
<1>16. ASSUME Stash PROVE TypeOK'
  <2>1. wt' \in [src : Contents, law : Laws, rec : RecordFiles, extra : BOOLEAN]
    BY <1>0, <1>16 DEF Stash
  <2>2. edits' \in Nat /\ disturbed' \subseteq Runs
    BY <1>16 DEF Stash, Running
  <2> QED  BY <1>16, <2>1, <2>2 DEF Stash
<1>17. ASSUME NEW parent \in 1 .. Len(commits), NEW planner \in BOOLEAN, CommitOn(parent, planner)
       PROVE  TypeOK'
  <2> DEFINE new == [src |-> wt.src, law |-> wt.law, rec |-> wt.rec, planner |-> planner,
                     parent |-> parent, line |-> <<Len(commits) + 1>> \o commits[parent].line]
  <2>1. new \in Commits
    <3>1. commits[parent].line \in Seq(Nat)
      <4>1. commits[parent] \in Commits
        OBVIOUS
      <4> QED  BY <4>1 DEF Commits
    <3>2. <<Len(commits) + 1>> \o commits[parent].line \in Seq(Nat)
      BY <3>1
    <3> QED  BY <3>2 DEF Commits
  <2>2. commits' = Append(commits, new)
    BY <1>17 DEF CommitOn
  <2> HIDE DEF new
  <2>3. commits' \in Seq(Commits) /\ Len(commits') = Len(commits) + 1
    BY <2>1, <2>2
  <2>4. \A c \in DOMAIN commits' : commits'[c].parent < c
    <3>1. \A c \in DOMAIN commits : commits'[c] = commits[c]
      BY <2>1, <2>2
    <3>2. commits'[Len(commits) + 1].parent = parent
      BY <2>1, <2>2 DEF new
    <3>3. Len(commits) \in Nat /\ \A c \in 1 .. Len(commits) + 1 : c \in 1 .. Len(commits) \/ c = Len(commits) + 1
      OBVIOUS
    <3>4. \A c \in DOMAIN commits : commits[c].parent < c
      OBVIOUS
    <3>5. parent < Len(commits) + 1
      OBVIOUS
    <3>6. DOMAIN commits = 1 .. Len(commits) /\ DOMAIN commits' = 1 .. Len(commits) + 1
      BY <2>3
    <3> QED  BY <3>1, <3>2, <3>3, <3>4, <3>5, <3>6
  <2>5. head' \in 1 .. Len(commits') /\ at' \in [Runs -> 0 .. Len(commits')]
    BY <1>17, <2>3 DEF CommitOn
  <2>6. disturbed' \subseteq Runs /\ UNCHANGED <<wt, edits, pc, mode, law, seen, judged, receipt>>
    BY <1>17 DEF CommitOn, Running
  <2> QED  BY <2>3, <2>4, <2>5, <2>6
<1>18. /\ commits[head].planner \in BOOLEAN /\ head \in 1 .. Len(commits)
       /\ commits[head].parent # 0 => commits[head].parent \in 1 .. Len(commits)
  BY <1>0
<1>19. CASE UNCHANGED vars
  BY <1>19 DEF vars
<1> QED
  BY <1>1, <1>2, <1>3, <1>4, <1>5, <1>6, <1>7, <1>8, <1>9, <1>10, <1>11, <1>12, <1>13, <1>14,
     <1>15, <1>16, <1>17, <1>18, <1>19 DEF Next, RunStep, Commit, Amend

(* Every state of every verify run, record and commit is of its type.       *)
THEOREM VerifyTypeCorrect == Spec => []TypeOK
BY VerifyTypeInit, VerifyTypeStep, PTL DEF Spec
-----------------------------------------------------------------------------
(* The records.                                                            *)

LEMMA RecordInit == Init => RecordInv
<1> SUFFICES ASSUME Init PROVE RecordInv
  OBVIOUS
<1>1. TypeOK
  BY VerifyTypeInit
<1>2. \A r \in Runs : Unjudged(r) /\ mode[r] = "plain"
  BY DEF Init, Unjudged
<1> QED  BY <1>1, <1>2 DEF RecordInv

(* A step of run r, and of no other, that leaves the repository alone, or   *)
(* only empties or fills the record file or leaves an untracked file,       *)
(* takes nothing from the runs beside it.                                   *)
LEMMA BesideKept ==
  ASSUME RecordInv, TypeOK', NEW r \in Runs, NEW q \in Runs \ disturbed, q # r,
         mode'[q] = mode[q], mode[q] = "record", pc'[q] = pc[q], seen'[q] = seen[q],
         at'[q] = at[q], judged'[q] = judged[q], commits' = commits, head' = head,
         wt'.src = wt.src, wt.extra => wt'.extra
  PROVE  Held(q)'
<1>1. Held(q)
  BY DEF RecordInv
<1> QED  BY <1>1 DEF Held, Honest

(* The step of run r itself keeps what it holds on to, action by action.    *)
LEMMA OwnKept ==
  ASSUME RecordInv, TypeOK', NEW r \in Runs, RunStep(r), r \notin disturbed', mode'[r] = "record"
  PROVE  Held(r)'
<1> USE DEF Goto
<1>0. /\ TypeOK /\ Unjudged(r) /\ r \in Runs \ disturbed
      /\ mode[r] = "record" => Held(r)
  <2>1. disturbed' = disturbed
    BY DEF RunStep, Load, Proof, Clean, Contract, Others, Stub, Gate, Evidence, CleanAgain,
           ReadHead, OpenRecord, FillRecord, Ledger, Crash, repo
  <2> QED  BY <2>1 DEF RecordInv
<1>1. CASE Load(r)
  <2>1. pc'[r] = "proof" /\ judged'[r] = NoRecord
    BY <1>0, <1>1 DEF Load, TypeOK, Unjudged
  <2> QED  BY <2>1 DEF Held, Recording, Gated, Looked
<1>2. ~Load(r) => mode[r] = "record" /\ Held(r)
  BY <1>0 DEF RunStep, Proof, Clean, Contract, Others, Stub, Gate, Evidence, CleanAgain,
              ReadHead, OpenRecord, FillRecord, Ledger, Crash
<1>3. CASE Proof(r) \/ Clean(r)
  <2>1. /\ pc'[r] \in {"failed", "clean", "init", "contract"}
        /\ judged'[r] = NoRecord
        /\ pc'[r] = "contract" => wt'.src = commits'[head'].src
    <3>1. CASE Proof(r)
      BY <1>0, <1>2, <3>1 DEF Proof, Load, TypeOK, Unjudged, repo
    <3>2. CASE Clean(r)
      BY <1>0, <3>2 DEF Clean, TypeOK, Unjudged, repo, Dirty
    <3> QED  BY <1>3, <3>1, <3>2
  <2> QED  BY <2>1 DEF Held, Recording, Gated, Looked
<1>4. CASE Contract(r) \/ Others(r) \/ Stub(r)
  <2>1. /\ pc'[r] \in {"failed", "others", "stub", "gate"}
        /\ judged'[r] = NoRecord
        /\ wt'.src = commits'[head'].src
    <3>1. CASE Contract(r)
      BY <1>0, <1>2, <3>1 DEF Contract, Load, TypeOK, Unjudged, repo, Held, Recording
    <3>2. CASE Others(r)
      BY <1>0, <1>2, <3>2 DEF Others, Load, TypeOK, Unjudged, repo, Held, Recording
    <3>3. CASE Stub(r)
      BY <1>0, <1>2, <3>3 DEF Stub, Load, TypeOK, Unjudged, repo, Held, Recording
    <3> QED  BY <1>4, <3>1, <3>2, <3>3
  <2> QED  BY <2>1 DEF Held, Recording, Gated, Looked
<1>5. CASE Gate(r)
  <2>1. /\ pc[r] = "gate" /\ judged'[r] = NoRecord
        /\ wt'.src = wt.src /\ (wt.extra => wt'.extra)
        /\ wt.src = commits[head].src /\ commits' = commits /\ head' = head
        /\ seen'[r] = [src |-> wt.src, extra |-> wt.extra]
        /\ pc'[r] \in {"failed", "again"}
        /\ pc'[r] = "again" => <<wt.src, wt.extra>> \in Passing
    BY <1>0, <1>2, <1>5 DEF Gate, Load, TypeOK, Unjudged, Held, Recording
  <2> QED  BY <2>1 DEF Held, Recording, Gated, Looked
<1>6. CASE Evidence(r)
  BY <1>2, <1>6 DEF Evidence, Load, Held
<1>7. CASE CleanAgain(r)
  <2>1. /\ pc[r] = "again" /\ judged'[r] = NoRecord
        /\ commits' = commits /\ head' = head /\ wt' = wt /\ seen' = seen
        /\ pc'[r] \in {"init", "readHead"}
        /\ pc'[r] = "readHead" => wt.extra = FALSE
    BY <1>0, <1>2, <1>7 DEF CleanAgain, Load, TypeOK, Unjudged, Recording, repo, Dirty
  <2>2. seen[r].extra \in BOOLEAN /\ Held(r)
    BY <1>0, <1>2, <1>7 DEF TypeOK, CleanAgain, Load
  <2> QED  BY <2>1, <2>2 DEF Held, Recording, Gated, Looked
<1>8. CASE ReadHead(r)
  <2>1. /\ pc[r] = "readHead" /\ judged'[r] = NoRecord /\ pc'[r] = "write"
        /\ commits' = commits /\ head' = head /\ wt' = wt /\ seen' = seen
        /\ at'[r] = head
    BY <1>0, <1>8 DEF ReadHead, TypeOK, Unjudged, Recording, repo
  <2>2. Held(r)
    BY <1>2, <1>8 DEF ReadHead, Load
  <2> QED  BY <2>1, <2>2 DEF Held, Recording, Gated, Looked
<1>9. CASE OpenRecord(r)
  <2>1. /\ pc[r] = "write" /\ pc'[r] = "fill"
        /\ judged'[r] = [head |-> at[r], tree |-> commits[head].src, law |-> law[r]]
        /\ commits' = commits /\ head' = head /\ seen' = seen
    BY <1>0, <1>9 DEF OpenRecord, TypeOK
  <2>2. /\ at[r] = head /\ head \in 1 .. Len(commits)
        /\ seen[r] = [src |-> commits[head].src, extra |-> FALSE]
        /\ <<commits[head].src, FALSE>> \in Passing
    <3>1. Held(r)
      BY <1>2, <1>9 DEF OpenRecord, Load
    <3>2. seen[r] \in [src : Contents, extra : BOOLEAN] /\ head \in 1 .. Len(commits)
      BY <1>0 DEF TypeOK
    <3> QED  BY <2>1, <3>1, <3>2 DEF Held, Recording, Gated, Looked
  <2> QED  BY <2>1, <2>2 DEF Held, Recording, Gated, Looked, Honest
<1>10. CASE FillRecord(r) \/ Ledger(r) \/ Crash(r)
  <2>1. /\ pc'[r] \in {"ledger", "passed", "stubbed", "dead"}
        /\ judged' = judged /\ commits' = commits /\ seen' = seen
    <3>1. CASE FillRecord(r)
      BY <1>0, <3>1 DEF FillRecord, TypeOK
    <3>2. CASE Ledger(r)
      BY <1>0, <3>2 DEF Ledger, TypeOK, repo
    <3>3. CASE Crash(r)
      BY <1>0, <3>3 DEF Crash, TypeOK, repo
    <3> QED  BY <1>10, <3>1, <3>2, <3>3
  <2>2. Held(r)
    BY <1>2, <1>10 DEF FillRecord, Ledger, Crash, Load
  <2> QED  BY <2>1, <2>2 DEF Held, Honest, Recording, Gated, Looked
<1> QED
  BY <1>1, <1>3, <1>4, <1>5, <1>6, <1>7, <1>8, <1>9, <1>10 DEF RunStep

(* A step of a run changes nothing that the runs beside it hold on to.      *)
LEMMA RunStepLeaves ==
  ASSUME TypeOK, NEW r \in Runs, RunStep(r)
  PROVE  /\ commits' = commits /\ head' = head /\ disturbed' = disturbed
         /\ wt'.src = wt.src /\ (wt.extra => wt'.extra)
         /\ \A q \in Runs \ {r} : /\ mode'[q] = mode[q] /\ pc'[q] = pc[q] /\ seen'[q] = seen[q]
                                  /\ at'[q] = at[q] /\ judged'[q] = judged[q]
<1> USE DEF TypeOK, Goto
<1>1. CASE Load(r) \/ Proof(r) \/ Clean(r) \/ Contract(r)
  BY <1>1 DEF Load, Proof, Clean, Contract, repo
<1>2. CASE Others(r) \/ Stub(r) \/ CleanAgain(r) \/ ReadHead(r) \/ Ledger(r) \/ Crash(r)
  BY <1>2 DEF Others, Stub, CleanAgain, ReadHead, Ledger, Crash, repo
<1>3. CASE Gate(r)
  BY <1>3 DEF Gate
<1>4. CASE Evidence(r)
  BY <1>4 DEF Evidence, repo
<1>5. CASE OpenRecord(r) \/ FillRecord(r)
  BY <1>5 DEF OpenRecord, FillRecord
<1> QED  BY <1>1, <1>2, <1>3, <1>4, <1>5 DEF RunStep

(* A judging run reads no record before it has reached its evidence.        *)
LEMMA UnjudgedKept ==
  ASSUME TypeOK, NEW r \in Runs, Unjudged(r), RunStep(r)
  PROVE  Unjudged(r)'
<1> USE DEF TypeOK, Goto, Unjudged, Recording
<1>1. CASE Load(r) \/ Proof(r) \/ Clean(r) \/ Contract(r)
  BY <1>1 DEF Load, Proof, Clean, Contract
<1>2. CASE Others(r) \/ Stub(r) \/ CleanAgain(r) \/ ReadHead(r) \/ Ledger(r) \/ Crash(r)
  BY <1>2 DEF Others, Stub, CleanAgain, ReadHead, Ledger, Crash
<1>3. CASE Gate(r)
  BY <1>3 DEF Gate
<1>4. CASE Evidence(r)
  BY <1>4 DEF Evidence
<1>5. CASE OpenRecord(r) \/ FillRecord(r)
  BY <1>5 DEF OpenRecord, FillRecord
<1> QED  BY <1>1, <1>2, <1>3, <1>4, <1>5 DEF RunStep

(* Editors and committers disturb every run they could mislead.             *)
LEMMA EditorsKept ==
  ASSUME RecordInv, TypeOK', Edit \/ Stash \/ Commit \/ Amend
  PROVE  RecordInv'
<1>0. TypeOK
  BY DEF RecordInv
<1>1. /\ disturbed' = disturbed \cup Running
      /\ UNCHANGED <<pc, mode, law, seen, at, judged, receipt>>
  BY DEF Edit, Stash, Commit, Amend, CommitOn
<1>2. /\ Len(commits) <= Len(commits') /\ Len(commits') \in Nat /\ Len(commits) \in Nat
      /\ \A c \in 1 .. Len(commits) : commits'[c] = commits[c]
  <2>1. CASE Edit \/ Stash
    BY <1>0, <2>1 DEF Edit, Stash, TypeOK
  <2>2. ASSUME NEW parent, NEW planner, CommitOn(parent, planner)
        PROVE  /\ Len(commits) <= Len(commits') /\ Len(commits') \in Nat /\ Len(commits) \in Nat
               /\ \A c \in 1 .. Len(commits) : commits'[c] = commits[c]
    <3>1. PICK new : commits' = Append(commits, new)
      BY <2>2 DEF CommitOn
    <3>2. commits \in Seq(Commits) /\ commits' \in Seq(Commits)
      BY <1>0 DEF TypeOK
    <3> QED  BY <3>1, <3>2
  <2> QED  BY <2>1, <2>2 DEF Commit, Amend
<1>3. ASSUME NEW r \in Runs \ disturbed', mode'[r] = "record" PROVE Held(r)'
  <2>1. pc[r] \in Ended \cup {"start"} /\ r \notin disturbed /\ Held(r)
    BY <1>1, <1>3 DEF Running, RecordInv
  <2>2. pc[r] \notin Recording \cup Gated \cup Looked \cup {"write", "evidence"}
    BY <2>1 DEF Ended, Recording, Gated, Looked
  <2>3. judged[r] # NoRecord =>
          judged[r].head \in 1 .. Len(commits') /\ Honest(judged[r], r)'
    BY <1>0, <1>1, <1>2, <2>1 DEF Held, Honest
  <2> QED  BY <1>1, <2>2, <2>3 DEF Held, Honest
<1> QED  BY <1>1, <1>3 DEF RecordInv, Unjudged

LEMMA RecordStep == RecordInv /\ [Next]_vars => RecordInv'
<1> SUFFICES ASSUME RecordInv, [Next]_vars PROVE RecordInv'
  OBVIOUS
<1>1. TypeOK'
  BY VerifyTypeStep DEF RecordInv
<1>2. ASSUME NEW r \in Runs, RunStep(r) PROVE RecordInv'
  <2>1. TypeOK /\ Unjudged(r)
    BY DEF RecordInv
  <2>2. ASSUME NEW q \in Runs PROVE Unjudged(q)'
    <3>1. CASE q = r
      BY <1>2, <2>1, <3>1, UnjudgedKept
    <3>2. CASE q # r
      BY <1>2, <2>1, <3>2, RunStepLeaves DEF Unjudged, RecordInv
    <3> QED  BY <3>1, <3>2
  <2>3. ASSUME NEW q \in Runs \ disturbed', mode'[q] = "record" PROVE Held(q)'
    <3>1. CASE q = r
      BY <1>1, <1>2, <2>3, <3>1, OwnKept
    <3>2. CASE q # r
      BY <1>1, <1>2, <2>1, <2>3, <3>2, RunStepLeaves, BesideKept
    <3> QED  BY <3>1, <3>2
  <2> QED  BY <1>1, <2>2, <2>3 DEF RecordInv
<1>3. CASE Edit \/ Stash \/ Commit \/ Amend
  BY <1>1, <1>3, EditorsKept
<1>4. CASE UNCHANGED vars
  BY <1>1, <1>4 DEF vars, RecordInv, Unjudged, Held, Honest
<1> QED  BY <1>2, <1>3, <1>4 DEF Next

(* A record written while nobody edited or committed names a commit whose   *)
(* content, with no other file, is what the gate passed on.                 *)
THEOREM RecordsAreHonest == Spec => []RecordNamesTested
<1>1. RecordInv => RecordNamesTested
  BY DEF RecordInv, RecordNamesTested, Recorders, Held
<1> QED  BY <1>1, RecordInit, RecordStep, PTL DEF Spec
(* A run that passes on a record finds, at that moment, what the gate of    *)
(* the recording run passed on under the roots: nothing tracked there       *)
(* changed since, wherever in between it edits or commits.                  *)
THEOREM PassesAreOnWhatWasTested == Spec => PassMeansTested
<1> DEFINE Tested(r, w) == judged[r] # judged'[r] /\ pc'[r] = "ledger" /\ judged'[r] = judged[w]
                             => RootsOf[wt.src] = RootsOf[seen[w].src]
<1>1. ASSUME RecordInv, [Next]_vars, NEW r \in Runs, NEW w \in Recorders \ disturbed
      PROVE  Tested(r, w)
  <2> SUFFICES ASSUME judged[r] # judged'[r], pc'[r] = "ledger", judged'[r] = judged[w]
               PROVE  RootsOf[wt.src] = RootsOf[seen[w].src]
    OBVIOUS
  <2>1. TypeOK
    BY <1>1 DEF RecordInv
  <2>2. Evidence(r)
    <3>1. ASSUME NEW q \in Runs, RunStep(q) PROVE q = r
      BY <2>1, <3>1, RunStepLeaves, q # r => r \in Runs \ {q}
    <3>2. RunStep(r)
      <4>1. ~(Edit \/ Stash \/ Commit \/ Amend)
        BY DEF Edit, Stash, Commit, Amend, CommitOn
      <4>2. ~UNCHANGED vars
        BY DEF vars
      <4> QED  BY <1>1, <3>1, <4>1, <4>2 DEF Next
    <3>3. ~OpenRecord(r)
      BY <2>1 DEF OpenRecord, Goto, TypeOK
    <3> QED  BY <3>2, <3>3 DEF RunStep, Load, Proof, Clean, Contract, Others, Stub, Gate, CleanAgain,
                               ReadHead, FillRecord, Ledger, Crash
  <2>3. Accepts(r, wt.rec) /\ judged'[r] = wt.rec
    <3>1. Accepts(r, wt.rec)
      <4>1. ~Accepts(r, wt.rec) => judged' = judged
        BY <2>2, Zenon DEF Evidence
      <4> QED  BY <4>1
    <3>2. judged' = [judged EXCEPT ![r] = wt.rec]
      BY <2>2, <3>1, Zenon DEF Evidence
    <3> QED  BY <2>1, <3>1, <3>2 DEF TypeOK
  <2>4. Honest(judged[w], w)
    BY <1>1 DEF RecordInv, Recorders, Held
  <2>5. wt.rec = judged[w]
    BY <2>3
  <2>6. seen[w].src = commits[wt.rec.head].src
    BY <2>4, <2>5 DEF Honest
  <2>7. RootsOf[wt.src] = RootsOf[commits[wt.rec.head].src]
    BY <2>3 DEF Accepts
  <2> QED  BY <2>6, <2>7
<1>2. RecordInv /\ [Next]_vars
        => [\A r \in Runs : \A w \in Recorders \ disturbed :
              judged[r] # judged'[r] /\ pc'[r] = "ledger" /\ judged'[r] = judged[w]
                 => RootsOf[wt.src] = RootsOf[seen[w].src]]_vars
  BY <1>1
<1> QED  BY <1>2, RecordInit, RecordStep, PTL DEF Spec, PassMeansTested
-----------------------------------------------------------------------------
(* Where records come from.                                                *)

(* A record file that parses was written by a run with --record, under the  *)
(* law that run read; git keeps such files and makes none.                  *)
WroteIt(w, rec) == mode[w] = "record" /\ judged[w] = rec /\ law[w] = rec.law
Backed(rec) == rec \in Records => \E w \in Runs : WroteIt(w, rec)

BackedInv == /\ TypeOK
             /\ \A r \in Runs : Unjudged(r)
             /\ Backed(wt.rec)
             /\ \A c \in DOMAIN commits : Backed(commits[c].rec)
             /\ \A r \in Runs : pc[r] \in {"again", "readHead", "write", "fill"} => mode[r] = "record"
             /\ \A r \in Runs : pc[r] = "fill" => WroteIt(r, judged[r])
             /\ \A r \in Runs : /\ judged[r] # NoRecord => judged[r] \in Records /\ judged[r].law = law[r]
                                /\ Backed(judged[r])

LEMMA BackedInit == Init => BackedInv
<1> SUFFICES ASSUME Init PROVE BackedInv
  OBVIOUS
<1>1. TypeOK
  BY VerifyTypeInit
<1>2. NoRecord \notin Records
  BY RecordAssumption
<1> QED  BY <1>1, <1>2 DEF Init, BackedInv, Unjudged, Backed

(* What a run has written it has written for good.                          *)
LEMMA WroteItKept ==
  ASSUME TypeOK, NEW r \in Runs, RunStep(r), NEW w \in Runs, NEW rec \in Records,
         Unjudged(w), WroteIt(w, rec)
  PROVE  WroteIt(w, rec)'
<1> USE DEF TypeOK, Goto
<1>0. judged[w] # NoRecord /\ pc[w] \notin Recording \cup {"start", "proof", "clean", "evidence"}
  BY RecordAssumption DEF WroteIt, Unjudged
<1>1. CASE r # w
  <2>1. law'[w] = law[w]
    BY <1>1 DEF RunStep, Load, Proof, Clean, Contract, Others, Stub, Gate, Evidence, CleanAgain,
           ReadHead, OpenRecord, FillRecord, Ledger, Crash
  <2> QED  BY <1>1, <2>1, RunStepLeaves DEF WroteIt
<1>2. CASE r = w
  <2>1. FillRecord(r) \/ Ledger(r) \/ Crash(r)
    BY <1>0, <1>2 DEF RunStep, Load, Proof, Clean, Contract, Others, Stub, Gate, Evidence,
           CleanAgain, ReadHead, OpenRecord, Recording
  <2> QED  BY <1>2, <2>1 DEF FillRecord, Ledger, Crash, WroteIt
<1> QED  BY <1>1, <1>2

(* What a step of a run does to the record file, and to the record it holds.*)
LEMMA RecordMoves ==
  ASSUME BackedInv, NEW r \in Runs, RunStep(r)
  PROVE  /\ \/ wt'.rec = wt.rec
            \/ wt'.rec = HalfWritten
            \/ pc[r] = "fill" /\ wt'.rec = judged[r] /\ judged' = judged /\ law' = law /\ mode' = mode
         /\ \/ judged'[r] = NoRecord
            \/ judged'[r] = judged[r] /\ law'[r] = law[r]
            \/ judged'[r] = wt.rec /\ wt.rec \in Records /\ wt.rec.law = law[r] /\ law'[r] = law[r]
            \/ WroteIt(r, judged[r])' /\ judged'[r] \in Records
         /\ pc'[r] \in {"again", "readHead", "write", "fill"} => mode'[r] = "record"
         /\ pc'[r] = "fill" => WroteIt(r, judged[r])'
<1> USE DEF Goto
<1>0. TypeOK /\ Unjudged(r) /\ (pc[r] \in {"again", "readHead", "write", "fill"} => mode[r] = "record")
  BY DEF BackedInv
<1> USE <1>0 DEF TypeOK
<1>1. CASE Load(r)
  <2>1. pc'[r] = "proof" /\ judged'[r] = NoRecord /\ wt' = wt
    BY <1>1 DEF Load, repo, Unjudged
  <2> QED  BY <2>1
<1>2. CASE Proof(r) \/ Clean(r) \/ Contract(r)
  <2>1. /\ pc'[r] \in {"failed", "clean", "contract", "init", "others"}
        /\ judged' = judged /\ wt' = wt /\ law' = law
    <3>1. CASE Proof(r)
      BY <3>1 DEF Proof, repo
    <3>2. CASE Clean(r)
      BY <3>2 DEF Clean, repo
    <3>3. CASE Contract(r)
      BY <3>3 DEF Contract, repo
    <3> QED  BY <1>2, <3>1, <3>2, <3>3
  <2> QED  BY <2>1
<1>3. CASE Others(r) \/ Stub(r) \/ Ledger(r) \/ Crash(r)
  <2>1. /\ pc'[r] \in {"stub", "failed", "ledger", "gate", "passed", "stubbed", "dead"}
        /\ judged' = judged /\ wt' = wt /\ law' = law
    <3>1. CASE Others(r)
      BY <3>1 DEF Others, repo
    <3>2. CASE Stub(r)
      BY <3>2 DEF Stub, repo
    <3>3. CASE Ledger(r)
      BY <3>3 DEF Ledger, repo
    <3>4. CASE Crash(r)
      BY <3>4 DEF Crash, repo
    <3> QED  BY <1>3, <3>1, <3>2, <3>3, <3>4
  <2> QED  BY <2>1
<1>4. CASE CleanAgain(r) \/ ReadHead(r)
  <2>1. /\ pc'[r] \in {"init", "readHead", "write"}
        /\ judged' = judged /\ wt' = wt /\ law' = law /\ mode' = mode /\ mode[r] = "record"
    BY <1>4 DEF CleanAgain, ReadHead, repo
  <2> QED  BY <2>1
<1>5. CASE Gate(r)
  <2>1. /\ pc'[r] \in {"failed", "again", "evidence"}
        /\ pc'[r] = "again" => mode[r] = "record"
        /\ judged' = judged /\ wt'.rec = wt.rec /\ law' = law /\ mode' = mode
    BY <1>5 DEF Gate
  <2> QED  BY <2>1
<1>6. CASE Evidence(r)
  <2>1. pc[r] = "evidence" /\ law' = law /\ wt' = wt
    BY <1>6 DEF Evidence, repo
  <2>2. CASE Accepts(r, wt.rec)
    <3>1. pc' = [pc EXCEPT ![r] = "ledger"] /\ judged' = [judged EXCEPT ![r] = wt.rec]
      BY <1>6, <2>2, Zenon DEF Evidence
    <3> QED  BY <2>1, <2>2, <3>1 DEF Accepts
  <2>3. CASE ~Accepts(r, wt.rec)
    <3>1. pc' = [pc EXCEPT ![r] = "failed"] /\ judged' = judged
      BY <1>6, <2>3, Zenon DEF Evidence
    <3> QED  BY <2>1, <3>1
  <2> QED  BY <2>2, <2>3
<1>7. CASE OpenRecord(r)
  <2>1. commits[head].src \in Contents /\ at[r] \in Nat /\ law[r] \in Laws
    <3>1. commits[head] \in Commits
      OBVIOUS
    <3> QED  BY <3>1 DEF Commits
  <2>2. /\ judged'[r] = [head |-> at[r], tree |-> commits[head].src, law |-> law[r]]
        /\ wt'.rec = HalfWritten /\ law' = law /\ mode' = mode /\ mode[r] = "record"
    BY <1>7 DEF OpenRecord
  <2>3. judged'[r] \in Records /\ judged'[r].law = law[r]
    BY <2>1, <2>2 DEF Records
  <2> QED  BY <2>2, <2>3 DEF WroteIt
<1>8. CASE FillRecord(r)
  <2>1. /\ pc[r] = "fill" /\ wt'.rec = judged[r] /\ pc'[r] = "ledger"
        /\ judged' = judged /\ law' = law /\ mode' = mode
    BY <1>8 DEF FillRecord
  <2> QED  BY <2>1
<1> QED  BY <1>1, <1>2, <1>3, <1>4, <1>5, <1>6, <1>7, <1>8 DEF RunStep

LEMMA BackedStep == BackedInv /\ [Next]_vars => BackedInv'
<1> SUFFICES ASSUME BackedInv, [Next]_vars PROVE BackedInv'
  OBVIOUS
<1>1. TypeOK /\ TypeOK'
  BY VerifyTypeStep DEF BackedInv
<1>2. ASSUME NEW r \in Runs, RunStep(r) PROVE BackedInv'
  <2>1. ASSUME NEW q \in Runs PROVE Unjudged(q)'
    <3>1. CASE q = r
      BY <1>1, <1>2, <3>1, UnjudgedKept DEF BackedInv
    <3>2. CASE q # r
      BY <1>1, <1>2, <3>2, RunStepLeaves DEF Unjudged, BackedInv
    <3> QED  BY <3>1, <3>2
  <2>2. ASSUME NEW rec, Backed(rec) PROVE Backed(rec)'
    BY <1>1, <1>2, <2>2, WroteItKept DEF Backed, BackedInv
  <2>3. ASSUME NEW q \in Runs, q # r
        PROVE  /\ law'[q] = law[q] /\ judged'[q] = judged[q]
               /\ pc'[q] = pc[q] /\ mode'[q] = mode[q]
    <3>1. law'[q] = law[q]
      BY <1>1, <1>2, <2>3
         DEF RunStep, Load, Proof, Clean, Contract, Others, Stub, Gate, Evidence, CleanAgain,
             ReadHead, OpenRecord, FillRecord, Ledger, Crash, TypeOK
    <3> QED  BY <1>1, <1>2, <2>3, <3>1, RunStepLeaves
  <2>4. Backed(HalfWritten) /\ Backed(NoRecord)
    BY RecordAssumption DEF Backed
  <2>5. Backed(wt.rec)'
    <3>1. Backed(wt.rec) /\ (pc[r] = "fill" => WroteIt(r, judged[r]))
      BY DEF BackedInv
    <3>2. CASE wt'.rec = wt.rec \/ wt'.rec = HalfWritten
      BY <2>2, <2>4, <3>1, <3>2 DEF Backed
    <3>3. CASE pc[r] = "fill" /\ wt'.rec = judged[r] /\ judged' = judged /\ law' = law /\ mode' = mode
      BY <3>1, <3>3 DEF Backed, WroteIt
    <3> QED  BY <1>2, <3>2, <3>3, RecordMoves
  <2>6. commits' = commits /\ \A c \in DOMAIN commits : Backed(commits[c].rec)'
    <3>1. commits' = commits
      BY <1>1, <1>2, RunStepLeaves
    <3>2. ASSUME NEW c \in DOMAIN commits PROVE Backed(commits[c].rec)'
      <4>1. Backed(commits[c].rec)
        BY DEF BackedInv
      <4> QED  BY <2>2, <3>1, <4>1 DEF Backed
    <3> QED  BY <3>1, <3>2
  <2>7. /\ judged'[r] # NoRecord => judged'[r] \in Records /\ judged'[r].law = law'[r]
        /\ Backed(judged[r])'
    <3>1. /\ judged[r] # NoRecord => judged[r] \in Records /\ judged[r].law = law[r]
          /\ Backed(judged[r]) /\ Backed(wt.rec)
      BY DEF BackedInv
    <3>2. CASE judged'[r] = NoRecord
      BY <3>2, RecordAssumption DEF Backed
    <3>3. CASE judged'[r] = judged[r] /\ law'[r] = law[r]
      BY <2>2, <3>1, <3>3 DEF Backed
    <3>4. CASE judged'[r] = wt.rec /\ wt.rec \in Records /\ wt.rec.law = law[r] /\ law'[r] = law[r]
      BY <2>2, <3>1, <3>4 DEF Backed
    <3>5. CASE WroteIt(r, judged[r])' /\ judged'[r] \in Records
      BY <3>5 DEF Backed, WroteIt
    <3> QED  BY <1>2, <3>2, <3>3, <3>4, <3>5, RecordMoves
  <2>8. ASSUME NEW q \in Runs
        PROVE  /\ pc'[q] \in {"again", "readHead", "write", "fill"} => mode'[q] = "record"
               /\ pc'[q] = "fill" => WroteIt(q, judged[q])'
               /\ judged'[q] # NoRecord => judged'[q] \in Records /\ judged'[q].law = law'[q]
               /\ Backed(judged[q])'
    <3>1. CASE q = r
      <4>1. /\ pc'[r] \in {"again", "readHead", "write", "fill"} => mode'[r] = "record"
            /\ pc'[r] = "fill" => WroteIt(r, judged[r])'
        BY <1>2, RecordMoves
      <4> QED  BY <2>7, <3>1, <4>1 DEF Backed, WroteIt
    <3>2. CASE q # r
      <4>1. /\ pc[q] \in {"again", "readHead", "write", "fill"} => mode[q] = "record"
            /\ pc[q] = "fill" => WroteIt(q, judged[q])
            /\ judged[q] # NoRecord => judged[q] \in Records /\ judged[q].law = law[q]
            /\ Backed(judged[q])
        BY DEF BackedInv
      <4>2. Backed(judged[q])'
        BY <2>2, <2>3, <3>2, <4>1 DEF Backed
      <4> QED  BY <2>3, <3>2, <4>1, <4>2 DEF WroteIt
    <3> QED  BY <3>1, <3>2
  <2> QED  BY <1>1, <2>1, <2>5, <2>6, <2>8 DEF BackedInv
<1>3. CASE Edit \/ Stash \/ Commit \/ Amend
  <2>1. /\ UNCHANGED <<pc, mode, law, judged>>
    BY <1>3 DEF Edit, Stash, Commit, Amend, CommitOn
  <2>2. \A rec : Backed(rec)' <=> Backed(rec)
    BY <2>1 DEF Backed, WroteIt
  <2>3. Backed(wt'.rec) /\ \A c \in DOMAIN commits' : Backed(commits'[c].rec)
    <3>0. Backed(wt.rec) /\ \A c \in DOMAIN commits : Backed(commits[c].rec)
      BY DEF BackedInv
    <3>1. CASE Edit
      <4>1. wt'.rec = wt.rec /\ commits' = commits
        BY <1>1, <3>1 DEF Edit, Edits, TypeOK
      <4> QED  BY <3>0, <4>1
    <3>2. CASE Stash
      <4>1. wt'.rec = commits[head].rec /\ commits' = commits /\ head \in DOMAIN commits
        BY <1>1, <3>2 DEF Stash, TypeOK
      <4> QED  BY <3>0, <4>1
    <3>3. ASSUME NEW parent, NEW planner, CommitOn(parent, planner)
          PROVE  Backed(wt'.rec) /\ \A c \in DOMAIN commits' : Backed(commits'[c].rec)
      <4>1. PICK new : commits' = Append(commits, new) /\ new.rec = wt.rec
        BY <3>3 DEF CommitOn
      <4>2. commits \in Seq(Commits) /\ wt' = wt
        BY <1>1, <3>3 DEF TypeOK, CommitOn
      <4>3. \A c \in DOMAIN commits' : \/ c \in DOMAIN commits /\ commits'[c] = commits[c]
                                       \/ commits'[c] = new
        BY <4>1, <4>2
      <4> QED  BY <3>0, <4>1, <4>2, <4>3
    <3> QED  BY <1>3, <3>1, <3>2, <3>3 DEF Commit, Amend
  <2>4. Backed(wt.rec)' /\ \A c \in DOMAIN commits' : Backed(commits[c].rec)'
    BY <2>1, <2>3 DEF Backed, WroteIt
  <2>5. \A r \in Runs : Backed(judged[r])' <=> Backed(judged[r])
    BY <2>1 DEF Backed, WroteIt
  <2> QED  BY <1>1, <2>1, <2>4, <2>5 DEF BackedInv, Unjudged, WroteIt
<1>4. CASE UNCHANGED vars
  <2>1. UNCHANGED <<pc, mode, law, judged, wt, commits>>
    BY <1>4 DEF vars
  <2>2. /\ Backed(wt.rec)' <=> Backed(wt.rec)
        /\ \A c \in DOMAIN commits : Backed(commits[c].rec)' <=> Backed(commits[c].rec)
        /\ \A r \in Runs : Backed(judged[r])' <=> Backed(judged[r])
    BY <2>1 DEF Backed, WroteIt
  <2> QED  BY <1>1, <2>1, <2>2 DEF BackedInv, Unjudged, WroteIt
<1> QED  BY <1>2, <1>3, <1>4 DEF Next

(* Every PASS, whatever happened beside it, was judged by a whole record    *)
(* that a run with --record wrote, under the law both runs read.            *)
THEOREM PassesAreBacked == Spec => []PassIsBacked
<1>1. BackedInv => PassIsBacked
  <2> SUFFICES ASSUME BackedInv, NEW r \in Judges
               PROVE  \E w \in Recorders : judged[w] = judged[r] /\ law[w] = law[r]
    BY DEF PassIsBacked
  <2>1. judged[r] \in Records /\ judged[r] # NoRecord /\ judged[r].law = law[r]
    BY DEF Judges, BackedInv
  <2>2. PICK w \in Runs : WroteIt(w, judged[r])
    BY <2>1 DEF Judges, BackedInv, Backed
  <2> QED  BY <2>1, <2>2 DEF WroteIt, Recorders
<1> QED  BY <1>1, BackedInit, BackedStep, PTL DEF Spec

(* What a record says was so, and no PASS stands without one.               *)
THEOREM RecordsCanBeTrusted == Spec => []RecordsAreTrue
BY RecordsAreHonest, PassesAreBacked, PTL DEF RecordsAreTrue
-----------------------------------------------------------------------------
(* The law.                                                                *)

(* A commit by which the Planner put law l into the mission file.           *)
Stamped(c, l) == commits[c].planner /\ TouchesMission(c) /\ commits[c].law = l

(* Every line of history ends with the first stamp, and a scan reaches it.  *)
LinesInv ==
  /\ commits[1].planner /\ commits[1].parent = 0 /\ Len(commits) \in 1 .. MaxCommits
  /\ \A c \in DOMAIN commits :
       /\ commits[c].line \in Seq(1 .. c) /\ Len(commits[c].line) \in 1 .. c
       /\ commits[c].line[Len(commits[c].line)] = 1

Checked    == {"others", "stub", "gate", "evidence", "again", "readHead", "write"}
Unrecorded == {"others", "stub", "gate", "again", "readHead", "write"}

(* A run past the contract phase was checked against a stamp of its law; a  *)
(* recording run that nobody disturbed was so at the head it will record.   *)
LawInv ==
  /\ LinesInv
  /\ \A r \in Runs : pc[r] \in Checked \/ judged[r] # NoRecord
                       => \E c \in DOMAIN commits : Stamped(c, law[r])
  /\ \A r \in Runs \ disturbed : mode[r] = "record" =>
       /\ pc[r] \in Unrecorded => \E c \in DOMAIN commits : Stamped(c, law[r])
                                    /\ ZoneOf[commits[head].src] = ZoneOf[commits[c].src]
       /\ judged[r] # NoRecord => \E c \in DOMAIN commits : Stamped(c, law[r])
                                    /\ ZoneOf[judged[r].tree] = ZoneOf[commits[c].src]

(* A set of numbers that is not empty has a least one.                      *)
LEMMA MinExists ==
  ASSUME NEW S \in SUBSET Nat, S # {}
  PROVE  Min(S) \in S /\ \A j \in S : Min(S) <= j
<1>1. PICK x \in S : \A y \in S : ~(<<y, x>> \in OpToRel(<, Nat))
  BY NatLessThanWellFounded, WFMin, Zenon
<1>2. \A y \in S : ~(y < x)
  BY <1>1 DEF OpToRel
<1>3. \A y \in S : x <= y
  BY <1>2
<1> QED  BY <1>3, Zenon DEF Min

(* The first commit of a line that is in a set is one of the set, and is    *)
(* found when there is one.                                                 *)
LEMMA FirstInFacts ==
  ASSUME NEW line \in Seq(Nat), NEW S
  PROVE  /\ FirstIn(line, S) # 0 => FirstIn(line, S) \in S /\ \E i \in DOMAIN line : FirstIn(line, S) = line[i]
         /\ 0 \notin S /\ (\E i \in DOMAIN line : line[i] \in S) => FirstIn(line, S) # 0
<1> DEFINE hits == {i \in DOMAIN line : line[i] \in S}
<1>1. hits \in SUBSET Nat
  OBVIOUS
<1>2. CASE hits = {}
  BY <1>2 DEF FirstIn
<1>3. CASE hits # {}
  <2>1. Min(hits) \in hits
    BY <1>1, <1>3, MinExists
  <2>2. FirstIn(line, S) = line[Min(hits)]
    BY <1>3 DEF FirstIn
  <2> QED  BY <2>1, <2>2
<1> QED  BY <1>2, <1>3

(* findPlannerStamp finds a stamp of the mission in every line of history.  *)
LEMMA StampIsFound ==
  ASSUME TypeOK, LinesInv, ScanDepth >= MaxCommits
  PROVE  StampIn(History) \in DOMAIN commits /\ Stamped(StampIn(History), commits[StampIn(History)].law)
<1> DEFINE S == {c \in Scanned(History) : commits[c].planner /\ TouchesMission(c)}
<1>1. /\ head \in DOMAIN commits /\ History \in Seq(1 .. head) /\ Len(History) \in 1 .. head
      /\ History[Len(History)] = 1 /\ head <= MaxCommits /\ head \in Nat
  BY ScanAssumption DEF TypeOK, LinesInv, History
<1>2. History \in Seq(Nat) /\ \A i \in DOMAIN History : History[i] \in DOMAIN commits /\ History[i] # 0
  BY <1>1 DEF TypeOK
<1>3. 1 \in S
  <2>1. Len(History) \in DOMAIN History /\ Len(History) <= ScanDepth
    BY <1>1, ScanAssumption
  <2>2. 1 \in Scanned(History)
    BY <1>1, <2>1 DEF Scanned
  <2> QED  BY <2>2 DEF LinesInv, TouchesMission
<1>4. 0 \notin S
  BY <1>2 DEF Scanned
<1>5. StampIn(History) = FirstIn(History, S)
  BY DEF StampIn
<1>6. FirstIn(History, S) # 0
  BY <1>1, <1>2, <1>3, <1>4, FirstInFacts, Len(History) \in DOMAIN History
<1>7. FirstIn(History, S) \in S /\ \E i \in DOMAIN History : FirstIn(History, S) = History[i]
  BY <1>2, <1>6, FirstInFacts
<1> QED  BY <1>2, <1>5, <1>7 DEF Stamped

LEMMA LawInit == Init => LawInv
<1> SUFFICES ASSUME Init PROVE LawInv
  OBVIOUS
<1>1. LinesInv
  <2>1. /\ DOMAIN commits = {1} /\ Len(commits) = 1 /\ commits[1].planner /\ commits[1].parent = 0
        /\ commits[1].line = <<1>>
    BY DEF Init
  <2>2. 1 \in 1 .. MaxCommits
    BY ScanAssumption
  <2>3. <<1>> \in Seq(1 .. 1) /\ Len(<<1>>) \in 1 .. 1 /\ <<1>>[Len(<<1>>)] = 1
    OBVIOUS
  <2>4. \A c \in DOMAIN commits :
          /\ commits[c].line \in Seq(1 .. c) /\ Len(commits[c].line) \in 1 .. c
          /\ commits[c].line[Len(commits[c].line)] = 1
    BY <2>1, <2>3
  <2> QED  BY <2>1, <2>2, <2>4 DEF LinesInv
<1> QED  BY <1>1 DEF Init, LawInv, Checked, Unrecorded

(* No stamp is ever taken back: commits are only added.                     *)
LEMMA StampsStay ==
  ASSUME TypeOK, TypeOK', \A c \in DOMAIN commits : c \in DOMAIN commits' /\ commits'[c] = commits[c],
         NEW c \in DOMAIN commits, NEW l, Stamped(c, l)
  PROVE  c \in DOMAIN commits' /\ Stamped(c, l)' /\ commits'[c] = commits[c]
<1>1. commits[c] \in Commits /\ commits[c].parent \in Nat /\ commits[c].parent < c
  <2>1. commits[c] \in Commits
    BY DEF TypeOK
  <2> QED  BY <2>1 DEF TypeOK, Commits
<1>2. c \in DOMAIN commits' /\ commits'[c] = commits[c]
  OBVIOUS
<1>3. commits[c].parent # 0 => commits'[commits[c].parent] = commits[commits[c].parent]
  <2>1. DOMAIN commits = 1 .. Len(commits) /\ Len(commits) \in Nat
    BY DEF TypeOK
  <2>2. commits[c].parent # 0 => commits[c].parent \in DOMAIN commits
    BY <1>1, <2>1
  <2> QED  BY <2>2
<1> QED  BY <1>2, <1>3 DEF Stamped, TouchesMission

LEMMA LinesKept ==
  ASSUME TypeOK, TypeOK', LinesInv, [Next]_vars
  PROVE  LinesInv' /\ \A c \in DOMAIN commits : c \in DOMAIN commits' /\ commits'[c] = commits[c]
<1>1. CASE commits' = commits
  BY <1>1 DEF LinesInv
<1>2. ASSUME NEW parent \in 1 .. Len(commits), NEW planner, CommitOn(parent, planner)
      PROVE  LinesInv' /\ \A c \in DOMAIN commits : c \in DOMAIN commits' /\ commits'[c] = commits[c]
  <2> DEFINE new == [src |-> wt.src, law |-> wt.law, rec |-> wt.rec, planner |-> planner,
                     parent |-> parent, line |-> <<Len(commits) + 1>> \o commits[parent].line]
  <2>1. commits' = Append(commits, new) /\ new.line = <<Len(commits) + 1>> \o commits[parent].line
    BY <1>2 DEF CommitOn
  <2> HIDE DEF new
  <2>2. /\ Len(commits) \in Nat /\ Len(commits') = Len(commits) + 1 /\ commits'[Len(commits) + 1] = new
        /\ \A c \in 1 .. Len(commits) : commits'[c] = commits[c]
        /\ DOMAIN commits = 1 .. Len(commits) /\ DOMAIN commits' = 1 .. Len(commits) + 1
    BY <2>1 DEF TypeOK
  <2>3. Len(commits') \in 1 .. MaxCommits
    BY <1>2, <2>2, ScanAssumption DEF CommitOn
  <2>4. /\ commits[parent].line \in Seq(1 .. Len(commits)) /\ Len(commits[parent].line) \in 1 .. Len(commits)
        /\ commits[parent].line[Len(commits[parent].line)] = 1
    BY <2>2 DEF LinesInv
  <2>5. /\ new.line \in Seq(1 .. Len(commits) + 1) /\ Len(new.line) = Len(commits[parent].line) + 1
        /\ new.line[Len(new.line)] = 1
    <3>1. <<Len(commits) + 1>> \in Seq(1 .. Len(commits) + 1)
      BY <2>2
    <3>2. commits[parent].line \in Seq(1 .. Len(commits) + 1)
      BY <2>2, <2>4
    <3> QED  BY <2>1, <2>2, <2>4, <3>1, <3>2
  <2>6. \A c \in 1 .. Len(commits) + 1 : c \in 1 .. Len(commits) \/ c = Len(commits) + 1
    BY <2>2
  <2>7. ASSUME NEW c \in DOMAIN commits'
        PROVE  /\ commits'[c].line \in Seq(1 .. c) /\ Len(commits'[c].line) \in 1 .. c
               /\ commits'[c].line[Len(commits'[c].line)] = 1
    <3>1. CASE c \in 1 .. Len(commits)
      BY <2>2, <3>1 DEF LinesInv
    <3>2. CASE c = Len(commits) + 1
      <4>1. commits'[c] = new
        BY <2>2, <3>2
      <4>2. Len(new.line) \in 1 .. Len(commits) + 1
        BY <2>2, <2>4, <2>5
      <4> QED  BY <2>5, <3>2, <4>1, <4>2
    <3> QED  BY <2>2, <2>6, <3>1, <3>2
  <2>8. commits'[1] = commits[1]
    BY <2>2 DEF LinesInv
  <2> QED  BY <2>2, <2>3, <2>7, <2>8 DEF LinesInv
<1>3. /\ commits[head].parent # 0 => commits[head].parent \in 1 .. Len(commits)
      /\ head \in 1 .. Len(commits)
  <2>1. commits[head] \in Commits /\ commits[head].parent < head /\ head \in 1 .. Len(commits)
    BY DEF TypeOK
  <2>2. commits[head].parent \in Nat /\ Len(commits) \in Nat
    BY <2>1 DEF TypeOK, Commits
  <2> QED  BY <2>1, <2>2
<1>4. ASSUME NEW r \in Runs, RunStep(r) PROVE commits' = commits
  BY <1>4, RunStepLeaves
<1> QED  BY <1>1, <1>2, <1>3, <1>4 DEF Next, Commit, Amend, Edit, Stash, vars

(* What the phases of run r itself do for its law.                          *)
LEMMA LawOwnKept ==
  ASSUME ScanDepth >= MaxCommits, RecordInv, LawInv, NEW r \in Runs, RunStep(r)
  PROVE  /\ pc'[r] \in Checked \/ judged'[r] # NoRecord
              => \E c \in DOMAIN commits : Stamped(c, law'[r])
         /\ r \notin disturbed /\ mode'[r] = "record" =>
              /\ pc'[r] \in Unrecorded => \E c \in DOMAIN commits : Stamped(c, law'[r])
                                    /\ ZoneOf[commits[head].src] = ZoneOf[commits[c].src]
              /\ judged'[r] # NoRecord => \E c \in DOMAIN commits : Stamped(c, law'[r])
                                    /\ ZoneOf[judged'[r].tree] = ZoneOf[commits[c].src]
<1> USE DEF Goto
<1>0. TypeOK /\ Unjudged(r) /\ LinesInv
  BY DEF RecordInv, LawInv
<1>1. CASE Load(r)
  <2>1. pc'[r] = "proof" /\ judged'[r] = NoRecord
    BY <1>0, <1>1 DEF Load, TypeOK, Unjudged
  <2> QED  BY <2>1 DEF Checked, Unrecorded
<1>2. CASE Proof(r) \/ Clean(r)
  <2>1. pc'[r] \in {"failed", "clean", "init", "contract"} /\ judged'[r] = NoRecord
    <3>1. CASE Proof(r)
      BY <1>0, <3>1 DEF Proof, TypeOK, Unjudged
    <3>2. CASE Clean(r)
      BY <1>0, <3>2 DEF Clean, TypeOK, Unjudged
    <3> QED  BY <1>2, <3>1, <3>2
  <2> QED  BY <2>1 DEF Checked, Unrecorded
<1>3. CASE Contract(r)
  <2> DEFINE stamp == StampIn(History)
  <2>1. /\ pc[r] = "contract" /\ pc'[r] \in {"others", "failed"} /\ judged'[r] = NoRecord
        /\ law' = law /\ mode' = mode
        /\ pc'[r] = "others" => (stamp # 0 => Sealed(r, stamp))
    BY <1>0, <1>3 DEF Contract, TypeOK, Unjudged, Recording
  <2>2. stamp \in DOMAIN commits /\ Stamped(stamp, commits[stamp].law)
    BY <1>0, StampIsFound
  <2>3. stamp # 0
    BY <1>0, <2>2 DEF TypeOK
  <2>4. CASE pc'[r] = "others"
    <3>1. commits[stamp].law = law[r] /\ ZoneOf[commits[JudgedHead(r)].src] = ZoneOf[commits[stamp].src]
      BY <2>1, <2>3, <2>4 DEF Sealed
    <3>2. mode[r] = "record" => JudgedHead(r) = head
      BY DEF JudgedHead
    <3> HIDE DEF stamp
    <3> QED  BY <2>1, <2>2, <3>1, <3>2
  <2> QED  BY <2>1, <2>4 DEF Checked, Unrecorded
<1>4. CASE Others(r) \/ Stub(r) \/ Gate(r) \/ CleanAgain(r) \/ ReadHead(r)
  <2>1. /\ pc[r] \in Unrecorded /\ judged'[r] = NoRecord /\ law' = law /\ mode' = mode
    BY <1>0, <1>4 DEF Others, Stub, Gate, CleanAgain, ReadHead, TypeOK, Unjudged, Recording, Unrecorded
  <2> QED  BY <2>1 DEF LawInv, Checked, Unrecorded
<1>5. CASE Evidence(r)
  <2>1. pc[r] = "evidence" /\ law' = law /\ mode' = mode /\ pc'[r] \in {"failed", "ledger"}
    <3>1. pc' = [pc EXCEPT ![r] = "failed"] \/ pc' = [pc EXCEPT ![r] = "ledger"]
      BY <1>5, Zenon DEF Evidence
    <3> QED  BY <1>0, <1>5, <3>1 DEF Evidence, TypeOK
  <2>2. ~(r \notin disturbed /\ mode[r] = "record")
    BY <2>1 DEF RecordInv, Held
  <2> QED  BY <2>1, <2>2 DEF LawInv, Checked, Unrecorded
<1>6. CASE OpenRecord(r)
  <2>1. /\ pc[r] = "write" /\ pc'[r] = "fill" /\ law' = law /\ mode' = mode
        /\ judged'[r].tree = commits[head].src
    BY <1>0, <1>6 DEF OpenRecord, TypeOK
  <2> QED  BY <2>1 DEF LawInv, Checked, Unrecorded
<1>7. CASE FillRecord(r) \/ Ledger(r) \/ Crash(r)
  <2>1. /\ pc'[r] \in {"ledger", "passed", "stubbed", "dead"} /\ law' = law /\ mode' = mode
        /\ judged' = judged
    <3>1. CASE FillRecord(r)
      BY <1>0, <3>1 DEF FillRecord, TypeOK
    <3>2. CASE Ledger(r)
      BY <1>0, <3>2 DEF Ledger, TypeOK
    <3>3. CASE Crash(r)
      BY <1>0, <3>3 DEF Crash, TypeOK
    <3> QED  BY <1>7, <3>1, <3>2, <3>3
  <2> QED  BY <2>1 DEF LawInv, Checked, Unrecorded
<1> QED  BY <1>1, <1>2, <1>3, <1>4, <1>5, <1>6, <1>7 DEF RunStep

LEMMA LawStep ==
  ASSUME ScanDepth >= MaxCommits, RecordInv, LawInv, [Next]_vars
  PROVE  LawInv'
<1>1. TypeOK /\ TypeOK'
  BY VerifyTypeStep DEF RecordInv
<1>2. LinesInv' /\ \A c \in DOMAIN commits : c \in DOMAIN commits' /\ commits'[c] = commits[c]
  BY <1>1, LinesKept DEF LawInv
<1>3. ASSUME NEW c \in DOMAIN commits, NEW l, Stamped(c, l)
      PROVE  c \in DOMAIN commits' /\ Stamped(c, l)' /\ commits'[c] = commits[c]
  BY <1>1, <1>2, <1>3, StampsStay
<1>4. ASSUME NEW r \in Runs, RunStep(r) PROVE LawInv'
  <2>1. /\ commits' = commits /\ head' = head /\ disturbed' = disturbed
        /\ \A q \in Runs \ {r} : /\ mode'[q] = mode[q] /\ pc'[q] = pc[q] /\ judged'[q] = judged[q]
                                 /\ law'[q] = law[q]
    <3>1. \A q \in Runs \ {r} : law'[q] = law[q]
      BY <1>1, <1>4 DEF RunStep, Load, Proof, Clean, Contract, Others, Stub, Gate, Evidence, CleanAgain,
         ReadHead, OpenRecord, FillRecord, Ledger, Crash, TypeOK
    <3> QED  BY <1>1, <1>4, <3>1, RunStepLeaves
  <2>2. \A c, l : Stamped(c, l)' <=> Stamped(c, l)
    BY <2>1 DEF Stamped, TouchesMission
  <2>3. ASSUME NEW q \in Runs
        PROVE  /\ pc'[q] \in Checked \/ judged'[q] # NoRecord
                    => \E c \in DOMAIN commits : Stamped(c, law'[q])
               /\ q \notin disturbed /\ mode'[q] = "record" =>
                    /\ pc'[q] \in Unrecorded => \E c \in DOMAIN commits : Stamped(c, law'[q])
                                          /\ ZoneOf[commits[head].src] = ZoneOf[commits[c].src]
                    /\ judged'[q] # NoRecord => \E c \in DOMAIN commits : Stamped(c, law'[q])
                                          /\ ZoneOf[judged'[q].tree] = ZoneOf[commits[c].src]
    <3>1. CASE q = r
      BY <1>4, <3>1, LawOwnKept
    <3>2. CASE q # r
      BY <2>1, <3>2 DEF LawInv
    <3> QED  BY <3>1, <3>2
  <2>4. \A q \in Runs : pc'[q] \in Checked \/ judged'[q] # NoRecord
                         => \E c \in DOMAIN commits' : Stamped(c, law[q])'
    BY <2>1, <2>2, <2>3
  <2>5. \A q \in Runs \ disturbed' : mode'[q] = "record" =>
          /\ pc'[q] \in Unrecorded => \E c \in DOMAIN commits' : Stamped(c, law[q])'
                                       /\ ZoneOf[commits'[head'].src] = ZoneOf[commits'[c].src]
          /\ judged'[q] # NoRecord => \E c \in DOMAIN commits' : Stamped(c, law[q])'
                                       /\ ZoneOf[judged'[q].tree] = ZoneOf[commits'[c].src]
    BY <2>1, <2>2, <2>3
  <2> QED  BY <1>2, <2>4, <2>5 DEF LawInv
<1>5. CASE Edit \/ Stash \/ Commit \/ Amend
  <2>1. disturbed' = disturbed \cup Running /\ UNCHANGED <<pc, mode, law, judged>>
    BY <1>5 DEF Edit, Stash, Commit, Amend, CommitOn
  <2>2. \A q \in Runs : pc'[q] \in Checked \/ judged'[q] # NoRecord
                         => \E c \in DOMAIN commits' : Stamped(c, law[q])'
    BY <1>3, <2>1 DEF LawInv
  <2>3. ASSUME NEW q \in Runs \ disturbed', mode'[q] = "record"
        PROVE  /\ pc'[q] \notin Unrecorded
               /\ judged'[q] # NoRecord => \E c \in DOMAIN commits' : Stamped(c, law[q])'
                                            /\ ZoneOf[judged'[q].tree] = ZoneOf[commits'[c].src]
    <3>1. q \notin disturbed /\ pc[q] \in Ended \cup {"start"}
      BY <2>1, <2>3 DEF Running
    <3>2. judged[q] # NoRecord => \E c \in DOMAIN commits : Stamped(c, law[q])
                                    /\ ZoneOf[judged[q].tree] = ZoneOf[commits[c].src]
      BY <2>1, <2>3, <3>1 DEF LawInv
    <3> QED  BY <1>3, <2>1, <3>1, <3>2 DEF Ended, Unrecorded
  <2> QED  BY <1>2, <2>2, <2>3 DEF LawInv
<1>6. CASE UNCHANGED vars
  <2>1. UNCHANGED <<commits, head, pc, mode, law, judged, disturbed>>
    BY <1>6 DEF vars
  <2>2. \A c, l : Stamped(c, l)' <=> Stamped(c, l)
    BY <2>1 DEF Stamped, TouchesMission
  <2> QED  BY <1>2, <2>1, <2>2 DEF LawInv, Stamped, TouchesMission
<1> QED  BY <1>4, <1>5, <1>6 DEF Next

(* checkSeal and judgeChangedPaths of contract.ts: where a scan reaches the *)
(* first commit, no record and no PASS stands for a law but one the Planner *)
(* committed, and the content a record of an undisturbed run names differs  *)
(* in no forbidden zone from that of a stamp of its law.                    *)
THEOREM TheLawIsKept == ASSUME ScanDepth >= MaxCommits PROVE Spec => []LawIsKept
<1>1. BackedInv /\ RecordInv /\ LawInv => LawIsKept
  <2> SUFFICES ASSUME BackedInv, RecordInv, LawInv PROVE LawIsKept
    OBVIOUS
  <2>1. LawIsThePlanners
    BY DEF LawInv, LawIsThePlanners, Recorders, Judges, Stamped
  <2>2. ASSUME NEW r \in Judges, NEW w \in Recorders \ disturbed, judged[w] = judged[r]
        PROVE  \E c \in DOMAIN commits : Stamped(c, law[r]) /\ ZoneOf[judged[r].tree] = ZoneOf[commits[c].src]
    <3>1. law[w] = judged[w].law /\ law[r] = judged[r].law
      BY DEF Judges, Recorders, BackedInv
    <3>2. \E c \in DOMAIN commits : Stamped(c, law[w]) /\ ZoneOf[judged[w].tree] = ZoneOf[commits[c].src]
      BY DEF Recorders, LawInv
    <3> QED  BY <2>2, <3>1, <3>2
  <2>3. ZonesKept
    BY <2>2 DEF ZonesKept, Stamped
  <2> QED  BY <2>1, <2>3 DEF LawIsKept
<1>2. RecordInv /\ LawInv /\ [Next]_vars => LawInv'
  BY LawStep
<1> QED  BY <1>1, <1>2, BackedInit, BackedStep, RecordInit, RecordStep, LawInit, PTL DEF Spec

-----------------------------------------------------------------------------
(* The path law: which verdict a judgement is.                             *)

Less == {p \in Nat \X Nat : p[1] < p[2]}

LEMMA LessIsWellFounded == IsWellFoundedOn(Less, Nat)
<1>1. Less = OpToRel(<, Nat)
  BY DEF OpToRel, Less
<1> QED  BY <1>1, NatLessThanWellFounded

LEMMA LeastOfSome ==
  ASSUME NEW S \in SUBSET Nat, S # {}
  PROVE  \E k \in S : \A j \in S : k <= j
<1>1. PICK k \in S : \A j \in S : <<j, k>> \notin Less
  BY LessIsWellFounded, WFMin
<1>2. ASSUME NEW j \in S PROVE k <= j
  <2> SUFFICES ASSUME ~(k <= j) PROVE FALSE
    OBVIOUS
  <2>1. k \in Nat /\ j \in Nat /\ j < k
    OBVIOUS
  <2>2. <<j, k>> \in Nat \X Nat /\ <<j, k>>[1] < <<j, k>>[2]
    BY <2>1
  <2>3. <<j, k>> \in Less
    BY <2>2 DEF Less
  <2> QED  BY <1>1, <2>3
<1> QED  BY <1>2

LEMMA MinOfSome == ASSUME NEW S \in SUBSET Nat, S # {} PROVE Min(S) \in S
BY LeastOfSome DEF Min

LEMMA RankIsSmall == \A effect : Rank(effect) \in 0 .. 3
BY DEF Rank

(* A path that is not exempt is judged by a verdict that no rule and no    *)
(* area exceeds; or no rule and no area is there.                          *)
LEMMA JudgeIsStrictest ==
  ASSUME NEW l, NEW path, NEW overrides, IsLaw(l), ~CoveredBy(l.exempt, path),
         NEW v, v = Verdicts(l, path, overrides)
  PROVE  /\ v = << >> => Judge(l, path, overrides) = NoVerdict
         /\ v # << >> => \E n \in DOMAIN v : /\ Judge(l, path, overrides) = v[n]
                                             /\ \A k \in DOMAIN v : Rank(v[k].effect) <= Rank(v[n].effect)
<1>1. Len(l.rules) \in Nat /\ Len(l.areas) \in Nat
  BY DEF IsLaw, IsList
<1>2. DOMAIN v = 1 .. Len(l.rules) + Len(l.areas)
  BY DEF Verdicts
<1>5. DOMAIN v \in SUBSET Nat
  <2>1. \A m, n \in Nat : 1 .. m + n \in SUBSET Nat
    OBVIOUS
  <2> QED  BY <1>1, <1>2, <2>1
<1> DEFINE strictest(n) == \A k \in DOMAIN v : Rank(v[k].effect) <= Rank(v[n].effect)
           best == {n \in DOMAIN v : strictest(n)}
<1>3. CASE v = << >>
  BY <1>3 DEF Judge
<1>4. CASE v # << >>
  <2>1. \E n \in DOMAIN v : TRUE
    <3> SUFFICES ASSUME DOMAIN v = {} PROVE FALSE
      OBVIOUS
    <3>1. v = [n \in DOMAIN v |-> v[n]]
      BY DEF Verdicts
    <3>2. DOMAIN << >> = {} /\ << >> = [n \in {} |-> v[n]]
      OBVIOUS
    <3> QED  BY <1>4, <3>1, <3>2
  <2>2. best # {}
    <3> DEFINE ranked(r) == \E n \in DOMAIN v : Rank(v[n].effect) = r
    <3>1. \A n \in DOMAIN v : Rank(v[n].effect) \in {0, 1, 2, 3}
      BY RankIsSmall
    <3>2. CASE ranked(3)
      BY <3>1, <3>2
    <3>3. CASE ~ranked(3) /\ ranked(2)
      BY <3>1, <3>3
    <3>4. CASE ~ranked(3) /\ ~ranked(2) /\ ranked(1)
      BY <3>1, <3>4
    <3>5. CASE ~ranked(3) /\ ~ranked(2) /\ ~ranked(1)
      BY <2>1, <3>1, <3>5
    <3> QED  BY <3>2, <3>3, <3>4, <3>5
  <2>3. Min(best) \in best
    <3> HIDE DEF best
    <3>1. best \in SUBSET Nat
      BY <1>5 DEF best
    <3> QED  BY <2>2, <3>1, MinOfSome
  <2>4. Judge(l, path, overrides) = v[Min(best)]
    BY <1>4 DEF Judge
  <2> QED  BY <1>4, <2>3, <2>4
<1> QED  BY <1>3, <1>4

(* The same, by rules and areas.                                           *)
LEMMA StrictnessBounds ==
  ASSUME NEW l, NEW path, NEW overrides, IsLaw(l), ~CoveredBy(l.exempt, path)
  PROVE  /\ \A n \in DOMAIN l.rules : Rank(RuleVerdict(l.rules[n], path, overrides).effect) <= Strictness(l, path, overrides)
         /\ \A n \in DOMAIN l.areas : Rank(AreaVerdict(l.areas[n], path, overrides).effect) <= Strictness(l, path, overrides)
         /\ \/ Judge(l, path, overrides) = NoVerdict
            \/ \E n \in DOMAIN l.rules : Judge(l, path, overrides) = RuleVerdict(l.rules[n], path, overrides)
            \/ \E n \in DOMAIN l.areas : Judge(l, path, overrides) = AreaVerdict(l.areas[n], path, overrides)
<1> DEFINE v == Verdicts(l, path, overrides)
           R == Len(l.rules)
           A == Len(l.areas)
<1>1. /\ R \in Nat /\ A \in Nat
      /\ DOMAIN l.rules = 1 .. R /\ DOMAIN l.areas = 1 .. A
  BY DEF IsLaw, IsList
<1>2. /\ DOMAIN v = 1 .. R + A
      /\ \A n \in 1 .. R : v[n] = RuleVerdict(l.rules[n], path, overrides)
      /\ \A n \in 1 .. A : v[R + n] = AreaVerdict(l.areas[n], path, overrides)
      /\ \A n \in R + 1 .. R + A : v[n] = AreaVerdict(l.areas[n - R], path, overrides)
  <2>1. v = [n \in 1 .. R + A |-> IF n <= R THEN RuleVerdict(l.rules[n], path, overrides)
                                 ELSE AreaVerdict(l.areas[n - R], path, overrides)]
    BY DEF Verdicts
  <2> HIDE DEF v, R, A
  <2>2. \A n \in 1 .. R : n \in 1 .. R + A /\ n <= R
    BY <1>1
  <2>3. \A n \in 1 .. A : R + n \in 1 .. R + A /\ ~(R + n <= R) /\ (R + n) - R = n
    BY <1>1
  <2>4. \A n \in R + 1 .. R + A : n \in 1 .. R + A /\ ~(n <= R)
    BY <1>1
  <2> QED  BY <2>1, <2>2, <2>3, <2>4
<1>3. /\ v = << >> => Judge(l, path, overrides) = NoVerdict
      /\ v # << >> => \E n \in DOMAIN v : /\ Judge(l, path, overrides) = v[n]
                                          /\ \A k \in DOMAIN v : Rank(v[k].effect) <= Rank(v[n].effect)
  BY JudgeIsStrictest
<1>4. v = << >> => R + A = 0
  <2> HIDE DEF v, R, A
  <2> SUFFICES ASSUME v = << >>, R + A # 0 PROVE FALSE
    OBVIOUS
  <2>1. 1 \in DOMAIN v
    <3>1. 1 \in 1 .. R + A
      BY <1>1
    <3> QED  BY <1>2, <3>1
  <2>2. DOMAIN << >> = {}
    OBVIOUS
  <2> QED  BY <2>1, <2>2
<1> HIDE DEF v, R, A
<1>5. CASE v = << >>
  BY <1>1, <1>3, <1>4, <1>5
<1>6. CASE v # << >>
  <2>1. PICK n \in DOMAIN v : /\ Judge(l, path, overrides) = v[n]
                              /\ \A k \in DOMAIN v : Rank(v[k].effect) <= Rank(v[n].effect)
    BY <1>3, <1>6
  <2>2. \A k \in 1 .. R : Rank(RuleVerdict(l.rules[k], path, overrides).effect) <= Strictness(l, path, overrides)
    <3> TAKE k \in 1 .. R
    <3>1. k \in DOMAIN v /\ v[k] = RuleVerdict(l.rules[k], path, overrides)
      BY <1>1, <1>2
    <3> QED  BY <2>1, <3>1 DEF Strictness
  <2>3. \A k \in 1 .. A : Rank(AreaVerdict(l.areas[k], path, overrides).effect) <= Strictness(l, path, overrides)
    <3> TAKE k \in 1 .. A
    <3>1. R + k \in DOMAIN v /\ v[R + k] = AreaVerdict(l.areas[k], path, overrides)
      BY <1>1, <1>2
    <3> QED  BY <2>1, <3>1 DEF Strictness
  <2>4. \/ n \in 1 .. R /\ v[n] = RuleVerdict(l.rules[n], path, overrides)
        \/ n - R \in 1 .. A /\ v[n] = AreaVerdict(l.areas[n - R], path, overrides)
    BY <1>1, <1>2
  <2> QED  BY <1>1, <2>1, <2>2, <2>3, <2>4
<1> QED  BY <1>5, <1>6

(* A law that answers to whatever another one has to say is as strict.     *)
LEMMA StricterLaw ==
  ASSUME NEW u, NEW w, NEW path, NEW overrides, IsLaw(u), IsLaw(w), w.exempt = u.exempt,
         \A n \in DOMAIN u.rules : \E k \in DOMAIN w.rules :
            Rank(RuleVerdict(u.rules[n], path, overrides).effect) <= Rank(RuleVerdict(w.rules[k], path, overrides).effect),
         \A n \in DOMAIN u.areas : \E k \in DOMAIN w.areas :
            Rank(AreaVerdict(u.areas[n], path, overrides).effect) <= Rank(AreaVerdict(w.areas[k], path, overrides).effect)
  PROVE  Strictness(w, path, overrides) >= Strictness(u, path, overrides)
<1>0. /\ Strictness(w, path, overrides) \in 0 .. 3 /\ Strictness(u, path, overrides) \in 0 .. 3
      /\ Rank(NoVerdict.effect) = 0
  BY RankIsSmall DEF Strictness, NoVerdict, Rank
<1>1. CASE CoveredBy(u.exempt, path)
  BY <1>0, <1>1 DEF Strictness, Judge
<1>2. CASE ~CoveredBy(u.exempt, path)
  <2>1. CASE Judge(u, path, overrides) = NoVerdict
    BY <1>0, <2>1 DEF Strictness
  <2>2. ASSUME NEW n \in DOMAIN u.rules, Judge(u, path, overrides) = RuleVerdict(u.rules[n], path, overrides)
        PROVE  Strictness(w, path, overrides) >= Strictness(u, path, overrides)
    <3>1. PICK k \in DOMAIN w.rules :
             Rank(RuleVerdict(u.rules[n], path, overrides).effect) <= Rank(RuleVerdict(w.rules[k], path, overrides).effect)
      OBVIOUS
    <3>2. Rank(RuleVerdict(w.rules[k], path, overrides).effect) <= Strictness(w, path, overrides)
      BY <1>2, StrictnessBounds
    <3>3. Rank(RuleVerdict(w.rules[k], path, overrides).effect) \in 0 .. 3
      BY RankIsSmall
    <3>4. Strictness(u, path, overrides) = Rank(RuleVerdict(u.rules[n], path, overrides).effect)
      BY <2>2 DEF Strictness
    <3> QED  BY <1>0, <3>1, <3>2, <3>3, <3>4
  <2>3. ASSUME NEW n \in DOMAIN u.areas, Judge(u, path, overrides) = AreaVerdict(u.areas[n], path, overrides)
        PROVE  Strictness(w, path, overrides) >= Strictness(u, path, overrides)
    <3>1. PICK k \in DOMAIN w.areas :
             Rank(AreaVerdict(u.areas[n], path, overrides).effect) <= Rank(AreaVerdict(w.areas[k], path, overrides).effect)
      OBVIOUS
    <3>2. Rank(AreaVerdict(w.areas[k], path, overrides).effect) <= Strictness(w, path, overrides)
      BY <1>2, StrictnessBounds
    <3>3. Rank(AreaVerdict(w.areas[k], path, overrides).effect) \in 0 .. 3
      BY RankIsSmall
    <3>4. Strictness(u, path, overrides) = Rank(AreaVerdict(u.areas[n], path, overrides).effect)
      BY <2>3 DEF Strictness
    <3> QED  BY <1>0, <3>1, <3>2, <3>3, <3>4
  <2> QED  BY <1>2, <2>1, <2>2, <2>3, StrictnessBounds
<1> QED  BY <1>1, <1>2

(* Two lists, one after the other.                                         *)
LEMMA SequencesAreLists == ASSUME NEW S, NEW s \in Seq(S) PROVE IsList(s)
<1>1. \A n \in 1 .. Len(s) : s[n] \in ToSet(s)
  BY DEF ToSet
<1> HIDE DEF ToSet
<1>2. s \in [1 .. Len(s) -> ToSet(s)] /\ Len(s) \in Nat
  BY <1>1
<1> QED  BY <1>2 DEF IsList

LEMMA ListsJoin ==
  ASSUME NEW s, NEW t, IsList(s), IsList(t)
  PROVE  /\ IsList(s \o t)
         /\ \A n \in DOMAIN s : n \in DOMAIN (s \o t) /\ (s \o t)[n] = s[n]
         /\ \A n \in DOMAIN t : Len(s) + n \in DOMAIN (s \o t) /\ (s \o t)[Len(s) + n] = t[n]
         /\ \A n \in DOMAIN (s \o t) : \/ n \in DOMAIN s /\ (s \o t)[n] = s[n]
                                       \/ n - Len(s) \in DOMAIN t /\ (s \o t)[n] = t[n - Len(s)]
<1> DEFINE S == ToSet(s) \cup ToSet(t)
<1>1. s \in Seq(S) /\ t \in Seq(S)
  BY DEF IsList
<1> HIDE DEF S
<1>2. s \o t \in Seq(S) /\ Len(s \o t) = Len(s) + Len(t) /\ Len(s) \in Nat /\ Len(t) \in Nat
  BY <1>1
<1>3. DOMAIN s = 1 .. Len(s) /\ DOMAIN t = 1 .. Len(t) /\ DOMAIN (s \o t) = 1 .. Len(s) + Len(t)
  BY <1>1, <1>2
<1>4. \A n \in 1 .. Len(s) + Len(t) : (s \o t)[n] = IF n <= Len(s) THEN s[n] ELSE t[n - Len(s)]
  BY <1>1, <1>2
<1>5. IsList(s \o t)
  BY <1>2, SequencesAreLists
<1> QED  BY <1>2, <1>3, <1>4, <1>5

Joined(s, t, j) == j = s \o t

LEMMA JoinedLists ==
  ASSUME NEW s, NEW t, NEW j, IsList(s), IsList(t), Joined(s, t, j)
  PROVE  /\ IsList(j)
         /\ \A n \in DOMAIN s : n \in DOMAIN j /\ j[n] = s[n]
         /\ \A n \in DOMAIN t : \E k \in DOMAIN j : j[k] = t[n]
         /\ \A n \in DOMAIN j : (\E k \in DOMAIN s : j[n] = s[k]) \/ (\E k \in DOMAIN t : j[n] = t[k])
<1>1. /\ IsList(s \o t)
      /\ \A n \in DOMAIN s : n \in DOMAIN (s \o t) /\ (s \o t)[n] = s[n]
      /\ \A n \in DOMAIN t : Len(s) + n \in DOMAIN (s \o t) /\ (s \o t)[Len(s) + n] = t[n]
      /\ \A n \in DOMAIN (s \o t) : \/ n \in DOMAIN s /\ (s \o t)[n] = s[n]
                                    \/ n - Len(s) \in DOMAIN t /\ (s \o t)[n] = t[n - Len(s)]
  BY ListsJoin
<1> QED  BY <1>1 DEF Joined

(* tightenPathLaw: a part of the law below is appended.                    *)
LEMMA TightenIsLaw ==
  ASSUME NEW u, NEW w, IsLaw(u), IsLaw(w)
  PROVE  /\ IsLaw(Tighten(u, w))
         /\ \A n \in DOMAIN u.rules : n \in DOMAIN Tighten(u, w).rules /\ Tighten(u, w).rules[n] = u.rules[n]
         /\ \A n \in DOMAIN u.areas : n \in DOMAIN Tighten(u, w).areas /\ Tighten(u, w).areas[n] = u.areas[n]
         /\ \A n \in DOMAIN w.rules : \E k \in DOMAIN Tighten(u, w).rules : Tighten(u, w).rules[k] = w.rules[n]
         /\ \A n \in DOMAIN w.areas : \E k \in DOMAIN Tighten(u, w).areas : Tighten(u, w).areas[k] = w.areas[n]
         /\ Tighten(u, w).exempt = u.exempt
<1>1. Tighten(u, w).exempt = u.exempt
  BY DEF Tighten, Law
<1>2. IsList(u.rules) /\ IsList(w.rules) /\ IsList(u.areas) /\ IsList(w.areas)
  BY DEF IsLaw
<1>3. /\ Joined(u.rules, w.rules, Tighten(u, w).rules)
      /\ Joined(u.areas, w.areas, Tighten(u, w).areas)
  BY DEF Joined, Tighten, Law
<1> HIDE DEF Tighten
<1> QED  BY <1>1, <1>2, <1>3, JoinedLists DEF IsLaw

(* The level below only narrows (NothingWidens).                           *)
LEMMA NothingIsWidened ==
  ASSUME NEW u, NEW w, NEW path, NEW overrides, IsLaw(u), IsLaw(w)
  PROVE  NothingWidens(u, w, path, overrides)
<1>1. \A r : Rank(r.effect) <= Rank(r.effect)
  BY RankIsSmall
<1> QED  BY <1>1, TightenIsLaw, StricterLaw DEF NothingWidens

-----------------------------------------------------------------------------
(* What a law says of a path that it lets through.                         *)

Says(l, r) == \E n \in DOMAIN l.rules : l.rules[n] = r
Bounds(l, a) == \E n \in DOMAIN l.areas : l.areas[n] = a

LEMMA OnlyDenyIsThree == \A effect : (Rank(effect) = 3) = (effect = "deny")
BY DEF Rank

LEMMA NothingCovers == \A path : ~CoveredBy({}, path)
BY DEF CoveredBy

LEMMA PlainVerdicts ==
  ASSUME NEW path
  PROVE  /\ \A r : RuleVerdict(r, path, {}).effect =
                      IF CoveredBy(r.patterns, path) /\ ~CoveredBy(r.except, path) THEN r.effect ELSE "none"
         /\ \A a : AreaVerdict(a, path, {}).effect = IF CoveredBy(a.patterns, path) THEN "none" ELSE "deny"
BY NothingCovers DEF RuleVerdict, AreaVerdict, Verdict, NoVerdict

(* A judgement is a denial exactly when some rule or area denies.          *)
LEMMA DenialIsOfARule ==
  ASSUME NEW l, NEW path, NEW overrides, IsLaw(l), ~CoveredBy(l.exempt, path)
  PROVE  Judge(l, path, overrides).effect = "deny" <=>
           \/ \E r : Says(l, r) /\ RuleVerdict(r, path, overrides).effect = "deny"
           \/ \E a : Bounds(l, a) /\ AreaVerdict(a, path, overrides).effect = "deny"
<1>1. Strictness(l, path, overrides) \in 0 .. 3
  BY RankIsSmall DEF Strictness
<1>2. ASSUME NEW r, Says(l, r), RuleVerdict(r, path, overrides).effect = "deny"
      PROVE  Judge(l, path, overrides).effect = "deny"
  <2>1. Rank(RuleVerdict(r, path, overrides).effect) <= Strictness(l, path, overrides)
    BY <1>2, StrictnessBounds DEF Says
  <2>2. Strictness(l, path, overrides) = 3
    BY <1>1, <1>2, <2>1, OnlyDenyIsThree
  <2> QED  BY <2>2, OnlyDenyIsThree DEF Strictness
<1>3. ASSUME NEW a, Bounds(l, a), AreaVerdict(a, path, overrides).effect = "deny"
      PROVE  Judge(l, path, overrides).effect = "deny"
  <2>1. Rank(AreaVerdict(a, path, overrides).effect) <= Strictness(l, path, overrides)
    BY <1>3, StrictnessBounds DEF Bounds
  <2>2. Strictness(l, path, overrides) = 3
    BY <1>1, <1>3, <2>1, OnlyDenyIsThree
  <2> QED  BY <2>2, OnlyDenyIsThree DEF Strictness
<1>4. ASSUME Judge(l, path, overrides).effect = "deny"
      PROVE  \/ \E r : Says(l, r) /\ RuleVerdict(r, path, overrides).effect = "deny"
             \/ \E a : Bounds(l, a) /\ AreaVerdict(a, path, overrides).effect = "deny"
  <2>1. NoVerdict.effect # "deny"
    BY DEF NoVerdict
  <2> QED  BY <1>4, <2>1, StrictnessBounds DEF Says, Bounds
<1> QED  BY <1>2, <1>3, <1>4

LEMMA InsideIsNotDenied ==
  ASSUME NEW l, NEW path, IsLaw(l)
  PROVE  Classify(l, path) = "inside_tmvc" <=>
           /\ ~CoveredBy(l.exempt, path)
           /\ \A r : Says(l, r) /\ CoveredBy(r.patterns, path) /\ ~CoveredBy(r.except, path) => r.effect # "deny"
           /\ \A a : Bounds(l, a) => CoveredBy(a.patterns, path)
<1>1. CASE CoveredBy(l.exempt, path)
  BY <1>1 DEF Classify
<1>2. CASE ~CoveredBy(l.exempt, path)
  <2>1. Classify(l, path) = "inside_tmvc" <=> Judge(l, path, {}).effect # "deny"
    BY <1>2 DEF Classify
  <2>2. Judge(l, path, {}).effect = "deny" <=>
           \/ \E r : Says(l, r) /\ RuleVerdict(r, path, {}).effect = "deny"
           \/ \E a : Bounds(l, a) /\ AreaVerdict(a, path, {}).effect = "deny"
    BY <1>2, DenialIsOfARule
  <2>3. \A r : RuleVerdict(r, path, {}).effect = "deny" <=>
                  CoveredBy(r.patterns, path) /\ ~CoveredBy(r.except, path) /\ r.effect = "deny"
    BY PlainVerdicts
  <2>4. \A a : AreaVerdict(a, path, {}).effect = "deny" <=> ~CoveredBy(a.patterns, path)
    BY PlainVerdicts
  <2> QED  BY <1>2, <2>1, <2>2, <2>3, <2>4
<1> QED  BY <1>1, <1>2

(* Short lists, and laws of lists.                                         *)
LEMMA ShortLists == IsList(<< >>) /\ \A r : IsList(<<r>>) /\ IsList(Optional(r))
<1>1. IsList(<< >>)
  <2>1. << >> \in Seq({})
    OBVIOUS
  <2> QED  BY <2>1, SequencesAreLists
<1>2. ASSUME NEW r PROVE IsList(<<r>>)
  <2>1. <<r>> \in Seq({r})
    OBVIOUS
  <2> QED  BY <2>1, SequencesAreLists
<1> QED  BY <1>1, <1>2 DEF Optional

LEMMA MadeOfLists ==
  ASSUME NEW areas, NEW rules, NEW exempt, IsList(areas), IsList(rules)
  PROVE  IsLaw(Law(areas, rules, exempt))
BY DEF IsLaw, Law

(* What a tightened law says.                                              *)
LEMMA TightenSays ==
  ASSUME NEW u, NEW w, IsLaw(u), IsLaw(w)
  PROVE  /\ \A r : Says(u, r) \/ Says(w, r) => Says(Tighten(u, w), r)
         /\ \A a : Bounds(u, a) \/ Bounds(w, a) => Bounds(Tighten(u, w), a)
<1>1. /\ \A n \in DOMAIN u.rules : n \in DOMAIN Tighten(u, w).rules /\ Tighten(u, w).rules[n] = u.rules[n]
      /\ \A n \in DOMAIN u.areas : n \in DOMAIN Tighten(u, w).areas /\ Tighten(u, w).areas[n] = u.areas[n]
      /\ \A n \in DOMAIN w.rules : \E k \in DOMAIN Tighten(u, w).rules : Tighten(u, w).rules[k] = w.rules[n]
      /\ \A n \in DOMAIN w.areas : \E k \in DOMAIN Tighten(u, w).areas : Tighten(u, w).areas[k] = w.areas[n]
  BY TightenIsLaw
<1> QED  BY <1>1 DEF Says, Bounds

LEMMA OptionalIsSaid ==
  ASSUME NEW r, r.patterns # {}
  PROVE  1 \in DOMAIN Optional(r) /\ Optional(r)[1] = r
BY DEF Optional

LEMMA RootsAreBounds ==
  ASSUME NEW roots
  PROVE  1 \in DOMAIN Roots(roots) /\ Roots(roots)[1] = Area("outside_roots", roots, FALSE)
BY DEF Roots

(* The law of a skill under an organisation's policy.                      *)
LEMMA SkillLawSays ==
  ASSUME NEW skill, NEW policy, NEW transport
  PROVE  /\ IsLaw(SkillLaw(skill, policy, transport)) /\ SkillLaw(skill, policy, transport).exempt = transport
         /\ SkillLaw(skill, policy, transport).areas = Roots(skill.roots)
         /\ skill.zones # {}
              => Says(SkillLaw(skill, policy, transport), Rule("forbidden_zone", skill.zones, {}, "deny", FALSE))
         /\ policy.zones # {}
              => Says(SkillLaw(skill, policy, transport), Rule("forbidden_zone", policy.zones, {}, "deny", FALSE))
<1> DEFINE l == SkillLaw(skill, policy, transport)
           zone(z) == Rule("forbidden_zone", z, {}, "deny", FALSE)
           first == ZoneRules(skill.zones) \o PerimeterRules(skill.perimeter)
           rules == first \o PerimeterRules(policy.perimeter)
           u == Law(Roots(skill.roots), rules, transport)
           w == Law(<< >>, ZoneRules(policy.zones), {})
<1>1. /\ \A z : IsList(ZoneRules(z)) /\ IsList(PerimeterRules(z))
      /\ IsList(Roots(skill.roots)) /\ IsList(<< >>)
  BY ShortLists DEF ZoneRules, PerimeterRules, Roots
<1>2. Joined(ZoneRules(skill.zones), PerimeterRules(skill.perimeter), first)
      /\ Joined(first, PerimeterRules(policy.perimeter), rules)
  BY DEF Joined
<1>3. /\ IsList(first)
      /\ \A n \in DOMAIN ZoneRules(skill.zones) : n \in DOMAIN first /\ first[n] = ZoneRules(skill.zones)[n]
  <2> HIDE DEF first
  <2> QED  BY <1>1, <1>2, JoinedLists
<1>4. /\ IsList(rules)
      /\ \A n \in DOMAIN first : n \in DOMAIN rules /\ rules[n] = first[n]
  <2> HIDE DEF first, rules
  <2> QED  BY <1>1, <1>2, <1>3, JoinedLists
<1>5. \A z : z # {} => 1 \in DOMAIN ZoneRules(z) /\ ZoneRules(z)[1] = zone(z)
  <2> TAKE z
  <2>1. zone(z).patterns = z /\ ZoneRules(z) = Optional(zone(z))
    BY DEF Rule, ZoneRules
  <2> HIDE DEF zone
  <2> QED  BY <2>1, OptionalIsSaid
<1> HIDE DEF zone, first, rules
<1>6. IsLaw(u) /\ IsLaw(w)
  BY <1>1, <1>4, MadeOfLists
<1>7. /\ u.rules = rules /\ u.areas = Roots(skill.roots) /\ u.exempt = transport
      /\ w.rules = ZoneRules(policy.zones) /\ w.areas = << >>
  BY DEF Law
<1>8. l = Tighten(u, w)
  BY DEF SkillLaw, first, rules
<1>9. skill.zones # {} => Says(u, zone(skill.zones))
  <2> HIDE DEF u
  <2>1. skill.zones # {} => 1 \in DOMAIN rules /\ rules[1] = zone(skill.zones)
    BY <1>3, <1>4, <1>5
  <2> QED  BY <1>7, <2>1 DEF Says
<1>10. policy.zones # {} => Says(w, zone(policy.zones))
  BY <1>5, <1>7 DEF Says
<1>11. l.areas = Roots(skill.roots)
  <2> HIDE DEF u, w
  <2>1. Tighten(u, w).areas = u.areas \o w.areas
    BY DEF Tighten, Law
  <2>2. Roots(skill.roots) \in Seq(ToSet(Roots(skill.roots)))
    BY <1>1 DEF IsList
  <2>3. \A S : \A q \in Seq(S) : q \o << >> = q
    OBVIOUS
  <2> QED  BY <1>7, <1>8, <2>1, <2>2, <2>3
<1> HIDE DEF l, u, w
<1>12. IsLaw(l) /\ l.exempt = transport
  BY <1>6, <1>7, <1>8, TightenIsLaw
<1> QED  BY <1>6, <1>8, <1>9, <1>10, <1>11, <1>12, TightenSays DEF l, zone

(* The law of a mission: that of its skill, its contract's zones, and its  *)
(* contract's roots.                                                       *)
LEMMA MissionLawSays ==
  ASSUME NEW skill, NEW policy, NEW contract, NEW transport,
         NEW s, s = SkillLaw(skill, policy, transport), NEW l, l = MissionLaw(skill, policy, contract, transport)
  PROVE  /\ IsLaw(l) /\ l.exempt = transport
         /\ \A r : Says(s, r) => Says(l, r)
         /\ skill.roots # {} \/ contract.roots = {} => \A a : Bounds(s, a) => Bounds(l, a)
         /\ contract.zones # {} => Says(l, Rule("forbidden_zone", contract.zones, {}, "deny", FALSE))
         /\ contract.roots # {} => Bounds(l, Area("outside_roots", contract.roots, FALSE))
<1> DEFINE zone == Rule("forbidden_zone", contract.zones, {}, "deny", FALSE)
           u == Law(IF skill.roots = {} /\ contract.roots # {} THEN << >> ELSE s.areas, s.rules, s.exempt)
           w == Law(IF contract.roots = {} THEN << >> ELSE Roots(contract.roots), ZoneRules(contract.zones), {})
<1>1. /\ IsList(ZoneRules(contract.zones)) /\ IsList(Roots(contract.roots)) /\ IsList(<< >>)
  BY ShortLists DEF ZoneRules, Roots
<1>2. IsLaw(s) /\ s.exempt = transport
  BY SkillLawSays
<1>3. s = Law(s.areas, s.rules, s.exempt)
  BY DEF SkillLaw, Tighten, Law
<1>4. l = Tighten(u, w)
  BY <1>3 DEF MissionLaw
<1>5. contract.zones # {} => 1 \in DOMAIN ZoneRules(contract.zones) /\ ZoneRules(contract.zones)[1] = zone
  <2>1. zone.patterns = contract.zones /\ ZoneRules(contract.zones) = Optional(zone)
    BY DEF Rule, ZoneRules
  <2> HIDE DEF zone
  <2> QED  BY <2>1, OptionalIsSaid
<1>6. IsLaw(u) /\ IsLaw(w)
  BY <1>1, <1>2, MadeOfLists DEF IsLaw
<1>7. /\ u.rules = s.rules /\ u.exempt = s.exempt
      /\ skill.roots # {} \/ contract.roots = {} => u.areas = s.areas
      /\ w.rules = ZoneRules(contract.zones)
      /\ contract.roots # {} => w.areas = Roots(contract.roots)
  BY DEF Law
<1>8. contract.roots # {} => Bounds(w, Area("outside_roots", contract.roots, FALSE))
  BY <1>7, RootsAreBounds DEF Bounds
<1> HIDE DEF zone, u, w
<1>9. contract.zones # {} => Says(w, zone)
  BY <1>5, <1>7 DEF Says
<1>10. IsLaw(l) /\ l.exempt = transport
  BY <1>2, <1>4, <1>6, <1>7, TightenIsLaw
<1>11. /\ \A r : Says(s, r) => Says(u, r)
       /\ skill.roots # {} \/ contract.roots = {} => \A a : Bounds(s, a) => Bounds(u, a)
  BY <1>7 DEF Says, Bounds
<1> QED  BY <1>4, <1>6, <1>8, <1>9, <1>10, <1>11, TightenSays DEF zone

(* resolveEffectiveScope (ContractNarrows).                                *)
LEMMA ContractsOnlyNarrow ==
  ASSUME NEW skill, NEW policy, NEW contract, NEW transport, NEW path
  PROVE  ContractNarrows(skill, policy, contract, transport, path)
<1> DEFINE s == SkillLaw(skill, policy, transport)
           l == MissionLaw(skill, policy, contract, transport)
           zone(z) == Rule("forbidden_zone", z, {}, "deny", FALSE)
<1>1. /\ IsLaw(s) /\ s.exempt = transport /\ s.areas = Roots(skill.roots)
      /\ skill.zones # {} => Says(s, zone(skill.zones))
      /\ policy.zones # {} => Says(s, zone(policy.zones))
  BY SkillLawSays
<1>2. /\ IsLaw(l) /\ l.exempt = transport
      /\ \A r : Says(s, r) => Says(l, r)
      /\ skill.roots # {} \/ contract.roots = {} => \A a : Bounds(s, a) => Bounds(l, a)
      /\ contract.zones # {} => Says(l, zone(contract.zones))
      /\ contract.roots # {} => Bounds(l, Area("outside_roots", contract.roots, FALSE))
  BY MissionLawSays
<1>3. Bounds(s, Area("outside_roots", skill.roots, FALSE))
  BY <1>1, RootsAreBounds DEF Bounds
<1> HIDE DEF s, l
<1> SUFFICES ASSUME Classify(l, path) = "inside_tmvc"
             PROVE  /\ \/ skill.roots = {}
                       \/ Classify(s, path) = "inside_tmvc"
                    /\ ~CoveredBy(AllZones(skill, policy, contract), path)
                    /\ CoveredBy(EffectiveRoots(skill, contract), path)
  BY DEF ContractNarrows, s, l
<1>4. /\ ~CoveredBy(transport, path)
      /\ \A r : Says(l, r) /\ CoveredBy(r.patterns, path) /\ ~CoveredBy(r.except, path) => r.effect # "deny"
      /\ \A a : Bounds(l, a) => CoveredBy(a.patterns, path)
  BY <1>2, InsideIsNotDenied
<1>5. \A z : (z # {} => Says(l, zone(z))) => ~CoveredBy(z, path)
  <2> SUFFICES ASSUME NEW z, z # {} => Says(l, zone(z)), CoveredBy(z, path) PROVE FALSE
    OBVIOUS
  <2>1. z # {}
    BY NothingCovers
  <2>2. zone(z).patterns = z /\ zone(z).except = {} /\ zone(z).effect = "deny"
    BY DEF Rule
  <2> HIDE DEF zone
  <2> QED  BY <1>4, <2>1, <2>2, NothingCovers
<1>6. ~CoveredBy(AllZones(skill, policy, contract), path)
  <2>1. ~CoveredBy(skill.zones, path) /\ ~CoveredBy(policy.zones, path) /\ ~CoveredBy(contract.zones, path)
    BY <1>1, <1>2, <1>5
  <2> QED  BY <2>1 DEF CoveredBy, AllZones
<1>7. CoveredBy(EffectiveRoots(skill, contract), path)
  <2>1. \A roots : Area("outside_roots", roots, FALSE).patterns = roots
    BY DEF Area
  <2> QED  BY <1>2, <1>3, <1>4, <2>1 DEF EffectiveRoots
<1>8. CASE skill.roots # {}
  <2>1. /\ \A r : Says(s, r) /\ CoveredBy(r.patterns, path) /\ ~CoveredBy(r.except, path) => r.effect # "deny"
        /\ \A a : Bounds(s, a) => CoveredBy(a.patterns, path)
    BY <1>2, <1>4, <1>8
  <2>2. Classify(s, path) = "inside_tmvc"
    BY <1>1, <1>4, <2>1, InsideIsNotDenied
  <2> QED  BY <1>6, <1>7, <2>2
<1> QED  BY <1>6, <1>7, <1>8

-----------------------------------------------------------------------------
(* The plan of the cage.                                                   *)

(* A rule that an entry of .cage.yaml makes.                               *)
OfEntry(entries, r) == \E kind \in {"path", "glob"}, n \in DOMAIN entries : r = EntryRules(entries, kind)[n]

LEMMA PlanIsLaw ==
  ASSUME NEW zones, NEW config, NEW flags, IsList(config.entries), NEW l, l = PlanLaw(zones, config, flags)
  PROVE  /\ IsLaw(l) /\ l.exempt = {}
         /\ \A n \in DOMAIN BuiltinTargets(zones) : Says(l, BuiltinTargets(zones)[n])
         /\ LET F == FloorRules(Dependencies(config, flags)) IN \A n \in DOMAIN F : Says(l, F[n])
         /\ LET F == FloorRules(Dependencies(config, flags)) IN
            \A r : Says(l, r) => \/ \E n \in DOMAIN BuiltinTargets(zones) : r = BuiltinTargets(zones)[n]
                                 \/ \E n \in DOMAIN F : r = F[n]
                                 \/ OfEntry(config.entries, r)
         /\ \A r : OfEntry(config.entries, r) => Says(l, r)
<1> DEFINE B == BuiltinTargets(zones)
           E == EntryRules(config.entries, "path")
           F == FloorRules(Dependencies(config, flags))
           G == EntryRules(config.entries, "glob")
           one == B \o E
           two == one \o F
           rules == two \o G
           areas == ScopeAreas(config, flags)
<1>1. IsList(B) /\ IsList(F)
  <2>1. \A r, q : IsList(<<r, q>>)
    <3> TAKE r, q
    <3>1. <<r, q>> \in Seq({r, q})
      OBVIOUS
    <3> QED  BY <3>1, SequencesAreLists
  <2>2. \A r, q, x, y : IsList(<<r, q, x, y>>)
    <3> TAKE r, q, x, y
    <3>1. <<r, q, x, y>> \in Seq({r, q, x, y})
      OBVIOUS
    <3> QED  BY <3>1, SequencesAreLists
  <2>3. \A s, t : IsList(s) /\ IsList(t) => IsList(s \o t)
    BY ListsJoin
  <2>4. \A r, q : IsList(r) /\ IsList(q) => IsList(IF Dependencies(config, flags) = "revert" THEN r ELSE q)
    OBVIOUS
  <2>5. IsList(<< >>) /\ \A r : IsList(<<r>>)
    BY ShortLists
  <2>6. IsList(B)
    BY <2>2 DEF BuiltinTargets
  <2>7. IsList(F)
    BY <2>1, <2>3, <2>5 DEF FloorRules
  <2> QED  BY <2>6, <2>7
<1>2. \A kind : IsList(EntryRules(config.entries, kind))
  <2> TAKE kind
  <2>1. config.entries \in Seq(ToSet(config.entries))
    BY DEF IsList
  <2>2. PICK N \in Nat : DOMAIN config.entries = 1 .. N
    BY <2>1
  <2> DEFINE rule(n) == CageRule("cage_protect", IF config.entries[n].kind = kind THEN {config.entries[n].value} ELSE {}, {},
                                 config.entries[n].mode)
  <2>3. EntryRules(config.entries, kind) = [n \in 1 .. N |-> rule(n)]
    BY <2>2 DEF EntryRules
  <2> HIDE DEF rule
  <2>4. [n \in 1 .. N |-> rule(n)] \in Seq({rule(n) : n \in 1 .. N})
    OBVIOUS
  <2> QED  BY <2>3, <2>4, SequencesAreLists
<1>3. IsList(areas)
  <2> DEFINE s == IF config.allowOnly = {} THEN << >> ELSE <<Area("out_of_scope", config.allowOnly, TRUE)>>
             t == IF flags.allowOnly = {} THEN << >> ELSE <<Area("out_of_scope", flags.allowOnly, TRUE)>>
  <2>1. Joined(s, t, areas)
    BY DEF ScopeAreas, Joined
  <2>2. IsList(s) /\ IsList(t)
    BY ShortLists
  <2> HIDE DEF s, t, areas
  <2> QED  BY <2>1, <2>2, JoinedLists
<1>4. Joined(B, E, one) /\ Joined(one, F, two) /\ Joined(two, G, rules)
  BY DEF Joined
<1>5. l = Law(areas, rules, {})
  BY DEF PlanLaw
<1>6. l.rules = rules /\ l.exempt = {}
  BY <1>5 DEF Law
<1>10. \A r : OfEntry(config.entries, r) <=> (\E n \in DOMAIN E : r = E[n]) \/ (\E n \in DOMAIN G : r = G[n])
  <2>1. DOMAIN E = DOMAIN config.entries /\ DOMAIN G = DOMAIN config.entries
    BY DEF EntryRules
  <2> HIDE DEF E, G
  <2> QED  BY <2>1 DEF OfEntry, E, G
<1> HIDE DEF B, E, F, G, one, two, rules, areas
<1>7. /\ IsList(one) /\ IsList(two) /\ IsList(rules)
      /\ \A n \in DOMAIN B : \E k \in DOMAIN rules : rules[k] = B[n]
      /\ \A n \in DOMAIN F : \E k \in DOMAIN rules : rules[k] = F[n]
      /\ \A n \in DOMAIN E : \E k \in DOMAIN rules : rules[k] = E[n]
      /\ \A n \in DOMAIN G : \E k \in DOMAIN rules : rules[k] = G[n]
  <2>1. IsList(E) /\ IsList(G)
    BY <1>2 DEF E, G
  <2>2. /\ IsList(one)
        /\ \A n \in DOMAIN B : n \in DOMAIN one /\ one[n] = B[n]
        /\ \A n \in DOMAIN E : \E k \in DOMAIN one : one[k] = E[n]
    BY <1>1, <1>4, <2>1, JoinedLists
  <2>3. /\ IsList(two)
        /\ \A n \in DOMAIN one : n \in DOMAIN two /\ two[n] = one[n]
        /\ \A n \in DOMAIN F : \E k \in DOMAIN two : two[k] = F[n]
    BY <1>1, <1>4, <2>2, JoinedLists
  <2>4. /\ IsList(rules)
        /\ \A n \in DOMAIN two : n \in DOMAIN rules /\ rules[n] = two[n]
        /\ \A n \in DOMAIN G : \E k \in DOMAIN rules : rules[k] = G[n]
    BY <1>4, <2>1, <2>3, JoinedLists
  <2> QED  BY <2>2, <2>3, <2>4
<1>8. ASSUME NEW n \in DOMAIN rules
      PROVE  \/ \E k \in DOMAIN B : rules[n] = B[k]
             \/ \E k \in DOMAIN F : rules[n] = F[k]
             \/ OfEntry(config.entries, rules[n])
  <2>1. IsList(E) /\ IsList(G)
    BY <1>2 DEF E, G
  <2>2. (\E k \in DOMAIN two : rules[n] = two[k]) \/ (\E k \in DOMAIN G : rules[n] = G[k])
    BY <1>4, <1>7, <2>1, JoinedLists
  <2>3. \A k \in DOMAIN two : (\E j \in DOMAIN one : two[k] = one[j]) \/ (\E j \in DOMAIN F : two[k] = F[j])
    BY <1>1, <1>4, <1>7, JoinedLists
  <2>4. \A k \in DOMAIN one : (\E j \in DOMAIN B : one[k] = B[j]) \/ (\E j \in DOMAIN E : one[k] = E[j])
    BY <1>1, <1>4, <2>1, JoinedLists
  <2> QED  BY <1>10, <2>2, <2>3, <2>4
<1>9. IsLaw(l)
  BY <1>3, <1>5, <1>7, MadeOfLists
<1>11. /\ \A n \in DOMAIN B : Says(l, B[n])
       /\ \A n \in DOMAIN F : Says(l, F[n])
       /\ \A r : Says(l, r) => \/ \E n \in DOMAIN B : r = B[n]
                               \/ \E n \in DOMAIN F : r = F[n]
                               \/ OfEntry(config.entries, r)
       /\ \A r : OfEntry(config.entries, r) => Says(l, r)
  <2>1. \A n \in DOMAIN B : Says(l, B[n])
    BY <1>6, <1>7 DEF Says
  <2>2. \A n \in DOMAIN F : Says(l, F[n])
    BY <1>6, <1>7 DEF Says
  <2>3. ASSUME NEW r, Says(l, r)
        PROVE  \/ \E n \in DOMAIN B : r = B[n]
               \/ \E n \in DOMAIN F : r = F[n]
               \/ OfEntry(config.entries, r)
    <3>1. PICK n \in DOMAIN rules : rules[n] = r
      BY <1>6, <2>3 DEF Says
    <3> QED  BY <1>8, <2>3, <3>1
  <2>4. \A r : OfEntry(config.entries, r) => Says(l, r)
    BY <1>6, <1>7, <1>10 DEF Says
  <2> QED  BY <2>1, <2>2, <2>3, <2>4
<1> QED  BY <1>6, <1>9, <1>11 DEF B, F

(* Outside the overrides, they change nothing.                             *)
LEMMA OverridesAreLocal ==
  ASSUME NEW l, NEW path, NEW overrides, ~CoveredBy(overrides, path)
  PROVE  Judge(l, path, overrides) = Judge(l, path, {})
<1>1. /\ \A r : RuleVerdict(r, path, overrides) = RuleVerdict(r, path, {})
      /\ \A a : AreaVerdict(a, path, overrides) = AreaVerdict(a, path, {})
  BY NothingCovers DEF RuleVerdict, AreaVerdict, Verdict
<1>2. Verdicts(l, path, overrides) = Verdicts(l, path, {})
  BY <1>1 DEF Verdicts
<1> QED  BY <1>2 DEF Judge

(* The built-in rules stand (FloorStands).                                 *)
LEMMA TheFloorStands ==
  ASSUME NEW zones, NEW config, NEW flags, NEW overrides, NEW path, IsList(config.entries)
  PROVE  FloorStands(zones, config, flags, overrides, path)
<1> DEFINE l == PlanLaw(zones, config, flags)
           u == PlanLaw(zones, NoConfig, NoFlags)
           B == BuiltinTargets(zones)
           F(d) == FloorRules(d)
           d == Dependencies(config, flags)
<1>1. /\ IsLaw(l) /\ l.exempt = {}
      /\ \A n \in DOMAIN B : Says(l, B[n])
      /\ \A n \in DOMAIN F(d) : Says(l, F(d)[n])
  BY PlanIsLaw
<1>2. /\ NoConfig.entries = << >> /\ DOMAIN NoConfig.entries = {} /\ Dependencies(NoConfig, NoFlags) = "report" /\ u.areas = << >>
  BY DEF NoConfig, NoFlags, Dependencies, PlanLaw, ScopeAreas, Law
<1>3. /\ IsLaw(u) /\ u.exempt = {}
      /\ \A r : Says(u, r) => (\E n \in DOMAIN B : r = B[n]) \/ (\E n \in DOMAIN F("report") : r = F("report")[n])
  BY <1>2, ShortLists, PlanIsLaw DEF OfEntry
<1>4. \A n \in DOMAIN F("report") : \E k \in DOMAIN F(d) :
         /\ F(d)[k].patterns = F("report")[n].patterns /\ F(d)[k].except = F("report")[n].except
         /\ F(d)[k].effect \in {"deny", F("report")[n].effect}
  <2> DEFINE first(x) == <<CageRule("secrets", SecretFiles, SecretExcept, "revert"), CageRule("lockfile", Lockfiles, {}, x)>>
             rest(x) == IF x = "revert" THEN <<CageRule("dependency_manifest", DependencyManifests, Vendored, "revert")>>
                        ELSE << >>
  <2>1. \A x : Joined(first(x), rest(x), F(x))
    BY DEF Joined, FloorRules
  <2>2. \A x : IsList(rest(x))
    BY ShortLists
  <2>3. \A x : IsList(first(x))
    <3> TAKE x
    <3>1. \A q, r : <<q, r>> \in Seq({q, r})
      OBVIOUS
    <3> QED  BY <3>1, SequencesAreLists
  <2>4. /\ DOMAIN rest("report") = {}
        /\ \A x : DOMAIN first(x) = {1, 2}
    OBVIOUS
  <2>5. \A k \in {1, 2} : /\ first(d)[k].patterns = first("report")[k].patterns /\ first(d)[k].except = first("report")[k].except
                          /\ first(d)[k].effect \in {"deny", first("report")[k].effect}
    BY DEF CageRule, Rule, EffectOf
  <2> HIDE DEF first, rest, F, d
  <2>6. \A n \in DOMAIN F("report") : \E k \in {1, 2} : F("report")[n] = first("report")[k]
    BY <2>1, <2>2, <2>3, <2>4, JoinedLists
  <2>7. \A k \in {1, 2} : k \in DOMAIN F(d) /\ F(d)[k] = first(d)[k]
    BY <2>1, <2>2, <2>3, <2>4, JoinedLists
  <2> QED  BY <2>5, <2>6, <2>7
<1>5. 2 \in DOMAIN B /\ B[2].patterns = GitControl /\ B[2].except = {} /\ B[2].effect = "deny" /\ ~B[2].overridable
  <2>1. 2 \in DOMAIN B /\ B[2] = CageRule("git_control", GitControl, {}, "revert")
    BY DEF BuiltinTargets
  <2>2. CageRule("git_control", GitControl, {}, "revert") = Rule("git_control", GitControl, {}, "deny", "git_control" \notin Harness)
    BY DEF CageRule, EffectOf
  <2>3. ASSUME NEW o PROVE /\ Rule("git_control", GitControl, {}, "deny", o).patterns = GitControl /\ Rule("git_control", GitControl, {}, "deny", o).except = {}
                           /\ Rule("git_control", GitControl, {}, "deny", o).effect = "deny" /\ Rule("git_control", GitControl, {}, "deny", o).overridable = o
    BY DEF Rule
  <2>4. ~("git_control" \notin Harness)
    BY DEF Harness
  <2>5. PICK o : ~o /\ B[2] = Rule("git_control", GitControl, {}, "deny", o)
    BY <2>1, <2>2, <2>4
  <2> HIDE DEF B
  <2> QED  BY <2>1, <2>3, <2>5
<1>6. 3 \in DOMAIN B /\ B[3].patterns = CageFile /\ B[3].except = {} /\ B[3].effect = "deny" /\ ~B[3].overridable
  <2>1. 3 \in DOMAIN B /\ B[3] = CageRule("cage_config", CageFile, {}, "revert")
    BY DEF BuiltinTargets
  <2>2. CageRule("cage_config", CageFile, {}, "revert") = Rule("cage_config", CageFile, {}, "deny", "cage_config" \notin Harness)
    BY DEF CageRule, EffectOf
  <2>3. ASSUME NEW o PROVE /\ Rule("cage_config", CageFile, {}, "deny", o).patterns = CageFile /\ Rule("cage_config", CageFile, {}, "deny", o).except = {}
                           /\ Rule("cage_config", CageFile, {}, "deny", o).effect = "deny" /\ Rule("cage_config", CageFile, {}, "deny", o).overridable = o
    BY DEF Rule
  <2>4. ~("cage_config" \notin Harness)
    BY DEF Harness
  <2>5. PICK o : ~o /\ B[3] = Rule("cage_config", CageFile, {}, "deny", o)
    BY <2>1, <2>2, <2>4
  <2> HIDE DEF B
  <2> QED  BY <2>1, <2>3, <2>5
<1> HIDE DEF l, u, B, F, d
<1>7. Strictness(l, path, {}) >= Strictness(u, path, {})
  <2>1. ASSUME NEW i \in DOMAIN u.rules
        PROVE  \E k \in DOMAIN l.rules :
                  Rank(RuleVerdict(u.rules[i], path, {}).effect) <= Rank(RuleVerdict(l.rules[k], path, {}).effect)
    <3>1. (\E j \in DOMAIN B : u.rules[i] = B[j]) \/ (\E j \in DOMAIN F("report") : u.rules[i] = F("report")[j])
      BY <1>3 DEF Says
    <3>2. \A r : Rank(RuleVerdict(r, path, {}).effect) \in 0 .. 3
      BY RankIsSmall
    <3>3. CASE \E j \in DOMAIN B : u.rules[i] = B[j]
      BY <1>1, <3>2, <3>3 DEF Says
    <3>4. CASE \E j \in DOMAIN F("report") : u.rules[i] = F("report")[j]
      <4>1. PICK k \in DOMAIN F(d) : /\ F(d)[k].patterns = u.rules[i].patterns /\ F(d)[k].except = u.rules[i].except
                                     /\ F(d)[k].effect \in {"deny", u.rules[i].effect}
        BY <1>4, <3>4
      <4>2. Rank(RuleVerdict(u.rules[i], path, {}).effect) <= Rank(RuleVerdict(F(d)[k], path, {}).effect)
        <5>1. \A e : Rank(e) <= Rank("deny") /\ Rank(e) <= Rank(e) /\ Rank(e) \in 0 .. 3
          BY DEF Rank
        <5> QED  BY <4>1, <5>1, PlainVerdicts
      <4>3. Says(l, F(d)[k])
        BY <1>1
      <4> QED  BY <4>2, <4>3 DEF Says
    <3> QED  BY <3>1, <3>3, <3>4
  <2>2. \A i \in DOMAIN u.areas : FALSE
    BY <1>2
  <2> QED  BY <1>1, <1>3, <2>1, <2>2, StricterLaw
<1>8. ASSUME CoveredBy(GitControl \cup CageFile, path)
      PROVE  Mode(l, path, overrides) = "revert"
  <2>1. \A r : /\ CoveredBy(r.patterns, path) /\ r.except = {} /\ r.effect = "deny" /\ ~r.overridable
               => RuleVerdict(r, path, overrides).effect = "deny"
    BY NothingCovers DEF RuleVerdict, Verdict
  <2>2. CoveredBy(GitControl, path) \/ CoveredBy(CageFile, path)
    BY <1>8 DEF CoveredBy
  <2>3. \E r : Says(l, r) /\ RuleVerdict(r, path, overrides).effect = "deny"
    BY <1>1, <1>5, <1>6, <2>1, <2>2
  <2>4. ~CoveredBy(l.exempt, path)
    BY <1>1, NothingCovers
  <2>5. Judge(l, path, overrides).effect = "deny"
    BY <1>1, <2>3, <2>4, DenialIsOfARule
  <2> QED  BY <2>5 DEF Mode
<1>9. Mode(l, path, overrides) # Mode(l, path, {}) => CoveredBy(overrides, path)
  BY OverridesAreLocal DEF Mode
<1> QED  BY <1>7, <1>8, <1>9 DEF FloorStands, l, u

-----------------------------------------------------------------------------
(* What is proposed for .cage.yaml.                                        *)

(* One step of Match, and what it is a fixed point of.                     *)
MatchStep(p, q, f, i) ==
    IF i > Len(p) THEN {Len(q) + 1}
    ELSE IF p[i] # Deep THEN {j \in 1 .. Len(q) : p[i] \in {Star, q[j]} /\ j + 1 \in f[i + 1]}
    ELSE IF i = Len(p) THEN 1 .. Len(q)
    ELSE {j \in 1 .. Len(q) + 1 : \E k \in f[i + 1] : j <= k}
MatchesBy(p, q, f) == f = [i \in 1 .. Len(p) + 1 |-> MatchStep(p, q, f, i)]

LEMMA MatchIsThere == \A p, q : Match(p, q) = (1 \in (CHOOSE f : MatchesBy(p, q, f))[1])
BY DEF Match, MatchesBy, MatchStep

LEMMA MatchesExist ==
  ASSUME NEW p, NEW q, Len(p) \in Nat
  PROVE  \E f : MatchesBy(p, q, f)
<1> DEFINE tails(n) == {i \in 1 .. Len(p) + 1 : i + n > Len(p)}
           P(n) == \E f : \A i \in tails(n) : f[i] = MatchStep(p, q, f, i)
<1>1. P(0)
  <2> DEFINE f == [i \in tails(0) |-> {Len(q) + 1}]
  <2>1. \A i \in tails(0) : f[i] = MatchStep(p, q, f, i)
    BY DEF MatchStep
  <2> QED  BY <2>1
<1>2. ASSUME NEW n \in Nat, P(n) PROVE P(n + 1)
  <2>1. PICK f : \A i \in tails(n) : f[i] = MatchStep(p, q, f, i)
    BY <1>2
  <2> DEFINE g == [i \in tails(n + 1) |-> MatchStep(p, q, f, i)]
  <2>2. \A i \in tails(n + 1) : i <= Len(p) => i + 1 \in tails(n)
    OBVIOUS
  <2>3. \A i \in tails(n) : i \in tails(n + 1) /\ g[i] = f[i]
    BY <2>1
  <2>4. \A i \in tails(n + 1) : MatchStep(p, q, f, i) = MatchStep(p, q, g, i)
    <3> SUFFICES ASSUME NEW i \in tails(n + 1) PROVE MatchStep(p, q, f, i) = MatchStep(p, q, g, i)
      OBVIOUS
    <3>1. CASE i > Len(p)
      BY <3>1 DEF MatchStep
    <3>2. CASE ~(i > Len(p))
      <4>1. i + 1 \in tails(n)
        BY <2>2, <3>2
      <4>2. g[i + 1] = f[i + 1]
        <5> HIDE DEF g, tails
        <5> QED  BY <2>3, <4>1
      <4> HIDE DEF g
      <4> QED  BY <3>2, <4>2 DEF MatchStep
    <3> QED  BY <3>1, <3>2
  <2> QED  BY <2>4
<1>3. \A n \in Nat : P(n)
  <2> HIDE DEF P
  <2> DEFINE bad == {n \in Nat : ~P(n)}
  <2>1. SUFFICES ASSUME NEW n0 \in Nat, ~P(n0) PROVE FALSE
    OBVIOUS
  <2>2. bad # {} /\ bad \in SUBSET Nat
    BY <2>1
  <2>3. PICK n \in bad : \A j \in bad : n <= j
    BY <2>2, LeastOfSome
  <2>4. n \in Nat /\ ~P(n)
    BY <2>3
  <2>5. n # 0
    BY <1>1, <2>4
  <2>6. PICK l \in Nat : l + 1 = n
    <3>1. n - 1 \in Nat /\ n - 1 + 1 = n
      BY <2>4, <2>5
    <3> QED  BY <3>1
  <2>7. l \notin bad
    <3>1. ~(n <= l)
      BY <2>4, <2>6
    <3> QED  BY <2>3, <3>1
  <2>8. P(l)
    BY <2>6, <2>7
  <2>9. P(l + 1)
    BY <1>2, <2>6, <2>8
  <2> QED  BY <2>4, <2>6, <2>9
<1>4. PICK f : \A i \in tails(Len(p) + 1) : f[i] = MatchStep(p, q, f, i)
  <2>1. Len(p) + 1 \in Nat
    OBVIOUS
  <2> QED  BY <1>3, <2>1
<1>5. tails(Len(p) + 1) = 1 .. Len(p) + 1
  OBVIOUS
<1> DEFINE g == [i \in 1 .. Len(p) + 1 |-> f[i]]
<1>6. \A i \in 1 .. Len(p) + 1 : MatchStep(p, q, f, i) = MatchStep(p, q, g, i)
  <2> SUFFICES ASSUME NEW i \in 1 .. Len(p) + 1 PROVE MatchStep(p, q, f, i) = MatchStep(p, q, g, i)
    OBVIOUS
  <2>1. CASE i > Len(p)
    BY <2>1 DEF MatchStep
  <2>2. CASE ~(i > Len(p))
    <3>1. g[i + 1] = f[i + 1]
      BY <2>2
    <3> HIDE DEF g
    <3> QED  BY <2>2, <3>1 DEF MatchStep
  <2> QED  BY <2>1, <2>2
<1>7. g = [i \in 1 .. Len(p) + 1 |-> MatchStep(p, q, g, i)]
  BY <1>4, <1>5, <1>6
<1> HIDE DEF g
<1> QED  BY <1>7 DEF MatchesBy

(* A pattern matches itself.                                               *)
LEMMA MatchesItself ==
  ASSUME NEW p, Len(p) \in Nat, Len(p) # 0
  PROVE  Match(p, p)
<1> DEFINE f == CHOOSE g : MatchesBy(p, p, g)
<1>1. MatchesBy(p, p, f)
  BY MatchesExist, Zenon
<1> HIDE DEF f
<1>2. \A i \in 1 .. Len(p) + 1 : f[i] = MatchStep(p, p, f, i)
  BY <1>1 DEF MatchesBy
<1> DEFINE bad == {n \in Nat : n <= Len(p) /\ Len(p) + 1 - n \notin f[Len(p) + 1 - n]}
<1>3. bad = {}
  <2> SUFFICES ASSUME bad # {} PROVE FALSE
    OBVIOUS
  <2>1. PICK n \in bad : \A j \in bad : n <= j
    BY LeastOfSome
  <2> DEFINE i == Len(p) + 1 - n
  <2>2. i \in 1 .. Len(p) + 1 /\ i \notin f[i]
    BY <2>1
  <2>3. f[i] = MatchStep(p, p, f, i)
    BY <1>2, <2>2
  <2>4. CASE n = 0
    BY <2>2, <2>3, <2>4 DEF MatchStep
  <2>5. CASE n # 0
    <3>1. n - 1 \in Nat /\ n - 1 <= Len(p) /\ Len(p) + 1 - (n - 1) = i + 1 /\ ~(n <= n - 1)
      BY <2>1, <2>5
    <3>2. i + 1 \in f[i + 1]
      BY <2>1, <3>1
    <3>3. i \in 1 .. Len(p) /\ i <= i + 1
      BY <2>1, <2>5
    <3> HIDE DEF i
    <3> QED  BY <2>2, <2>3, <3>2, <3>3 DEF MatchStep
  <2> QED  BY <2>4, <2>5
<1>4. 1 \in f[1]
  <2>1. Len(p) \in Nat /\ Len(p) <= Len(p) /\ Len(p) + 1 - Len(p) = 1 /\ Len(p) \notin bad
    BY <1>3
  <2> QED  BY <2>1
<1> QED  BY <1>4, MatchIsThere DEF f

(* SetToSeq lists the elements of a finite set.                            *)
LEMMA ListOfSet ==
  ASSUME NEW S, IsFiniteSet(S)
  PROVE  IsList(SetToSeq(S)) /\ {SetToSeq(S)[n] : n \in DOMAIN SetToSeq(S)} = S
<1> DEFINE N == Cardinality(S)
           q == SetToSeq(S)
<1>1. N \in Nat /\ ExistsBijection(1 .. N, S)
  BY FS_CardinalityType
<1>2. \E f \in [1 .. N -> S] : IsInjective(f)
  BY <1>1 DEF ExistsBijection, Bijection, Injection
<1>3. q \in [1 .. N -> S] /\ IsInjective(q)
  BY <1>2 DEF SetToSeq
<1> HIDE DEF q
<1>4. q \in Seq(S)
  BY <1>1, <1>3
<1>5. IsList(q)
  BY <1>4, SequencesAreLists
<1>6. IsFiniteSet(1 .. N) /\ Cardinality(1 .. N) = N
  BY <1>1, FS_Interval
<1>7. q \in Surjection(1 .. N, S)
  BY <1>3, <1>6, FS_Injection DEF Injection
<1>8. {q[n] : n \in DOMAIN q} = S
  BY <1>3, <1>7 DEF Surjection
<1> QED  BY <1>5, <1>8 DEF q

(* What cage suggest proposes can be saved, and is not proposed again.     *)
LEMMA SuggestionsAreSettled ==
  ASSUME NEW zones, NEW config, NEW found, IsConfig(config), IsFiniteSet(found),
         \A s \in found : IsProposal(s)
  PROVE  SuggestionsSettle(zones, config, found)
<1> DEFINE new == IsSuggested(zones, config, found)
           q == SetToSeq(new)
           saved == [config EXCEPT !.entries = @ \o q]
           l == PlanLaw(zones, config, NoFlags)
           m == PlanLaw(zones, saved, NoFlags)
<1>1. IsList(q) /\ \A s : s \in new <=> \E n \in DOMAIN q : q[n] = s
  <2>1. IsFiniteSet(new)
    BY FS_Subset DEF IsSuggested
  <2> HIDE DEF new
  <2> QED  BY <2>1, ListOfSet
<1>2. /\ saved.entries = config.entries \o q
      /\ saved.dependencies = config.dependencies /\ saved.allowOnly = config.allowOnly
      /\ [saved EXCEPT !.entries = << >>] = [config EXCEPT !.entries = << >>]
  BY DEF IsConfig
<1> HIDE DEF q, saved
<1>3. /\ IsList(saved.entries)
      /\ \A n \in DOMAIN config.entries : n \in DOMAIN saved.entries /\ saved.entries[n] = config.entries[n]
      /\ \A n \in DOMAIN q : \E k \in DOMAIN saved.entries : saved.entries[k] = q[n]
      /\ \A n \in DOMAIN saved.entries : \/ \E k \in DOMAIN config.entries : saved.entries[n] = config.entries[k]
                                         \/ \E k \in DOMAIN q : saved.entries[n] = q[k]
  <2>1. Joined(config.entries, q, saved.entries)
    BY <1>2 DEF Joined
  <2> QED  BY <1>1, <2>1, JoinedLists DEF IsConfig
<1>4. \A s \in new : s \in found /\ IsProposal(s)
  BY DEF IsSuggested
<1>5. ASSUME PlanIsAccepted(zones, config, NoFlags, {})
      PROVE  PlanIsAccepted(zones, saved, NoFlags, {})
  <2>1. \A n \in DOMAIN saved.entries : \/ \E k \in DOMAIN config.entries : saved.entries[n] = config.entries[k]
                                       \/ IsProposal(saved.entries[n])
    BY <1>1, <1>3, <1>4
  <2>2. ConfigIsValid(saved)
    BY <1>2, <1>5, <2>1 DEF PlanIsAccepted, ConfigIsValid, IsProposal
  <2>3. ~Weakens(zones, saved, NoFlags)
    <3> DEFINE weakens(c, e) == LET hit == Judge(PlanLaw(zones, [c EXCEPT !.entries = << >>], NoFlags), e.value, {}) IN
                                e.kind = "path" /\ e.mode = "report" /\ hit.effect = "deny" /\ hit.rule \in Builtin \ {"out_of_scope"}
    <3>1. \A n \in DOMAIN config.entries : ~weakens(config, config.entries[n])
      BY <1>5 DEF PlanIsAccepted, Weakens
    <3>2. \A e : weakens(saved, e) <=> weakens(config, e)
      BY <1>2
    <3>3. \A e : IsProposal(e) => ~weakens(saved, e)
      BY DEF IsProposal
    <3>4. Weakens(zones, saved, NoFlags) <=> \E n \in DOMAIN saved.entries : weakens(saved, saved.entries[n])
      BY DEF Weakens
    <3> HIDE DEF weakens
    <3> QED  BY <2>1, <3>1, <3>2, <3>3, <3>4
  <2> QED  BY <2>2, <2>3 DEF PlanIsAccepted
<1>6. ASSUME NEW s \in IsSuggested(zones, saved, found) PROVE FALSE
  <2>1. s \in found /\ IsProposal(s)
    BY DEF IsSuggested
  <2>2. ASSUME s \in new PROVE \E n \in DOMAIN saved.entries : saved.entries[n] = s
    BY <1>1, <1>3, <2>2
  <2>3. CASE s.kind = "glob"
    <3>1. \A n \in DOMAIN saved.entries : saved.entries[n] # s
      BY <2>3 DEF IsSuggested
    <3>2. s \notin new
      BY <2>2, <3>1
    <3>3. \E n \in DOMAIN config.entries : config.entries[n] = s
      BY <2>1, <2>3, <3>2 DEF IsSuggested
    <3> QED  BY <1>3, <3>1, <3>3
  <2>4. CASE s.kind = "path"
    <3>1. Mode(m, s.value, {}) # "revert"
      BY <2>4 DEF IsSuggested
    <3>2. /\ IsLaw(l) /\ l.exempt = {} /\ IsLaw(m) /\ m.exempt = {}
          /\ \A r : OfEntry(saved.entries, r) => Says(m, r)
      BY <1>3, PlanIsLaw DEF IsConfig
    <3>3. \A r : Says(l, r) => Says(m, r)
      <4>1. Dependencies(saved, NoFlags) = Dependencies(config, NoFlags)
        BY <1>2 DEF Dependencies
      <4>2. \A r : OfEntry(config.entries, r) => OfEntry(saved.entries, r)
        BY <1>3 DEF OfEntry, EntryRules
      <4> HIDE DEF l, m
      <4> QED  BY <1>3, <4>1, <4>2, PlanIsLaw DEF IsConfig, l, m
    <3>4. m.areas = l.areas
      BY <1>2 DEF PlanLaw, ScopeAreas, Law
    <3>5. Judge(m, s.value, {}).effect # "deny"
      BY <3>1 DEF Mode
    <3> HIDE DEF l, m
    <3>6. ~CoveredBy(l.exempt, s.value) /\ ~CoveredBy(m.exempt, s.value)
      BY <3>2, NothingCovers
    <3>7. Judge(l, s.value, {}).effect # "deny"
      BY <3>2, <3>3, <3>4, <3>5, <3>6, DenialIsOfARule DEF Bounds
    <3>8. s \in new
      BY <2>1, <2>4, <3>7 DEF IsSuggested, Mode, l
    <3>9. PICK n \in DOMAIN saved.entries : saved.entries[n] = s
      BY <2>2, <3>8
    <3> DEFINE r == CageRule("cage_protect", {s.value}, {}, "revert")
    <3>10. Says(m, r)
      <4>1. EntryRules(saved.entries, "path")[n] = r
        BY <2>1, <2>4, <3>9 DEF EntryRules, IsProposal
      <4> QED  BY <3>2, <4>1 DEF OfEntry
    <3>11. CoveredBy({s.value}, s.value)
      <4>1. s.value \in Seq(ToSet(s.value)) /\ s.value # << >>
        BY <2>1 DEF IsProposal, IsList
      <4>2. Len(s.value) \in Nat /\ Len(s.value) # 0 /\ SubSeq(s.value, 1, Len(s.value)) = s.value
        BY <4>1
      <4>3. Match(s.value, SubSeq(s.value, 1, Len(s.value))) /\ Len(s.value) \in 1 .. Len(s.value)
        <5>1. Len(s.value) \in 1 .. Len(s.value)
          BY <4>2
        <5>2. Match(s.value, s.value)
          BY <4>2, MatchesItself
        <5> QED  BY <4>2, <5>1, <5>2
      <4> QED  BY <4>3 DEF CoveredBy, Covers
    <3>12. RuleVerdict(r, s.value, {}).effect = "deny"
      BY <3>11, NothingCovers, PlainVerdicts DEF CageRule, Rule, EffectOf
    <3> QED  BY <3>2, <3>5, <3>6, <3>10, <3>12, DenialIsOfARule
  <2> QED  BY <2>1, <2>3, <2>4 DEF IsProposal
<1> HIDE DEF new
<1>7. IsSuggested(zones, saved, found) = {}
  BY <1>6
<1> QED  BY <1>5, <1>7 DEF SuggestionsSettle, saved, q, new

-----------------------------------------------------------------------------
(* Contracts for a change.                                                 *)

LEMMA PartsOfFindings ==
  ASSUME NEW c, NEW t, NEW m, NEW f
  PROVE  f \in Findings(c, t, m)
           <=> \/ f \in PathProblems(c, Changed(t, m)) \/ f \in SizeProblems(c, t, m)
               \/ f \in RuleProblems(c, t, m) \/ f \in TestProblems(c, t, m)
               \/ \E p \in Changed(t, m) : f \in ImportProblems(c, t, m, p) \/ f \in LayerProblems(c, t, m, p)
<1> DEFINE all == UNION {ImportProblems(c, t, m, p) \cup LayerProblems(c, t, m, p) : p \in Changed(t, m)}
<1>1. Findings(c, t, m) = PathProblems(c, Changed(t, m)) \cup SizeProblems(c, t, m) \cup RuleProblems(c, t, m)
                             \cup TestProblems(c, t, m) \cup all
  BY Zenon DEF Findings
<1>2. f \in all <=> \E p \in Changed(t, m) : f \in ImportProblems(c, t, m, p) \/ f \in LayerProblems(c, t, m, p)
  <2>1. f \in all <=> \E p \in Changed(t, m) : f \in ImportProblems(c, t, m, p) \cup LayerProblems(c, t, m, p)
    OBVIOUS
  <2> QED  BY <2>1, Zenon
<1> HIDE DEF all
<1> QED  BY <1>1, <1>2, Zenon

LEMMA KindsOfFindings ==
  ASSUME NEW c, NEW t, NEW m, NEW f \in Findings(c, t, m)
  PROVE  \/ \E p \in Changed(t, m) : CoveredBy(c.forbidden, p) /\ f = <<"forbidden", p>>
         \/ \E p \in Changed(t, m) : c.allowed # None /\ ~CoveredBy(c.allowed, p) /\ f = <<"outside", p>>
         \/ f \in SizeProblems(c, t, m) /\ f = <<"size">>
         \/ f \in RuleProblems(c, t, m) /\ f[1] = "rule"
         \/ \E p \in Changed(t, m) : f \in ImportProblems(c, t, m, p) /\ f[1] = "import"
         \/ f[1] = "layer"
         \/ f[1] = "tests"
<1>1. CASE f \in PathProblems(c, Changed(t, m))
  BY <1>1 DEF PathProblems
<1>2. CASE f \in SizeProblems(c, t, m)
  BY <1>2 DEF SizeProblems
<1>3. CASE f \in RuleProblems(c, t, m)
  <2>1. f[1] = "rule"
    BY <1>3 DEF RuleProblems
  <2> QED  BY <1>3, <2>1
<1>4. ASSUME NEW p \in Changed(t, m), f \in ImportProblems(c, t, m, p)
      PROVE  f[1] = "import"
  BY <1>4 DEF ImportProblems
<1>5. ASSUME NEW p \in Changed(t, m), f \in LayerProblems(c, t, m, p)
      PROVE  f[1] = "layer"
  BY <1>5 DEF LayerProblems
<1>6. CASE f \in TestProblems(c, t, m)
  <2>1. f[1] = "tests"
    BY <1>6 DEF TestProblems
  <2> QED  BY <2>1
<1> QED  BY <1>1, <1>2, <1>3, <1>4, <1>5, <1>6, PartsOfFindings

(* A contract that has the rules of another one finds what that finds.     *)
LEMMA RulesAreKept ==
  ASSUME NEW c, NEW d, NEW t, NEW m, c.forbidden \subseteq d.forbidden,
         \A n \in DOMAIN c.rules : \E k \in DOMAIN d.rules : d.rules[k] = c.rules[n],
         \A n \in DOMAIN c.imports : \E k \in DOMAIN d.imports : d.imports[k] = c.imports[n]
  PROVE  Of(Findings(c, t, m), {"forbidden", "rule", "import"}) \subseteq Findings(d, t, m)
<1> SUFFICES ASSUME NEW f \in Findings(c, t, m), f[1] \in {"forbidden", "rule", "import"}
             PROVE  f \in Findings(d, t, m)
  BY DEF Of
<1>1. ASSUME NEW p \in Changed(t, m), CoveredBy(c.forbidden, p), f = <<"forbidden", p>>
      PROVE  f \in Findings(d, t, m)
  <2>1. CoveredBy(d.forbidden, p)
    BY <1>1 DEF CoveredBy
  <2>2. f \in PathProblems(d, Changed(t, m))
    BY <1>1, <2>1 DEF PathProblems
  <2> QED  BY <2>2, PartsOfFindings
<1>2. CASE f \in RuleProblems(c, t, m)
  <2>1. PICK n \in DOMAIN c.rules : \E p \in Changed(t, m) : /\ CoveredBy(c.rules[n].files, p)
                                                             /\ c.rules[n].forbid \in AddedIn(t, m, p)
                                                             /\ f = <<"rule", c.rules[n].name, p>>
    BY <1>2 DEF RuleProblems
  <2>2. PICK k \in DOMAIN d.rules : d.rules[k] = c.rules[n]
    OBVIOUS
  <2>3. f \in RuleProblems(d, t, m)
    BY <2>1, <2>2 DEF RuleProblems
  <2> QED  BY <2>3, PartsOfFindings
<1>3. ASSUME NEW p \in Changed(t, m), f \in ImportProblems(c, t, m, p)
      PROVE  f \in Findings(d, t, m)
  <2>1. f \in ImportProblems(d, t, m, p)
    BY <1>3 DEF ImportProblems
  <2> QED  BY <2>1, PartsOfFindings
<1> QED  BY <1>1, <1>2, <1>3, KindsOfFindings

(* And one with its limits, what these find.                               *)
LEMMA LimitsAreKept ==
  ASSUME NEW c, NEW d, NEW t, NEW m, d.allowed = c.allowed, d.maxAdded = c.maxAdded, d.sizeExclude = c.sizeExclude
  PROVE  Of(Findings(c, t, m), {"outside", "size"}) \subseteq Findings(d, t, m)
<1> SUFFICES ASSUME NEW f \in Findings(c, t, m), f[1] \in {"outside", "size"}
             PROVE  f \in Findings(d, t, m)
  BY DEF Of
<1>1. ASSUME NEW p \in Changed(t, m), c.allowed # None, ~CoveredBy(c.allowed, p), f = <<"outside", p>>
      PROVE  f \in Findings(d, t, m)
  <2>1. f \in PathProblems(d, Changed(t, m))
    BY <1>1 DEF PathProblems
  <2> QED  BY <2>1, PartsOfFindings
<1>2. CASE f \in SizeProblems(c, t, m)
  <2>1. SizeProblems(d, t, m) = SizeProblems(c, t, m)
    BY DEF SizeProblems
  <2> QED  BY <1>2, <2>1, PartsOfFindings
<1> QED  BY <1>1, <1>2, KindsOfFindings

(* mergeRepositoryLaw                                                      *)
LEMMA MergedLaw ==
  ASSUME NEW task, NEW own, IsContract(task), IsContract(own)
  PROVE  LET c == MergeRepositoryLaw(task, own) IN
         /\ c.forbidden = task.forbidden \cup own.forbidden
         /\ Joined(own.rules, task.rules, c.rules) /\ Joined(own.imports, task.imports, c.imports)
         /\ c.allowed = task.allowed /\ c.maxAdded = task.maxAdded /\ c.sizeExclude = task.sizeExclude
BY DEF MergeRepositoryLaw, IsContract, ContractFields, Joined

(* loadVerifyContract: a contract that is there, or a refusal.             *)
LEMMA LoadedIsThere ==
  ASSUME NEW r, Loaded(r) # Refused
  PROVE  \/ r.onDisk # None /\ ~r.tracked /\ Loaded(r) = [source |-> "disk", contract |-> r.onDisk]
         \/ r.atBase # None /\ r.tracked /\ Loaded(r) = [source |-> "base", contract |-> r.atBase]
BY DEF Loaded

LEMMA InForceIsMerged ==
  ASSUME NEW r, IsRepo(r), InForce(r) # Refused, r.ownLaw # None
  PROVE  /\ IsContract(Loaded(r).contract) /\ IsContract(r.ownLaw)
         /\ \/ InForce(r).contract = Loaded(r).contract /\ Loaded(r).contract = r.ownLaw
            \/ InForce(r).contract = MergeRepositoryLaw(Loaded(r).contract, r.ownLaw)
<1>1. Loaded(r) # Refused
  BY DEF InForce
<1>2. PICK c : c \in {r.onDisk, r.atBase} \ {None} /\ \/ Loaded(r) = [source |-> "disk", contract |-> c]
                                                      \/ Loaded(r) = [source |-> "base", contract |-> c] /\ c = r.atBase
  BY <1>1, LoadedIsThere
<1>3. IsContract(c) /\ IsContract(r.ownLaw) /\ Loaded(r).contract = c
  BY <1>2 DEF IsRepo
<1>4. CASE r.isOwn /\ Loaded(r).source = "base"
  <2>1. InForce(r) = Loaded(r) /\ c = r.ownLaw
    BY <1>1, <1>2, <1>4 DEF InForce, IsRepo
  <2> QED  BY <1>3, <2>1
<1>5. CASE ~(r.isOwn /\ Loaded(r).source = "base")
  <2>1. InForce(r) = [Loaded(r) EXCEPT !.contract = MergeRepositoryLaw(Loaded(r).contract, r.ownLaw)]
    BY <1>1, <1>5 DEF InForce
  <2>2. InForce(r).contract = MergeRepositoryLaw(Loaded(r).contract, r.ownLaw)
    BY <1>2, <2>1
  <2> QED  BY <1>3, <2>2
<1> QED  BY <1>4, <1>5

(* withRepositoryLaw: the law of the repository binds the contract of a    *)
(* task, and the task's own rules and limits stand beside it.              *)
LEMMA LawBinds ==
  ASSUME NEW r, NEW m, IsRepo(r)
  PROVE  LawBindsTasks(r, m)
<1> SUFFICES ASSUME InForce(r) # Refused, r.ownLaw # None
             PROVE  /\ Of(Findings(r.ownLaw, TreesOf(r), m), {"forbidden", "rule", "import"})
                         \subseteq Findings(InForce(r).contract, TreesOf(r), m)
                    /\ Of(Findings(Loaded(r).contract, TreesOf(r), m), {"forbidden", "rule", "import", "outside", "size"})
                         \subseteq Findings(InForce(r).contract, TreesOf(r), m)
  BY DEF LawBindsTasks
<1> DEFINE task == Loaded(r).contract
<1> DEFINE own == r.ownLaw
<1> DEFINE both == InForce(r).contract
<1> DEFINE t == TreesOf(r)
<1>1. IsContract(task) /\ IsContract(own) /\ ((both = task /\ task = own) \/ both = MergeRepositoryLaw(task, own))
  BY InForceIsMerged
<1> HIDE DEF task, own, both, t
<1>2. CASE both = task /\ task = own
  BY <1>2 DEF Of, task, own, both, t
<1>3. CASE both = MergeRepositoryLaw(task, own)
  <2>1. /\ both.forbidden = task.forbidden \cup own.forbidden
        /\ Joined(own.rules, task.rules, both.rules) /\ Joined(own.imports, task.imports, both.imports)
        /\ both.allowed = task.allowed /\ both.maxAdded = task.maxAdded /\ both.sizeExclude = task.sizeExclude
    BY <1>1, <1>3, MergedLaw
  <2>2. /\ IsList(own.rules) /\ IsList(task.rules) /\ IsList(own.imports) /\ IsList(task.imports)
    BY <1>1 DEF IsContract
  <2>3. /\ \A n \in DOMAIN own.rules : \E k \in DOMAIN both.rules : both.rules[k] = own.rules[n]
        /\ \A n \in DOMAIN task.rules : \E k \in DOMAIN both.rules : both.rules[k] = task.rules[n]
    BY <2>1, <2>2, JoinedLists
  <2>4. /\ \A n \in DOMAIN own.imports : \E k \in DOMAIN both.imports : both.imports[k] = own.imports[n]
        /\ \A n \in DOMAIN task.imports : \E k \in DOMAIN both.imports : both.imports[k] = task.imports[n]
    BY <2>1, <2>2, JoinedLists
  <2>5. own.forbidden \subseteq both.forbidden /\ task.forbidden \subseteq both.forbidden
    BY <2>1
  <2>6. Of(Findings(own, t, m), {"forbidden", "rule", "import"}) \subseteq Findings(both, t, m)
    BY <2>3, <2>4, <2>5, RulesAreKept
  <2>7. Of(Findings(task, t, m), {"forbidden", "rule", "import"}) \subseteq Findings(both, t, m)
    BY <2>3, <2>4, <2>5, RulesAreKept
  <2>8. Of(Findings(task, t, m), {"outside", "size"}) \subseteq Findings(both, t, m)
    BY <2>1, LimitsAreKept
  <2>9. Of(Findings(task, t, m), {"forbidden", "rule", "import", "outside", "size"}) \subseteq Findings(both, t, m)
    BY <2>7, <2>8 DEF Of
  <2> QED  BY <2>6, <2>9 DEF task, own, both, t
<1> QED  BY <1>1, <1>2, <1>3

(* runVerifyContract: what of the repository a verdict depends on, when    *)
(* the contract and the baseline are those of the base.                    *)
LEMMA SameVerdict ==
  ASSUME NEW r, NEW s, NEW m, Loaded(r) = Loaded(s), Loaded(r).source = "base", r.baselineInside, s.baselineInside,
         r.baselineAtBase = s.baselineAtBase, r.ownLaw = s.ownLaw, r.isOwn = s.isOwn, TreesOf(r) = TreesOf(s),
         r.head = s.head, r.base = s.base, r.ran = s.ran, r.dirty <=> s.dirty
  PROVE  Result(r, m) = Result(s, m)
<1>1. BaselineFile(r) = BaselineFile(s)
  BY DEF BaselineFile
<1>2. InForce(r) = InForce(s)
  BY DEF InForce
<1>3. BaselineIsRefused(r) = BaselineIsRefused(s)
  BY <1>1 DEF BaselineIsRefused
<1>4. \A n : Known(r, n) = Known(s, n)
  BY <1>1, Zenon DEF Known
<1>5. \A c : CheckProblems(c, r, m) = CheckProblems(c, s, m)
  BY <1>4 DEF CheckProblems
<1> DEFINE dirt(d) == IF m # "worktree" /\ d THEN {<<"uncommitted">>} ELSE {}
<1>6. dirt(r.dirty) = dirt(s.dirty)
  OBVIOUS
<1> DEFINE problems(d, c, t, x) == dirt(d) \cup Findings(c, t, m) \cup x
<1>7. problems(r.dirty, InForce(r).contract, TreesOf(r), CheckProblems(InForce(r).contract, r, m))
        = problems(s.dirty, InForce(s).contract, TreesOf(s), CheckProblems(InForce(s).contract, s, m))
  <2> HIDE DEF dirt
  <2> QED  BY <1>2, <1>5, <1>6
<1> DEFINE answer(l, h, b, x) == [source |-> l.source, contract |-> l.contract, mode |-> m, head |-> h, base |-> b, problems |-> x]
<1>8. \A v \in {r, s} :
        Result(v, m) = IF InForce(v) = Refused \/ BaselineIsRefused(v) THEN Refused
                          ELSE answer(Loaded(v), v.head, v.base,
                                      problems(v.dirty, InForce(v).contract, TreesOf(v), CheckProblems(InForce(v).contract, v, m)))
  BY Zenon DEF Result
<1> HIDE DEF problems, dirt, answer
<1> QED  BY <1>2, <1>3, <1>7, <1>8

(* The change supplies neither its contract nor its baseline.              *)
LEMMA NothingIsSupplied ==
  ASSUME NEW r, NEW contract, NEW baseline, NEW m, IsRepo(r), contract # None
  PROVE  ChangeSuppliesNothing(r, contract, baseline, m)
<1> DEFINE s == [r EXCEPT !.onDisk = contract, !.baselineOnDisk = baseline]
<1> SUFFICES ASSUME r.tracked, r.baselineInside, r.onDisk # None, ContractIsValid(contract), Result(r, m) # Refused
             PROVE  Result(s, m) = Result(r, m)
  BY Zenon DEF ChangeSuppliesNothing
<1>1. /\ s.fork = r.fork /\ s.base = r.base /\ s.head = r.head /\ s.disk = r.disk /\ s.dirty = r.dirty
      /\ s.tracked = r.tracked /\ s.onDisk = contract /\ s.atBase = r.atBase /\ s.ownLaw = r.ownLaw /\ s.isOwn = r.isOwn
      /\ s.baseGiven = r.baseGiven /\ s.baselineInside = r.baselineInside /\ s.baselineAtBase = r.baselineAtBase
      /\ s.ran = r.ran
  BY DEF IsRepo, RepoFields
<1> HIDE DEF s
<1>2. Loaded(r) # Refused
  BY DEF Result, InForce
<1>3. r.baseGiven /\ r.atBase # None /\ ContractIsValid(r.atBase) /\ Loaded(r) = [source |-> "base", contract |-> r.atBase]
  BY <1>2 DEF Loaded
<1>4. Loaded(s) = [source |-> "base", contract |-> r.atBase]
  BY <1>1, <1>3 DEF Loaded
<1>5. TreesOf(s) = TreesOf(r)
  BY <1>1 DEF TreesOf
<1>6. /\ Loaded(s) = Loaded(r) /\ Loaded(s).source = "base" /\ s.baselineInside /\ r.baselineInside
      /\ s.baselineAtBase = r.baselineAtBase /\ s.ownLaw = r.ownLaw /\ s.isOwn = r.isOwn /\ TreesOf(s) = TreesOf(r)
      /\ s.head = r.head /\ s.base = r.base /\ s.ran = r.ran /\ (s.dirty <=> r.dirty)
  BY <1>1, <1>3, <1>4, <1>5
<1>7. Result(s, m) = Result(r, m)
  BY <1>6, SameVerdict
<1> QED  BY <1>7 DEF s

(* checkVerifyResult: with the same base and the same head, a clean tree   *)
(* is judged as it was.                                                    *)
LEMMA AcceptedAgain ==
  ASSUME NEW r, NEW s, IsRepo(r), IsRepo(s), r.isOwn = s.isOwn,
         r.base = s.base => r.atBase = s.atBase /\ r.ownLaw = s.ownLaw /\ r.baselineAtBase = s.baselineAtBase,
         r.head = s.head => r.ran = s.ran,
         r.head = s.head /\ r.base = s.base => r.fork = s.fork
  PROVE  AcceptedIsRepeatable(r, s, "full")
<1> SUFFICES ASSUME IsAccepted(Result(r, "full"), s), s.tracked, s.baselineInside, r.tracked, r.baselineInside
             PROVE  ~ResultProblems(Result(s, "full"), s)
  BY DEF AcceptedIsRepeatable
<1>1. /\ Result(r, "full") # Refused /\ InForce(s) # Refused /\ ~ResultProblems(Result(r, "full"), s)
  BY DEF IsAccepted
<1>2. /\ Result(r, "full").head = r.head /\ Result(r, "full").base = r.base /\ (r.dirty => Result(r, "full").problems # {})
      /\ InForce(r) # Refused
  <2> DEFINE problems == (IF "full" # "worktree" /\ r.dirty THEN {<<"uncommitted">>} ELSE {})
                         \cup Findings(InForce(r).contract, TreesOf(r), "full") \cup CheckProblems(InForce(r).contract, r, "full")
  <2>1. Result(r, "full") = [source |-> Loaded(r).source, contract |-> Loaded(r).contract, mode |-> "full",
                             head |-> r.head, base |-> r.base, problems |-> problems] /\ InForce(r) # Refused
    BY <1>1 DEF Result
  <2>2. r.dirty => problems # {}
    OBVIOUS
  <2> HIDE DEF problems
  <2> QED  BY <2>1, <2>2
<1>3. r.head = s.head /\ r.base = s.base /\ ~s.dirty /\ ~r.dirty
  BY <1>1, <1>2 DEF ResultProblems
<1>4. Loaded(r) # Refused /\ Loaded(s) # Refused
  BY <1>1, <1>2 DEF InForce
<1>5. Loaded(r) = [source |-> "base", contract |-> r.atBase] /\ Loaded(s) = [source |-> "base", contract |-> s.atBase]
  BY <1>4, LoadedIsThere
<1>6. TreesOf(r) = TreesOf(s)
  BY <1>3 DEF TreesOf, IsRepo
<1>7. Loaded(r).source = "base" /\ Loaded(r) = Loaded(s)
  BY <1>3, <1>5
<1>8. Result(r, "full") = Result(s, "full")
  BY <1>3, <1>6, <1>7, SameVerdict
<1> QED  BY <1>1, <1>8

-----------------------------------------------------------------------------
(* Trusted automation: two updates, one after the other.                   *)

LEMMA ManifestUpdatesAdd ==
  ASSUME NEW a, NEW b, NEW c, ManifestIsUpdate(a, b), ManifestIsUpdate(b, c)
  PROVE  ManifestIsUpdate(a, c)
BY DEF ManifestIsUpdate

LEMMA EntryUpdatesAdd ==
  ASSUME NEW a, NEW b, NEW c, NEW registries, EntriesAreUpdates(a, b, registries), EntriesAreUpdates(b, c, registries)
  PROVE  EntriesAreUpdates(a, c, registries)
<1> SUFFICES ASSUME NEW place \in DOMAIN c, Differs(a, c, place) PROVE EntryIsFrom(c[place], registries)
  BY DEF EntriesAreUpdates
<1>1. CASE Differs(b, c, place)
  BY <1>1 DEF EntriesAreUpdates
<1>2. CASE ~Differs(b, c, place)
  <2>1. place \in DOMAIN b /\ b[place] = c[place]
    BY <1>2 DEF Differs
  <2>2. Differs(a, b, place)
    BY <2>1 DEF Differs
  <2> QED  BY <2>1, <2>2 DEF EntriesAreUpdates
<1> QED  BY <1>1, <1>2

LEMMA LockfileUpdatesAdd ==
  ASSUME NEW a, NEW b, NEW c, NEW registries, LockfileIsUpdate(a, b, registries), LockfileIsUpdate(b, c, registries)
  PROVE  LockfileIsUpdate(a, c, registries)
<1>1. /\ a.version \in {2, 3} /\ c.version = a.version /\ c.rest = a.rest
      /\ ManifestIsUpdate(a.root, c.root)
  BY ManifestUpdatesAdd DEF LockfileIsUpdate
<1>2. EntriesAreUpdates(a.packages, c.packages, registries) /\ EntriesAreUpdates(a.legacy, c.legacy, registries)
  BY EntryUpdatesAdd DEF LockfileIsUpdate
<1>3. ASSUME NEW place \in DOMAIN c.local, Differs(a.local, c.local, place)
      PROVE  LocalIsUpdate(a.local, c.local, place)
  <2>1. /\ place \in DOMAIN b.local /\ Differs(a.local, b.local, place) => LocalIsUpdate(a.local, b.local, place)
        /\ Differs(b.local, c.local, place) => LocalIsUpdate(b.local, c.local, place)
    BY DEF LockfileIsUpdate
  <2>2. place \in DOMAIN b.local
    BY <2>1 DEF Differs, LocalIsUpdate
  <2>3. place \in DOMAIN a.local
    BY <2>1, <2>2 DEF Differs, LocalIsUpdate
  <2>4. CASE Differs(b.local, c.local, place)
    BY <2>1, <2>3, <2>4 DEF LocalIsUpdate
  <2>5. CASE ~Differs(b.local, c.local, place)
    <3>1. b.local[place] = c.local[place]
      BY <2>5 DEF Differs
    <3>2. Differs(a.local, b.local, place)
      BY <1>3, <2>2, <3>1 DEF Differs
    <3> QED  BY <2>1, <2>2, <3>1, <3>2 DEF LocalIsUpdate
  <2> QED  BY <2>4, <2>5
<1> QED  BY <1>1, <1>2, <1>3 DEF LockfileIsUpdate

LEMMA PinChangesAdd ==
  ASSUME NEW a, NEW b, NEW c, IsPinChange(a, b), IsPinChange(b, c)
  PROVE  IsPinChange(a, c)
<1>1. DOMAIN a = DOMAIN b /\ DOMAIN b = DOMAIN c
  BY DEF IsPinChange
<1>2. ASSUME NEW leaf \in DOMAIN c
      PROVE  a[leaf] = c[leaf] \/ (leaf = "uses" /\ a[leaf].action = c[leaf].action /\ c[leaf].version # Absent)
  <2>1. a[leaf] = b[leaf] \/ (leaf = "uses" /\ a[leaf].action = b[leaf].action /\ b[leaf].version # Absent)
    BY <1>1, Zenon DEF IsPinChange
  <2>2. b[leaf] = c[leaf] \/ (leaf = "uses" /\ b[leaf].action = c[leaf].action /\ c[leaf].version # Absent)
    BY <1>1, Zenon DEF IsPinChange
  <2> QED  BY <2>1, <2>2
<1> QED  BY <1>1, <1>2 DEF IsPinChange

LEMMA UpdatesAdd ==
  ASSUME NEW rule, NEW one, NEW two, two.locks \subseteq two.files, DOMAIN two = {"files", "locks", "actor", "loc", "lockLoc", "old", "new"}
  PROVE  UpdatesAddUp(rule, one, two)
<1> DEFINE sum == [two EXCEPT !.old = one.old]
<1> SUFFICES ASSUME \A f \in one.files : one.new[f] = two.old[f], one.files = two.files,
                    StructureIsAllowed(rule, one, Absent), StructureIsAllowed(rule, two, Absent)
             PROVE  StructureIsAllowed(rule, sum, Absent)
  BY Zenon DEF UpdatesAddUp
<1>1. sum.files = two.files /\ sum.locks = two.locks /\ sum.old = one.old /\ sum.new = two.new
  OBVIOUS
<1> HIDE DEF sum
<1>2. CASE rule.kind = "dependency_update"
  <2>1. IsDependencyUpdate(rule, one) /\ IsDependencyUpdate(rule, two)
    BY <1>2 DEF StructureIsAllowed
  <2>2. ASSUME NEW f \in sum.files \cup sum.locks
        PROVE  /\ CoveredBy(PackageFiles \cup LockFiles, f)
               /\ sum.old[f] # Absent /\ sum.new[f] # Absent
               /\ IF CoveredBy(PackageFiles, f) THEN ManifestIsUpdate(sum.old[f], sum.new[f])
                  ELSE LockfileIsUpdate(sum.old[f], sum.new[f], rule.registries)
    <3>1. f \in one.files /\ f \in two.files
      BY <1>1
    <3>2. /\ CoveredBy(PackageFiles \cup LockFiles, f) /\ one.old[f] # Absent /\ two.new[f] # Absent
          /\ IF CoveredBy(PackageFiles, f) THEN ManifestIsUpdate(one.old[f], one.new[f])
             ELSE LockfileIsUpdate(one.old[f], one.new[f], rule.registries)
          /\ IF CoveredBy(PackageFiles, f) THEN ManifestIsUpdate(two.old[f], two.new[f])
             ELSE LockfileIsUpdate(two.old[f], two.new[f], rule.registries)
      BY <2>1, <3>1 DEF IsDependencyUpdate
    <3>3. one.new[f] = two.old[f]
      BY <3>1
    <3> QED  BY <1>1, <3>2, <3>3, ManifestUpdatesAdd, LockfileUpdatesAdd
  <2> QED  BY <1>2, <2>2 DEF StructureIsAllowed, IsDependencyUpdate
<1>3. rule.kind # "bounded_content"
  BY DEF StructureIsAllowed
<1>4. CASE rule.kind \notin {"dependency_update", "bounded_content"}
  <2>1. ASSUME NEW f \in {g \in sum.files : CoveredBy(WorkflowFiles, g)}
        PROVE  sum.new[f] = Absent \/ (sum.old[f] # Absent /\ IsPinChange(sum.old[f], sum.new[f]))
    <3>1. /\ two.new[f] = Absent \/ (two.old[f] # Absent /\ IsPinChange(two.old[f], two.new[f]))
          /\ one.new[f] = Absent \/ (one.old[f] # Absent /\ IsPinChange(one.old[f], one.new[f]))
          /\ one.new[f] = two.old[f]
      <4>1. f \in two.files /\ f \in one.files /\ CoveredBy(WorkflowFiles, f)
        BY <1>1
      <4>2. two.new[f] = Absent \/ (two.old[f] # Absent /\ IsPinChange(two.old[f], two.new[f]))
        BY <1>4, <4>1 DEF StructureIsAllowed
      <4>3. one.new[f] = Absent \/ (one.old[f] # Absent /\ IsPinChange(one.old[f], one.new[f]))
        BY <1>4, <4>1 DEF StructureIsAllowed
      <4> QED  BY <4>1, <4>2, <4>3
    <3> QED  BY <1>1, <3>1, PinChangesAdd
  <2> QED  BY <1>4, <2>1 DEF StructureIsAllowed
<1> QED  BY <1>2, <1>3, <1>4

-----------------------------------------------------------------------------
(* Sums.  What SumFunction adds up, one index after the other.             *)

One(s) == CHOOSE x \in s : TRUE
Rest(s) == s \ {One(s)}
Step(w, g, s) == IF s = {} THEN 0 ELSE w[One(s)] + g[Rest(s)]
AddsUp(w, S, g) == g = [s \in SUBSET S |-> Step(w, g, s)]

LEMMA RestIsLess ==
  ASSUME NEW S, IsFiniteSet(S), NEW s \in SUBSET S, s # {}
  PROVE  /\ One(s) \in s /\ Rest(s) \in SUBSET S
         /\ Cardinality(s) \in Nat /\ Cardinality(Rest(s)) = Cardinality(s) - 1 /\ Cardinality(s) # 0
<1>1. One(s) \in s  BY DEF One
<1>2. IsFiniteSet(s)  BY FS_Subset
<1>3. Cardinality(s) \in Nat  BY <1>2, FS_CardinalityType
<1>4. Cardinality(s) # 0  BY <1>2, FS_EmptySet
<1>5. Cardinality(Rest(s)) = Cardinality(s) - 1  BY <1>1, <1>2, FS_RemoveElement DEF Rest
<1> QED  BY <1>1, <1>3, <1>4, <1>5 DEF Rest

LEMMA SumIsFold ==
  ASSUME NEW w, NEW S
  PROVE  SumFunctionOnSet(w, S) = (CHOOSE g : AddsUp(w, S, g))[S]
BY DEF SumFunctionOnSet, FoldFunctionOnSet, MapThenFoldSet, AddsUp, Step, One, Rest

LEMMA SumsExist ==
  ASSUME NEW S, IsFiniteSet(S), NEW w \in [S -> Nat]
  PROVE  \E g : AddsUp(w, S, g)
<1> DEFINE Small(n) == {s \in SUBSET S : Cardinality(s) <= n}
           P(n) == \E h \in [Small(n) -> Nat] : \A s \in Small(n) : h[s] = Step(w, h, s)
<1>0. \A s \in SUBSET S : Cardinality(s) \in Nat /\ (Cardinality(s) = 0 <=> s = {}) /\ Cardinality(s) <= Cardinality(S)
  BY FS_Subset, FS_CardinalityType, FS_EmptySet
<1>1. P(0)
  <2>1. Small(0) = {{}}
    BY <1>0
  <2>2. [s \in Small(0) |-> 0] \in [Small(0) -> Nat]
    OBVIOUS
  <2>3. \A s \in Small(0) : [t \in Small(0) |-> 0][s] = Step(w, [t \in Small(0) |-> 0], s)
    BY <2>1 DEF Step
  <2> QED  BY <2>2, <2>3
<1>2. ASSUME NEW n \in Nat, P(n) PROVE P(n + 1)
  <2>1. PICK h \in [Small(n) -> Nat] : \A s \in Small(n) : h[s] = Step(w, h, s)
    BY <1>2
  <2> DEFINE k == [s \in Small(n + 1) |-> Step(w, h, s)]
  <2>2. \A s \in Small(n + 1) : s # {} => Rest(s) \in Small(n) /\ One(s) \in S
    BY <1>0, RestIsLess
  <2>3. \A s \in Small(n + 1) : Step(w, h, s) \in Nat
    BY <2>2 DEF Step
  <2>4. k \in [Small(n + 1) -> Nat]
    BY <2>3
  <2>5. \A s \in Small(n) : s \in Small(n + 1) /\ k[s] = h[s]
    BY <2>1, <1>0
  <2>6. \A s \in Small(n + 1) : k[s] = Step(w, k, s)
    BY <2>2, <2>5 DEF Step
  <2> QED  BY <2>4, <2>6
<1>3. \A n \in Nat : P(n)
  <2> HIDE DEF P
  <2> DEFINE Bad == {n \in Nat : ~P(n)}
  <2>1. SUFFICES ASSUME NEW n0 \in Nat, ~P(n0) PROVE FALSE
    OBVIOUS
  <2>2. Bad # {} /\ Bad \in SUBSET Nat
    BY <2>1
  <2>3. PICK m \in Bad : \A j \in Bad : m <= j
    BY <2>2, LeastOfSome
  <2>4. m \in Nat /\ ~P(m)
    BY <2>3
  <2>5. m # 0
    BY <1>1, <2>4
  <2>6. PICK l \in Nat : l + 1 = m
    <3>1. m - 1 \in Nat /\ m - 1 + 1 = m
      BY <2>4, <2>5
    <3> QED  BY <3>1
  <2>7. l \notin Bad
    <3>1. ~(m <= l)
      BY <2>4, <2>6
    <3> QED  BY <2>3, <3>1
  <2>8. P(l)
    BY <2>6, <2>7
  <2>9. P(l + 1)
    BY <1>2, <2>6, <2>8
  <2> QED  BY <2>4, <2>6, <2>9
<1>4. P(Cardinality(S)) /\ Small(Cardinality(S)) = SUBSET S
  <2>1. Cardinality(S) \in Nat
    BY FS_CardinalityType
  <2> QED  BY <1>0, <1>3, <2>1
<1>5. PICK h \in [SUBSET S -> Nat] : \A s \in SUBSET S : h[s] = Step(w, h, s)
  BY <1>4
<1>6. AddsUp(w, S, h)
  BY <1>5 DEF AddsUp
<1> QED  BY <1>6

LEMMA SumsCompare ==
  ASSUME NEW S, IsFiniteSet(S), NEW w \in [S -> Nat], NEW v \in [S -> Nat], \A x \in S : w[x] <= v[x],
         NEW g, NEW h, AddsUp(w, S, g), AddsUp(v, S, h)
  PROVE  \A s \in SUBSET S : g[s] \in Nat /\ h[s] \in Nat /\ g[s] <= h[s]
<1> DEFINE Good(s) == g[s] \in Nat /\ h[s] \in Nat /\ g[s] <= h[s]
           Bad == {Cardinality(s) : s \in {t \in SUBSET S : ~Good(t)}}
<1>1. \A s \in SUBSET S : Cardinality(s) \in Nat
  BY FS_Subset, FS_CardinalityType
<1>2. \A s \in SUBSET S : g[s] = Step(w, g, s) /\ h[s] = Step(v, h, s)
  BY Zenon DEF AddsUp
<1>3. SUFFICES ASSUME Bad # {} PROVE FALSE
  OBVIOUS
<1>4. PICK m \in Bad : \A j \in Bad : m <= j
  BY <1>1, <1>3, LeastOfSome
<1>5. PICK s \in SUBSET S : m = Cardinality(s) /\ ~Good(s)
  OBVIOUS
<1>6. s # {}
  BY <1>2, <1>5 DEF Step
<1>7. /\ One(s) \in S /\ Rest(s) \in SUBSET S
      /\ Cardinality(s) \in Nat /\ Cardinality(Rest(s)) = Cardinality(s) - 1
  BY <1>6, RestIsLess
<1>8. Good(Rest(s))
  BY <1>4, <1>5, <1>7
<1>9. g[s] = w[One(s)] + g[Rest(s)] /\ h[s] = v[One(s)] + h[Rest(s)]
  BY <1>2, <1>6 DEF Step
<1> QED  BY <1>5, <1>7, <1>8, <1>9

LEMMA SumsAreMonotonic ==
  ASSUME NEW S, IsFiniteSet(S), NEW w \in [S -> Nat], NEW v \in [S -> Nat], \A x \in S : w[x] <= v[x]
  PROVE  SumFunction(w) \in Nat /\ SumFunction(v) \in Nat /\ SumFunction(w) <= SumFunction(v)
<1> DEFINE g == CHOOSE f : AddsUp(w, S, f)
           h == CHOOSE f : AddsUp(v, S, f)
<1>1. AddsUp(w, S, g) /\ AddsUp(v, S, h)
  BY SumsExist, Zenon
<1>2. g[S] \in Nat /\ h[S] \in Nat /\ g[S] <= h[S]
  <2> HIDE DEF g, h
  <2> QED  BY <1>1, SumsCompare
<1>3. SumFunction(w) = g[S] /\ SumFunction(v) = h[S]
  <2>1. DOMAIN w = S /\ DOMAIN v = S
    OBVIOUS
  <2> QED  BY <2>1, SumIsFold DEF SumFunction
<1> QED  BY <1>2, <1>3

LEMMA SumIsNat ==
  ASSUME NEW S, IsFiniteSet(S), NEW w \in [S -> Nat]
  PROVE  SumFunction(w) \in Nat
BY SumsAreMonotonic

-----------------------------------------------------------------------------
(* The sizes of a tree, and its findings.                                  *)

LEMMA CountsAreNat ==
  ASSUME NEW spec, NEW layer, NEW files, NEW exclude, IsFiniteSet(files), \A f \in files : f.lines \in Nat /\ f.exports \in Nat
  PROVE  Counts(spec, layer, files, exclude) \in [Keys -> Nat]
<1> DEFINE in == {f \in files : LayerOf(spec.layers, f.path) = layer /\ ~MatchesAny(f.path, exclude)}
<1>1. IsFiniteSet(in)
  BY FS_Subset
<1>2. Cardinality(in) \in Nat
  BY <1>1, FS_CardinalityType
<1>3. [f \in in |-> f.lines] \in [in -> Nat] /\ [f \in in |-> f.exports] \in [in -> Nat]
  OBVIOUS
<1>4. SumFunction([f \in in |-> f.lines]) \in Nat /\ SumFunction([f \in in |-> f.exports]) \in Nat
  <2> HIDE DEF in
  <2>1. \A w \in [in -> Nat] : SumFunction(w) \in Nat
    BY <1>1, SumIsNat
  <2> QED  BY <1>3, <2>1
<1>5. NoCounts \in [Keys -> Nat]
  BY DEF NoCounts
<1>6. ASSUME NEW n \in Nat, NEW l \in Nat, NEW e \in Nat PROVE [files |-> n, lines |-> l, exports |-> e] \in [Keys -> Nat]
  BY DEF Keys
<1> HIDE DEF in
<1> QED  BY <1>2, <1>4, <1>5, <1>6 DEF Counts, in

(* A ratchet lowers what a layer of the specification is held to.          *)
LEMMA RatchetLowers ==
  ASSUME NEW spec, NEW files, NEW other, NEW baseline, IsBaseline(baseline),
         IsFiniteSet(files), \A f \in files : f.lines \in Nat /\ f.exports \in Nat,
         IsFiniteSet(other), \A f \in other : f.lines \in Nat /\ f.exports \in Nat,
         \A r \in RulesOf(spec, "budget") : r.at \in Nat
  PROVE  RatchetForgivesNothing(spec, files, other, baseline)
<1> DEFINE counted(of) == Counted(spec, of)
           now(of, r) == Counts(spec, r.layer, counted(of), r.exclude)
           most(of, sizes, r, key) == IF r.max[key] # Unset THEN r.max[key]
                                      ELSE IF r.layer \in DOMAIN sizes THEN sizes[r.layer][key] ELSE now(of, r)[key]
           over(of, sizes, r, key) == now(of, r)[key] > most(of, sizes, r, key)
           budgets == RulesOf(spec, "budget")
           ids == {spec.layers[n].id : n \in DOMAIN spec.layers}
           excluded(layer) == LET of == {r \in budgets : r.layer = layer} IN
                              IF of = {} THEN {} ELSE (CHOOSE r \in of : \A q \in of : r.at <= q.at).exclude
           sizes == [layer \in ids |-> Counts(spec, layer, counted(files), excluded(layer))]
           raised == {layer \in DOMAIN sizes \cap DOMAIN baseline : Rose(baseline[layer], sizes[layer])}
           after == IF raised = {} THEN sizes ELSE baseline
<1>1. Ratchet(spec, files, baseline, FALSE) = [written |-> raised = {}, baseline |-> after]
  BY DEF Ratchet
<1>2. ASSUME NEW of, IsFiniteSet(of), \A f \in of : f.lines \in Nat /\ f.exports \in Nat, NEW layer, NEW exclude
      PROVE  Counts(spec, layer, counted(of), exclude) \in [Keys -> Nat]
  <2>1. IsFiniteSet(counted(of)) /\ counted(of) \subseteq of
    BY <1>2, FS_Subset DEF Counted
  <2> QED  BY <1>2, <2>1, CountsAreNat
<1>3. ASSUME NEW of, NEW before, NEW to,
             \A r \in budgets, key \in Keys : over(of, before, r, key) => over(of, to, r, key)
      PROVE  BudgetFindings(spec, counted(of), before) \subseteq BudgetFindings(spec, counted(of), to)
  BY <1>3 DEF BudgetFindings
<1>4. ASSUME NEW r \in budgets, NEW key \in Keys, over(other, baseline, r, key) PROVE over(other, after, r, key)
  <2>1. CASE raised # {} \/ r.max[key] # Unset
    BY <1>4, <2>1
  <2>2. CASE raised = {} /\ r.max[key] = Unset
    <3>1. now(other, r)[key] \in Nat
      BY <1>2
    <3>2. r.layer \in DOMAIN baseline /\ now(other, r)[key] > baseline[r.layer][key]
      BY <1>4, <2>2, <3>1
    <3>3. baseline[r.layer][key] \in Nat
      BY <3>2 DEF IsBaseline
    <3>4. r.layer \in ids
      <4> SUFFICES ASSUME r.layer \notin ids PROVE FALSE
        OBVIOUS
      <4>1. now(other, r) = NoCounts
        BY DEF Counts
      <4> QED  BY <3>2, <3>3, <4>1 DEF NoCounts
    <3>5. sizes[r.layer] \in [Keys -> Nat]
      BY <1>2, <3>4
    <3>6. ~Rose(baseline[r.layer], sizes[r.layer])
      BY <2>2, <3>2, <3>4
    <3> HIDE DEF sizes
    <3>7. sizes[r.layer][key] <= baseline[r.layer][key]
      <4>1. sizes[r.layer][key] \in Nat
        BY <3>5
      <4>2. ~(sizes[r.layer][key] > baseline[r.layer][key])
        BY <3>6 DEF Rose
      <4> QED  BY <3>3, <4>1, <4>2
    <3>8. most(other, after, r, key) = sizes[r.layer][key]
      BY <2>2, <3>4 DEF sizes
    <3>9. sizes[r.layer][key] \in Nat
      BY <3>5
    <3> HIDE DEF after, most
    <3> QED  BY <3>1, <3>2, <3>3, <3>7, <3>8, <3>9
  <2> QED  BY <2>1, <2>2
<1>5. ASSUME \A r, q \in budgets : r.layer = q.layer => r = q, raised = {},
             NEW r \in budgets, NEW key \in Keys, over(files, sizes, r, key)
      PROVE  over(files, << >>, r, key)
  <2>1. r.max[key] # Unset
    <3> SUFFICES ASSUME r.max[key] = Unset PROVE FALSE
      OBVIOUS
    <3>1. now(files, r)[key] \in Nat
      BY <1>2
    <3>2. CASE r.layer \in ids
      <4> DEFINE of == {q \in budgets : q.layer = r.layer}
      <4>1. of = {r}
        BY <1>5
      <4>2. (CHOOSE q \in of : \A p \in of : q.at <= p.at) = r
        <5>1. r.at <= r.at
          OBVIOUS
        <5> HIDE DEF of
        <5> QED  BY <4>1, <5>1
      <4>3. excluded(r.layer) = r.exclude
        BY <4>1, <4>2
      <4>4. sizes[r.layer] = now(files, r)
        BY <3>2, <4>3
      <4> QED  BY <1>5, <3>1, <3>2, <4>4
    <3>3. CASE r.layer \notin ids
      BY <1>5, <3>1, <3>3
    <3> QED  BY <3>2, <3>3
  <2> QED  BY <1>5, <2>1
<1> HIDE DEF sizes, after, raised
<1>6. BudgetFindings(spec, counted(other), baseline) \subseteq BudgetFindings(spec, counted(other), after)
  BY <1>3, <1>4
<1>7. ASSUME \A r, q \in budgets : r.layer = q.layer => r = q, raised = {}
      PROVE  BudgetFindings(spec, counted(files), after) \subseteq BudgetFindings(spec, counted(files), << >>)
  <2>1. after = sizes
    BY <1>7 DEF after
  <2> QED  BY <1>3, <1>5, <1>7, <2>1
<1>8. /\ Ratchet(spec, files, baseline, FALSE).baseline = after
      /\ Ratchet(spec, files, baseline, FALSE).written => raised = {}
  <2>1. ASSUME NEW w, NEW to, NEW ratchet, ratchet = [written |-> w, baseline |-> to]
        PROVE  ratchet.baseline = to /\ ratchet.written = w
    BY <2>1
  <2>2. CASE raised = {}
    BY <1>1, <2>1, <2>2, Zenon
  <2>3. CASE raised # {}
    <3>1. Ratchet(spec, files, baseline, FALSE) = [written |-> FALSE, baseline |-> after]
      BY <1>1, <2>3
    <3>2. Ratchet(spec, files, baseline, FALSE).baseline = after /\ Ratchet(spec, files, baseline, FALSE).written = FALSE
      BY <2>1, <3>1, Zenon
    <3> QED  BY <3>2, Zenon
  <2> QED  BY <2>2, <2>3
<1> QED  BY <1>6, <1>7, <1>8 DEF RatchetForgivesNothing

(* A tree without findings has none when one of its files is named.        *)
LEMMA NamedPass ==
  ASSUME NEW spec, NEW tree, NEW f \in tree.files, NEW baseline, NEW roots
  PROVE  NamedPassAlike(spec, tree, {f}, baseline, roots)
<1>1. BoundaryFindings(spec, {f}, roots) \subseteq BoundaryFindings(spec, tree.files, roots)
  BY DEF BoundaryFindings
<1> QED  BY <1>1 DEF NamedPassAlike, ArchExit, CheckTree

-----------------------------------------------------------------------------
(* Exports.                                                                *)

(* A run that finds the tests of a change worse shows a file for which     *)
(* they are: totals cannot get worse when no file does.                    *)
LEMMA WorseTotalsShow ==
  ASSUME NEW r, IsRepo(r), NEW c, NEW m, NEW metric \in {"asserts", "markers"},
         IsWorse(TestTotal(c, r, m, New(r, m), metric), TestTotal(c, r, m, r.base, metric), metric)
  PROVE  WorseningFiles(c, r, m, metric) # {}
<1> SUFFICES ASSUME WorseningFiles(c, r, m, metric) = {} PROVE FALSE
  OBVIOUS
<1> DEFINE tests == JudgedTests(c, r, m, metric)
           new == [p \in tests |-> CountOf(New(r, m), p, metric)]
           old == [p \in tests |-> CountOf(r.base, p, metric)]
<1>1. \A tree \in {New(r, m), Old(r, m), r.base} :
         IsFiniteSet(DOMAIN tree) /\ \A p \in DOMAIN tree : tree[p].asserts \in Nat /\ tree[p].markers \in Nat
  BY DEF IsRepo, New, Old
<1>2. IsFiniteSet(tests)
  <2>1. tests \subseteq DOMAIN New(r, m) \cup DOMAIN Old(r, m)
    BY DEF JudgedTests, Changed, Differ
  <2>2. IsFiniteSet(DOMAIN New(r, m) \cup DOMAIN Old(r, m))
    BY <1>1, FS_Union
  <2> QED  BY <2>1, <2>2, FS_Subset
<1>3. \A tree \in {New(r, m), r.base} : \A p \in tests : CountOf(tree, p, metric) \in Nat
  BY <1>1 DEF CountOf
<1>4. new \in [tests -> Nat] /\ old \in [tests -> Nat]
  BY <1>3
<1>5. \A p \in tests : ~IsWorse(new[p], old[p], metric)
  BY DEF WorseningFiles
<1>6. TestTotal(c, r, m, New(r, m), metric) = SumFunction(new) /\ TestTotal(c, r, m, r.base, metric) = SumFunction(old)
  BY DEF TestTotal
<1> HIDE DEF tests, new, old
<1>7. CASE metric = "asserts"
  <2>1. \A p \in tests : old[p] <= new[p]
    BY <1>4, <1>5, <1>7 DEF IsWorse
  <2>2. SumFunction(new) \in Nat /\ SumFunction(old) \in Nat /\ SumFunction(old) <= SumFunction(new)
    BY <1>2, <1>4, <2>1, SumsAreMonotonic
  <2> QED  BY <1>6, <1>7, <2>2 DEF IsWorse
<1>8. CASE metric = "markers"
  <2>1. \A p \in tests : new[p] <= old[p]
    BY <1>4, <1>5, <1>8 DEF IsWorse
  <2>2. SumFunction(new) \in Nat /\ SumFunction(old) \in Nat /\ SumFunction(new) <= SumFunction(old)
    BY <1>2, <1>4, <2>1, SumsAreMonotonic
  <2> QED  BY <1>6, <1>8, <2>2 DEF IsWorse
<1> QED  BY <1>7, <1>8

(* What a contract finds in the tests of a change.                         *)
LEMMA TestFindings ==
  ASSUME NEW r, NEW c, NEW m, NEW f \in Findings(c, TreesOf(r), m), f[1] = "tests"
  PROVE  /\ f[2] \in {"asserts", "markers"}
         /\ IsWorse(TestTotal(c, r, m, New(r, m), f[2]), TestTotal(c, r, m, r.base, f[2]), f[2])
<1>1. f \in TestProblems(c, TreesOf(r), m)
  <2>1. f \notin PathProblems(c, Changed(TreesOf(r), m))
    BY DEF PathProblems
  <2>2. f \notin SizeProblems(c, TreesOf(r), m)
    BY DEF SizeProblems
  <2>3. f \notin RuleProblems(c, TreesOf(r), m)
    BY DEF RuleProblems
  <2>4. \A p : f \notin ImportProblems(c, TreesOf(r), m, p) /\ f \notin LayerProblems(c, TreesOf(r), m, p)
    BY DEF ImportProblems, LayerProblems
  <2> QED  BY <2>1, <2>2, <2>3, <2>4 DEF Findings
<1>2. /\ New(TreesOf(r), m) = New(r, m) /\ Old(TreesOf(r), m) = Old(r, m) /\ TreesOf(r).base = r.base
  BY DEF New, Old, TreesOf
<1>3. \A tree, k : TestTotal(c, TreesOf(r), m, tree, k) = TestTotal(c, r, m, tree, k)
  BY <1>2, Zenon DEF TestTotal, JudgedTests, Changed
<1> QED  BY <1>1, <1>2, <1>3 DEF TestProblems

(* A run passes exactly when its exports show nothing.                     *)
LEMMA ExportsShow ==
  ASSUME NEW r, IsRepo(r), NEW m
  PROVE  ExportsAgree(r, m)
<1> SUFFICES ASSUME Result(r, m) # Refused
             PROVE  Exported(Result(r, m), r) = {} <=> Result(r, m).problems = {}
  BY DEF ExportsAgree
<1> DEFINE c == InForce(r).contract
           problems == Result(r, m).problems
<1>1. /\ problems = (IF m # "worktree" /\ r.dirty THEN {<<"uncommitted">>} ELSE {})
                    \cup Findings(c, TreesOf(r), m) \cup CheckProblems(c, r, m)
      /\ Result(r, m).mode = m
  BY DEF Result
<1>2. ASSUME problems = {} PROVE Exported(Result(r, m), r) = {}
  BY <1>2 DEF Exported
<1>3. ASSUME NEW f \in problems PROVE Exported(Result(r, m), r) # {}
  <2>1. CASE f[1] # "tests"
    BY <2>1 DEF Exported
  <2>2. CASE f[1] = "tests"
    <3>1. f \notin CheckProblems(c, r, m) /\ f # <<"uncommitted">>
      BY <2>2 DEF CheckProblems
    <3>2. f \in Findings(c, TreesOf(r), m)
      BY <1>1, <3>1
    <3>3. WorseningFiles(c, r, m, f[2]) # {}
      BY <2>2, <3>2, TestFindings, WorseTotalsShow
    <3>4. PICK p \in WorseningFiles(c, r, m, f[2]) : TRUE
      BY <3>3
    <3>5. <<"tests", f[2], p>> \in Exported(Result(r, m), r)
      BY <1>1, <2>2, <3>4 DEF Exported
    <3> QED  BY <3>5
  <2> QED  BY <2>1, <2>2
<1> HIDE DEF problems
<1> QED  BY <1>2, <1>3 DEF problems

-----------------------------------------------------------------------------
(* The questions.                                                          *)

(* What is asked was asked by the action for it.                           *)
LEMMA AskedByItsAction ==
  ASSUME RulesNext
  PROVE  /\ asked'.about = "law" => AskLaw
         /\ asked'.about = "mission" => AskMission
         /\ asked'.about = "plan" => AskPlan
         /\ asked'.about = "suggest" => AskSuggestions
         /\ asked'.about = "tree" => AskTree
         /\ asked'.about = "ratchet" => AskRatchet
         /\ asked'.about = "change" => AskChange
         /\ asked'.about = "tampered" => AskTampered
         /\ asked'.about = "accepted" => AskAccepted
         /\ asked'.about = "updates" => AskUpdates
BY DEF RulesNext, AskLaw, AskMission, AskPlan, AskSuggestions, AskTree, AskRatchet, AskChange, AskTampered, AskAccepted, AskUpdates

(* For every set of laws, skills, policies, contracts, plans and           *)
(* overrides: no level of law makes the level above it less strict about   *)
(* any path (tightenPathLaw), a mission's contract that is accepted stays  *)
(* inside its skill (resolveEffectiveScope), and the built-in rules of the *)
(* cage stand whatever .cage.yaml, the flags and --allow-override say.     *)
THEOREM LevelsOnlyNarrow == RulesSpec => []NoLevelWidens
<1>1. RulesInit => NoLevelWidens
  BY DEF RulesInit, NoLevelWidens, LevelsTighten, ContractsNarrow, BuiltinsStand
<1>2. NoLevelWidens /\ [RulesNext]_rulesVars => NoLevelWidens'
  <2> SUFFICES ASSUME NoLevelWidens, [RulesNext]_rulesVars PROVE NoLevelWidens'
    OBVIOUS
  <2>1. CASE UNCHANGED rulesVars
    BY <2>1 DEF rulesVars, NoLevelWidens, LevelsTighten, ContractsNarrow, BuiltinsStand
  <2>2. CASE RulesNext
    <3>1. LevelsTighten'
      <4> SUFFICES ASSUME asked'.about = "law"
                   PROVE  NothingWidens(asked'.upper, asked'.lower, asked'.path, asked'.overrides)
        BY DEF LevelsTighten
      <4>1. PICK u \in UpperLaws, w \in LowerLaws, p \in Paths, o \in OverrideSets :
               asked' = [about |-> "law", upper |-> u, lower |-> w, path |-> p, overrides |-> o]
        BY <2>2, AskedByItsAction DEF AskLaw
      <4>2. NothingWidens(u, w, p, o)
        BY RulesAssumption, NothingIsWidened
      <4> QED  BY <4>1, <4>2
    <3>2. ContractsNarrow'
      BY ContractsOnlyNarrow DEF ContractsNarrow
    <3>3. BuiltinsStand'
      <4> SUFFICES ASSUME asked'.about = "plan"
                   PROVE  FloorStands(asked'.zones, asked'.config, asked'.flags, asked'.overrides, asked'.path)
        BY DEF BuiltinsStand
      <4>1. PICK z \in Zones, c \in Configs, f \in FlagSets, o \in OverrideSets, p \in Paths :
               asked' = [about |-> "plan", zones |-> z, config |-> c, flags |-> f, overrides |-> o, path |-> p]
        BY <2>2, AskedByItsAction DEF AskPlan
      <4>2. FloorStands(z, c, f, o, p)
        BY RulesAssumption, TheFloorStands DEF IsConfig
      <4> QED  BY <4>1, <4>2
    <3> QED  BY <3>1, <3>2, <3>3 DEF NoLevelWidens
  <2> QED  BY <2>1, <2>2
<1> QED  BY <1>1, <1>2, PTL DEF RulesSpec

(* For every plan and every tree: what cage suggest proposes can be saved  *)
(* in .cage.yaml, and is not proposed again (suggestCageRules).            *)
THEOREM ProposalsAreFinal == RulesSpec => []SuggestionsAreFinal
<1>1. RulesInit => SuggestionsAreFinal
  BY DEF RulesInit, SuggestionsAreFinal
<1>2. SuggestionsAreFinal /\ [RulesNext]_rulesVars => SuggestionsAreFinal'
  <2> SUFFICES ASSUME SuggestionsAreFinal, [RulesNext]_rulesVars, asked'.about = "suggest"
               PROVE  SuggestionsSettle(asked'.zones, asked'.config, asked'.found)
    BY DEF SuggestionsAreFinal
  <2>1. CASE UNCHANGED rulesVars
    BY <2>1 DEF rulesVars, SuggestionsAreFinal
  <2>2. CASE RulesNext
    <3>1. PICK z \in Zones, c \in Configs, f \in SUBSET Found :
             asked' = [about |-> "suggest", zones |-> z, config |-> c, found |-> f]
      BY <2>2, AskedByItsAction DEF AskSuggestions
    <3>2. IsConfig(c) /\ IsFiniteSet(f) /\ \A s \in f : IsProposal(s)
      BY RulesAssumption, FS_Subset
    <3>3. SuggestionsSettle(z, c, f)
      BY <3>2, SuggestionsAreSettled
    <3> QED  BY <3>1, <3>3
  <2> QED  BY <2>1, <2>2
<1> QED  BY <1>1, <1>2, PTL DEF RulesSpec

(* For every repository, contract and baseline: what the repository's own  *)
(* verify.yaml at the base forbids stays forbidden under a task's          *)
(* contract, and the change supplies neither its contract nor its baseline *)
(* (withRepositoryLaw, loadVerifyContract, loadBaseline).                  *)
THEOREM ChangesAnswerToTheirBase == RulesSpec => []ChangesAreBound
<1>1. RulesInit => ChangesAreBound
  BY DEF RulesInit, ChangesAreBound, TasksAreBound, ContractIsTheBases
<1>2. ChangesAreBound /\ [RulesNext]_rulesVars => ChangesAreBound'
  <2> SUFFICES ASSUME ChangesAreBound, [RulesNext]_rulesVars PROVE ChangesAreBound'
    OBVIOUS
  <2>1. CASE UNCHANGED rulesVars
    BY <2>1 DEF rulesVars, ChangesAreBound, TasksAreBound, ContractIsTheBases
  <2>2. CASE RulesNext
    <3>1. TasksAreBound'
      <4> SUFFICES ASSUME asked'.about = "change" PROVE LawBindsTasks(asked'.repo, asked'.mode)
        BY DEF TasksAreBound
      <4>1. PICK r \in Repos, m \in {"full", "quick", "worktree"} : asked' = [about |-> "change", repo |-> r, mode |-> m]
        BY <2>2, AskedByItsAction DEF AskChange
      <4>2. LawBindsTasks(r, m)
        BY RulesAssumption, LawBinds
      <4> QED  BY <4>1, <4>2
    <3>2. ContractIsTheBases'
      <4> SUFFICES ASSUME asked'.about = "tampered"
                   PROVE  ChangeSuppliesNothing(asked'.repo, asked'.contract, asked'.baseline, "full")
        BY DEF ContractIsTheBases
      <4>1. PICK r \in TrackedRepos, c \in Tampered, b \in TamperedBaselines :
               asked' = [about |-> "tampered", repo |-> r, contract |-> c, baseline |-> b]
        BY <2>2, AskedByItsAction DEF AskTampered
      <4>2. ChangeSuppliesNothing(r, c, b, "full")
        BY RulesAssumption, NothingIsSupplied
      <4> QED  BY <4>1, <4>2
    <3> QED  BY <3>1, <3>2 DEF ChangesAreBound
  <2> QED  BY <2>1, <2>2
<1> QED  BY <1>1, <1>2, PTL DEF RulesSpec

(* For every specification, tree and baseline: a ratchet without           *)
(* --allow-raise makes no tree pass that did not, what it writes admits its*)
(* own tree, and a tree that passes has no file that fails when it is named*)
(* (ratchetArchBaseline, evaluateBudgets, runArchCheckCommand).            *)
THEOREM TreesAreJudgedAlike == RulesSpec => []TreesAreJudged
<1>1. RulesInit => TreesAreJudged
  BY DEF RulesInit, TreesAreJudged, RatchetHolds, NamedAreJudgedAlike
<1>2. TreesAreJudged /\ [RulesNext]_rulesVars => TreesAreJudged'
  <2> SUFFICES ASSUME TreesAreJudged, [RulesNext]_rulesVars PROVE TreesAreJudged'
    OBVIOUS
  <2>1. CASE UNCHANGED rulesVars
    BY <2>1 DEF rulesVars, TreesAreJudged, RatchetHolds, NamedAreJudgedAlike
  <2>2. CASE RulesNext
    <3>1. RatchetHolds'
      <4> SUFFICES ASSUME asked'.about = "ratchet"
                   PROVE  RatchetForgivesNothing(asked'.spec, asked'.tree.files, asked'.other.files, asked'.baseline)
        BY DEF RatchetHolds
      <4>1. PICK s \in BudgetSpecs, t \in Trees, o \in Trees, b \in Baselines :
               asked' = [about |-> "ratchet", spec |-> s, tree |-> t, other |-> o, baseline |-> b]
        BY <2>2, AskedByItsAction DEF AskRatchet
      <4>2. RatchetForgivesNothing(s, t.files, o.files, b)
        BY RulesAssumption, RatchetLowers DEF IsTree
      <4> QED  BY <4>1, <4>2
    <3>2. NamedAreJudgedAlike'
      BY NamedPass DEF NamedAreJudgedAlike
    <3> QED  BY <3>1, <3>2 DEF TreesAreJudged
  <2> QED  BY <2>1, <2>2
<1> QED  BY <1>1, <1>2, PTL DEF RulesSpec

(* A result that checkVerifyResult accepts is one that the same run would  *)
(* give again, for every two moments that agree on what a commit fixes.    *)
THEOREM AcceptedResultsHold == RulesSpec => []AcceptedHolds
<1>1. RulesInit => AcceptedHolds
  BY DEF RulesInit, AcceptedHolds
<1>2. AcceptedHolds /\ [RulesNext]_rulesVars => AcceptedHolds'
  <2> SUFFICES ASSUME AcceptedHolds, [RulesNext]_rulesVars, asked'.about = "accepted"
               PROVE  AcceptedIsRepeatable(asked'.before, asked'.after, "full")
    BY DEF AcceptedHolds
  <2>1. CASE UNCHANGED rulesVars
    BY <2>1 DEF rulesVars, AcceptedHolds
  <2>2. CASE RulesNext
    <3>1. PICK r \in MovedRepos, s \in MovedRepos :
             /\ r.isOwn = s.isOwn
             /\ r.base = s.base => r.atBase = s.atBase /\ r.ownLaw = s.ownLaw /\ r.baselineAtBase = s.baselineAtBase
             /\ r.head = s.head => r.ran = s.ran
             /\ r.head = s.head /\ r.base = s.base => r.fork = s.fork
             /\ asked' = [about |-> "accepted", before |-> r, after |-> s]
      BY <2>2, AskedByItsAction DEF AskAccepted
    <3>2. IsRepo(r) /\ IsRepo(s)
      BY RulesAssumption
    <3>3. AcceptedIsRepeatable(r, s, "full")
      BY <3>1, <3>2, AcceptedAgain
    <3> QED  BY <3>1, <3>3
  <2> QED  BY <2>1, <2>2
<1> QED  BY <1>1, <1>2, PTL DEF RulesSpec

(* For every repository: SARIF and JUnit show a finding exactly when the   *)
(* run fails (verifyResultSarif, worseningFiles), and a result that is     *)
(* accepted is one that the run would give again.                          *)
THEOREM ResultsSayTheSame == RulesSpec => []ResultsAgree
<1>1. RulesInit => ExportsShowFailures
  BY DEF RulesInit, ExportsShowFailures
<1>2. ExportsShowFailures /\ [RulesNext]_rulesVars => ExportsShowFailures'
  <2> SUFFICES ASSUME ExportsShowFailures, [RulesNext]_rulesVars, asked'.about = "change"
               PROVE  ExportsAgree(asked'.repo, asked'.mode)
    BY DEF ExportsShowFailures
  <2>1. CASE UNCHANGED rulesVars
    BY <2>1 DEF rulesVars, ExportsShowFailures
  <2>2. CASE RulesNext
    <3>1. PICK r \in Repos, m \in {"full", "quick", "worktree"} : asked' = [about |-> "change", repo |-> r, mode |-> m]
      BY <2>2, AskedByItsAction DEF AskChange
    <3>2. ExportsAgree(r, m)
      BY RulesAssumption, ExportsShow
    <3> QED  BY <3>1, <3>2
  <2> QED  BY <2>1, <2>2
<1>3. AcceptedHolds /\ ExportsShowFailures => ResultsAgree
  BY DEF ResultsAgree
<1> QED  BY <1>1, <1>2, <1>3, AcceptedResultsHold, PTL DEF RulesSpec

(* Two changes in a row that trusted automation lets pass make one that it *)
(* lets pass, for every rule and all documents (dependencyUpdateProblem,   *)
(* isWorkflowVersionPinChange).                                            *)
THEOREM UpdatesAreOne == RulesSpec => []UpdatesCompose
<1>1. RulesInit => UpdatesCompose
  BY DEF RulesInit, UpdatesCompose
<1>2. UpdatesCompose /\ [RulesNext]_rulesVars => UpdatesCompose'
  <2> SUFFICES ASSUME UpdatesCompose, [RulesNext]_rulesVars, asked'.about = "updates"
               PROVE  UpdatesAddUp(asked'.rule, asked'.one, asked'.two)
    BY DEF UpdatesCompose
  <2>1. CASE UNCHANGED rulesVars
    BY <2>1 DEF rulesVars, UpdatesCompose
  <2>2. CASE RulesNext
    <3>1. PICK r \in UpdateRules, d1 \in Documents, d2 \in Documents, d3 \in Documents :
             asked' = [about |-> "updates", rule |-> r, one |-> Update(r, d1, d2), two |-> Update(r, d2, d3)]
      BY <2>2, AskedByItsAction DEF AskUpdates
    <3>2. /\ Update(r, d2, d3).locks \subseteq Update(r, d2, d3).files
          /\ DOMAIN Update(r, d2, d3) = {"files", "locks", "actor", "loc", "lockLoc", "old", "new"}
      BY DEF Update
    <3>3. UpdatesAddUp(r, Update(r, d1, d2), Update(r, d2, d3))
      BY <3>2, UpdatesAdd
    <3> QED  BY <3>1, <3>3
  <2> QED  BY <2>1, <2>2
<1> QED  BY <1>1, <1>2, PTL DEF RulesSpec
-----------------------------------------------------------------------------
(* The search for cycles.                                                  *)

(* What a search knows.  A call and what stands on the stack from it on     *)
(* reach each other, as long as no later call comes between; Below(w, u)    *)
(* says that none does.                                                     *)
Calling == {calls[n] : n \in DOMAIN calls}
Popped == Visited \ OnStack
Below(w, u) == \A c \in Calling : index[u] < index[c] => index[w] < index[c]
InOrder(s) == \A m, n \in DOMAIN s : m < n => index[s[m]] < index[s[n]]

SearchType == /\ graph \in Graphs
              /\ index \in [Nodes -> Nat] /\ low \in [Nodes -> Nat]
              /\ left \in [Nodes -> SUBSET Nodes] /\ \A v \in Nodes : left[v] \subseteq Imports(v)
              /\ stack \in Seq(Nodes) /\ calls \in Seq(Nodes)
              /\ InOrder(stack) /\ InOrder(calls)
              /\ Calling \subseteq OnStack /\ OnStack \subseteq Visited
              /\ \A v \in Nodes : index[v] <= Cardinality(Visited)

Rises(u) == /\ low[u] <= index[u]
            /\ \E w \in OnStack : index[w] = low[u] /\ Reaches(graph, u, w)
Descends(u, w) == index[u] <= index[w] => Reaches(graph, u, w)
Ascends(u, w) == Below(w, u) => Reaches(graph, w, u)
LeadsOn(u, w) == index[u] <= index[w] /\ Below(w, u) =>
                   \A z \in Imports(w) \ left[w] : z \in Popped \/ (z \in OnStack /\ low[u] <= index[z])

CallsAreRight == /\ \A u \in Calling : Rises(u)
                 /\ \A u \in Calling, w \in OnStack : Descends(u, w) /\ Ascends(u, w) /\ LeadsOn(u, w)
StackIsRight == /\ \A w \in OnStack : \E u \in Calling : index[u] <= index[w]
                /\ \A w \in OnStack \ Calling : left[w] = {}
IsCyclic(v) == <<v, v>> \in graph \/ Component(graph, v) # {v}
SetsAreRight == /\ \A w \in Popped : Imports(w) \subseteq Popped
                /\ cycles = {Component(graph, w) : w \in {v \in Popped : IsCyclic(v)}}

SearchInv == SearchType /\ CallsAreRight /\ StackIsRight /\ SetsAreRight

LEMMA ReachesItself == ASSUME NEW g, NEW v \in NodesOf(g) PROVE Reaches(g, v, v)
BY DEF Reaches

LEMMA ReachesImport == ASSUME NEW g, NEW v, NEW w, <<v, w>> \in g PROVE Reaches(g, v, w)
BY DEF Reaches

LEMMA ReachesOn == ASSUME NEW g, NEW u, NEW v, NEW w, Reaches(g, u, v), Reaches(g, v, w) PROVE Reaches(g, u, w)
BY DEF Reaches

(* What has no import that leads out cannot be left.                        *)
LEMMA ReachesInside ==
  ASSUME NEW g, NEW set \in SUBSET NodesOf(g), \A e \in g : e[1] \in set => e[2] \in set,
         NEW v \in set, NEW w, Reaches(g, v, w)
  PROVE  w \in set
BY DEF Reaches

(* Two that reach each other have one component.                            *)
LEMMA OneComponent ==
  ASSUME NEW g, NEW v, NEW w, Reaches(g, v, w), Reaches(g, w, v)
  PROVE  Component(g, v) = Component(g, w)
BY ReachesOn DEF Component

LEMMA GraphsArePairs ==
  ASSUME SearchType
  PROVE  IsFiniteSet(Nodes) /\ \A e \in graph : /\ e[1] \in Nodes /\ e[2] \in Imports(e[1])
<1>1. IsFiniteSet(Nodes) /\ graph \subseteq Nodes \X Nodes
  BY GraphsAssumption DEF SearchType, Nodes
<1>2. ASSUME NEW e \in graph PROVE e[1] \in Nodes /\ e[2] \in Imports(e[1])
  <2>1. e \in Nodes \X Nodes /\ e = <<e[1], e[2]>>
    BY <1>1
  <2>2. e[1] \in Nodes /\ e[2] \in Nodes /\ <<e[1], e[2]>> \in graph
    BY <2>1
  <2> QED  BY <2>2 DEF Imports
<1> QED  BY <1>1, <1>2

(* A set whose imports all stay in it.                                      *)
LEMMA StaysInside ==
  ASSUME SearchType, NEW set \in SUBSET Nodes, \A w \in set : Imports(w) \subseteq set,
         NEW v \in set, NEW w, Reaches(graph, v, w)
  PROVE  w \in set
<1>1. \A e \in graph : e[1] \in set => e[2] \in set
  BY GraphsArePairs
<1> QED  BY <1>1, ReachesInside DEF Nodes

LEMMA LastCall ==
  ASSUME SearchType, calls # << >>, NEW v, v = calls[Len(calls)]
  PROVE  /\ v \in Calling
         /\ \A c \in Calling : c # v => index[c] < index[v]
<1>1. /\ calls \in Seq(Nodes) /\ index \in [Nodes -> Nat]
      /\ Len(calls) \in Nat /\ DOMAIN calls = 1 .. Len(calls) /\ Len(calls) \in DOMAIN calls
  BY DEF SearchType
<1>2. ASSUME NEW c \in Calling, c # v PROVE index[c] < index[v]
  <2>1. PICK n \in DOMAIN calls : c = calls[n]
    BY DEF Calling
  <2>2. n < Len(calls)
    BY <1>1, <1>2, <2>1
  <2> QED  BY <1>1, <2>1, <2>2 DEF SearchType, InOrder
<1> QED  BY <1>1, <1>2 DEF Calling

LEMMA SearchStart == SearchInit => SearchInv
<1> SUFFICES ASSUME SearchInit PROVE SearchInv
  OBVIOUS
<1>1. Visited = {} /\ OnStack = {} /\ Calling = {}
  BY DEF SearchInit, Visited, OnStack, Calling
<1>2. SearchType
  BY <1>1, FS_EmptySet DEF SearchInit, SearchType, InOrder
<1> QED  BY <1>1, <1>2 DEF SearchInit, SearchInv, CallsAreRight, StackIsRight, SetsAreRight, Popped

(* A visit begins.  Every file that it may reach back to is known to be     *)
(* visited before it.                                                       *)
LEMMA EnterCounts ==
  ASSUME SearchType, NEW v \in Nodes, Enter(v)
  PROVE  LET n == Cardinality(Visited) + 1 IN
         /\ n \in Nat \ {0} /\ \A w \in Nodes : index[w] \in Nat /\ index[w] < n
         /\ index' = [index EXCEPT ![v] = n] /\ low' = [low EXCEPT ![v] = n]
         /\ Visited' = Visited \cup {v} /\ v \notin Visited
         /\ Cardinality(Visited') = n
         /\ OnStack' = OnStack \cup {v} /\ Calling' = Calling \cup {v}
         /\ Popped' = Popped
<1> DEFINE n == Cardinality(Visited) + 1
<1>1. IsFiniteSet(Visited) /\ Cardinality(Visited) \in Nat
  BY GraphsArePairs, FS_Subset, FS_CardinalityType DEF Visited
<1>2. \A w \in Nodes : index[w] \in Nat /\ index[w] < n
  BY <1>1 DEF SearchType
<1>3. index' = [index EXCEPT ![v] = n] /\ low' = [low EXCEPT ![v] = n] /\ Nodes' = Nodes /\ v \notin Visited
  BY DEF Enter, Nodes, Visited
<1>4. Visited' = Visited \cup {v}
  <2>1. \A w \in Nodes : index'[w] = IF w = v THEN n ELSE index[w]
    BY <1>3 DEF SearchType
  <2>2. n # 0
    BY <1>1
  <2> HIDE DEF n
  <2> QED  BY <1>3, <2>1, <2>2 DEF Visited
<1>5. Cardinality(Visited') = n
  BY <1>1, <1>3, <1>4, FS_AddElement
<1>6. OnStack' = OnStack \cup {v}
  <2>1. /\ stack \in Seq(Nodes) /\ stack' = Append(stack, v)
        /\ DOMAIN stack' = 1 .. Len(stack) + 1 /\ DOMAIN stack = 1 .. Len(stack) /\ Len(stack) \in Nat
        /\ stack'[Len(stack) + 1] = v /\ \A k \in DOMAIN stack : stack'[k] = stack[k]
    BY DEF Enter, SearchType
  <2> QED  BY <2>1 DEF OnStack
<1>7. Calling' = Calling \cup {v}
  <2>1. /\ calls \in Seq(Nodes) /\ calls' = Append(calls, v)
        /\ DOMAIN calls' = 1 .. Len(calls) + 1 /\ DOMAIN calls = 1 .. Len(calls) /\ Len(calls) \in Nat
        /\ calls'[Len(calls) + 1] = v /\ \A k \in DOMAIN calls : calls'[k] = calls[k]
    BY DEF Enter, SearchType
  <2> QED  BY <2>1 DEF Calling
<1>8. Popped' = Popped
  BY <1>3, <1>4, <1>6 DEF Popped
<1> QED  BY <1>1, <1>2, <1>3, <1>4, <1>5, <1>6, <1>7, <1>8

(* Whoever is visited last may be put at the end.                           *)
LEMMA AppendsInOrder ==
  ASSUME NEW s \in Seq(Nodes), InOrder(s), NEW v \in Nodes, NEW n \in Nat, index \in [Nodes -> Nat],
         index' = [index EXCEPT ![v] = n], \A k \in DOMAIN s : s[k] # v /\ index[s[k]] < n
  PROVE  \A k, m \in DOMAIN Append(s, v) : k < m => index'[Append(s, v)[k]] < index'[Append(s, v)[m]]
<1> SUFFICES ASSUME NEW k \in DOMAIN Append(s, v), NEW m \in DOMAIN Append(s, v), k < m
             PROVE  index'[Append(s, v)[k]] < index'[Append(s, v)[m]]
  OBVIOUS
<1>1. /\ k \in DOMAIN s /\ Append(s, v)[k] = s[k] /\ s[k] \in Nodes /\ s[k] # v
      /\ index'[s[k]] = index[s[k]] /\ index[s[k]] < n
  OBVIOUS
<1>2. CASE m \in DOMAIN s
  BY <1>1, <1>2 DEF InOrder
<1>3. CASE m \notin DOMAIN s
  <2>1. Append(s, v)[m] = v
    BY <1>3
  <2> QED  BY <1>1, <2>1
<1> QED  BY <1>2, <1>3


LEMMA EnterKeepsType ==
  ASSUME SearchType, NEW v \in Nodes, Enter(v)
  PROVE  SearchType'
<1> DEFINE n == Cardinality(Visited) + 1
<1>1. /\ n \in Nat \ {0} /\ \A w \in Nodes : index[w] \in Nat /\ index[w] < n
      /\ index' = [index EXCEPT ![v] = n] /\ low' = [low EXCEPT ![v] = n]
      /\ Visited' = Visited \cup {v} /\ v \notin Visited /\ Cardinality(Visited') = n
      /\ OnStack' = OnStack \cup {v} /\ Calling' = Calling \cup {v}
  BY EnterCounts
<1> HIDE DEF n
<1>2. graph' = graph /\ Nodes' = Nodes /\ \A w : Imports(w)' = Imports(w)
  BY DEF Enter, Nodes, Imports
<1>3. /\ stack' = Append(stack, v) /\ calls' = Append(calls, v)
      /\ left' = [left EXCEPT ![v] = Imports(v)]
  BY DEF Enter
<1>4. \A k \in DOMAIN stack : stack[k] # v /\ index[stack[k]] < n
  BY <1>1 DEF SearchType, OnStack
<1>5. \A k \in DOMAIN calls : calls[k] # v /\ index[calls[k]] < n
  <2>1. \A k \in DOMAIN calls : calls[k] \in Calling
    BY DEF Calling
  <2>2. \A c \in Calling : c \in Nodes /\ c \in Visited
    BY DEF SearchType, Visited
  <2> QED  BY <1>1, <2>1, <2>2
<1>6. InOrder(stack)'
  BY <1>1, <1>3, <1>4, AppendsInOrder DEF SearchType, InOrder
<1>7. InOrder(calls)'
  BY <1>1, <1>3, <1>5, AppendsInOrder DEF SearchType, InOrder
<1>8. \A w \in Nodes : left'[w] \subseteq Imports(w)'
  BY <1>2, <1>3 DEF SearchType
<1>9. \A w \in Nodes : index'[w] <= Cardinality(Visited')
  BY <1>1 DEF SearchType
<1>10. left' \in [Nodes -> SUBSET Nodes] /\ index' \in [Nodes -> Nat] /\ low' \in [Nodes -> Nat]
  BY <1>1, <1>3 DEF SearchType, Imports
<1> QED  BY <1>1, <1>2, <1>3, <1>6, <1>7, <1>8, <1>9, <1>10 DEF SearchType

LEMMA EnterKeeps ==
  ASSUME SearchInv, NEW v \in Nodes, Enter(v),
         calls # << >> => v \in left[calls[Len(calls)]]
  PROVE  SearchInv'
<1> DEFINE n == Cardinality(Visited) + 1
<1>1. /\ n \in Nat \ {0} /\ \A w \in Nodes : index[w] \in Nat /\ index[w] < n
      /\ index' = [index EXCEPT ![v] = n] /\ low' = [low EXCEPT ![v] = n]
      /\ OnStack' = OnStack \cup {v} /\ Calling' = Calling \cup {v} /\ Popped' = Popped
      /\ v \notin Visited
  BY EnterCounts DEF SearchInv
<1> HIDE DEF n
<1>2. graph' = graph /\ Nodes' = Nodes /\ (\A w : Imports(w)' = Imports(w)) /\ cycles' = cycles
  BY DEF Enter, Nodes, Imports
<1>3. SearchType /\ SearchType' /\ OnStack \subseteq Nodes /\ Calling \subseteq OnStack /\ v \notin OnStack
  BY <1>1, EnterKeepsType DEF SearchInv, SearchType, Visited
<1>4. /\ index'[v] = n /\ low'[v] = n /\ left'[v] = Imports(v)
      /\ \A w \in Nodes \ {v} : index'[w] = index[w] /\ low'[w] = low[w] /\ left'[w] = left[w]
  BY <1>1, <1>3 DEF SearchType, Enter
<1>5. \A w \in OnStack : Reaches(graph, w, v)
  <2>1. ASSUME NEW w \in OnStack PROVE Reaches(graph, w, v)
    <3>1. calls # << >>
      BY DEF SearchInv, StackIsRight, Calling
    <3> DEFINE top == calls[Len(calls)]
    <3>2. top \in Calling /\ \A c \in Calling : c # top => index[c] < index[top]
      BY <1>3, <3>1, LastCall
    <3>3. Below(w, top)
      BY <1>1, <1>3, <3>2 DEF Below
    <3>4. Reaches(graph, w, top)
      BY <3>2, <3>3 DEF SearchInv, CallsAreRight, Ascends
    <3>5. <<top, v>> \in graph
      BY <1>3, <3>1, <3>2 DEF SearchType, Imports
    <3> QED  BY <3>4, <3>5, ReachesImport, ReachesOn
  <2> QED  BY <2>1
<1>6. Reaches(graph, v, v)
  BY ReachesItself DEF Nodes
<1>7. ASSUME NEW u \in Calling' PROVE Rises(u)'
  <2>1. CASE u = v
    BY <1>1, <1>2, <1>4, <1>6, <2>1 DEF Rises
  <2>2. CASE u # v
    <3>1. u \in Calling /\ Rises(u) /\ u \in Nodes
      BY <1>1, <1>3, <2>2 DEF SearchInv, CallsAreRight
    <3> QED  BY <1>1, <1>2, <1>3, <1>4, <2>2, <3>1 DEF Rises
  <2> QED  BY <2>1, <2>2
<1>8. ASSUME NEW u \in Calling', NEW w \in OnStack' PROVE Descends(u, w)' /\ Ascends(u, w)' /\ LeadsOn(u, w)'
  <2>1. CASE u = v /\ w = v
    BY <1>2, <1>4, <1>6, <2>1 DEF Descends, Ascends, LeadsOn
  <2>2. CASE u = v /\ w # v
    <3>1. w \in OnStack /\ w \in Nodes /\ ~(index'[u] <= index'[w])
      BY <1>1, <1>3, <1>4, <2>2
    <3>2. Reaches(graph, w, v)
      BY <1>5, <3>1
    <3> QED  BY <1>2, <2>2, <3>1, <3>2 DEF Descends, Ascends, LeadsOn
  <2>3. CASE u # v /\ w = v
    <3>1. u \in Calling /\ u \in Nodes /\ u \in OnStack
      BY <1>1, <1>3, <2>3
    <3>2. ~Below(w, u)'
      BY <1>1, <1>3, <1>4, <2>3, <3>1 DEF Below
    <3>3. Reaches(graph, u, v)
      BY <1>5, <3>1
    <3> QED  BY <1>2, <2>3, <3>2, <3>3 DEF Descends, Ascends, LeadsOn
  <2>4. CASE u # v /\ w # v
    <3>1. u \in Calling /\ w \in OnStack /\ u \in Nodes /\ w \in Nodes
      BY <1>1, <1>3, <2>4
    <3>2. Descends(u, w) /\ Ascends(u, w) /\ LeadsOn(u, w)
      BY <3>1 DEF SearchInv, CallsAreRight
    <3>3. Below(w, u)' => Below(w, u)
      BY <1>1, <1>3, <1>4, <2>4, <3>1 DEF Below
    <3>4. LeadsOn(u, w)'
      <4>1. \A z \in OnStack : z \in OnStack' /\ index'[z] = index[z]
        BY <1>1, <1>3, <1>4
      <4> QED  BY <1>1, <1>2, <1>4, <2>4, <3>1, <3>2, <3>3, <4>1 DEF LeadsOn
    <3> QED  BY <1>2, <1>4, <2>4, <3>1, <3>2, <3>3, <3>4 DEF Descends, Ascends
  <2> QED  BY <2>1, <2>2, <2>3, <2>4
<1>9. StackIsRight'
  <2>1. ASSUME NEW w \in OnStack' PROVE \E u \in Calling' : index'[u] <= index'[w]
    <3>1. CASE w = v
      BY <1>1, <1>4, <3>1
    <3>2. CASE w # v
      <4>1. PICK u \in Calling : index[u] <= index[w]
        BY <1>1, <3>2 DEF SearchInv, StackIsRight
      <4> QED  BY <1>1, <1>3, <1>4, <3>2, <4>1
    <3> QED  BY <3>1, <3>2
  <2>2. \A w \in OnStack' \ Calling' : left'[w] = {}
    BY <1>1, <1>3, <1>4 DEF SearchInv, StackIsRight
  <2> QED  BY <2>1, <2>2 DEF StackIsRight
<1>10. SetsAreRight'
  BY <1>1, <1>2 DEF SearchInv, SetsAreRight, IsCyclic
<1> QED  BY <1>3, <1>7, <1>8, <1>9, <1>10 DEF SearchInv, CallsAreRight

LEMMA LookAtKeeps == ASSUME SearchInv, NEW v \in Nodes, LookAt(v) PROVE SearchInv'
<1>1. SearchType /\ OnStack \subseteq Nodes /\ Calling \subseteq OnStack
  BY DEF SearchInv, SearchType, Visited
<1>2. /\ graph' = graph /\ index' = index /\ stack' = stack /\ calls' = calls /\ cycles' = cycles
      /\ Nodes' = Nodes /\ (\A w : Imports(w)' = Imports(w))
      /\ Visited' = Visited /\ OnStack' = OnStack /\ Calling' = Calling /\ Popped' = Popped
  BY DEF LookAt, Nodes, Imports, Visited, OnStack, Calling, Popped
<1>3. PICK w \in Imports(v) : /\ index[w] # 0
                              /\ low' = [low EXCEPT ![v] = LowOf(v, w)]
                              /\ left' = [left EXCEPT ![v] = @ \ {w}]
  BY DEF LookAt
<1>4. w \in Visited /\ w \in Nodes /\ <<v, w>> \in graph
  BY <1>3 DEF Visited, Imports
<1>5. v \in Calling /\ \A c \in Calling : c # v => index[c] < index[v]
  BY <1>1, LastCall DEF LookAt
<1>6. Rises(v) /\ Reaches(graph, v, w)
  BY <1>4, <1>5, ReachesImport DEF SearchInv, CallsAreRight
<1>7. /\ LowOf(v, w) \in Nat /\ LowOf(v, w) <= low[v]
      /\ LowOf(v, w) = low[v] \/ (w \in OnStack /\ LowOf(v, w) = index[w])
      /\ w \in OnStack => LowOf(v, w) <= index[w]
  BY <1>1, <1>4 DEF LowOf, Least, SearchType
<1>8. /\ low'[v] = LowOf(v, w) /\ left'[v] = left[v] \ {w}
      /\ \A u \in Nodes \ {v} : low'[u] = low[u] /\ left'[u] = left[u]
  BY <1>1, <1>3 DEF SearchType
<1>9. SearchType'
  <2>1. left' \in [Nodes -> SUBSET Nodes] /\ low' \in [Nodes -> Nat] /\ \A u \in Nodes : left'[u] \subseteq Imports(u)
    BY <1>1, <1>3, <1>7 DEF SearchType
  <2> QED  BY <1>1, <1>2, <2>1 DEF SearchType, InOrder
<1>10. ASSUME NEW u \in Calling' PROVE Rises(u)'
  <2>1. Rises(u) /\ u \in Nodes
    BY <1>1, <1>2 DEF SearchInv, CallsAreRight
  <2>2. CASE u = v
    BY <1>1, <1>2, <1>4, <1>6, <1>7, <1>8, <2>1, <2>2 DEF Rises, SearchType
  <2>3. CASE u # v
    BY <1>2, <1>8, <2>1, <2>3 DEF Rises
  <2> QED  BY <2>2, <2>3
<1>11. ASSUME NEW u \in Calling', NEW x \in OnStack' PROVE Descends(u, x)' /\ Ascends(u, x)' /\ LeadsOn(u, x)'
  <2>1. Descends(u, x) /\ Ascends(u, x) /\ LeadsOn(u, x) /\ u \in Nodes /\ x \in Nodes
    BY <1>1, <1>2 DEF SearchInv, CallsAreRight
  <2>2. Below(x, u)' = Below(x, u)
    BY <1>2 DEF Below
  <2>3. LeadsOn(u, x)'
    <3>1. SUFFICES ASSUME index[u] <= index[x], Below(x, u), NEW z \in Imports(x) \ left'[x]
                   PROVE  z \in Popped \/ (z \in OnStack /\ low'[u] <= index[z])
      BY <1>2, <2>2 DEF LeadsOn
    <3>2. low'[u] \in Nat /\ low[u] \in Nat /\ low'[u] <= low[u] /\ z \in Nodes /\ index[z] \in Nat
      <4>1. low \in [Nodes -> Nat] /\ index \in [Nodes -> Nat] /\ z \in Nodes
        BY <1>1 DEF SearchType, Imports
      <4>2. CASE u = v
        BY <1>7, <1>8, <2>1, <4>1, <4>2
      <4>3. CASE u # v
        BY <1>8, <2>1, <4>1, <4>3
      <4> QED  BY <4>1, <4>2, <4>3
    <3>3. CASE z \in Imports(x) \ left[x]
      BY <2>1, <3>1, <3>2, <3>3 DEF LeadsOn
    <3>4. CASE z \notin Imports(x) \ left[x]
      <4>1. x = v /\ z = w
        BY <1>8, <2>1, <3>1, <3>4
      <4>2. u = v
        BY <1>1, <1>5, <2>1, <3>1, <4>1, <1>2 DEF SearchType, Below
      <4> QED  BY <1>4, <1>7, <1>8, <4>1, <4>2 DEF Popped
    <3> QED  BY <3>3, <3>4
  <2> QED  BY <1>2, <2>1, <2>2, <2>3 DEF Descends, Ascends
<1>12. StackIsRight'
  BY <1>1, <1>2, <1>5, <1>8 DEF SearchInv, StackIsRight
<1>13. SetsAreRight'
  BY <1>2 DEF SearchInv, SetsAreRight, IsCyclic
<1> QED  BY <1>9, <1>10, <1>11, <1>12, <1>13 DEF SearchInv, CallsAreRight

(* A visit returns to the call before it, which is the last one now.        *)
LEMMA ReturnTo ==
  ASSUME SearchType, NEW v \in Nodes, Return(v)
  PROVE  /\ v \in Calling /\ \A c \in Calling : c # v => index[c] < index[v]
         /\ calls' \in Seq(Nodes) /\ InOrder(calls') /\ Calling' = Calling \ {v}
         /\ \/ Calling' = {} /\ low' = low /\ left' = left
            \/ \E u \in Calling' : /\ \A c \in Calling' : c # u => index[c] < index[u]
                                   /\ low' = [low EXCEPT ![u] = Least(low[u], low[v])]
                                   /\ left' = [left EXCEPT ![u] = left[u] \ {v}]
<1> DEFINE most == Len(calls)
<1>1. /\ calls \in Seq(Nodes) /\ most \in Nat \ {0} /\ DOMAIN calls = 1 .. most /\ v = calls[most]
      /\ index \in [Nodes -> Nat] /\ \A k \in 1 .. most : calls[k] \in Nodes
  BY DEF Return, SearchType
<1>2. v \in Calling /\ \A c \in Calling : c # v => index[c] < index[v]
  BY LastCall DEF Return
<1>3. \A k, m \in 1 .. most : k < m => index[calls[k]] < index[calls[m]]
  BY <1>1 DEF SearchType, InOrder
<1>4. /\ calls' \in Seq(Nodes) /\ Len(calls') = most - 1 /\ DOMAIN calls' = 1 .. most - 1
      /\ \A k \in 1 .. most - 1 : calls'[k] = calls[k]
  BY <1>1 DEF Return
<1>5. InOrder(calls')
  <2>1. ASSUME NEW k \in DOMAIN calls', NEW m \in DOMAIN calls', k < m PROVE index[calls'[k]] < index[calls'[m]]
    <3>1. k \in 1 .. most - 1 /\ m \in 1 .. most - 1 /\ k \in 1 .. most /\ m \in 1 .. most
      BY <1>1, <1>4
    <3>2. calls'[k] = calls[k] /\ calls'[m] = calls[m]
      BY <1>4, <3>1
    <3> QED  BY <1>3, <2>1, <3>1, <3>2
  <2> QED  BY <2>1 DEF InOrder
<1>6. Calling' = {calls[k] : k \in 1 .. most - 1}
  BY <1>4 DEF Calling
<1>7. Calling = {calls[k] : k \in 1 .. most}
  BY <1>1 DEF Calling
<1> HIDE DEF most
<1>8. Calling' = Calling \ {v}
  <2>1. \A k \in 1 .. most - 1 : calls[k] # v
    BY <1>1, <1>3
  <2> QED  BY <1>1, <1>6, <1>7, <2>1
<1>9. CASE most = 1
  BY <1>2, <1>4, <1>5, <1>6, <1>8, <1>9 DEF Return, most
<1>10. CASE most # 1
  <2> DEFINE u == calls[most - 1]
  <2>1. u \in Calling'
    BY <1>1, <1>6, <1>10
  <2>2. \A c \in Calling' : c # u => index[c] < index[u]
    BY <1>1, <1>3, <1>6, <1>10
  <2>3. low' = [low EXCEPT ![u] = Least(low[u], low[v])] /\ left' = [left EXCEPT ![u] = left[u] \ {v}]
    BY <1>10 DEF Return, most
  <2> QED  BY <1>2, <1>4, <1>5, <1>8, <2>1, <2>2, <2>3
<1> QED  BY <1>9, <1>10

(* A visit that returns to an earlier file of its set: the files above it   *)
(* on the stack now belong to the call before.                              *)
LEMMA ReturnToEarlierKeeps == ASSUME SearchInv, NEW v \in Nodes, ReturnToEarlier(v) PROVE SearchInv'
<1>1. /\ SearchType /\ OnStack \subseteq Nodes /\ Calling \subseteq OnStack
      /\ low \in [Nodes -> Nat] /\ index \in [Nodes -> Nat] /\ left \in [Nodes -> SUBSET Nodes]
  BY DEF SearchInv, SearchType, Visited
<1>2. /\ graph' = graph /\ index' = index /\ stack' = stack /\ cycles' = cycles
      /\ Nodes' = Nodes /\ (\A w : Imports(w)' = Imports(w))
      /\ Visited' = Visited /\ OnStack' = OnStack /\ Popped' = Popped
  BY DEF ReturnToEarlier, Return, Nodes, Imports, Visited, OnStack, Popped
<1>3. /\ v \in Calling /\ \A c \in Calling : c # v => index[c] < index[v]
      /\ calls' \in Seq(Nodes) /\ InOrder(calls') /\ Calling' = Calling \ {v}
  BY <1>1, ReturnTo DEF ReturnToEarlier
<1>4. PICK x \in OnStack : index[x] = low[v] /\ Reaches(graph, v, x) /\ index[x] < index[v]
  BY <1>1, <1>3 DEF SearchInv, CallsAreRight, Rises, ReturnToEarlier
<1>5. Calling' # {}
  <2>1. PICK c \in Calling : index[c] <= index[x]
    BY DEF SearchInv, StackIsRight
  <2> QED  BY <1>1, <1>3, <1>4, <2>1
<1>6. PICK u \in Calling' : /\ \A c \in Calling' : c # u => index[c] < index[u]
                            /\ low' = [low EXCEPT ![u] = Least(low[u], low[v])]
                            /\ left' = [left EXCEPT ![u] = left[u] \ {v}]
  BY <1>1, <1>5, ReturnTo DEF ReturnToEarlier
<1>7. u \in Calling /\ u \in Nodes /\ u # v /\ index[u] < index[v] /\ u \in OnStack /\ v \in OnStack
  BY <1>1, <1>3, <1>6
<1>8. /\ low'[u] \in Nat /\ low'[u] <= low[u] /\ low'[u] <= low[v] /\ low'[u] \in {low[u], low[v]}
      /\ left'[u] = left[u] \ {v}
      /\ \A w \in Nodes \ {u} : low'[w] = low[w] /\ left'[w] = left[w]
  BY <1>1, <1>6, <1>7 DEF Least
<1>9. SearchType'
  <2>1. left' \in [Nodes -> SUBSET Nodes] /\ low' \in [Nodes -> Nat]
    BY <1>1, <1>6, <1>7, <1>8
  <2>2. \A w \in Nodes : left'[w] \subseteq Imports(w)
    <3>1. ASSUME NEW w \in Nodes PROVE left'[w] \subseteq left[w]
      BY <1>8
    <3> QED  BY <1>1, <3>1 DEF SearchType
  <2> QED  BY <1>1, <1>2, <1>3, <2>1, <2>2 DEF SearchType, InOrder
<1>10. \A w \in OnStack : Reaches(graph, w, u)
  <2>1. Below(x, u)
    <3>1. ASSUME NEW c \in Calling, index[u] < index[c] PROVE c = v
      <4>1. c # v => c \in Calling' /\ c # u
        BY <1>1, <1>3, <1>7, <3>1
      <4>2. c # v => index[c] < index[u]
        BY <1>6, <4>1
      <4> QED  BY <1>1, <1>7, <3>1, <4>2
    <3> QED  BY <1>4, <3>1 DEF Below
  <2>2. Reaches(graph, v, u)
    BY <1>4, <1>7, <2>1, ReachesOn DEF SearchInv, CallsAreRight, Ascends
  <2>3. \A w \in OnStack : Below(w, v)
    BY <1>1, <1>3 DEF Below
  <2> QED  BY <1>3, <2>2, <2>3, ReachesOn DEF SearchInv, CallsAreRight, Ascends
<1>11. ASSUME NEW c \in Calling' PROVE Rises(c)'
  <2>1. Rises(c) /\ Rises(v) /\ c \in Nodes /\ c \in Calling
    BY <1>1, <1>3 DEF SearchInv, CallsAreRight
  <2>2. CASE c = u
    <3>1. Reaches(graph, u, v)
      BY <1>1, <1>7 DEF SearchInv, CallsAreRight, Descends
    <3>2. \E w \in OnStack : index[w] = low'[u] /\ Reaches(graph, u, w)
      BY <1>4, <1>8, <2>1, <2>2, <3>1, ReachesOn DEF Rises
    <3>3. low'[u] <= index[u]
      BY <1>1, <1>7, <1>8, <2>1, <2>2 DEF Rises
    <3> QED  BY <1>2, <2>2, <3>2, <3>3 DEF Rises
  <2>3. CASE c # u
    BY <1>2, <1>8, <2>1, <2>3 DEF Rises
  <2> QED  BY <2>2, <2>3
<1>12. ASSUME NEW c \in Calling', NEW w \in OnStack' PROVE Descends(c, w)' /\ Ascends(c, w)' /\ LeadsOn(c, w)'
  <2>1. /\ c \in Calling /\ c \in Nodes /\ w \in OnStack /\ w \in Nodes
        /\ Descends(c, w) /\ Ascends(c, w) /\ LeadsOn(c, w) /\ LeadsOn(v, w)
    BY <1>1, <1>2, <1>3 DEF SearchInv, CallsAreRight
  <2>2. Descends(c, w)'
    BY <1>2, <2>1 DEF Descends
  <2>3. Ascends(c, w)'
    <3>1. CASE c = u
      BY <1>2, <1>10, <2>1, <3>1 DEF Ascends
    <3>2. CASE c # u
      <4>1. index[c] < index[u]
        BY <1>6, <3>2
      <4>2. Below(w, c)' => Below(w, c)
        BY <1>1, <1>2, <1>3, <1>7, <2>1, <4>1, <1>6 DEF Below
      <4> QED  BY <1>2, <2>1, <4>2 DEF Ascends
    <3> QED  BY <3>1, <3>2
  <2>4. LeadsOn(c, w)'
    <3>1. SUFFICES ASSUME index[c] <= index[w], Below(w, c)', NEW z \in Imports(w) \ left'[w]
                   PROVE  z \in Popped \/ (z \in OnStack /\ low'[c] <= index[z])
      BY <1>2 DEF LeadsOn
    <3>2. low'[c] \in Nat /\ low'[c] <= low[c] /\ z \in Nodes
      BY <1>1, <1>8, <2>1 DEF Imports
    <3>3. CASE index[w] < index[v]
      <4>1. Below(w, c)
        BY <1>1, <1>2, <1>3, <3>1, <3>3 DEF Below
      <4>2. CASE z \notin left[w]
        BY <1>1, <2>1, <3>1, <3>2, <4>1, <4>2 DEF LeadsOn
      <4>3. CASE z \in left[w]
        <5>1. w = u /\ z = v
          BY <1>8, <2>1, <3>1, <4>3
        <5>2. low[c] <= index[c] /\ index[c] <= index[v]
          BY <1>1, <1>3, <1>7, <2>1 DEF SearchInv, CallsAreRight, Rises
        <5>3. low'[c] <= index[v] /\ z \in OnStack
          BY <1>1, <1>7, <2>1, <3>2, <5>1, <5>2
        <5> QED  BY <5>1, <5>3
      <4> QED  BY <4>2, <4>3
    <3>4. CASE index[v] <= index[w]
      <4>1. c = u
        BY <1>1, <1>2, <1>6, <1>7, <2>1, <3>1, <3>4 DEF Below
      <4>2. Below(w, v)
        BY <1>1, <1>3 DEF Below
      <4>3. w # u
        BY <1>1, <1>7, <3>4
      <4>4. z \in Popped \/ (z \in OnStack /\ low[v] <= index[z])
        BY <1>8, <2>1, <3>1, <3>4, <4>2, <4>3 DEF LeadsOn
      <4> QED  BY <1>1, <1>7, <1>8, <3>2, <4>1, <4>4
    <3> QED  BY <1>1, <1>7, <2>1, <3>3, <3>4
  <2> QED  BY <2>2, <2>3, <2>4
<1>13. StackIsRight'
  <2>1. ASSUME NEW w \in OnStack PROVE \E c \in Calling' : index[c] <= index[w]
    <3>1. PICK c \in Calling : index[c] <= index[w]
      BY DEF SearchInv, StackIsRight
    <3>2. CASE c = v
      BY <1>1, <1>6, <1>7, <3>1, <3>2
    <3> QED  BY <1>3, <3>1, <3>2
  <2>2. ASSUME NEW w \in OnStack \ Calling' PROVE left'[w] = {}
    <3>1. w # u /\ w \in Nodes
      BY <1>1, <1>6
    <3>2. CASE w = v
      BY <1>8, <3>1, <3>2 DEF ReturnToEarlier, Return
    <3>3. CASE w # v
      BY <1>3, <1>8, <3>1, <3>3 DEF SearchInv, StackIsRight
    <3> QED  BY <3>2, <3>3
  <2> QED  BY <1>2, <2>1, <2>2 DEF StackIsRight
<1>14. SetsAreRight'
  BY <1>2 DEF SearchInv, SetsAreRight, IsCyclic
<1> QED  BY <1>9, <1>11, <1>12, <1>13, <1>14 DEF SearchInv, CallsAreRight

(* A visit that pops its set: what stands on the stack from v on, which is  *)
(* the component of each of its members.                                    *)
LEMMA PopsItsMembers ==
  ASSUME SearchType, NEW v \in OnStack,
         NEW place \in DOMAIN stack, stack[place] = v
  PROVE  LET members == {stack[n] : n \in place .. Len(stack)}
             rest == SubSeq(stack, 1, place - 1)
         IN  /\ members = {w \in OnStack : index[v] <= index[w]}
             /\ rest \in Seq(Nodes) /\ InOrder(rest)
             /\ {rest[n] : n \in DOMAIN rest} = {w \in OnStack : index[w] < index[v]}
<1> DEFINE rest == SubSeq(stack, 1, place - 1)
           most == Len(stack)
<1>2. /\ stack \in Seq(Nodes) /\ most \in Nat /\ DOMAIN stack = 1 .. most /\ place \in 1 .. most
      /\ \A k \in 1 .. most : stack[k] \in Nodes /\ index[stack[k]] \in Nat
  BY DEF SearchType
<1>3. \A k, m \in 1 .. most : k < m => index[stack[k]] < index[stack[m]]
  BY <1>2 DEF SearchType, InOrder
<1>4. OnStack = {stack[k] : k \in 1 .. most}
  BY <1>2 DEF OnStack
<1>5. /\ rest \in Seq(Nodes) /\ DOMAIN rest = 1 .. place - 1
      /\ \A k \in 1 .. place - 1 : rest[k] = stack[k]
  BY <1>2
<1> HIDE DEF most, rest
<1>6. \A k \in 1 .. most : /\ k < place => index[stack[k]] < index[v]
                           /\ k >= place => index[v] <= index[stack[k]]
  <2>1. ASSUME NEW k \in 1 .. most, k < place PROVE index[stack[k]] < index[v]
    BY <1>2, <1>3, <2>1
  <2>2. ASSUME NEW k \in 1 .. most, k >= place PROVE index[v] <= index[stack[k]]
    BY <1>2, <1>3, <2>2
  <2> QED  BY <2>1, <2>2
<1>7. {stack[n] : n \in place .. most} = {w \in OnStack : index[v] <= index[w]}
  <2>1. ASSUME NEW n \in place .. most PROVE stack[n] \in OnStack /\ index[v] <= index[stack[n]]
    <3>1. n \in 1 .. most /\ n >= place
      BY <1>2
    <3> QED  BY <1>4, <1>6, <3>1
  <2>2. ASSUME NEW w \in OnStack, index[v] <= index[w] PROVE \E n \in place .. most : w = stack[n]
    <3>1. PICK n \in 1 .. most : w = stack[n]
      BY <1>4
    <3>2. index[w] \in Nat /\ index[v] \in Nat
      BY <1>2, <3>1
    <3> QED  BY <1>2, <1>6, <2>2, <3>1, <3>2
  <2> QED  BY <2>1, <2>2
<1>8. {rest[n] : n \in DOMAIN rest} = {w \in OnStack : index[w] < index[v]}
  <2>1. ASSUME NEW n \in 1 .. place - 1 PROVE rest[n] \in OnStack /\ index[rest[n]] < index[v]
    <3>1. n \in 1 .. most /\ n < place
      BY <1>2
    <3>2. rest[n] = stack[n]
      BY <1>5
    <3> QED  BY <1>4, <1>6, <3>1, <3>2
  <2>2. ASSUME NEW w \in OnStack, index[w] < index[v] PROVE \E n \in 1 .. place - 1 : w = rest[n]
    <3>1. PICK n \in 1 .. most : w = stack[n]
      BY <1>4
    <3>2. index[w] \in Nat /\ index[v] \in Nat
      BY <1>2, <3>1
    <3>3. n \in 1 .. place - 1
      BY <1>2, <1>6, <2>2, <3>1, <3>2
    <3> QED  BY <1>5, <3>1, <3>3
  <2> QED  BY <1>5, <2>1, <2>2
<1>9. InOrder(rest)
  <2>1. ASSUME NEW k \in 1 .. place - 1, NEW m \in 1 .. place - 1, k < m PROVE index[rest[k]] < index[rest[m]]
    <3>1. k \in 1 .. most /\ m \in 1 .. most
      BY <1>2
    <3> QED  BY <1>3, <1>5, <2>1, <3>1
  <2> QED  BY <1>5, <2>1 DEF InOrder
<1> QED  BY <1>5, <1>7, <1>8, <1>9 DEF rest, most

LEMMA ReturnWithSetKeeps == ASSUME SearchInv, NEW v \in Nodes, ReturnWithSet(v) PROVE SearchInv'
<1> DEFINE place == CHOOSE n \in DOMAIN stack : stack[n] = v
           members == {stack[n] : n \in place .. Len(stack)}
<1>1. /\ SearchType /\ OnStack \subseteq Nodes /\ Calling \subseteq OnStack
      /\ low \in [Nodes -> Nat] /\ index \in [Nodes -> Nat] /\ left \in [Nodes -> SUBSET Nodes]
  BY DEF SearchInv, SearchType, Visited
<1>2. /\ graph' = graph /\ index' = index /\ Nodes' = Nodes /\ (\A w : Imports(w)' = Imports(w))
      /\ Visited' = Visited /\ low[v] = index[v] /\ left[v] = {}
  BY DEF ReturnWithSet, Return, Nodes, Imports, Visited
<1>3. /\ v \in Calling /\ \A c \in Calling : c # v => index[c] < index[v]
      /\ calls' \in Seq(Nodes) /\ InOrder(calls') /\ Calling' = Calling \ {v}
  BY <1>1, ReturnTo DEF ReturnWithSet
<1>4. v \in OnStack
  BY <1>1, <1>3
<1>5. /\ members = {w \in OnStack : index[v] <= index[w]}
      /\ stack' \in Seq(Nodes) /\ InOrder(stack') /\ OnStack' = {w \in OnStack : index[w] < index[v]}
  <2>1. stack' = SubSeq(stack, 1, place - 1)
    BY DEF ReturnWithSet
  <2>2. place \in DOMAIN stack /\ stack[place] = v
    BY <1>4 DEF OnStack
  <2> HIDE DEF place
  <2>3. /\ members = {w \in OnStack : index[v] <= index[w]}
        /\ stack' \in Seq(Nodes) /\ InOrder(stack')
        /\ {stack'[n] : n \in DOMAIN stack'} = {w \in OnStack : index[w] < index[v]}
    <3> DEFINE rest == SubSeq(stack, 1, place - 1)
    <3>1. /\ members = {w \in OnStack : index[v] <= index[w]}
          /\ rest \in Seq(Nodes) /\ InOrder(rest)
          /\ {rest[n] : n \in DOMAIN rest} = {w \in OnStack : index[w] < index[v]}
      BY <1>1, <1>4, <2>2, PopsItsMembers
    <3>2. rest = stack'
      BY <2>1
    <3> HIDE DEF rest, members
    <3> QED  BY <3>1, <3>2
  <2>4. OnStack' = {stack'[n] : n \in DOMAIN stack'}
    BY DEF OnStack
  <2> QED  BY <2>3, <2>4
<1>6. cycles' = IF members # {v} \/ v \in Imports(v) THEN cycles \cup {members} ELSE cycles
  BY DEF ReturnWithSet
<1> HIDE DEF members
<1>7. Popped' = Popped \cup members /\ members \cap Popped = {} /\ v \in members
  <2>1. OnStack \subseteq Visited
    BY <1>1 DEF SearchType
  <2>2. OnStack' = OnStack \ members /\ members \subseteq OnStack /\ v \in members
    BY <1>1, <1>4, <1>5
  <2> QED  BY <1>2, <2>1, <2>2 DEF Popped
<1>8. \A w \in OnStack : Below(w, v)
  <2>1. ASSUME NEW c \in Calling PROVE ~(index[v] < index[c])
    <3>1. index[c] \in Nat /\ index[v] \in Nat
      BY <1>1
    <3>2. c = v \/ index[c] < index[v]
      BY <1>3
    <3> QED  BY <3>1, <3>2
  <2> QED  BY <2>1 DEF Below
<1>9. \A w \in members : Imports(w) \subseteq Popped'
  <2>1. SUFFICES ASSUME NEW w \in members, NEW z \in Imports(w) PROVE z \in Popped \/ z \in members
    BY <1>7
  <2>2. w \in OnStack /\ index[v] <= index[w] /\ w \in Nodes /\ z \in Nodes
    BY <1>1, <1>5 DEF Imports
  <2>3. left[w] = {}
    <3>1. w \in Calling => w = v
      BY <1>1, <1>3, <2>2
    <3> QED  BY <1>2, <2>2, <3>1 DEF SearchInv, StackIsRight
  <2>4. LeadsOn(v, w)
    BY <1>3, <2>2 DEF SearchInv, CallsAreRight
  <2>5. z \in Popped \/ (z \in OnStack /\ low[v] <= index[z])
    BY <1>8, <2>2, <2>3, <2>4 DEF LeadsOn
  <2> QED  BY <1>2, <1>5, <2>5
<1>10. \A w \in Popped' : Imports(w) \subseteq Popped'
  BY <1>7, <1>9 DEF SearchInv, SetsAreRight
<1>11. \A w \in members : Reaches(graph, v, w) /\ Reaches(graph, w, v)
  BY <1>3, <1>5, <1>8 DEF SearchInv, CallsAreRight, Descends, Ascends
<1>12. Component(graph, v) = members
  <2>1. Popped \subseteq Nodes /\ Popped' \subseteq Nodes /\ members \subseteq Nodes
    BY <1>1, <1>2, <1>5 DEF Popped, Visited
  <2>2. ASSUME NEW w \in Component(graph, v) PROVE w \in members
    <3>1. Reaches(graph, v, w) /\ Reaches(graph, w, v)
      BY DEF Component
    <3>2. w \in Popped'
      BY <1>1, <1>7, <1>10, <2>1, <3>1, StaysInside
    <3>3. w \in Popped => v \in Popped
      BY <1>1, <2>1, <3>1, StaysInside DEF SearchInv, SetsAreRight
    <3> QED  BY <1>7, <3>2, <3>3
  <2> QED  BY <1>11, <2>1, <2>2 DEF Component, Nodes
<1>13. \A w \in members : Component(graph, w) = members
  BY <1>11, <1>12, OneComponent
<1>14. SetsAreRight'
  <2>1. \A w : IsCyclic(w)' = IsCyclic(w)
    BY <1>2 DEF IsCyclic
  <2>2. ASSUME NEW w \in members PROVE IsCyclic(w) <=> members # {v} \/ v \in Imports(v)
    <3>1. CASE members = {v}
      BY <1>12, <3>1 DEF IsCyclic, Imports
    <3>2. CASE members # {v}
      BY <1>7, <1>13, <3>2 DEF IsCyclic
    <3> QED  BY <3>1, <3>2
  <2>3. {Component(graph, w) : w \in {x \in Popped' : IsCyclic(x)}}
           = {Component(graph, w) : w \in {x \in Popped : IsCyclic(x)}}
             \cup (IF members # {v} \/ v \in Imports(v) THEN {members} ELSE {})
    BY <1>7, <1>13, <2>2
  <2>4. cycles = {Component(graph, w) : w \in {x \in Popped : IsCyclic(x)}}
    BY DEF SearchInv, SetsAreRight
  <2> QED  BY <1>2, <1>6, <1>10, <2>1, <2>3, <2>4 DEF SetsAreRight
<1>15. OnStack' \subseteq OnStack /\ Calling' \subseteq OnStack'
  BY <1>1, <1>3, <1>5
<1>16. /\ low' \in [Nodes -> Nat] /\ left' \in [Nodes -> SUBSET Nodes]
       /\ \A w \in Nodes : left'[w] \subseteq left[w]
       /\ \A w \in Nodes : left[w] \ left'[w] \subseteq {v}
       /\ \A c \in Calling' : low'[c] = low[c]
  <2>1. CASE low' = low /\ left' = left
    BY <1>1, <2>1
  <2>2. CASE \E u \in Calling' : /\ \A c \in Calling' : c # u => index[c] < index[u]
                                 /\ low' = [low EXCEPT ![u] = Least(low[u], low[v])]
                                 /\ left' = [left EXCEPT ![u] = left[u] \ {v}]
    <3>1. PICK u \in Calling' : /\ low' = [low EXCEPT ![u] = Least(low[u], low[v])]
                                /\ left' = [left EXCEPT ![u] = left[u] \ {v}]
      BY <2>2
    <3>2. u \in Calling /\ u \in Nodes /\ index[u] < index[v] /\ v \in Nodes
      BY <1>1, <1>3
    <3>3. low[u] <= index[u] /\ low[u] \in Nat /\ low[v] \in Nat /\ index[u] \in Nat /\ index[v] \in Nat
      BY <1>1, <3>2 DEF SearchInv, CallsAreRight, Rises
    <3>4. Least(low[u], low[v]) = low[u]
      BY <1>2, <3>2, <3>3 DEF Least
    <3>5. low' = low
      BY <1>1, <3>1, <3>2, <3>4
    <3> QED  BY <1>1, <3>1, <3>2, <3>5
  <2> QED  BY <1>1, <2>1, <2>2, ReturnTo DEF ReturnWithSet
<1>17. SearchType'
  <2>1. \A w \in Nodes : left'[w] \subseteq Imports(w)
    BY <1>1, <1>16 DEF SearchType
  <2> QED  BY <1>1, <1>2, <1>3, <1>5, <1>15, <1>16, <2>1 DEF SearchType, InOrder
<1>18. ASSUME NEW c \in Calling' PROVE Rises(c)'
  <2>1. Rises(c) /\ c \in Nodes /\ index[c] < index[v]
    BY <1>1, <1>3 DEF SearchInv, CallsAreRight
  <2>2. PICK w \in OnStack : index[w] = low[c] /\ Reaches(graph, c, w)
    BY <2>1 DEF Rises
  <2>3. w \in OnStack'
    BY <1>1, <1>4, <1>5, <2>1, <2>2 DEF Rises
  <2> QED  BY <1>2, <1>16, <2>1, <2>2, <2>3 DEF Rises
<1>19. ASSUME NEW c \in Calling', NEW w \in OnStack' PROVE Descends(c, w)' /\ Ascends(c, w)' /\ LeadsOn(c, w)'
  <2>1. /\ c \in Calling /\ w \in OnStack /\ w \in Nodes /\ index[w] < index[v]
        /\ Descends(c, w) /\ Ascends(c, w) /\ LeadsOn(c, w)
    BY <1>1, <1>3, <1>5 DEF SearchInv, CallsAreRight
  <2>2. Below(w, c)' => Below(w, c)
    BY <1>2, <1>3, <2>1 DEF Below
  <2>3. LeadsOn(c, w)'
    <3>1. SUFFICES ASSUME index[c] <= index[w], Below(w, c)', NEW z \in Imports(w) \ left'[w]
                   PROVE  z \in Popped' \/ (z \in OnStack' /\ low'[c] <= index[z])
      BY <1>2 DEF LeadsOn
    <3>2. CASE z = v
      BY <1>7, <3>2
    <3>3. CASE z # v
      <4>1. z \in Popped \/ (z \in OnStack /\ low[c] <= index[z])
        BY <1>16, <2>1, <2>2, <3>1, <3>3 DEF LeadsOn
      <4>2. z \in OnStack => z \in members \/ z \in OnStack'
        BY <1>1, <1>4, <1>5
      <4> QED  BY <1>7, <1>16, <4>1, <4>2
    <3> QED  BY <3>2, <3>3
  <2> QED  BY <1>2, <2>1, <2>2, <2>3 DEF Descends, Ascends
<1>20. StackIsRight'
  <2>1. ASSUME NEW w \in OnStack' PROVE \E c \in Calling' : index[c] <= index[w]
    <3>1. PICK c \in Calling : index[c] <= index[w]
      BY <1>15 DEF SearchInv, StackIsRight
    <3>2. c # v
      BY <1>1, <1>4, <1>5, <3>1
    <3> QED  BY <1>3, <3>1, <3>2
  <2>2. ASSUME NEW w \in OnStack' \ Calling' PROVE left'[w] = {}
    <3>1. w \in OnStack \ Calling /\ w \in Nodes
      BY <1>1, <1>3, <1>4, <1>5
    <3> QED  BY <1>16, <3>1 DEF SearchInv, StackIsRight
  <2> QED  BY <1>2, <2>1, <2>2 DEF StackIsRight
<1> QED  BY <1>14, <1>17, <1>18, <1>19, <1>20 DEF SearchInv, CallsAreRight

LEMMA SearchStep == SearchInv /\ [SearchNext]_searchVars => SearchInv'
<1> SUFFICES ASSUME SearchInv, [SearchNext]_searchVars PROVE SearchInv'
  OBVIOUS
<1>1. CASE VisitFile
  BY <1>1, EnterKeeps DEF VisitFile
<1>2. CASE VisitImport
  <2>1. PICK v \in left[calls[Len(calls)]] : Enter(v)
    BY <1>2 DEF VisitImport
  <2>2. calls[Len(calls)] \in Nodes
    BY <1>2 DEF VisitImport, SearchInv, SearchType
  <2>3. v \in Nodes
    BY <2>1, <2>2 DEF SearchInv, SearchType
  <2> QED  BY <2>1, <2>3, EnterKeeps
<1>3. ASSUME NEW v \in Nodes, LookAt(v) \/ ReturnToEarlier(v) \/ ReturnWithSet(v) PROVE SearchInv'
  BY <1>3, LookAtKeeps, ReturnToEarlierKeeps, ReturnWithSetKeeps
<1>4. CASE UNCHANGED searchVars
  <2>1. /\ graph' = graph /\ index' = index /\ low' = low /\ stack' = stack /\ calls' = calls /\ left' = left /\ cycles' = cycles
        /\ Nodes' = Nodes /\ (\A w : Imports(w)' = Imports(w)) /\ OnStack' = OnStack /\ Visited' = Visited
    BY <1>4 DEF searchVars, Nodes, Imports, OnStack, Visited
  <2>2. Calling' = Calling /\ Popped' = Popped /\ \A w, u : Below(w, u)' = Below(w, u)
    BY <2>1 DEF Calling, Popped, Below
  <2>3. SearchType'
    BY <2>1, <2>2 DEF SearchInv, SearchType, InOrder
  <2>4. CallsAreRight'
    BY <2>1, <2>2 DEF SearchInv, CallsAreRight, Rises, Descends, Ascends, LeadsOn
  <2>5. StackIsRight' /\ SetsAreRight'
    BY <2>1, <2>2 DEF SearchInv, StackIsRight, SetsAreRight, IsCyclic
  <2> QED  BY <2>3, <2>4, <2>5 DEF SearchInv
<1> QED  BY <1>1, <1>2, <1>3, <1>4 DEF SearchNext

(* evaluateCycles, for every set of imports and every order in which they   *)
(* are looked at: what Tarjan's search has found when it has visited every  *)
(* file are the sets of files that import each other.                       *)
THEOREM EveryCycleIsFound == SearchSpec => []CyclesAreFound
<1>1. SearchInv => CyclesAreFound
  <2> SUFFICES ASSUME SearchInv, calls = << >>, Visited = Nodes PROVE cycles = Cycles(graph)
    BY DEF CyclesAreFound
  <2>1. Calling = {}
    BY DEF Calling
  <2>2. Popped = Nodes
    BY <2>1 DEF SearchInv, StackIsRight, Popped
  <2> QED  BY <2>2 DEF SearchInv, SetsAreRight, IsCyclic, Cycles, Nodes
<1> QED  BY <1>1, SearchStart, SearchStep, PTL DEF SearchSpec
=============================================================================
