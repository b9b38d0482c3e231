---------------------------- MODULE LedgerProofs ----------------------------
(***************************************************************************)
(* What clones of a repository share.  The ledger, for any number of       *)
(* repositories, calls, attempts and git failures: every chain verifies, a *)
(* caller is told the truth, a call gives up only when overtaken or failed *)
(* by git, and LedgerChain implements LedgerLog.  And a branch on its way  *)
(* to main, for any files, edits and number of commits: what the pre-push  *)
(* hook and CI let through.                                                *)
(***************************************************************************)
EXTENDS LedgerChain, Contribution, SequenceTheorems, FiniteSetTheorems, WellFoundedInduction, NaturalsInduction, TLAPS

(* A call holds a tip that verifies, since it read it from a ref; and as    *)
(* long as git told it the truth, that tip is where the ledger was, so a    *)
(* ref that differs from it has grown.                                      *)
Grown(c) == Len(ref[RepoOf[c]]) + hit[c]

Counted(c) ==
  /\ pc[c] # "call" => startLen[c] <= Len(ref[RepoOf[c]])
  /\ pc[c] \in {"read", "exhausted"} => attempt[c] + startLen[c] <= Grown(c)
  /\ pc[c] = "exhausted" => attempt[c] = MaxAttempts
  /\ pc[c] = "tip" =>
       \/ attempt[c] + 1 + startLen[c] <= Grown(c)
       \/ /\ IsPrefix(tip[c], ref[RepoOf[c]])
          /\ attempt[c] + startLen[c] <= Len(tip[c]) + hit[c]
  /\ pc[c] = "call" => attempt[c] = 0

LinkedInv == /\ TypeOK
             /\ Linked
             /\ \A c \in Calls : ChainOK(tip[c])

CountInv == TypeOK /\ \A c \in Calls : Counted(c)
-----------------------------------------------------------------------------
(* Sequences.                                                              *)

LEMMA PrefixIs ==
  ASSUME NEW S, NEW s \in Seq(S), NEW t \in Seq(S)
  PROVE  IsPrefix(s, t) <=> /\ Len(s) <= Len(t)
                            /\ \A i \in 1 .. Len(s) : s[i] = t[i]
<1>1. SUFFICES ASSUME Len(s) <= Len(t)
               PROVE  SubSeq(s, 1, Len(s)) = SubSeq(t, 1, Len(s))
                        <=> \A i \in 1 .. Len(s) : s[i] = t[i]
  BY DEF IsPrefix
<1>2. SubSeq(s, 1, Len(s)) = [i \in 1 .. Len(s) |-> s[i]]
  OBVIOUS
<1>3. SubSeq(t, 1, Len(s)) = [i \in 1 .. Len(s) |-> t[i]]
  BY <1>1
<1> QED  BY <1>2, <1>3

(* A longer chain keeps its prefixes, and a proper prefix is shorter.       *)
LEMMA PrefixGrows ==
  ASSUME NEW S, NEW s \in Seq(S), NEW t \in Seq(S), NEW u \in Seq(S),
         IsPrefix(s, t), IsPrefix(t, u)
  PROVE  IsPrefix(s, u)
BY PrefixIs

LEMMA PrefixShorter ==
  ASSUME NEW S, NEW s \in Seq(S), NEW t \in Seq(S), IsPrefix(s, t), s # t
  PROVE  Len(s) < Len(t)
<1>1. Len(s) <= Len(t) /\ \A i \in 1 .. Len(s) : s[i] = t[i]
  BY PrefixIs
<1>2. CASE Len(s) = Len(t)
  BY <1>1, <1>2
<1> QED  BY <1>1, <1>2

LEMMA PrefixAppend ==
  ASSUME NEW S, NEW s \in Seq(S), NEW e \in S
  PROVE  /\ Append(s, e) \in Seq(S)
         /\ Len(Append(s, e)) = Len(s) + 1
         /\ IsPrefix(s, Append(s, e))
<1>1. /\ Append(s, e) \in Seq(S) /\ Len(Append(s, e)) = Len(s) + 1
      /\ \A i \in 1 .. Len(s) : Append(s, e)[i] = s[i]
  OBVIOUS
<1>2. ASSUME NEW t \in Seq(S), Len(s) <= Len(t), \A i \in 1 .. Len(s) : s[i] = t[i]
      PROVE  IsPrefix(s, t)
  BY <1>2, PrefixIs
<1>3. Len(s) <= Len(Append(s, e))
  BY <1>1
<1> QED  BY <1>1, <1>2, <1>3

LEMMA PrefixSelf == ASSUME NEW S, NEW s \in Seq(S) PROVE IsPrefix(s, s)
BY PrefixIs
-----------------------------------------------------------------------------
(* The commit a call makes.                                                *)

LEMMA CommitType ==
  ASSUME TypeOK, NEW c \in Calls
  PROVE  /\ [by |-> c, try |-> attempt[c], prev |-> NextPrev(tip[c])] \in Entries
         /\ NewCommit(c) \in Chains
<1>1. tip[c] \in Seq(Entries) /\ attempt[c] \in Nat
  BY AttemptsAssumption DEF TypeOK, Chains
<1>2. NextPrev(tip[c]) \in {Genesis} \cup (Calls \X Nat)
  <2>1. CASE tip[c] = << >>
    BY <2>1 DEF NextPrev
  <2>2. CASE tip[c] # << >>
    <3>1. tip[c][Len(tip[c])] \in Entries
      BY <1>1, <2>2
    <3> QED  BY <2>2, <3>1 DEF NextPrev, EntryHash, Entries
  <2> QED  BY <2>1, <2>2
<1>3. [by |-> c, try |-> attempt[c], prev |-> NextPrev(tip[c])] \in Entries
  BY <1>1, <1>2 DEF Entries
<1> QED  BY <1>1, <1>3, PrefixAppend DEF NewCommit, Chains

LEMMA CommitLinked ==
  ASSUME TypeOK, NEW c \in Calls, ChainOK(tip[c])
  PROVE  ChainOK(NewCommit(c))
<1> DEFINE t == tip[c]
           e == [by |-> c, try |-> attempt[c], prev |-> NextPrev(tip[c])]
<1>1. t \in Seq(Entries) /\ e \in Entries /\ e.prev = NextPrev(t)
  BY CommitType DEF TypeOK, Chains
<1>2. SUFFICES ASSUME NEW i \in 1 .. Len(Append(t, e))
               PROVE  Append(t, e)[i].prev =
                        IF i = 1 THEN Genesis ELSE EntryHash(Append(t, e)[i - 1])
  BY DEF ChainOK, NewCommit
<1> HIDE DEF e, t
<1>3. CASE i <= Len(t)
  <2>1. i \in 1 .. Len(t) /\ Append(t, e)[i] = t[i]
    BY <1>1, <1>2, <1>3
  <2>2. i # 1 => Append(t, e)[i - 1] = t[i - 1]
    BY <1>1, <1>2, <1>3
  <2> QED  BY <2>1, <2>2 DEF ChainOK, t
<1>4. CASE i = Len(t) + 1
  <2>1. Append(t, e)[i].prev = NextPrev(t)
    BY <1>1, <1>4
  <2>2. CASE t = << >>
    BY <1>4, <2>1, <2>2 DEF NextPrev
  <2>3. CASE t # << >>
    <3>1. i # 1 /\ Append(t, e)[i - 1] = t[Len(t)]
      BY <1>1, <1>4, <2>3
    <3> QED  BY <2>1, <2>3, <3>1 DEF NextPrev
  <2> QED  BY <2>2, <2>3
<1> QED  BY <1>1, <1>2, <1>3, <1>4
-----------------------------------------------------------------------------
(* Type correctness.                                                       *)

LEMMA RepoOfCall == ASSUME NEW c \in Calls, TypeOK PROVE RepoOf[c] \in Clones /\ RepoOf[c] \in Repos
BY CallsAssumption DEF Repos

LEMMA TypeInit == Init => TypeOK
<1>1. << >> \in Chains
  BY DEF Chains
<1> QED  BY <1>1, AttemptsAssumption DEF Init, TypeOK, Places, Working

LEMMA FaultHits == ASSUME NEW c, Fault(c) PROVE hit' = [hit EXCEPT ![c] = @ + 1]
BY Zenon DEF Fault

LEMMA RetryType ==
  ASSUME TypeOK, NEW c \in Calls, pc[c] = "tip", Retry(c)
  PROVE  /\ attempt' \in [Calls -> 0 .. MaxAttempts]
         /\ pc' \in [Calls -> Places]
         /\ \A d \in Calls : pc'[d] \in Working \cup {"call"} => attempt'[d] < MaxAttempts
         /\ tip' \in [Calls -> Chains]
<1>1. attempt[c] \in 0 .. MaxAttempts /\ attempt[c] < MaxAttempts
  BY DEF TypeOK, Working
<1>2. attempt[c] + 1 \in 0 .. MaxAttempts
  BY <1>1, AttemptsAssumption
<1>3. << >> \in Chains
  BY DEF Chains
<1>4. attempt' = [attempt EXCEPT ![c] = attempt[c] + 1]
  BY DEF Retry
<1>5. pc' = [pc EXCEPT ![c] = IF attempt[c] + 1 < MaxAttempts THEN "read" ELSE "exhausted"]
  BY DEF Retry, Leave, Goto
<1>6. tip' = [tip EXCEPT ![c] = << >>]
  BY DEF Retry, Leave
<1> QED  BY <1>1, <1>2, <1>3, <1>4, <1>5, <1>6 DEF TypeOK, Places, Working

LEMMA TypeStep == TypeOK /\ [Next]_vars => TypeOK'
<1> SUFFICES ASSUME TypeOK, [Next]_vars PROVE TypeOK'
  OBVIOUS
<1>0. << >> \in Chains /\ \A r \in Repos : ref[r] \in Chains /\ Len(ref[r]) \in Nat
  BY DEF TypeOK, Chains
<1>1. CASE UNCHANGED vars
  BY <1>1 DEF TypeOK, vars
<1>2. ASSUME NEW c \in Calls, CallStep(c)
      PROVE  TypeOK'
  <2>0. RepoOf[c] \in Repos
    BY RepoOfCall
  <2>1. CASE Call(c)
    BY <1>0, <2>0, <2>1 DEF Call, Goto, TypeOK, Places, Working
  <2>2. CASE ReadTip(c)
    BY <1>0, <2>0, <2>2 DEF ReadTip, Goto, TypeOK, Places, Working
  <2>3. CASE ReadTipFails(c)
    <3>1. hit' = [hit EXCEPT ![c] = @ + 1]
      BY <2>3, FaultHits DEF ReadTipFails
    <3> QED  BY <1>0, <2>3, <3>1 DEF ReadTipFails, Goto, TypeOK, Places, Working
  <2>4. CASE BuildFails(c)
    <3>1. hit' = [hit EXCEPT ![c] = @ + 1]
      BY <2>4, FaultHits DEF BuildFails
    <3> QED  BY <1>0, <2>4, <3>1 DEF BuildFails, Leave, Goto, TypeOK, Places, Working
  <2>5. CASE Cas(c)
    <3>1. CASE Swap(c) /\ Leave(c, "landed") /\ UNCHANGED attempt
      BY <1>0, <2>0, <2>5, <3>1, CommitType DEF Cas, Swap, Leave, Goto, TypeOK, Places, Working
    <3>2. CASE Retry(c) /\ UNCHANGED ref
      BY <2>5, <3>2, RetryType DEF Cas, TypeOK
    <3> QED  BY <2>5, <3>1, <3>2 DEF Cas
  <2>6. CASE CasFails(c)
    <3>1. hit' = [hit EXCEPT ![c] = @ + 1]
      BY <2>6, FaultHits DEF CasFails
    <3> QED  BY <2>6, <3>1, RetryType DEF CasFails, TypeOK
  <2>7. CASE CasUnreported(c)
    <3>1. hit' = [hit EXCEPT ![c] = @ + 1]
      BY <2>7, FaultHits DEF CasUnreported
    <3>2. ref' \in [Repos -> Chains]
      BY <2>0, <2>7, CommitType DEF CasUnreported, Swap, TypeOK
    <3> QED  BY <2>7, <3>1, <3>2, RetryType DEF CasUnreported, TypeOK
  <2>8. CASE Return(c)
    BY <2>8 DEF Return, Goto, TypeOK, Places, Working
  <2>9. CASE Crash(c)
    BY <1>0, <2>9 DEF Crash, Leave, Goto, TypeOK, Places, Working
  <2> QED  BY <1>2, <2>1, <2>2, <2>3, <2>4, <2>5, <2>6, <2>7, <2>8, <2>9 DEF CallStep
<1>3. ASSUME NEW r \in Clones, Push(r) \/ Fetch(r)
      PROVE  TypeOK'
  BY <1>0, <1>3 DEF Push, Fetch, FastForward, TypeOK, Repos
<1> QED  BY <1>1, <1>2, <1>3 DEF Next

(* Every reachable state of the ledger is well typed.                      *)
THEOREM LedgerTypeCorrect == Spec => []TypeOK
BY TypeInit, TypeStep, PTL DEF Spec
-----------------------------------------------------------------------------
(* Every chain verifies.                                                   *)

LEMMA LinkedInit == Init => LinkedInv
<1> SUFFICES ASSUME Init PROVE LinkedInv
  OBVIOUS
<1>1. ChainOK(<< >>)
  BY DEF ChainOK
<1> QED  BY <1>1, TypeInit DEF Init, LinkedInv, Linked

LEMMA LinkedStep == LinkedInv /\ [Next]_vars => LinkedInv'
<1> SUFFICES ASSUME LinkedInv, [Next]_vars PROVE LinkedInv'
  OBVIOUS
<1>0. TypeOK /\ TypeOK'
  BY TypeStep DEF LinkedInv
<1>1. SUFFICES /\ \A r \in Repos : ChainOK(ref'[r])
               /\ \A c \in Calls : ChainOK(tip'[c])
  BY <1>0 DEF LinkedInv, Linked, ChainOK
<1>2. /\ ChainOK(<< >>)
      /\ \A r \in Repos : ChainOK(ref[r])
      /\ \A c \in Calls : ChainOK(tip[c])
  BY DEF LinkedInv, Linked, ChainOK
<1>3. /\ ref \in [Repos -> Chains] /\ tip \in [Calls -> Chains]
      /\ \A c \in Calls : RepoOf[c] \in Repos
  BY <1>0, RepoOfCall DEF TypeOK
<1>4. ASSUME NEW c \in Calls, Swap(c)
      PROVE  \A r \in Repos : ChainOK(ref'[r])
  <2>1. ChainOK(NewCommit(c))
    BY <1>0, <1>2, CommitLinked
  <2> QED  BY <1>2, <1>3, <1>4, <2>1 DEF Swap
<1>5. ASSUME NEW c \in Calls, NEW place, Leave(c, place)
      PROVE  \A d \in Calls : ChainOK(tip'[d])
  BY <1>2, <1>3, <1>5 DEF Leave
<1>6. CASE UNCHANGED vars
  BY <1>2, <1>6 DEF vars
<1>7. ASSUME NEW c \in Calls, CallStep(c)
      PROVE  /\ \A r \in Repos : ChainOK(ref'[r])
             /\ \A d \in Calls : ChainOK(tip'[d])
  <2>1. CASE Call(c) \/ Return(c)
    BY <1>2, <2>1 DEF Call, Return
  <2>2. CASE ReadTip(c) \/ ReadTipFails(c)
    BY <1>2, <1>3, <2>2 DEF ReadTip, ReadTipFails
  <2>3. CASE BuildFails(c) \/ Crash(c)
    BY <1>2, <1>5, <2>3 DEF BuildFails, Crash
  <2>4. CASE Cas(c)
    BY <1>2, <1>4, <1>5, <2>4 DEF Cas, Retry
  <2>5. CASE CasFails(c)
    BY <1>2, <1>5, <2>5 DEF CasFails, Retry
  <2>6. CASE CasUnreported(c)
    BY <1>4, <1>5, <2>6 DEF CasUnreported, Retry
  <2> QED  BY <1>7, <2>1, <2>2, <2>3, <2>4, <2>5, <2>6 DEF CallStep
<1>8. ASSUME NEW r \in Clones, Push(r) \/ Fetch(r)
      PROVE  /\ \A s \in Repos : ChainOK(ref'[s])
             /\ \A d \in Calls : ChainOK(tip'[d])
  BY <1>2, <1>3, <1>8 DEF Push, Fetch, FastForward, Repos
<1> QED  BY <1>6, <1>7, <1>8 DEF Next

(* Whatever appends, failures, crashes, pushes and fetches interleave, the  *)
(* chain verifyLedgerChain walks is whole in every repository.              *)
THEOREM LedgersVerify == Spec => []Linked
<1>1. LinkedInv => Linked
  BY DEF LinkedInv
<1> QED  BY <1>1, LinkedInit, LinkedStep, PTL DEF Spec
-----------------------------------------------------------------------------
(* No step shortens or rewrites a ledger.                                  *)

LEMMA SwapGrows ==
  ASSUME TypeOK, NEW c \in Calls, Swap(c), NEW r \in Repos
  PROVE  /\ IsPrefix(ref[r], ref'[r])
         /\ Len(ref'[r]) = Len(ref[r]) + (IF r = RepoOf[c] THEN 1 ELSE 0)
<1>0. ref[r] \in Seq(Entries) /\ tip[c] \in Seq(Entries)
  BY DEF TypeOK, Chains
<1>1. CASE r = RepoOf[c]
  <2>1. ref'[r] = NewCommit(c) /\ ref[r] = tip[c]
    BY <1>1 DEF Swap, TypeOK
  <2>2. /\ Len(NewCommit(c)) = Len(tip[c]) + 1
        /\ IsPrefix(tip[c], NewCommit(c))
    BY <1>0, CommitType, PrefixAppend DEF NewCommit
  <2> QED  BY <1>1, <2>1, <2>2
<1>2. CASE r # RepoOf[c]
  <2>1. ref'[r] = ref[r]
    BY <1>2 DEF Swap, TypeOK
  <2> QED  BY <1>0, <1>2, <2>1, PrefixSelf
<1> QED  BY <1>1, <1>2

LEMMA RefsGrow ==
  ASSUME TypeOK, [Next]_vars, NEW r \in Repos
  PROVE  IsPrefix(ref[r], ref'[r]) /\ Len(ref[r]) <= Len(ref'[r])
<1>0. ref[r] \in Seq(Entries) /\ Len(ref[r]) \in Nat
  BY DEF TypeOK, Chains
<1>1. CASE ref'[r] = ref[r]
  BY <1>0, <1>1, PrefixSelf
<1>2. ASSUME NEW c \in Calls, CallStep(c), ref'[r] # ref[r]
      PROVE  IsPrefix(ref[r], ref'[r]) /\ Len(ref[r]) <= Len(ref'[r])
  <2>1. Swap(c)
    BY <1>2 DEF CallStep, Call, ReadTip, ReadTipFails, BuildFails, Cas, CasFails,
                CasUnreported, Return, Crash
  <2>2. IsPrefix(ref[r], ref'[r])
    BY <2>1, SwapGrows
  <2> QED  BY <2>2 DEF IsPrefix
<1>3. ASSUME NEW k \in Clones, Push(k) \/ Fetch(k), ref'[r] # ref[r]
      PROVE  IsPrefix(ref[r], ref'[r]) /\ Len(ref[r]) <= Len(ref'[r])
  <2>1. IsPrefix(ref[r], ref'[r])
    BY <1>3 DEF Push, Fetch, FastForward, TypeOK, Repos
  <2> QED  BY <2>1 DEF IsPrefix
<1> QED  BY <1>1, <1>2, <1>3 DEF Next, vars
-----------------------------------------------------------------------------
(* Retries run out only against progress or failures.                      *)

(* A call that does not move keeps its count while the ledger grows.        *)
LEMMA CountKept ==
  ASSUME TypeOK, [Next]_vars, TypeOK', NEW d \in Calls, Counted(d),
         pc'[d] = pc[d], attempt'[d] = attempt[d], tip'[d] = tip[d],
         startLen'[d] = startLen[d], hit'[d] = hit[d]
  PROVE  Counted(d)'
<1>1. RepoOf[d] \in Repos
  BY RepoOfCall
<1>2. /\ ref[RepoOf[d]] \in Seq(Entries) /\ ref'[RepoOf[d]] \in Seq(Entries)
      /\ tip[d] \in Seq(Entries)
  BY <1>1 DEF TypeOK, Chains
<1>3. IsPrefix(ref[RepoOf[d]], ref'[RepoOf[d]]) /\ Len(ref[RepoOf[d]]) <= Len(ref'[RepoOf[d]])
  BY <1>1, RefsGrow
<1>4. IsPrefix(tip[d], ref[RepoOf[d]]) => IsPrefix(tip[d], ref'[RepoOf[d]])
  BY <1>2, <1>3, PrefixGrows
<1>5. /\ Len(ref[RepoOf[d]]) \in Nat /\ Len(ref'[RepoOf[d]]) \in Nat /\ Len(tip[d]) \in Nat
      /\ attempt[d] \in Nat /\ startLen[d] \in Nat /\ hit[d] \in Nat
  BY <1>1, <1>2, AttemptsAssumption DEF TypeOK
<1>6. pc[d] # "call" => startLen'[d] <= Len(ref'[RepoOf[d]])
  BY <1>3, <1>5 DEF Counted
<1>7. pc[d] \in {"read", "exhausted"} => attempt'[d] + startLen'[d] <= Grown(d)'
  BY <1>3, <1>5 DEF Counted, Grown
<1>8. ASSUME pc[d] = "tip", attempt[d] + 1 + startLen[d] <= Grown(d)
      PROVE  attempt'[d] + 1 + startLen'[d] <= Grown(d)'
  BY <1>3, <1>5, <1>8 DEF Grown
<1>9. pc[d] = "tip" => \/ attempt[d] + 1 + startLen[d] <= Grown(d)
                       \/ /\ IsPrefix(tip[d], ref[RepoOf[d]])
                          /\ attempt[d] + startLen[d] <= Len(tip[d]) + hit[d]
  BY DEF Counted
<1> QED  BY <1>4, <1>6, <1>7, <1>8, <1>9 DEF Counted

LEMMA CountInit == Init => CountInv
<1> SUFFICES ASSUME Init PROVE CountInv
  OBVIOUS
<1>1. ASSUME NEW c \in Calls PROVE Counted(c)
  BY DEF Init, Counted
<1> QED  BY <1>1, TypeInit DEF CountInv

(* A refused swap: either the count was already covered, or the ref has     *)
(* moved past the tip.                                                      *)
LEMMA RetryCounted ==
  ASSUME TypeOK, TypeOK', [Next]_vars, NEW c \in Calls, Counted(c), pc[c] = "tip", Retry(c),
         startLen' = startLen,
         \/ hit' = [hit EXCEPT ![c] = @ + 1]
         \/ hit' = hit /\ ref[RepoOf[c]] # tip[c]
  PROVE  Counted(c)'
<1>1. RepoOf[c] \in Repos
  BY RepoOfCall
<1>2. ref[RepoOf[c]] \in Seq(Entries) /\ tip[c] \in Seq(Entries) /\ ref'[RepoOf[c]] \in Seq(Entries)
  BY <1>1 DEF TypeOK, Chains
<1>3. /\ Len(ref[RepoOf[c]]) \in Nat /\ Len(ref'[RepoOf[c]]) \in Nat /\ Len(tip[c]) \in Nat
      /\ attempt[c] \in Nat /\ attempt[c] < MaxAttempts /\ MaxAttempts \in Nat
      /\ startLen[c] \in Nat /\ hit[c] \in Nat
  BY <1>1, <1>2, AttemptsAssumption DEF TypeOK, Working
<1>4. Len(ref[RepoOf[c]]) <= Len(ref'[RepoOf[c]])
  BY <1>1, RefsGrow
<1>5. attempt'[c] = attempt[c] + 1 /\ startLen'[c] = startLen[c]
  BY DEF Retry, TypeOK
<1>6. pc'[c] = IF attempt[c] + 1 < MaxAttempts THEN "read" ELSE "exhausted"
  BY DEF Retry, Leave, Goto, TypeOK
<1>9. PICK a \in Nat, s \in Nat, l \in Nat, m \in Nat, t \in Nat, h \in Nat, k \in Nat :
        /\ a = attempt[c] /\ s = startLen[c] /\ t = Len(tip[c])
        /\ l = Len(ref[RepoOf[c]]) /\ m = Len(ref'[RepoOf[c]])
        /\ h = hit[c] /\ k = hit'[c]
  BY <1>3 DEF TypeOK
<1>10. \/ a + 1 + s <= l + h
       \/ IsPrefix(tip[c], ref[RepoOf[c]]) /\ a + s <= t + h
  BY <1>9 DEF Counted, Grown
<1>7. a + 1 + s <= m + k
  <2>1. CASE hit' = [hit EXCEPT ![c] = @ + 1]
    <3>1. k = h + 1
      BY <1>9, <2>1 DEF TypeOK
    <3>2. IsPrefix(tip[c], ref[RepoOf[c]]) => t <= l
      BY <1>9 DEF IsPrefix
    <3>3. l <= m
      BY <1>4, <1>9
    <3>4. a + s <= l + h
      BY ONLY <1>10, <3>2
    <3> QED  BY ONLY <3>1, <3>3, <3>4
  <2>2. CASE hit' = hit /\ ref[RepoOf[c]] # tip[c]
    <3>1. IsPrefix(tip[c], ref[RepoOf[c]]) => t < l
      BY <1>2, <1>9, <2>2, PrefixShorter
    <3>2. k = h /\ l <= m
      BY <1>4, <1>9, <2>2
    <3>3. a + 1 + s <= l + h
      BY ONLY <1>10, <3>1
    <3> QED  BY ONLY <3>2, <3>3
  <2> QED  BY <2>1, <2>2
<1>8. startLen[c] <= Len(ref'[RepoOf[c]])
  BY <1>3, <1>4 DEF Counted
<1>11. attempt'[c] + startLen'[c] <= Grown(c)'
  BY <1>3, <1>5, <1>7, <1>9 DEF Grown
<1> QED  BY <1>3, <1>5, <1>6, <1>8, <1>11 DEF Counted

LEMMA CountStep == CountInv /\ [Next]_vars => CountInv'
<1> SUFFICES ASSUME CountInv, [Next]_vars PROVE CountInv'
  OBVIOUS
<1>0. TypeOK /\ TypeOK' /\ \A c \in Calls : Counted(c)
  BY TypeStep DEF CountInv
<1>1. SUFFICES ASSUME NEW d \in Calls PROVE Counted(d)'
  BY <1>0 DEF CountInv
<1>2. CASE /\ pc'[d] = pc[d] /\ attempt'[d] = attempt[d] /\ tip'[d] = tip[d]
           /\ startLen'[d] = startLen[d] /\ hit'[d] = hit[d]
  BY <1>0, <1>2, CountKept
<1>3. CASE UNCHANGED vars
  BY <1>2, <1>3 DEF vars
<1>4. ASSUME NEW r \in Clones, Push(r) \/ Fetch(r) PROVE Counted(d)'
  BY <1>2, <1>4 DEF Push, Fetch, FastForward
<1>5. ASSUME NEW c \in Calls, CallStep(c), c # d PROVE Counted(d)'
  <2>1. pc'[d] = pc[d] /\ attempt'[d] = attempt[d] /\ tip'[d] = tip[d] /\ startLen'[d] = startLen[d]
    BY <1>0, <1>5 DEF CallStep, Call, ReadTip, ReadTipFails, BuildFails, Cas, CasFails,
       CasUnreported, Return, Crash, Retry, Leave, Goto, TypeOK
  <2>2. hit' = hit \/ hit' = [hit EXCEPT ![c] = @ + 1]
    BY <1>5, FaultHits DEF CallStep, Call, ReadTip, ReadTipFails, BuildFails, Cas, CasFails,
       CasUnreported, Return, Crash
  <2>3. hit'[d] = hit[d]
    BY <1>0, <1>5, <2>2 DEF TypeOK
  <2> QED  BY <1>2, <2>1, <2>3
<1>6. ASSUME CallStep(d) PROVE Counted(d)'
  <2>0. /\ RepoOf[d] \in Repos
        /\ ref[RepoOf[d]] \in Seq(Entries) /\ Len(ref[RepoOf[d]]) \in Nat
        /\ ref'[RepoOf[d]] \in Seq(Entries) /\ Len(ref'[RepoOf[d]]) \in Nat
        /\ attempt[d] \in Nat /\ startLen[d] \in Nat /\ hit[d] \in Nat
    <3>1. RepoOf[d] \in Repos
      BY <1>0, RepoOfCall
    <3>2. ref \in [Repos -> Chains] /\ ref' \in [Repos -> Chains]
      BY <1>0 DEF TypeOK
    <3>3. attempt[d] \in Nat /\ startLen[d] \in Nat /\ hit[d] \in Nat
      BY <1>0, AttemptsAssumption DEF TypeOK
    <3> QED  BY <3>1, <3>2, <3>3 DEF Chains
  <2>1. Len(ref[RepoOf[d]]) <= Len(ref'[RepoOf[d]])
    BY <1>0, <2>0, RefsGrow
  <2>2. pc[d] # "call" => startLen[d] <= Len(ref'[RepoOf[d]])
    BY <1>0, <2>0, <2>1 DEF Counted
  <2>3. CASE Call(d)
    <3>1. /\ pc'[d] = "read" /\ attempt'[d] = 0 /\ startLen'[d] = Len(ref[RepoOf[d]])
          /\ hit'[d] = hit[d] /\ ref' = ref
      BY <1>0, <2>3 DEF Call, Goto, TypeOK, Counted
    <3> QED  BY <2>0, <3>1 DEF Counted, Grown
  <2>4. CASE ReadTip(d)
    <3>1. /\ pc[d] = "read" /\ pc'[d] = "tip" /\ attempt'[d] = attempt[d]
          /\ startLen'[d] = startLen[d] /\ hit'[d] = hit[d] /\ ref' = ref
          /\ tip'[d] = ref[RepoOf[d]]
      BY <1>0, <2>4 DEF ReadTip, Goto, TypeOK
    <3>2. IsPrefix(tip'[d], ref'[RepoOf[d]])
      BY <2>0, <3>1, PrefixSelf
    <3>3. attempt[d] + startLen[d] <= Len(tip'[d]) + hit[d]
      BY <1>0, <3>1 DEF Counted, Grown
    <3> QED  BY <2>2, <3>1, <3>2, <3>3 DEF Counted
  <2>5. CASE ReadTipFails(d)
    <3>1. /\ pc[d] = "read" /\ pc'[d] = "tip" /\ attempt'[d] = attempt[d]
          /\ startLen'[d] = startLen[d] /\ ref' = ref
      BY <1>0, <2>5 DEF ReadTipFails, Goto, TypeOK
    <3>2. hit'[d] = hit[d] + 1
      BY <1>0, <2>5, FaultHits DEF ReadTipFails, TypeOK
    <3>3. attempt[d] + startLen[d] <= Len(ref[RepoOf[d]]) + hit[d]
      BY <1>0, <3>1 DEF Counted, Grown
    <3>4. attempt'[d] + 1 + startLen'[d] <= Grown(d)'
      BY <2>0, <3>1, <3>2, <3>3 DEF Grown
    <3> QED  BY <2>2, <3>1, <3>4 DEF Counted
  <2>6. CASE \/ BuildFails(d) \/ Return(d) \/ Crash(d)
             \/ Cas(d) /\ Leave(d, "landed") /\ startLen' = startLen
    <3>1. /\ pc[d] # "call" /\ pc'[d] \in {"broken", "done", "dead", "landed"}
          /\ startLen'[d] = startLen[d]
      BY <1>0, <2>6 DEF BuildFails, Return, Crash, Cas, Leave, Goto, TypeOK, Working
    <3> QED  BY <2>2, <3>1 DEF Counted
  <2>7. CASE Cas(d) /\ Retry(d) /\ ref[RepoOf[d]] # tip[d]
    BY <1>0, <2>7, RetryCounted DEF Cas
  <2>8. CASE CasFails(d) \/ CasUnreported(d)
    <3>1. hit' = [hit EXCEPT ![d] = @ + 1]
      BY <2>8, FaultHits DEF CasFails, CasUnreported
    <3> QED  BY <1>0, <2>8, <3>1, RetryCounted DEF CasFails, CasUnreported
  <2> QED  BY <1>6, <2>3, <2>4, <2>5, <2>6, <2>7, <2>8 DEF CallStep, Cas
<1> QED  BY <1>3, <1>4, <1>5, <1>6 DEF Next

(* LEDGER_CAS_EXHAUSTED is only ever thrown when the ledger grew, or git    *)
(* failed, at least LEDGER_CAS_MAX_ATTEMPTS times during the call.          *)
THEOREM RetriesRunOutOnlyOvertaken == Spec => []GivesUpOvertaken
<1>1. CountInv => GivesUpOvertaken
  <2> SUFFICES ASSUME CountInv, NEW c \in Calls, pc[c] = "exhausted"
               PROVE  MaxAttempts + startLen[c] <= Len(ref[RepoOf[c]]) + hit[c]
    BY DEF GivesUpOvertaken
  <2> QED  BY DEF CountInv, Counted, Grown
<1> QED  BY <1>1, CountInit, CountStep, PTL DEF Spec
-----------------------------------------------------------------------------
(* What a call is told.                                                    *)

(* No chain, also none that a call holds, has two entries of a call that    *)
(* git informed well, nor one of a call that did not land; and the ledger   *)
(* of one that did has it.                                                  *)
Holds(chain, c) == \E i \in 1 .. Len(chain) : chain[i].by = c
Once(chain, c) == \A i, j \in 1 .. Len(chain) : chain[i].by = c /\ chain[j].by = c => i = j
Fits(chain, c, place) == Once(chain, c) /\ (place \in {"landed", "done", "dead"} \/ ~Holds(chain, c))

Informed(c) == /\ \A r \in Repos : Fits(ref[r], c, pc[c])
               /\ \A d \in Calls : Fits(tip[d], c, pc[c])
               /\ pc[c] \in {"landed", "done"} => Holds(ref[RepoOf[c]], c)

AnswerInv == TypeOK /\ \A c \in Calls \ marred : Informed(c)

LEMMA AnswerInit == Init => AnswerInv
<1>1. \A c, place : Fits(<< >>, c, place)
  BY DEF Fits, Once, Holds
<1> QED  BY <1>1, TypeInit DEF Init, AnswerInv, Informed

LEMMA LongerHolds ==
  ASSUME NEW s \in Chains, NEW t \in Chains, IsPrefix(s, t), NEW c, Holds(s, c)
  PROVE  Holds(t, c)
<1>1. s \in Seq(Entries) /\ t \in Seq(Entries) /\ Len(s) \in Nat /\ Len(t) \in Nat
  BY DEF Chains
<1>2. Len(s) <= Len(t) /\ \A i \in 1 .. Len(s) : s[i] = t[i]
  BY <1>1, PrefixIs
<1> QED  BY <1>1, <1>2 DEF Holds

(* The chain of a new commit, for its own call and for another one.        *)
LEMMA CommitFits ==
  ASSUME TypeOK, NEW d \in Calls, NEW c \in Calls, NEW place,
         IF c = d THEN ~Holds(tip[d], c) /\ place = "landed" ELSE Fits(tip[d], c, place)
  PROVE  /\ Fits(NewCommit(d), c, place)
         /\ c = d => Holds(NewCommit(d), c)
<1> DEFINE t == tip[d]
           new == NewCommit(d)
<1>1. /\ t \in Seq(Entries) /\ Len(t) \in Nat /\ new \in Seq(Entries) /\ Len(new) = Len(t) + 1
      /\ \A i \in 1 .. Len(t) : new[i] = t[i]
      /\ new[Len(t) + 1].by = d
  BY CommitType DEF TypeOK, Chains, NewCommit
<1> HIDE DEF t, new
<1>2. CASE c = d
  <2>1. \A i \in 1 .. Len(t) : new[i].by # c
    BY <1>1, <1>2 DEF Holds, t
  <2>2. Once(new, c)
    BY <1>1, <2>1 DEF Once
  <2>3. Holds(new, c)
    BY <1>1, <1>2 DEF Holds
  <2> QED  BY <1>2, <2>2, <2>3 DEF Fits, new
<1>3. CASE c # d
  <2>1. Fits(t, c, place)
    BY <1>3 DEF t
  <2>2. ASSUME NEW i \in 1 .. Len(new), new[i].by = c PROVE i \in 1 .. Len(t) /\ t[i].by = c
    BY <1>1, <1>3, <2>2
  <2>3. Once(new, c)
    BY <2>1, <2>2 DEF Fits, Once
  <2>4. Holds(new, c) => Holds(t, c)
    BY <2>2 DEF Holds
  <2> QED  BY <1>3, <2>1, <2>3, <2>4 DEF Fits, new
<1> QED  BY <1>2, <1>3

(* A step that makes no commit moves chains around, and calls along.        *)
LEMMA InformedKept ==
  ASSUME AnswerInv, [Next]_vars, TypeOK', NEW c \in Calls, Informed(c),
         \A r \in Repos : ref'[r] \in {ref[q] : q \in Repos} \cup {tip[q] : q \in Calls},
         \A d \in Calls : tip'[d] \in {ref[q] : q \in Repos} \cup {tip[q] : q \in Calls} \cup {<< >>},
         pc'[c] # pc[c] => /\ pc[c] \notin {"done", "dead"}
                           /\ pc[c] = "landed" => pc'[c] \in {"done", "dead"}
                           /\ pc'[c] = "done" => pc[c] = "landed"
                           /\ pc'[c] # "landed"
  PROVE  Informed(c)'
<1>1. \A chain : Fits(chain, c, pc[c]) => Fits(chain, c, pc'[c])
  BY DEF Fits
<1>2. Fits(<< >>, c, pc[c])
  BY DEF Fits, Once, Holds
<1>3. /\ \A r \in Repos : Fits(ref'[r], c, pc[c])
      /\ \A d \in Calls : Fits(tip'[d], c, pc[c])
  BY <1>2 DEF Informed
<1>4. ASSUME pc'[c] \in {"landed", "done"} PROVE Holds(ref'[RepoOf[c]], c)
  <2>1. TypeOK /\ RepoOf[c] \in Repos
    BY RepoOfCall DEF AnswerInv
  <2>2. IsPrefix(ref[RepoOf[c]], ref'[RepoOf[c]])
    BY <2>1, RefsGrow
  <2>3. ref[RepoOf[c]] \in Chains /\ ref'[RepoOf[c]] \in Chains
    BY <2>1 DEF TypeOK
  <2>4. Holds(ref[RepoOf[c]], c)
    BY <1>4 DEF Informed
  <2> QED  BY <2>2, <2>3, <2>4, LongerHolds
<1> QED  BY <1>1, <1>3, <1>4 DEF Informed

(* A call that swaps puts its commit on top of the ledger.                 *)
LEMMA InformedSwap ==
  ASSUME AnswerInv, [Next]_vars, TypeOK', NEW d \in Calls, NEW c \in Calls, Informed(c),
         pc[d] = "tip", Swap(d), tip' = [tip EXCEPT ![d] = << >>],
         c = d => pc'[c] = "landed",
         c # d => pc'[c] = pc[c]
  PROVE  Informed(c)'
<1>1. TypeOK /\ RepoOf[d] \in Repos /\ RepoOf[c] \in Repos
  BY RepoOfCall DEF AnswerInv
<1>2. /\ ref'[RepoOf[d]] = NewCommit(d)
      /\ \A r \in Repos \ {RepoOf[d]} : ref'[r] = ref[r]
      /\ tip'[d] = << >> /\ \A q \in Calls \ {d} : tip'[q] = tip[q]
  BY <1>1 DEF Swap, TypeOK
<1>3. Fits(<< >>, c, pc'[c])
  BY DEF Fits, Once, Holds
<1>4. \A chain : Fits(chain, c, pc[c]) => Fits(chain, c, pc'[c])
  BY DEF Fits
<1>5. Fits(NewCommit(d), c, pc'[c]) /\ (c = d => Holds(NewCommit(d), c))
  <2>1. c = d => ~Holds(tip[d], c)
    BY DEF Informed, Fits
  <2> QED  BY <1>1, <1>4, <2>1, CommitFits DEF Informed
<1>6. ASSUME pc'[c] \in {"landed", "done"} PROVE Holds(ref'[RepoOf[c]], c)
  <2>1. CASE c = d
    BY <1>2, <1>5, <2>1
  <2>2. CASE c # d
    <3>1. IsPrefix(ref[RepoOf[c]], ref'[RepoOf[c]])
      BY <1>1, RefsGrow
    <3>2. ref[RepoOf[c]] \in Chains /\ ref'[RepoOf[c]] \in Chains
      BY <1>1 DEF TypeOK
    <3>3. Holds(ref[RepoOf[c]], c)
      BY <1>6, <2>2 DEF Informed
    <3> QED  BY <3>1, <3>2, <3>3, LongerHolds
  <2> QED  BY <2>1, <2>2
<1> QED  BY <1>2, <1>3, <1>4, <1>5, <1>6 DEF Informed

LEMMA AnswerStep == AnswerInv /\ [Next]_vars => AnswerInv'
<1> SUFFICES ASSUME AnswerInv, [Next]_vars PROVE AnswerInv'
  OBVIOUS
<1>1. TypeOK /\ TypeOK'
  BY TypeStep DEF AnswerInv
<1> SUFFICES ASSUME NEW c \in Calls \ marred' PROVE Informed(c)'
  BY <1>1 DEF AnswerInv
<1>2. c \in Calls /\ c \notin marred /\ Informed(c)
  BY DEF AnswerInv, Next, CallStep, Call, ReadTip, ReadTipFails, BuildFails, Cas, CasFails, CasUnreported, Return, Crash,
         Push, Fetch, FastForward, vars
<1>3. CASE UNCHANGED vars
  <2>1. /\ \A r \in Repos : ref'[r] \in {ref[q] : q \in Repos} \cup {tip[q] : q \in Calls}
        /\ \A d \in Calls : tip'[d] \in {ref[q] : q \in Repos} \cup {tip[q] : q \in Calls} \cup {<< >>}
        /\ pc' = pc
    BY <1>3 DEF vars
  <2> QED  BY <1>1, <1>2, <2>1, InformedKept
<1>4. ASSUME NEW d \in Calls, CallStep(d) PROVE Informed(c)'
  <2>0. RepoOf[d] \in Repos
    BY <1>1, RepoOfCall
  <2>2. CASE CasUnreported(d)
    <3>1. c # d
      BY <2>2 DEF CasUnreported
    <3>2. pc[d] = "tip" /\ Swap(d) /\ tip' = [tip EXCEPT ![d] = << >>] /\ pc'[c] = pc[c]
      BY <1>1, <2>2, <3>1 DEF CasUnreported, Retry, Leave, Goto, TypeOK
    <3> QED  BY <1>1, <1>2, <3>1, <3>2, InformedSwap
  <2>3. CASE Cas(d) /\ Swap(d) /\ Leave(d, "landed")
    <3>1. tip' = [tip EXCEPT ![d] = << >>] /\ pc' = [pc EXCEPT ![d] = "landed"] /\ pc[d] = "tip"
      BY <2>3 DEF Cas, Leave, Goto
    <3>2. pc'[d] = "landed" /\ (c # d => pc'[c] = pc[c])
      BY <1>1, <3>1 DEF TypeOK
    <3> QED  BY <1>1, <1>2, <2>3, <3>1, <3>2, InformedSwap
  <2>4. ASSUME ref' = ref, NEW to, NEW place, place \notin {"landed", "done"} \/ (pc[d] = "landed" /\ place = "done"),
               pc[d] \notin {"done", "dead"}, pc[d] = "landed" => place \in {"done", "dead"},
               pc' = [pc EXCEPT ![d] = place],
               tip' = [tip EXCEPT ![d] = to], to \in {ref[RepoOf[d]], tip[d], << >>}
        PROVE  Informed(c)'
    <3>1. \A r \in Repos : ref'[r] \in {ref[q] : q \in Repos} \cup {tip[q] : q \in Calls}
      BY <2>4
    <3>2. \A e \in Calls : tip'[e] \in {ref[q] : q \in Repos} \cup {tip[q] : q \in Calls} \cup {<< >>}
      BY <1>1, <2>0, <2>4 DEF TypeOK
    <3>3. pc'[c] # pc[c] => /\ pc[c] \notin {"done", "dead"}
                            /\ pc[c] = "landed" => pc'[c] \in {"done", "dead"}
                            /\ pc'[c] = "done" => pc[c] = "landed"
                            /\ pc'[c] # "landed"
      BY <1>1, <2>4 DEF TypeOK
    <3> QED  BY <1>1, <1>2, <3>1, <3>2, <3>3, InformedKept
  <2>5. CASE Call(d)
    <3>1. tip' = [tip EXCEPT ![d] = tip[d]]
      BY <1>1, <2>5 DEF Call, TypeOK
    <3> QED  BY <2>4, <2>5, <3>1 DEF Call, Goto
  <2>6. CASE ReadTip(d) \/ ReadTipFails(d)
    BY <2>4, <2>6 DEF ReadTip, ReadTipFails, Goto
  <2>7. CASE BuildFails(d) \/ CasFails(d) \/ (Cas(d) /\ Retry(d) /\ UNCHANGED ref)
    BY <2>4, <2>7 DEF BuildFails, CasFails, Cas, Retry, Leave, Goto
  <2>8. CASE Return(d)
    <3>1. tip' = [tip EXCEPT ![d] = tip[d]]
      BY <1>1, <2>8 DEF Return, TypeOK
    <3> QED  BY <2>4, <2>8, <3>1 DEF Return, Goto
  <2>9. CASE Crash(d)
    BY <2>4, <2>9 DEF Crash, Leave, Goto, Working
  <2> QED  BY <1>4, <2>2, <2>3, <2>5, <2>6, <2>7, <2>8, <2>9 DEF CallStep, Cas
<1>5. ASSUME NEW r \in Clones, Push(r) \/ Fetch(r) PROVE Informed(c)'
  <2>1. /\ \A q \in Repos : ref'[q] \in {ref[k] : k \in Repos} \cup {tip[k] : k \in Calls}
        /\ \A d \in Calls : tip'[d] \in {ref[q] : q \in Repos} \cup {tip[q] : q \in Calls} \cup {<< >>}
        /\ pc' = pc
    BY <1>1, <1>5 DEF Push, Fetch, FastForward, TypeOK, Repos
  <2> QED  BY <1>1, <1>2, <2>1, InformedKept
<1> QED  BY <1>3, <1>4, <1>5 DEF Next

(* appendLedgerEntry: every chain verifies, and a call that git did not     *)
(* misinform is told what happened - its entry is in the ledger once, for   *)
(* good, or not at all.                                                     *)
THEOREM EntriesStand == Spec => []LedgerStands
<1>1. AnswerInv => AnswerIsTrue
  <2> SUFFICES ASSUME AnswerInv, NEW c \in Calls \ marred
               PROVE  LET n == Cardinality(EntriesOf(RepoOf[c], c)) IN
                      /\ pc[c] \in {"landed", "done"} => n = 1
                      /\ pc[c] = "dead" => n <= 1
                      /\ pc[c] \notin {"landed", "done", "dead"} => n = 0
    BY DEF AnswerIsTrue
  <2> DEFINE mine == EntriesOf(RepoOf[c], c)
  <2>1. Fits(ref[RepoOf[c]], c, pc[c]) /\ (pc[c] \in {"landed", "done"} => Holds(ref[RepoOf[c]], c))
    BY RepoOfCall DEF AnswerInv, Informed
  <2>2. \A i, j \in mine : i = j
    BY <2>1 DEF EntriesOf, Fits, Once
  <2>3. mine = {} \/ \E i \in mine : mine = {i}
    BY <2>2
  <2>4. mine # {} <=> Holds(ref[RepoOf[c]], c)
    BY DEF EntriesOf, Holds
  <2> HIDE DEF mine
  <2>5. (mine = {} => Cardinality(mine) = 0) /\ (mine # {} => Cardinality(mine) = 1)
    BY <2>3, FS_EmptySet, FS_Singleton
  <2> QED  BY <2>1, <2>4, <2>5 DEF Fits, mine
<1> QED  BY <1>1, AnswerInit, AnswerStep, LedgersVerify, PTL DEF Spec, LedgerStands
-----------------------------------------------------------------------------
(* LedgerChain implements LedgerLog.                                       *)

ByOf(refs) == [r \in Repos |-> By(refs[r])]
Told(places) == [c \in Calls |-> AnswerAt(places[c])]

LEMMA ByType ==
  ASSUME NEW s \in Chains
  PROVE  /\ By(s) \in Seq(Calls) /\ Len(By(s)) = Len(s) /\ s \in Seq(Entries)
         /\ \A i \in 1 .. Len(s) : By(s)[i] = s[i].by
<1>1. s \in Seq(Entries)
  BY DEF Chains
<1>2. \A e \in Entries : e.by \in Calls
  BY DEF Entries
<1>3. \A i \in 1 .. Len(s) : s[i].by \in Calls
  BY <1>1, <1>2
<1> QED  BY <1>1, <1>3 DEF By

LEMMA ByAppend ==
  ASSUME NEW s \in Chains, NEW e \in Entries
  PROVE  By(Append(s, e)) = Append(By(s), e.by)
<1>1. By(s) \in Seq(Calls) /\ Len(By(s)) = Len(s) /\ s \in Seq(Entries)
  BY ByType
<1>2. Append(By(s), e.by) = [i \in 1 .. Len(s) + 1 |-> IF i = Len(s) + 1 THEN e.by ELSE s[i].by]
  BY <1>1 DEF By
<1>3. By(Append(s, e)) = [i \in 1 .. Len(s) + 1 |-> IF i = Len(s) + 1 THEN e.by ELSE s[i].by]
  BY <1>1 DEF By
<1> QED  BY <1>2, <1>3

LEMMA ByPrefix ==
  ASSUME NEW s \in Chains, NEW t \in Chains, IsPrefix(s, t)
  PROVE  IsPrefix(By(s), By(t))
<1>1. Len(s) <= Len(t) /\ \A i \in 1 .. Len(s) : s[i] = t[i]
  BY ByType, PrefixIs
<1>2. \A i \in 1 .. Len(s) : By(s)[i] = By(t)[i]
  BY <1>1, ByType
<1>3. Len(By(s)) = Len(s) /\ Len(By(t)) = Len(t) /\ By(s) \in Seq(Calls) /\ By(t) \in Seq(Calls)
  BY ByType
<1> QED  BY <1>1, <1>2, <1>3, PrefixIs

(* What a swap does to the log, and a place to what its call was told.      *)
LEMMA SwapExtends ==
  ASSUME TypeOK, NEW c \in Calls, Swap(c)
  PROVE  ByOf(ref') = [ByOf(ref) EXCEPT ![RepoOf[c]] = Append(@, c)]
<1>1. RepoOf[c] \in Repos /\ ref \in [Repos -> Chains]
  BY RepoOfCall DEF TypeOK
<1>2. By(NewCommit(c)) = Append(By(tip[c]), c)
  <2> DEFINE e == [by |-> c, try |-> attempt[c], prev |-> NextPrev(tip[c])]
  <2>1. e \in Entries /\ e.by = c /\ tip[c] \in Chains /\ NewCommit(c) = Append(tip[c], e)
    BY CommitType DEF TypeOK, NewCommit
  <2> HIDE DEF e
  <2> QED  BY <2>1, ByAppend
<1> QED  BY <1>1, <1>2 DEF Swap, ByOf

LEMMA ToldStep ==
  ASSUME TypeOK, NEW c \in Calls, NEW place, Goto(c, place)
  PROVE  Told(pc') = [Told(pc) EXCEPT ![c] = AnswerAt(place)]
BY DEF TypeOK, Goto, Told

LEMMA Answers ==
  /\ \A p \in {"call", "read", "tip"} : AnswerAt(p) = "open"
  /\ AnswerAt("landed") = "recorded" /\ AnswerAt("done") = "done" /\ AnswerAt("dead") = "dead"
  /\ AnswerAt("exhausted") = "refused" /\ AnswerAt("broken") = "refused"
BY DEF AnswerAt, Working

(* Init maps to Init, each step to a step of the log or to none at all.     *)
LEMMA RefineInit == Init => LL!Init
<1> SUFFICES ASSUME Init PROVE LL!Init
  OBVIOUS
<1>1. By(<< >>) = << >>
  BY DEF By
<1> QED  BY <1>1, Answers DEF Init, LL!Init

LEMMA RefineStep == TypeOK /\ [Next]_vars => [LL!Next]_LL!vars
<1> SUFFICES ASSUME TypeOK, [Next]_vars PROVE [LL!Next]_LL!vars
  OBVIOUS
<1>1. CASE UNCHANGED vars
  BY <1>1 DEF vars, LL!vars
<1>2. ASSUME NEW c \in Calls, CallStep(c)
      PROVE  \/ LL!Record(c) \/ LL!Mar(c) \/ LL!Done(c) \/ LL!Refuse(c) \/ LL!Die(c)
             \/ UNCHANGED LL!vars
  <2>0. Told(pc) = [d \in Calls |-> AnswerAt(pc[d])] /\ Told(pc)[c] = AnswerAt(pc[c])
    BY DEF Told
  <2>1. CASE Call(c) \/ ReadTip(c) \/ ReadTipFails(c)
    <3>1. /\ Told(pc)[c] = "open" /\ ref' = ref /\ marred' = marred
          /\ Told(pc') = [Told(pc) EXCEPT ![c] = "open"]
      BY <2>0, <2>1, ToldStep, Answers DEF Call, ReadTip, ReadTipFails
    <3> QED  BY <3>1 DEF LL!vars, Told
  <2>2. CASE BuildFails(c)
    <3>1. /\ Told(pc)[c] = "open" /\ ref' = ref /\ marred' = marred
          /\ Told(pc') = [Told(pc) EXCEPT ![c] = "refused"]
      BY <2>0, <2>2, ToldStep, Answers DEF BuildFails, Leave
    <3> QED  BY <3>1 DEF LL!Refuse, Told
  <2>3. CASE Cas(c) /\ Swap(c) /\ Leave(c, "landed")
    <3>1. /\ Told(pc)[c] = "open" /\ marred' = marred
          /\ Told(pc') = [Told(pc) EXCEPT ![c] = "recorded"]
      BY <2>0, <2>3, ToldStep, Answers DEF Cas, Leave
    <3>2. ByOf(ref') = [ByOf(ref) EXCEPT ![RepoOf[c]] = Append(@, c)]
      BY <2>3, SwapExtends
    <3> QED  BY <3>1, <3>2 DEF LL!Record, LL!Extend, Told, ByOf
  <2>4. ASSUME Retry(c), pc[c] = "tip"
        PROVE  Told(pc') \in {Told(pc), [Told(pc) EXCEPT ![c] = "refused"]} /\ Told(pc)[c] = "open"
    <3>1. CASE attempt[c] + 1 < MaxAttempts
      <4>1. Told(pc') = [Told(pc) EXCEPT ![c] = "open"] /\ Told(pc)[c] = "open"
        BY <2>0, <2>4, <3>1, ToldStep, Answers DEF Retry, Leave
      <4> QED  BY <4>1 DEF Told
    <3>2. CASE ~ (attempt[c] + 1 < MaxAttempts)
      BY <2>0, <2>4, <3>2, ToldStep, Answers DEF Retry, Leave
    <3> QED  BY <3>1, <3>2
  <2>5. CASE Retry(c) /\ pc[c] = "tip" /\ ref' = ref /\ marred' = marred
    <3>1. CASE Told(pc') = Told(pc)
      BY <2>5, <3>1 DEF LL!vars, Told
    <3>2. CASE Told(pc') = [Told(pc) EXCEPT ![c] = "refused"]
      BY <2>4, <2>5, <3>2 DEF LL!Refuse, Told
    <3> QED  BY <2>4, <2>5, <3>1, <3>2
  <2>6. CASE CasUnreported(c)
    <3>1. /\ Told(pc)[c] = "open" /\ marred' = marred \cup {c}
          /\ Told(pc') \in {Told(pc), [Told(pc) EXCEPT ![c] = "refused"]}
      BY <2>4, <2>6 DEF CasUnreported
    <3>2. ByOf(ref') = [ByOf(ref) EXCEPT ![RepoOf[c]] = Append(@, c)]
      BY <2>6, SwapExtends DEF CasUnreported
    <3> QED  BY <3>1, <3>2 DEF LL!Mar, LL!Extend, Told, ByOf
  <2>7. CASE Return(c)
    <3>1. /\ Told(pc)[c] = "recorded" /\ ref' = ref /\ marred' = marred
          /\ Told(pc') = [Told(pc) EXCEPT ![c] = "done"]
      BY <2>0, <2>7, ToldStep, Answers DEF Return
    <3> QED  BY <3>1 DEF LL!Done, Told
  <2>8. CASE Crash(c)
    <3>1. /\ Told(pc)[c] \in {"open", "recorded"} /\ ref' = ref /\ marred' = marred
          /\ Told(pc') = [Told(pc) EXCEPT ![c] = "dead"]
      BY <2>0, <2>8, ToldStep, Answers DEF Crash, Leave, Working
    <3> QED  BY <3>1 DEF LL!Die, Told
  <2> QED  BY <1>2, <2>1, <2>2, <2>3, <2>5, <2>6, <2>7, <2>8 DEF CallStep, Cas, CasFails
<1>3. ASSUME NEW from \in Repos, NEW to \in Repos, FastForward(from, to)
      PROVE  LL!Sync(to, from)
  <2>1. ref \in [Repos -> Chains]
    BY DEF TypeOK
  <2>2. IsPrefix(ByOf(ref)[to], ByOf(ref)[from])
    BY <1>3, <2>1, ByPrefix DEF FastForward, ByOf
  <2>3. ByOf(ref') = [ByOf(ref) EXCEPT ![to] = ByOf(ref)[from]]
    BY <1>3, <2>1 DEF FastForward, ByOf
  <2>4. pc' = pc /\ marred' = marred
    BY <1>3 DEF FastForward
  <2> QED  BY <2>2, <2>3, <2>4 DEF LL!Sync, ByOf, LL!IsPrefix, IsPrefix
<1>4. CASE \E c \in Calls : CallStep(c)
  BY <1>2, <1>4 DEF LL!Next
<1>5. CASE \E r \in Clones : Push(r) \/ Fetch(r)
  <2>1. \E from, to \in Repos : FastForward(from, to)
    BY <1>5 DEF Push, Fetch, Repos
  <2> QED  BY <1>3, <2>1 DEF LL!Next
<1> QED  BY <1>1, <1>4, <1>5 DEF Next

(* The compare-and-swap loop implements the append-only log: a ledger is    *)
(* only ever extended, one entry for each answered call.                    *)
THEOREM LedgerIsALog == Spec => ImplementsLedgerLog
BY RefineInit, RefineStep, LedgerTypeCorrect, PTL DEF Spec, LL!Spec, ImplementsLedgerLog
-----------------------------------------------------------------------------
(* A branch on its way to main.                                            *)

Authors == {"someone"} \cup {e.author : e \in Edits}
CommitRecords == [parents : Seq(Nat), past : SUBSET Nat, tree : [Files -> 0 .. 2], author : Authors,
                  msn : Missions \cup {None}, signed : BOOLEAN, note : BOOLEAN]

(* A commit contains its parents, all that they contain, and the first one. *)
IsHistory ==
  /\ commits \in Seq(CommitRecords)
  /\ 1 \in Ids
  /\ \A c \in Ids :
       /\ c \in Past(c) /\ 1 \in Past(c) /\ Past(c) \subseteq 1 .. c
       /\ \A d \in Past(c) : Past(d) \subseteq Past(c)
       /\ \A n \in DOMAIN commits[c].parents : commits[c].parents[n] \in Past(c) \cap (1 .. c - 1)

AreBranches ==
  /\ main \in [local : Ids, tracking : Ids, remote : Ids]
  /\ topic \in [local : Ids, remote : Ids \cup {0}]
  /\ on \in {"topic", "main"}
  /\ so \in [grown : BOOLEAN, plain : BOOLEAN]

HistoryInv == /\ IsHistory /\ AreBranches
              /\ checked # None => checked.base \in Ids /\ checked.head \in Ids

OthersKept == \A c \in Ids : c \in Ids' /\ commits'[c] = commits[c]

Less == {p \in Nat \X Nat : p[1] < p[2]}

LEMMA LessIsWellFounded == IsWellFoundedOn(Less, Nat)
<1>1. Less = OpToRel(<, Nat)
  BY DEF OpToRel, Less
<1> QED  BY <1>1, NatLessThanWellFounded

LEMMA LeastOfSome ==
  ASSUME NEW S \in SUBSET Nat, S # {}
  PROVE  \E k \in S : \A j \in S : k <= j
<1>1. PICK k \in S : \A j \in S : <<j, k>> \notin Less
  BY LessIsWellFounded, WFMin
<1>2. ASSUME NEW j \in S PROVE k <= j
  <2> SUFFICES ASSUME ~(k <= j) PROVE FALSE
    OBVIOUS
  <2>1. k \in Nat /\ j \in Nat /\ j < k
    OBVIOUS
  <2>2. <<j, k>> \in Nat \X Nat /\ <<j, k>>[1] < <<j, k>>[2]
    BY <2>1
  <2>3. <<j, k>> \in Less
    BY <2>2 DEF Less
  <2> QED  BY <1>1, <2>3
<1> QED  BY <1>2

LEMMA MinOfSome == ASSUME NEW S \in SUBSET Nat, S # {} PROVE Min(S) \in S
BY LeastOfSome DEF Min

LEMMA MaxOfSome ==
  ASSUME NEW n \in Nat, NEW S \in SUBSET (1 .. n), S # {}
  PROVE  Max(S) \in S /\ \A k \in S : k <= Max(S)
<1> DEFINE above == {k \in Nat : \A j \in S : j <= k}
<1>1. above \in SUBSET Nat /\ n \in above
  OBVIOUS
<1>2. PICK k \in above : \A j \in above : k <= j
  <2> HIDE DEF above
  <2> QED  BY <1>1, LeastOfSome
<1>3. k \in S
  <2> SUFFICES ASSUME k \notin S PROVE FALSE
    OBVIOUS
  <2>1. PICK j \in S : TRUE
    OBVIOUS
  <2>2. k - 1 \in Nat /\ \A i \in S : i <= k - 1
    <3>1. k \in Nat /\ \A i \in S : i <= k /\ i # k /\ i \in Nat /\ 1 <= i
      OBVIOUS
    <3>2. \A i \in S : i <= k - 1
      BY <3>1
    <3> QED  BY <2>1, <3>1, <3>2
  <2>3. ~(k <= k - 1)
    BY <2>2
  <2> QED  BY <1>2, <2>2, <2>3
<1> QED  BY <1>3 DEF Max

(* Appending a commit leaves the others as they are.                       *)
LEMMA AddKeeps ==
  ASSUME IsHistory, NEW parents \in Seq(Ids), parents # << >>, NEW tree \in [Files -> 0 .. 2],
         NEW e, e.author \in Authors, e.msn \in Missions \cup {None}, e.signed \in BOOLEAN, e.note \in BOOLEAN,
         Add(parents, tree, e)
  PROVE  /\ IsHistory'
         /\ New \notin Ids /\ Ids' = Ids \cup {New}
         /\ \A c \in Ids : commits'[c] = commits[c]
         /\ \A n \in DOMAIN parents : Past(parents[n]) \subseteq commits'[New].past
<1> DEFINE r == Record(parents, tree, e)
           k == Len(commits) + 1
           old == UNION {Past(parents[n]) : n \in DOMAIN parents}
<1>1. /\ commits \in Seq(CommitRecords) /\ Len(commits) \in Nat /\ Ids = 1 .. Len(commits) /\ k \in Nat
      /\ k = New
  BY DEF IsHistory, Ids, New
<1>2. \A c \in Ids : Past(c) \subseteq Ids /\ c \in Past(c) /\ 1 \in Past(c)
  BY <1>1 DEF IsHistory
<1>3. \A n \in DOMAIN parents : parents[n] \in Ids
  OBVIOUS
<1>4. /\ old \subseteq Ids /\ \A n \in DOMAIN parents : parents[n] \in old
      /\ \A d \in old : Past(d) \subseteq old
      /\ 1 \in old
  <2>1. old \subseteq Ids /\ \A n \in DOMAIN parents : parents[n] \in old
    BY <1>2, <1>3
  <2>2. \A n \in DOMAIN parents : \A d \in Past(parents[n]) : Past(d) \subseteq Past(parents[n])
    BY <1>3 DEF IsHistory
  <2>3. 1 \in DOMAIN parents
    OBVIOUS
  <2>4. 1 \in old
    BY <1>2, <1>3, <2>3
  <2> QED  BY <2>1, <2>2, <2>4
<1>5. /\ r.past = {k} \cup old /\ r.parents = parents
      /\ r \in CommitRecords
  <2>1. r.past = {k} \cup old /\ r.parents = parents
    BY DEF Record
  <2>2. {k} \cup old \in SUBSET Nat
    <3> HIDE DEF old, k
    <3>1. \A n \in Nat : 1 .. n \in SUBSET Nat
      OBVIOUS
    <3> QED  BY <1>1, <1>4, <3>1
  <2>4. parents \in Seq(Nat)
    <3> HIDE DEF old, k
    <3>1. \A n \in DOMAIN parents : parents[n] \in Nat
      BY <1>1, <1>3
    <3> QED  BY <3>1
  <2> QED  BY <2>1, <2>2, <2>4 DEF Record, CommitRecords
<1>6. /\ commits' = Append(commits, r) /\ commits' \in Seq(CommitRecords) /\ Len(commits') = k
      /\ commits'[k] = r /\ \A c \in Ids : commits'[c] = commits[c]
  <2>1. commits' = Append(commits, r)
    BY DEF Add
  <2> HIDE DEF r
  <2> QED  BY <1>1, <1>5, <2>1
<1>7. Ids' = Ids \cup {k} /\ k \notin Ids
  BY <1>1, <1>6 DEF Ids
<1> HIDE DEF r, old
<1>8. ASSUME NEW c \in Ids
      PROVE  /\ c \in commits'[c].past /\ 1 \in commits'[c].past /\ commits'[c].past \subseteq 1 .. c
             /\ \A d \in commits'[c].past : commits'[d].past \subseteq commits'[c].past
             /\ \A n \in DOMAIN commits'[c].parents : commits'[c].parents[n] \in commits'[c].past \cap (1 .. c - 1)
  <2>1. \A d \in Ids : commits'[d].past = Past(d)
    BY <1>6 DEF Past
  <2>2. \A d \in Past(c) : commits'[d].past = Past(d)
    BY <1>2, <2>1
  <2>3. /\ c \in Past(c) /\ 1 \in Past(c) /\ Past(c) \subseteq 1 .. c
        /\ \A d \in Past(c) : Past(d) \subseteq Past(c)
        /\ \A n \in DOMAIN commits[c].parents : commits[c].parents[n] \in Past(c) \cap (1 .. c - 1)
    BY DEF IsHistory
  <2>4. commits'[c].past = Past(c) /\ commits'[c].parents = commits[c].parents
    BY <1>6, <2>1
  <2> HIDE DEF k
  <2> QED  BY <2>2, <2>3, <2>4
<1>9. /\ k \in commits'[k].past /\ 1 \in commits'[k].past /\ commits'[k].past \subseteq 1 .. k
      /\ \A d \in commits'[k].past : commits'[d].past \subseteq commits'[k].past
      /\ \A n \in DOMAIN commits'[k].parents : commits'[k].parents[n] \in commits'[k].past \cap (1 .. k - 1)
      /\ commits'[k].past = {k} \cup old
  <2>1. commits'[k].past = {k} \cup old /\ \A d \in Ids : commits'[d].past = Past(d)
    BY <1>5, <1>6 DEF Past
  <2>2. \A n \in DOMAIN parents : parents[n] \in old \cap (1 .. k - 1)
    BY <1>1, <1>3, <1>4
  <2>3. {k} \cup old \subseteq 1 .. k
    <3>1. \A n \in Nat : {n + 1} \cup (1 .. n) \subseteq 1 .. n + 1
      OBVIOUS
    <3> QED  BY <1>1, <1>4, <3>1
  <2> QED  BY <1>4, <1>5, <1>6, <2>1, <2>2, <2>3
<1>10. IsHistory'
  <2>1. 1 \in Ids'
    BY <1>7 DEF IsHistory
  <2>2. \A c \in Ids' :
          /\ c \in commits'[c].past /\ 1 \in commits'[c].past /\ commits'[c].past \subseteq 1 .. c
          /\ \A d \in commits'[c].past : commits'[d].past \subseteq commits'[c].past
          /\ \A n \in DOMAIN commits'[c].parents : commits'[c].parents[n] \in commits'[c].past \cap (1 .. c - 1)
    <3> HIDE DEF k
    <3> QED  BY <1>7, <1>8, <1>9
  <2> HIDE DEF k
  <2> QED  BY <1>6, <2>1, <2>2 DEF IsHistory, Past
<1>11. \A n \in DOMAIN parents : Past(parents[n]) \subseteq commits'[k].past
  BY <1>9 DEF old
<1> QED  BY <1>1, <1>6, <1>7, <1>10, <1>11

LEMMA ChangedIsTree ==
  ASSUME IsHistory, NEW c \in Ids, NEW e \in Edits
  PROVE  Changed(c, e) \in [Files -> 0 .. 2] /\ Tree(c) \in [Files -> 0 .. 2]
<1>1. commits[c] \in CommitRecords
  BY DEF IsHistory, Ids
<1>2. commits[c].tree \in [Files -> 0 .. 2]
  BY <1>1 DEF CommitRecords
<1>3. \A f \in Files : (IF f \in DOMAIN e.changes THEN e.changes[f] ELSE Tree(c)[f]) \in 0 .. 2
  BY <1>2, ContributionAssumption DEF Tree
<1> QED  BY <1>2, <1>3 DEF Changed, Tree

LEMMA EditIsAuthored ==
  ASSUME NEW e \in Edits
  PROVE  e.author \in Authors /\ e.msn \in Missions \cup {None} /\ e.signed \in BOOLEAN /\ e.note \in BOOLEAN
<1>1. e.author \in {x.author : x \in Edits}
  OBVIOUS
<1>2. e.author \in Authors
  BY <1>1 DEF Authors
<1>3. e.msn \in Missions \cup {None} /\ e.signed \in BOOLEAN /\ e.note \in BOOLEAN
  BY ContributionAssumption, Zenon
<1> QED  BY <1>2, <1>3

LEMMA HeadMoves ==
  ASSUME AreBranches, Ids' = Ids \cup {New}, NEW c \in Ids', MoveHead(c), UNCHANGED <<on, so>>
  PROVE  AreBranches'
<1>1. /\ main \in [local : Ids', tracking : Ids', remote : Ids']
      /\ topic \in [local : Ids', remote : Ids' \cup {0}]
  BY DEF AreBranches
<1>2. /\ main' \in [local : Ids', tracking : Ids', remote : Ids']
      /\ topic' \in [local : Ids', remote : Ids' \cup {0}]
  BY <1>1 DEF MoveHead
<1> QED  BY <1>2 DEF AreBranches

LEMMA HistoryInit == BranchInit => HistoryInv
<1> SUFFICES ASSUME BranchInit PROVE HistoryInv
  OBVIOUS
<1> DEFINE r == [parents |-> << >>, past |-> {1}, tree |-> InitialTree, author |-> "someone", msn |-> None, signed |-> TRUE, note |-> FALSE]
<1>1. commits = <<r>>
  BY DEF BranchInit
<1>2. r \in CommitRecords
  BY ContributionAssumption DEF CommitRecords, Authors
<1>3. commits \in Seq(CommitRecords) /\ Ids = {1} /\ commits[1] = r
  <2> HIDE DEF r
  <2> QED  BY <1>1, <1>2 DEF Ids
<1>4. Past(1) = {1} /\ DOMAIN commits[1].parents = {}
  BY <1>3 DEF Past
<1>5. IsHistory
  BY <1>3, <1>4 DEF IsHistory
<1>6. AreBranches
  BY <1>3 DEF BranchInit, AreBranches
<1>7. checked = None
  BY DEF BranchInit
<1> QED  BY <1>5, <1>6, <1>7 DEF HistoryInv

LEMMA HistoryStep == HistoryInv /\ [BranchNext]_branchVars => HistoryInv' /\ OthersKept
<1> SUFFICES ASSUME HistoryInv, [BranchNext]_branchVars PROVE HistoryInv' /\ OthersKept
  OBVIOUS
<1>0. IsHistory /\ AreBranches
  BY DEF HistoryInv
<1>1. /\ Here \in Ids /\ main.local \in Ids /\ main.tracking \in Ids /\ main.remote \in Ids
      /\ topic.local \in Ids /\ topic.remote \in Ids \cup {0}
  BY <1>0 DEF AreBranches, Here
<1>2. ASSUME commits' = commits, AreBranches', checked' = None \/ (checked'.base \in Ids /\ checked'.head \in Ids)
      PROVE  HistoryInv' /\ OthersKept
  BY <1>0, <1>2 DEF HistoryInv, IsHistory, Ids, Past, OthersKept
<1>3. ASSUME NEW parents \in Seq(Ids), parents # << >>, NEW tree \in [Files -> 0 .. 2],
             NEW e, e.author \in Authors, e.msn \in Missions \cup {None}, e.signed \in BOOLEAN, e.note \in BOOLEAN,
             Add(parents, tree, e)
      PROVE  /\ IsHistory' /\ OthersKept /\ Ids' = Ids \cup {New}
             /\ \A n \in DOMAIN parents : Past(parents[n]) \subseteq commits'[New].past
  BY <1>0, <1>3, AddKeeps DEF OthersKept
<1>4. CASE Commit
  <2>1. PICK e \in Edits : Add(<<Here>>, Changed(Here, e), e)
    BY <1>4 DEF Commit
  <2>2. <<Here>> \in Seq(Ids) /\ <<Here>> # << >>
    BY <1>1
  <2>3. IsHistory' /\ OthersKept /\ Ids' = Ids \cup {New}
    BY <1>0, <1>1, <1>3, <2>1, <2>2, ChangedIsTree, EditIsAuthored
  <2>4. AreBranches'
    BY <1>0, <1>4, <2>3, HeadMoves DEF Commit, Quietly
  <2> QED  BY <1>4, <2>3, <2>4 DEF HistoryInv, Commit, Quietly
<1>5. CASE Amend
  <2>1. PICK e \in Edits : Add(commits[Here].parents, Changed(Here, e), e)
    BY <1>5 DEF Amend
  <2>2. commits[Here].parents \in Seq(Ids) /\ commits[Here].parents # << >>
    <3>1. commits[Here] \in CommitRecords
      BY <1>0, <1>1 DEF IsHistory, Ids
    <3>2. commits[Here].parents \in Seq(Nat) /\ Len(commits[Here].parents) = 1
      BY <1>5, <3>1 DEF CommitRecords, Amend
    <3>3. \A n \in DOMAIN commits[Here].parents : commits[Here].parents[n] \in Ids
      <4>1. Here \in 1 .. Len(commits) /\ Ids = 1 .. Len(commits) /\ Len(commits) \in Nat
        BY <1>0, <1>1 DEF IsHistory, Ids
      <4>2. 1 .. Here - 1 \subseteq Ids
        BY <4>1
      <4> QED  BY <1>0, <1>1, <4>2 DEF IsHistory
    <3> DEFINE p == commits[Here].parents
    <3> HIDE DEF p
    <3>4. p \in Seq(Nat) /\ Len(p) = 1 /\ \A n \in DOMAIN p : p[n] \in Ids
      BY <3>2, <3>3 DEF p
    <3>5. p \in Seq(Ids) /\ p # << >>
      BY <3>4
    <3> QED  BY <3>5 DEF p
  <2>3. IsHistory' /\ OthersKept /\ Ids' = Ids \cup {New}
    BY <1>0, <1>1, <1>3, <2>1, <2>2, ChangedIsTree, EditIsAuthored
  <2>4. AreBranches'
    BY <1>0, <1>5, <2>3, HeadMoves DEF Amend, Quietly
  <2> QED  BY <1>5, <2>3, <2>4 DEF HistoryInv, Amend, Quietly
<1>6. CASE MergeMain
  <2>1. PICK m \in {main.local, main.tracking} :
          IF topic.local \in Past(m) THEN UNCHANGED commits /\ MoveHead(m)
          ELSE /\ New <= MaxCommits
               /\ \E t \in Merged(topic.local, m), s \in BOOLEAN :
                    Add(<<topic.local, m>>, t, [author |-> "someone", msn |-> None, signed |-> s, note |-> FALSE])
               /\ MoveHead(New)
    BY <1>6 DEF MergeMain
  <2>2. m \in Ids
    BY <1>1
  <2>3. CASE topic.local \in Past(m)
    <3>1. Ids' = Ids /\ commits' = commits /\ MoveHead(m)
      BY <2>1, <2>3 DEF Ids
    <3>2. AreBranches'
      <4>1. on' = on /\ so' = so
        BY <1>6 DEF MergeMain, Quietly
      <4> QED  BY <1>0, <2>2, <3>1, <4>1 DEF AreBranches, MoveHead
    <3> QED  BY <1>2, <1>6, <3>1, <3>2 DEF MergeMain, Quietly
  <2>4. CASE topic.local \notin Past(m)
    <3>1. PICK t \in Merged(topic.local, m), s \in BOOLEAN :
            Add(<<topic.local, m>>, t, [author |-> "someone", msn |-> None, signed |-> s, note |-> FALSE])
      BY <2>1, <2>4
    <3>2. t \in [Files -> 0 .. 2]
      BY DEF Merged
    <3>3. <<topic.local, m>> \in Seq(Ids) /\ <<topic.local, m>> # << >>
      BY <1>1, <2>2
    <3>4. IsHistory' /\ OthersKept /\ Ids' = Ids \cup {New}
      <4> DEFINE e == [author |-> "someone", msn |-> None, signed |-> s, note |-> FALSE]
      <4>1. e.author \in Authors /\ e.msn \in Missions \cup {None} /\ e.signed \in BOOLEAN /\ e.note \in BOOLEAN
        BY DEF Authors
      <4> HIDE DEF e
      <4>2. Add(<<topic.local, m>>, t, e)
        BY <3>1 DEF e
      <4> QED  BY <1>3, <3>2, <3>3, <4>1, <4>2
    <3>5. AreBranches'
      BY <1>0, <1>6, <2>1, <2>4, <3>4, HeadMoves DEF MergeMain, Quietly
    <3> QED  BY <1>6, <3>4, <3>5 DEF HistoryInv, MergeMain, Quietly
  <2> QED  BY <2>3, <2>4
<1>7. CASE Checkout
  <2>1. AreBranches'
    BY <1>0, <1>7 DEF AreBranches, Checkout, Quietly, Ids
  <2> QED  BY <1>2, <1>7, <2>1 DEF Checkout, Quietly
<1>8. CASE ForwardMain
  <2>1. AreBranches'
    BY <1>0, <1>1, <1>8 DEF AreBranches, ForwardMain, Quietly, Ids
  <2> QED  BY <1>2, <1>8, <2>1 DEF ForwardMain, Quietly
<1>9. CASE FetchMain
  <2>1. AreBranches'
    BY <1>0, <1>1, <1>9 DEF AreBranches, FetchMain, Quietly, Ids
  <2> QED  BY <1>2, <1>9, <2>1 DEF FetchMain, Quietly
<1>10. CASE MainMoves
  <2>1. /\ main' = [main EXCEPT !.remote = New] /\ UNCHANGED <<topic, on, so>> /\ checked' = None
    BY <1>10 DEF MainMoves, Quietly
  <2>2. ASSUME Ids' = Ids \cup {New} PROVE AreBranches'
    BY <1>0, <2>1, <2>2 DEF AreBranches
  <2>3. ASSUME NEW e \in Edits, Add(<<main.remote>>, Changed(main.remote, e), e)
        PROVE  IsHistory' /\ OthersKept /\ Ids' = Ids \cup {New}
    <3>1. <<main.remote>> \in Seq(Ids) /\ <<main.remote>> # << >>
      BY <1>1
    <3> QED  BY <1>0, <1>1, <1>3, <2>3, <3>1, ChangedIsTree, EditIsAuthored
  <2>4. ASSUME checked # None, checked.head = topic.remote, NEW t \in Merged(main.remote, topic.remote),
               Add(<<main.remote, topic.remote>>, t, [author |-> "someone", msn |-> None, signed |-> TRUE, note |-> FALSE])
        PROVE  IsHistory' /\ OthersKept /\ Ids' = Ids \cup {New}
    <3>1. topic.remote \in Ids
      BY <2>4 DEF HistoryInv
    <3>2. t \in [Files -> 0 .. 2]
      BY DEF Merged
    <3>3. <<main.remote, topic.remote>> \in Seq(Ids) /\ <<main.remote, topic.remote>> # << >>
      BY <1>1, <3>1
    <3> DEFINE e == [author |-> "someone", msn |-> None, signed |-> TRUE, note |-> FALSE]
    <3>4. e.author \in Authors /\ e.msn \in Missions \cup {None} /\ e.signed \in BOOLEAN /\ e.note \in BOOLEAN
      BY DEF Authors
    <3> HIDE DEF e
    <3>5. Add(<<main.remote, topic.remote>>, t, e)
      BY <2>4 DEF e
    <3> QED  BY <1>3, <3>2, <3>3, <3>4, <3>5
  <2>5. IsHistory' /\ OthersKept /\ Ids' = Ids \cup {New}
    BY <1>10, <2>3, <2>4 DEF MainMoves
  <2> QED  BY <2>1, <2>2, <2>5 DEF HistoryInv
<1>11. CASE PushTopic
  <2>1. AreBranches'
    BY <1>0, <1>1, <1>11 DEF AreBranches, PushTopic, Ids, IsGrown, MainIsBehind
  <2> QED  BY <1>2, <1>11, <2>1 DEF PushTopic
<1>12. CASE Check
  <2>1. AreBranches'
    BY <1>0, <1>12 DEF AreBranches, Check, Ids
  <2>2. checked'.base \in Ids /\ checked'.head \in Ids /\ commits' = commits
    BY <1>1, <1>12 DEF Check
  <2> QED  BY <1>2, <2>1, <2>2
<1>13. CASE UNCHANGED branchVars
  <2>1. AreBranches' /\ commits' = commits /\ checked' = checked
    BY <1>0, <1>13 DEF AreBranches, branchVars, Ids
  <2> QED  BY <1>2, <2>1 DEF HistoryInv
<1> QED  BY <1>4, <1>5, <1>6, <1>7, <1>8, <1>9, <1>10, <1>11, <1>12, <1>13 DEF BranchNext
-----------------------------------------------------------------------------
(* The history of a protected file in a pull request.                      *)

(* A protected file is the Planner's by the law of the perimeter.          *)
LEMMA ProtectedIsPlanners ==
  ASSUME NEW f, CoveredBy(Protected, f)
  PROVE  Judge(PerimeterLaw, f, {}).effect = "planner"
<1> DEFINE r == Rule("protected_path", Protected, {}, "planner", FALSE)
           v == Verdicts(PerimeterLaw, f, {})
<1>1. \A g : ~CoveredBy({}, g)
  BY DEF CoveredBy
<1>2. Protected # {}
  BY DEF CoveredBy
<1>3. PerimeterLaw = [areas |-> << >>, rules |-> <<r>>, exempt |-> {}]
  BY <1>2 DEF PerimeterLaw, PerimeterRules, Optional, Law, Rule
<1>4. RuleVerdict(r, f, {}) = [rule |-> "protected_path", effect |-> "planner"]
  BY <1>1 DEF RuleVerdict, Rule, Verdict
<1>5. v = [n \in 1 .. 1 |-> RuleVerdict(r, f, {})]
  <2>1. Len(<<r>>) = 1 /\ Len(<< >>) = 0 /\ <<r>>[1] = r
    OBVIOUS
  <2>2. PerimeterLaw.rules = <<r>> /\ PerimeterLaw.areas = << >>
    BY <1>3
  <2> HIDE DEF r
  <2>3. \A n \in 1 .. 1 : n <= 1 /\ <<r>>[n] = r
    BY <2>1
  <2> QED  BY <2>1, <2>2, <2>3 DEF Verdicts
<1>6. v # << >> /\ DOMAIN v = {1} /\ v[1].effect = "planner"
  <2> HIDE DEF v, r
  <2>1. DOMAIN v = 1 .. 1 /\ 1 \in 1 .. 1 /\ 1 .. 1 = {1}
    BY <1>5
  <2>2. v[1] = RuleVerdict(r, f, {})
    BY <1>5, <2>1
  <2>3. DOMAIN << >> = {}
    OBVIOUS
  <2> QED  BY <1>4, <2>1, <2>2, <2>3
<1>7. ~CoveredBy(PerimeterLaw.exempt, f)
  BY <1>1, <1>3
<1>8. Judge(PerimeterLaw, f, {}) = v[Min({n \in DOMAIN v : \A k \in DOMAIN v : Rank(v[k].effect) <= Rank(v[n].effect)})]
  BY <1>6, <1>7 DEF Judge
<1>9. {n \in DOMAIN v : \A k \in DOMAIN v : Rank(v[k].effect) <= Rank(v[n].effect)} = {1}
  <2> HIDE DEF v
  <2>1. Rank(v[1].effect) \in Nat
    BY DEF Rank
  <2> QED  BY <1>6, <2>1
<1>10. Min({1}) = 1
  BY MinOfSome
<1> QED  BY <1>6, <1>8, <1>9, <1>10

Sides(c) == {commits[c].parents[n] : n \in DOMAIN commits[c].parents}
AsItWas(c, f) == {p \in Sides(c) : Tree(p)[f] = Tree(c)[f]}

(* Where the history of the file goes on from a commit.                    *)
LeadsTo(base, head, f, c) ==
  LET alike == AsItWas(c, f) \cap (Between(base, head) \cup {base})
  IN  IF alike # {} THEN {commits[c].parents[Min({n \in DOMAIN commits[c].parents : commits[c].parents[n] \in alike})]}
      ELSE Sides(c)

SeenStep(base, head, f, g, c) ==
  IF c \notin Between(base, head) THEN {} ELSE {c} \cup UNION {g[p] : p \in LeadsTo(base, head, f, c)}
SeenBy(base, head, f, g) == g = [c \in 0 .. Len(commits) |-> SeenStep(base, head, f, g, c)]

LEMMA PathLogIs ==
  ASSUME NEW base, NEW head, NEW f
  PROVE  PathLog(base, head, f) = {c \in (CHOOSE g : SeenBy(base, head, f, g))[head] : AsItWas(c, f) = {}}
BY DEF PathLog, SeenBy, SeenStep, LeadsTo, AsItWas, Sides

LEMMA LeadsToParents ==
  ASSUME IsHistory, NEW base, NEW head, NEW f, NEW c \in Ids
  PROVE  /\ LeadsTo(base, head, f, c) \subseteq Sides(c) /\ Sides(c) \subseteq 1 .. c - 1 /\ Sides(c) \subseteq Past(c)
         /\ LET alike == AsItWas(c, f) \cap (Between(base, head) \cup {base}) IN
            alike # {} => \E p \in alike : LeadsTo(base, head, f, c) = {p}
<1> DEFINE alike == AsItWas(c, f) \cap (Between(base, head) \cup {base})
           least == {n \in DOMAIN commits[c].parents : commits[c].parents[n] \in alike}
<1>1. Sides(c) \subseteq 1 .. c - 1 /\ Sides(c) \subseteq Past(c)
  BY DEF IsHistory, Sides
<1>2. alike # {} => Min(least) \in least
  <2> SUFFICES ASSUME alike # {} PROVE Min(least) \in least
    OBVIOUS
  <2>1. least # {}
    BY DEF AsItWas, Sides
  <2>2. commits[c] \in CommitRecords
    BY DEF IsHistory, Ids
  <2>3. commits[c].parents \in Seq(Nat)
    BY <2>2 DEF CommitRecords
  <2>4. DOMAIN commits[c].parents \in SUBSET Nat
    BY <2>3
  <2> HIDE DEF alike
  <2>5. least \in SUBSET Nat
    BY <2>4
  <2> HIDE DEF least
  <2> QED  BY <2>1, <2>5, MinOfSome
<1>3. alike # {} => \E p \in alike : LeadsTo(base, head, f, c) = {p}
  BY <1>2 DEF LeadsTo
<1>4. LeadsTo(base, head, f, c) \subseteq Sides(c)
  <2>1. alike \subseteq Sides(c)
    BY DEF AsItWas
  <2>2. CASE alike # {}
    BY <1>3, <2>1, <2>2
  <2>3. CASE alike = {}
    BY <2>3 DEF LeadsTo
  <2> QED  BY <2>2, <2>3
<1> QED  BY <1>1, <1>3, <1>4

LEMMA SeenExists ==
  ASSUME IsHistory, NEW base \in Ids, NEW head \in Ids, NEW f
  PROVE  \E g : SeenBy(base, head, f, g)
<1> DEFINE P(n) == \E g : \A c \in 0 .. n : g[c] = SeenStep(base, head, f, g, c)
<1>0. \A c : c \in Between(base, head) => c \in Ids /\ c \in Nat /\ LeadsTo(base, head, f, c) \subseteq 1 .. c - 1
  <2>1. Between(base, head) \subseteq Ids /\ Ids \subseteq Nat
    <3>1. Past(head) \subseteq 1 .. head /\ Ids = 1 .. Len(commits) /\ Len(commits) \in Nat
      BY DEF IsHistory, Ids
    <3>2. 1 .. head \subseteq 1 .. Len(commits)
      BY <3>1
    <3> QED  BY <3>1, <3>2 DEF Between
  <2> QED  BY <2>1, LeadsToParents
<1>1. P(0)
  <2> DEFINE g == [c \in 0 .. 0 |-> {}]
  <2>1. \A c \in 0 .. 0 : g[c] = {} /\ c \notin Between(base, head)
    <3>1. Past(head) \subseteq 1 .. head /\ head \in Nat
      BY DEF IsHistory, Ids
    <3> QED  BY <3>1 DEF Between
  <2> QED  BY <2>1 DEF SeenStep
<1>2. ASSUME NEW n \in Nat, P(n) PROVE P(n + 1)
  <2>1. PICK g : \A c \in 0 .. n : g[c] = SeenStep(base, head, f, g, c)
    BY <1>2
  <2> DEFINE k == [c \in 0 .. n + 1 |-> SeenStep(base, head, f, g, c)]
  <2>2. \A c \in 0 .. n : c \in 0 .. n + 1 /\ k[c] = g[c]
    BY <2>1
  <2>3. \A c \in 0 .. n + 1 : SeenStep(base, head, f, g, c) = SeenStep(base, head, f, k, c)
    <3> SUFFICES ASSUME NEW c \in 0 .. n + 1, c \in Between(base, head)
                 PROVE  SeenStep(base, head, f, g, c) = SeenStep(base, head, f, k, c)
      BY DEF SeenStep
    <3>1. \A p \in LeadsTo(base, head, f, c) : p \in 0 .. n
      <4>1. \A p \in 1 .. c - 1 : p \in 0 .. n
        OBVIOUS
      <4> QED  BY <1>0, <4>1
    <3>2. \A p \in LeadsTo(base, head, f, c) : k[p] = g[p]
      BY <2>2, <3>1
    <3> HIDE DEF k
    <3> QED  BY <3>2 DEF SeenStep
  <2>4. \A c \in 0 .. n + 1 : k[c] = SeenStep(base, head, f, k, c)
    <3>1. \A c \in 0 .. n + 1 : k[c] = SeenStep(base, head, f, g, c)
      OBVIOUS
    <3> HIDE DEF k
    <3> QED  BY <2>3, <3>1
  <2> QED  BY <2>4
<1>3. \A n \in Nat : P(n)
  <2> HIDE DEF P
  <2> DEFINE bad == {n \in Nat : ~P(n)}
  <2>1. SUFFICES ASSUME NEW n0 \in Nat, ~P(n0) PROVE FALSE
    OBVIOUS
  <2>2. bad # {} /\ bad \in SUBSET Nat
    BY <2>1
  <2>3. PICK m \in bad : \A j \in bad : m <= j
    BY <2>2, LeastOfSome
  <2>4. m \in Nat /\ ~P(m)
    BY <2>3
  <2>5. m # 0
    BY <1>1, <2>4
  <2>6. PICK l \in Nat : l + 1 = m
    <3>1. m - 1 \in Nat /\ m - 1 + 1 = m
      BY <2>4, <2>5
    <3> QED  BY <3>1
  <2>7. l \notin bad
    <3>1. ~(m <= l)
      BY <2>4, <2>6
    <3> QED  BY <2>3, <3>1
  <2>8. P(l)
    BY <2>6, <2>7
  <2>9. P(l + 1)
    BY <1>2, <2>6, <2>8
  <2> QED  BY <2>4, <2>6, <2>9
<1>4. Len(commits) \in Nat
  BY DEF IsHistory
<1>5. PICK g : \A c \in 0 .. Len(commits) : g[c] = SeenStep(base, head, f, g, c)
  BY <1>3, <1>4
<1> DEFINE k == [c \in 0 .. Len(commits) |-> g[c]]
<1>6. \A c \in 0 .. Len(commits) : SeenStep(base, head, f, g, c) = SeenStep(base, head, f, k, c)
  <2> SUFFICES ASSUME NEW c \in 0 .. Len(commits), c \in Between(base, head)
               PROVE  SeenStep(base, head, f, g, c) = SeenStep(base, head, f, k, c)
    BY DEF SeenStep
  <2>1. \A p \in LeadsTo(base, head, f, c) : p \in 0 .. Len(commits)
    <3>1. \A p \in 1 .. c - 1 : p \in 0 .. Len(commits)
      BY <1>4
    <3> QED  BY <1>0, <3>1
  <2>2. \A p \in LeadsTo(base, head, f, c) : k[p] = g[p]
    BY <2>1
  <2> HIDE DEF k
  <2> QED  BY <2>2 DEF SeenStep
<1>7. k = [c \in 0 .. Len(commits) |-> SeenStep(base, head, f, k, c)]
  <2>1. \A c \in 0 .. Len(commits) : g[c] = SeenStep(base, head, f, k, c)
    <3> HIDE DEF k
    <3> QED  BY <1>5, <1>6
  <2> DEFINE h == [c \in 0 .. Len(commits) |-> SeenStep(base, head, f, k, c)]
  <2>2. k = h
    <3> HIDE DEF SeenStep
    <3> QED  BY <2>1
  <2> QED  BY <2>2
<1> HIDE DEF k
<1> QED  BY <1>7 DEF SeenBy

(* What the log shows of a file leads from the head to a commit that made   *)
(* it what it is there, or to a merge that has it from main.                *)
LEMMA ContentIsTraced ==
  ASSUME IsHistory, NEW base \in Ids, NEW head \in Ids, head \notin Past(base), NEW f,
         PathLog(base, head, f) # {}, \A c \in PathLog(base, head, f) : commits[c].signed
  PROVE  \E c \in Between(base, head) : Tree(c)[f] = Tree(head)[f] /\ (IsMadeHere(c, f) \/ IsFromMain(c, f, base))
<1> DEFINE range == Between(base, head)
           g == CHOOSE x : SeenBy(base, head, f, x)
           made(c, d) == d \in g[c] /\ AsItWas(d, f) = {} /\ Tree(d)[f] = Tree(c)[f]
           brought(c, d) == IsFromMain(d, f, base) /\ Tree(d)[f] = Tree(c)[f]
           good(c) == \/ \E d \in range : made(c, d) \/ brought(c, d)
                      \/ \A d \in g[c] : AsItWas(d, f) # {}
<1>1. SeenBy(base, head, f, g)
  BY SeenExists, Zenon
<1>2. PathLog(base, head, f) = {c \in g[head] : AsItWas(c, f) = {}}
  BY PathLogIs
<1> HIDE DEF g
<1>3. \A c \in 0 .. Len(commits) : g[c] = SeenStep(base, head, f, g, c)
  BY <1>1 DEF SeenBy
<1>4. /\ Len(commits) \in Nat /\ Ids = 1 .. Len(commits)
      /\ range \subseteq Ids /\ head \in range /\ base \notin range
  <2>1. Len(commits) \in Nat /\ Ids = 1 .. Len(commits)
    BY DEF IsHistory, Ids
  <2>2. Past(head) \subseteq 1 .. head /\ head \in Past(head) /\ base \in Past(base)
    BY DEF IsHistory
  <2>3. 1 .. head \subseteq 1 .. Len(commits)
    BY <2>1
  <2> QED  BY <2>1, <2>2, <2>3 DEF Between
<1>5. \A c \in Ids : g[c] = SeenStep(base, head, f, g, c)
  <2>1. \A c \in 1 .. Len(commits) : c \in 0 .. Len(commits)
    BY <1>4
  <2> QED  BY <1>3, <1>4, <2>1
<1>6. \A c \in Ids \ range : g[c] = {}
  BY <1>5 DEF SeenStep
<1>7. ASSUME NEW c \in range, \A p \in range : p < c => good(p) PROVE good(c)
  <2>0. c \in Ids /\ c \in Past(head)
    BY <1>4 DEF Between
  <2>1. g[c] = {c} \cup UNION {g[p] : p \in LeadsTo(base, head, f, c)}
    BY <1>5, <2>0 DEF SeenStep
  <2>2. /\ LeadsTo(base, head, f, c) \subseteq Sides(c) /\ Sides(c) \subseteq 1 .. c - 1 /\ Sides(c) \subseteq Past(c)
        /\ LET alike == AsItWas(c, f) \cap (range \cup {base}) IN
           alike # {} => \E p \in alike : LeadsTo(base, head, f, c) = {p}
    BY <2>0, LeadsToParents
  <2>3. \A p \in Sides(c) : p \in Ids /\ p < c /\ p \in Past(head)
    <3>1. Past(c) \subseteq Past(head) /\ Past(head) \subseteq 1 .. head
      BY <2>0 DEF IsHistory
    <3>2. \A p \in 1 .. c - 1 : p < c /\ p \in 1 .. Len(commits)
      BY <1>4, <2>0
    <3> QED  BY <1>4, <2>2, <3>1, <3>2
  <2>4. CASE AsItWas(c, f) = {}
    <3>1. made(c, c)
      BY <2>1, <2>4
    <3> QED  BY <3>1
  <2>5. ASSUME NEW p \in AsItWas(c, f) \cap (range \cup {base}), LeadsTo(base, head, f, c) = {p}
        PROVE  good(c)
    <3>1. g[c] = {c} \cup g[p] /\ Tree(p)[f] = Tree(c)[f] /\ AsItWas(c, f) # {} /\ p \in Sides(c)
      BY <2>1, <2>5 DEF AsItWas
    <3>2. CASE p \in range
      <4>1. good(p)
        BY <1>7, <2>3, <3>1, <3>2
      <4>2. ASSUME NEW d \in range, made(p, d) \/ brought(p, d) PROVE made(c, d) \/ brought(c, d)
        BY <3>1, <4>2
      <4>3. ASSUME \A d \in g[p] : AsItWas(d, f) # {} PROVE \A d \in g[c] : AsItWas(d, f) # {}
        BY <3>1, <4>3
      <4> QED  BY <4>1, <4>2, <4>3
    <3>3. CASE p \notin range
      <4>1. g[c] = {c}
        BY <1>6, <2>3, <3>1, <3>3
      <4> QED  BY <3>1, <4>1
    <3> QED  BY <3>2, <3>3
  <2>6. CASE AsItWas(c, f) # {} /\ AsItWas(c, f) \cap (range \cup {base}) = {}
    <3>1. PICK n \in DOMAIN commits[c].parents : Tree(commits[c].parents[n])[f] = Tree(c)[f] /\ commits[c].parents[n] \notin range
      BY <2>6 DEF AsItWas, Sides
    <3>2. commits[c].parents[n] \in Past(base)
      BY <2>3, <3>1 DEF Sides, Between
    <3>3. CASE IsMerge(c)
      <4>1. brought(c, c)
        BY <3>1, <3>2, <3>3 DEF IsFromMain
      <4> QED  BY <4>1
    <3>4. CASE ~IsMerge(c)
      <4>1. DOMAIN commits[c].parents = {n}
        <5>1. commits[c] \in CommitRecords
          BY <1>4, <2>0 DEF IsHistory
        <5>2. commits[c].parents \in Seq(Nat) /\ ~(Len(commits[c].parents) > 1)
          BY <3>4, <5>1 DEF CommitRecords, IsMerge
        <5> DEFINE q == commits[c].parents
        <5> HIDE DEF q
        <5>3. q \in Seq(Nat) /\ ~(Len(q) > 1) /\ n \in DOMAIN q
          BY <5>2 DEF q
        <5>4. DOMAIN q = {n}
          <6>1. DOMAIN q = 1 .. Len(q) /\ Len(q) \in Nat
            BY <5>3
          <6>2. Len(q) = 1 /\ n = 1
            BY <5>3, <6>1
          <6> QED  BY <6>1, <6>2
        <5> QED  BY <5>4 DEF q
      <4>2. Sides(c) = {commits[c].parents[n]}
        BY <4>1 DEF Sides
      <4>3. \A p \in LeadsTo(base, head, f, c) : g[p] = {}
        BY <1>6, <2>2, <2>3, <3>1, <4>2
      <4>4. g[c] = {c}
        BY <2>1, <4>3
      <4> QED  BY <2>6, <4>4
    <3> QED  BY <3>3, <3>4
  <2> QED  BY <2>2, <2>4, <2>5, <2>6
<1>8. good(head)
  <2> HIDE DEF good, range
  <2> DEFINE bad == {c \in range : ~good(c)}
  <2> SUFFICES ASSUME ~good(head) PROVE FALSE
    OBVIOUS
  <2>1. \A n \in Nat : 1 .. n \in SUBSET Nat
    OBVIOUS
  <2>2. bad # {} /\ bad \in SUBSET Nat
    BY <1>4, <2>1
  <2>3. PICK c \in bad : \A j \in bad : c <= j
    <3> HIDE DEF bad
    <3> QED  BY <2>2, LeastOfSome
  <2>4. \A p \in range : p < c => good(p)
    <3> SUFFICES ASSUME NEW p \in range, p < c, ~good(p) PROVE FALSE
      OBVIOUS
    <3>1. p \in Nat /\ c \in Nat /\ c <= p
      BY <2>2, <2>3
    <3> QED  BY <3>1
  <2> QED  BY <1>7, <2>3, <2>4
<1>9. PICK d \in range : made(head, d) \/ brought(head, d)
  <2>1. \E d \in g[head] : AsItWas(d, f) = {}
    BY <1>2
  <2> QED  BY <1>8, <2>1
<1>10. CASE made(head, d)
  <2>1. commits[d].signed
    BY <1>2, <1>10
  <2>2. \A n \in DOMAIN commits[d].parents : Tree(commits[d].parents[n])[f] # Tree(d)[f]
    BY <1>10 DEF AsItWas, Sides
  <2> QED  BY <1>10, <2>1, <2>2 DEF IsMadeHere
<1>11. CASE brought(head, d)
  BY <1>11
<1> QED  BY <1>9, <1>10, <1>11

ContentIsSigned(base, head) ==
  \A f \in SincePoint(base, head) :
     CoveredBy(Protected, f) =>
        \E c \in Between(base, head) : Tree(c)[f] = Tree(head)[f] /\ (IsMadeHere(c, f) \/ IsFromMain(c, f, base))

LEMMA PerimeterIsSigned ==
  ASSUME IsHistory, NEW base \in Ids, NEW head \in Ids, PerimeterHolds(base, head)
  PROVE  ContentIsSigned(base, head)
<1> SUFFICES ASSUME NEW f \in SincePoint(base, head), CoveredBy(Protected, f)
             PROVE  \E c \in Between(base, head) : Tree(c)[f] = Tree(head)[f] /\ (IsMadeHere(c, f) \/ IsFromMain(c, f, base))
  BY DEF ContentIsSigned
<1>1. head \notin Past(base)
  <2> SUFFICES ASSUME head \in Past(base) PROVE FALSE
    OBVIOUS
  <2>1. Past(base) \cap Past(head) = Past(head) /\ head \in Past(head) /\ Past(head) \subseteq 1 .. head /\ head \in Nat
    BY DEF IsHistory, Ids
  <2>2. Max(Past(head)) \in 1 .. head /\ head <= Max(Past(head))
    <3>1. Past(head) \in SUBSET (1 .. head) /\ Past(head) # {}
      BY <2>1
    <3>2. Max(Past(head)) \in Past(head) /\ \A k \in Past(head) : k <= Max(Past(head))
      BY <2>1, <3>1, MaxOfSome
    <3> QED  BY <2>1, <3>2
  <2>3. MergeBase(base, head) = head
    BY <2>1, <2>2 DEF MergeBase
  <2> QED  BY <2>3 DEF SincePoint, Differing
<1>2. TouchesOf(base, head, f) # {} /\ \A c \in TouchesOf(base, head, f) : commits[c].signed
  BY ProtectedIsPlanners DEF PerimeterHolds
<1> QED  BY <1>1, <1>2, ContentIsTraced DEF TouchesOf

SignedInv == checked # None /\ checked.green => ContentIsSigned(checked.base, checked.head)

LEMMA SignedStep == HistoryInv /\ SignedInv /\ [BranchNext]_branchVars => SignedInv'
<1> SUFFICES ASSUME HistoryInv, SignedInv, [BranchNext]_branchVars, checked' # None, checked'.green
             PROVE  ContentIsSigned(checked.base, checked.head)'
  BY DEF SignedInv
<1>1. /\ commits' = commits
      /\ checked'.base \in Ids /\ checked'.head \in Ids /\ ContentIsSigned(checked'.base, checked'.head)
  <2>1. CASE Check
    <3>1. /\ commits' = commits /\ checked'.base = main.remote /\ checked'.head = topic.remote /\ topic.remote # 0
          /\ PerimeterHolds(main.remote, topic.remote)
      BY <2>1 DEF Check
    <3>2. IsHistory /\ main.remote \in Ids /\ topic.remote \in Ids
      BY <3>1 DEF HistoryInv, AreBranches
    <3> QED  BY <3>1, <3>2, PerimeterIsSigned
  <2>2. CASE UNCHANGED branchVars
    BY <2>2 DEF branchVars, HistoryInv, SignedInv
  <2>3. CASE PushTopic
    BY <2>3 DEF PushTopic
  <2>4. CASE Commit \/ Amend \/ MergeMain \/ Checkout \/ ForwardMain \/ FetchMain \/ MainMoves
    BY <2>4 DEF Commit, Amend, MergeMain, Checkout, ForwardMain, FetchMain, MainMoves, Quietly
  <2> QED  BY <2>1, <2>2, <2>3, <2>4 DEF BranchNext
<1>2. \A c : Past(c)' = Past(c) /\ Tree(c)' = Tree(c) /\ IsMerge(c)' = IsMerge(c)
  BY <1>1 DEF Past, Tree, IsMerge
<1>3. \A a, b : SincePoint(a, b)' = SincePoint(a, b) /\ Between(a, b)' = Between(a, b)
  BY <1>2 DEF SincePoint, MergeBase, Differing, Between
<1>4. \A c, f : IsMadeHere(c, f)' = IsMadeHere(c, f)
  BY <1>1, <1>2 DEF IsMadeHere
<1>5. \A c, f, b : IsFromMain(c, f, b)' = IsFromMain(c, f, b)
  BY <1>1, <1>2 DEF IsFromMain
<1>6. \A a, b : ContentIsSigned(a, b) => ContentIsSigned(a, b)'
  BY <1>2, <1>3, <1>4, <1>5 DEF ContentIsSigned
<1> QED  BY <1>1, <1>6

(* Merges both ways, conflicts and amends included: what CI accepts makes   *)
(* of the Planner's files is signed, or was main's.                         *)
THEOREM PerimetersAreSigned == BranchSpec => []PerimeterContentIsSigned
<1>1. BranchInit => HistoryInv /\ SignedInv
  BY HistoryInit DEF BranchInit, SignedInv
<1>2. HistoryInv /\ SignedInv /\ [BranchNext]_branchVars => (HistoryInv /\ SignedInv)'
  BY HistoryStep, SignedStep
<1>3. SignedInv => PerimeterContentIsSigned
  BY DEF SignedInv, ContentIsSigned, PerimeterContentIsSigned
<1> QED  BY <1>1, <1>2, <1>3, PTL DEF BranchSpec
-----------------------------------------------------------------------------
(* The missions of a branch that is pushed.                                *)

(* A mission file of the branch is stamped, or as main had it once, where   *)
(* both know of it.                                                        *)
StampedOrMains(t, h) ==
  \A m \in Missions : Tree(h)[m] # 0 =>
     IsStamped(h, m) \/ \E c \in Past(t) \cap Past(h) : Tree(c)[m] = Tree(h)[m]

HandoffInv ==
  /\ main.tracking \in Past(main.remote)
  /\ so.plain /\ topic.remote # 0 => StampedOrMains(main.tracking, topic.remote)
  /\ handed # None => topic.remote \in Ids /\ handed.head = topic.remote /\ handed.tracking = main.tracking

LEMMA MergeBaseIsCommon ==
  ASSUME IsHistory, NEW a \in Ids, NEW b \in Ids
  PROVE  MergeBase(a, b) \in Past(a) \cap Past(b)
<1>1. Past(a) \subseteq 1 .. a /\ a \in Nat /\ 1 \in Past(a) \cap Past(b)
  BY DEF IsHistory, Ids
<1>2. Past(a) \cap Past(b) \in SUBSET (1 .. a) /\ Past(a) \cap Past(b) # {}
  BY <1>1
<1> QED  BY <1>1, <1>2, MaxOfSome DEF MergeBase

(* Some base that is new is taken when there is one.                       *)
LEMMA PushBaseIs ==
  ASSUME IsHistory, NEW head \in Ids, NEW old,
         \A n \in DOMAIN MergeBases(head) : MergeBases(head)[n] \in Past(head),
         DOMAIN MergeBases(head) \in SUBSET Nat, DOMAIN MergeBases(head) # {}
  PROVE  \/ \E n \in DOMAIN MergeBases(head) : /\ PushBase(old, head) = MergeBases(head)[n]
                                               /\ old = 0 \/ MergeBases(head)[n] \notin Past(old)
         \/ old # 0 /\ PushBase(old, head) = old
<1> DEFINE bases == MergeBases(head)
           new == {n \in DOMAIN bases : old = 0 \/ bases[n] \notin Past(old)}
           size(n) == Cardinality(Between(bases[n], head))
           sizes == {size(n) : n \in new}
           nearest == {n \in new : \A k \in new : size(n) <= size(k)}
<1>1. CASE new = {}
  <2>1. PushBase(old, head) = old
    BY <1>1 DEF PushBase
  <2> QED  BY <1>1, <2>1
<1>2. CASE new # {}
  <2>1. \A n \in new : size(n) \in Nat
    <3>1. Past(head) \subseteq 1 .. head /\ head \in Nat
      BY DEF IsHistory, Ids
    <3>2. IsFiniteSet(1 .. head)
      BY <3>1, FS_Interval
    <3>3. \A b : Between(b, head) \subseteq 1 .. head
      BY <3>1 DEF Between
    <3>4. \A b : IsFiniteSet(Between(b, head))
      BY <3>2, <3>3, FS_Subset
    <3> QED  BY <3>4, FS_CardinalityType
  <2>2. nearest # {}
    <3> HIDE DEF new, size
    <3>1. sizes \in SUBSET Nat /\ sizes # {}
      BY <1>2, <2>1
    <3> HIDE DEF sizes
    <3>2. PICK s \in sizes : \A j \in sizes : s <= j
      BY <3>1, LeastOfSome
    <3> QED  BY <3>2 DEF sizes
  <2>3. Min(nearest) \in nearest
    <3>1. nearest \in SUBSET Nat
      OBVIOUS
    <3> HIDE DEF nearest
    <3> QED  BY <2>2, <3>1, MinOfSome
  <2>4. PushBase(old, head) = bases[Min(nearest)]
    BY <1>2 DEF PushBase, ClosestBase
  <2> QED  BY <2>3, <2>4
<1> QED  BY <1>1, <1>2

(* What the hook compares with is known to main, or what was pushed before. *)
LEMMA PlainBases ==
  ASSUME HistoryInv, IsGrown, MainIsBehind
  PROVE  LET base == PushBase(topic.remote, topic.local) IN
         \/ base \in Past(main.tracking) \cap Past(topic.local)
         \/ topic.remote # 0 /\ base = topic.remote
<1> DEFINE head == topic.local
           old == topic.remote
<1>1. /\ IsHistory /\ head \in Ids /\ old \in Ids \cup {0} /\ main.tracking \in Ids /\ main.local \in Ids
      /\ on = "topic" /\ (old # 0 => old \in Past(head)) /\ main.local \in Past(main.tracking)
  BY DEF HistoryInv, AreBranches, IsGrown, MainIsBehind
<1> DEFINE known == Past(main.tracking) \cap Past(head)
           upstream == IF old = 0 THEN << >> ELSE <<old>>
           refs == upstream \o <<main.tracking, main.local>>
<1>2. MergeBase(head, main.tracking) \in known /\ MergeBase(head, main.local) \in known
  <2>1. Past(main.local) \subseteq Past(main.tracking)
    BY <1>1 DEF IsHistory
  <2> QED  BY <1>1, <2>1, MergeBaseIsCommon
<1>3. old # 0 => MergeBase(head, old) \in Past(old) \cap Past(head)
  BY <1>1, MergeBaseIsCommon
<1>4. MergeBases(head) = [n \in 1 .. Len(upstream) + 2 |-> MergeBase(head, refs[n])]
  BY <1>1 DEF MergeBases
<1>5. \A n \in 1 .. Len(upstream) + 2 : refs[n] \in {main.tracking, main.local} \/ (old # 0 /\ refs[n] = old)
  <2> HIDE DEF old
  <2>1. CASE old = 0
    <3>1. Len(upstream) = 0 /\ refs = <<main.tracking, main.local>>
      BY <2>1
    <3>2. \A n \in 1 .. 2 : n = 1 \/ n = 2
      OBVIOUS
    <3> QED  BY <3>1, <3>2
  <2>2. CASE old # 0
    <3>1. Len(upstream) = 1 /\ refs[1] = old /\ refs[2] = main.tracking /\ refs[3] = main.local
      <4>1. ASSUME NEW a, NEW b, NEW c
            PROVE  LET s == <<a>> \o <<b, c>> IN s[1] = a /\ s[2] = b /\ s[3] = c
        <5>1. <<a>> \in Seq({a, b, c}) /\ <<b, c>> \in Seq({a, b, c}) /\ Len(<<a>>) = 1 /\ Len(<<b, c>>) = 2
          OBVIOUS
        <5> QED  BY <5>1
      <4>2. \A a : Len(<<a>>) = 1
        OBVIOUS
      <4>3. upstream = <<old>>
        BY <2>2
      <4> HIDE DEF upstream
      <4> QED  BY <4>1, <4>2, <4>3
    <3>2. \A n \in 1 .. 3 : n = 1 \/ n = 2 \/ n = 3
      OBVIOUS
    <3> QED  BY <2>2, <3>1, <3>2
  <2> QED  BY <2>1, <2>2
<1>6. Len(upstream) \in Nat
  OBVIOUS
<1> HIDE DEF refs, upstream, head, old, known
<1>7. /\ DOMAIN MergeBases(head) = 1 .. Len(upstream) + 2
      /\ \A n \in DOMAIN MergeBases(head) : MergeBases(head)[n] \in known \/ (old # 0 /\ MergeBases(head)[n] \in Past(old) \cap Past(head))
  BY <1>2, <1>3, <1>4, <1>5
<1>8. DOMAIN MergeBases(head) \in SUBSET Nat /\ DOMAIN MergeBases(head) # {}
  <2>1. \A k \in Nat : 1 .. k + 2 \in SUBSET Nat /\ 1 \in 1 .. k + 2
    OBVIOUS
  <2> QED  BY <1>6, <1>7, <2>1
<1>9. \A n \in DOMAIN MergeBases(head) : MergeBases(head)[n] \in Past(head)
  BY <1>7 DEF known
<1>10. CASE old # 0 /\ PushBase(old, head) = old
  BY <1>10 DEF old, head
<1>11. ASSUME NEW n \in DOMAIN MergeBases(head), PushBase(old, head) = MergeBases(head)[n],
              old = 0 \/ MergeBases(head)[n] \notin Past(old)
       PROVE  PushBase(old, head) \in known
  BY <1>7, <1>11
<1>12. PushBase(old, head) \in known \/ (old # 0 /\ PushBase(old, head) = old)
  BY <1>1, <1>8, <1>9, <1>11, PushBaseIs
<1> QED  BY <1>12 DEF old, head, known

LEMMA PushIsStamped ==
  ASSUME HistoryInv, HandoffInv, PushTopic, so'.plain
  PROVE  StampedOrMains(main.tracking, topic.local)
<1> DEFINE head == topic.local
           old == topic.remote
           base == PushBase(old, head)
           verified == IF base = head THEN {} ELSE RangeMissions(base, head)
<1>1. /\ so.plain /\ IsGrown /\ MainIsBehind
      /\ \A m \in verified : IsStamped(Here, m)
  BY DEF PushTopic, HistoryInv, AreBranches
<1>2. /\ IsHistory /\ head \in Ids /\ old \in Ids \cup {0} /\ head \in Past(head)
      /\ Here = head
      /\ old # 0 => old \in Past(head) /\ Past(old) \subseteq Past(head)
  BY <1>1 DEF HistoryInv, AreBranches, IsGrown, Here, IsHistory
<1>3. \/ base \in Past(main.tracking) \cap Past(head)
      \/ old # 0 /\ base = old
  BY <1>1, PlainBases
<1> SUFFICES ASSUME NEW m \in Missions, Tree(head)[m] # 0,
                    \A c \in Past(main.tracking) \cap Past(head) : Tree(c)[m] # Tree(head)[m]
             PROVE  IsStamped(head, m)
  BY DEF StampedOrMains
<1> HIDE DEF head, old, base
<1>4. ASSUME base # head, Tree(base)[m] # Tree(head)[m] PROVE IsStamped(head, m)
  <2>1. m \in Files
    BY ContributionAssumption
  <2>2. m \in verified
    BY <1>2, <1>4, <2>1 DEF RangeMissions, Differing, KeptIn
  <2> QED  BY <1>1, <1>2, <2>2
<1>5. CASE base \in Past(main.tracking) \cap Past(head)
  <2>1. base # head /\ Tree(base)[m] # Tree(head)[m]
    BY <1>5
  <2> QED  BY <1>4, <2>1
<1>6. CASE old # 0 /\ base = old
  <2>1. StampedOrMains(main.tracking, old)
    BY <1>1, <1>6 DEF HandoffInv, old
  <2>2. CASE Tree(old)[m] = Tree(head)[m]
    <3>1. IsStamped(old, m)
      BY <1>2, <1>6, <2>1, <2>2 DEF StampedOrMains
    <3> QED  BY <1>2, <1>6, <3>1 DEF IsStamped
  <2>3. CASE Tree(old)[m] # Tree(head)[m]
    BY <1>4, <1>6, <2>3
  <2> QED  BY <2>2, <2>3
<1> QED  BY <1>3, <1>5, <1>6

(* What other commits and a main that is fetched do to it.                 *)
LEMMA StampsStay ==
  ASSUME IsHistory, OthersKept, NEW t \in Ids, NEW h \in Ids, NEW k \in Ids,
         Past(t) \subseteq Past(k), StampedOrMains(t, h)
  PROVE  StampedOrMains(k, h)'
<1>1. \A c \in Ids : /\ Past(c)' = Past(c) /\ Tree(c)' = Tree(c) /\ commits'[c] = commits[c]
                     /\ IsMerge(c)' = IsMerge(c)
  BY DEF OthersKept, Past, Tree, IsMerge
<1>2. Past(h) \subseteq Ids
  <2>1. Past(h) \subseteq 1 .. h /\ Ids = 1 .. Len(commits) /\ Len(commits) \in Nat
    BY DEF IsHistory, Ids
  <2>2. 1 .. h \subseteq 1 .. Len(commits)
    BY <2>1
  <2> QED  BY <2>1, <2>2
<1>3. \A c \in Past(h) : ByCommit(c)' = ByCommit(c)
  <2> SUFFICES ASSUME NEW c \in Past(h) PROVE ByCommit(c)' = ByCommit(c)
    OBVIOUS
  <2>1. c \in Ids /\ commits'[c] = commits[c] /\ IsMerge(c)' = IsMerge(c)
    BY <1>1, <1>2
  <2>2. CASE commits[c].parents = << >> \/ IsMerge(c)
    BY <2>1, <2>2 DEF ByCommit
  <2>3. CASE ~(commits[c].parents = << >> \/ IsMerge(c))
    <3>1. commits[c] \in CommitRecords
      BY <2>1 DEF IsHistory, Ids
    <3>2. commits[c].parents \in Seq(Nat) /\ commits[c].parents # << >>
      BY <2>3, <3>1 DEF CommitRecords
    <3>3. 1 \in DOMAIN commits[c].parents
      BY <3>2
    <3>4. commits[c].parents[1] \in Past(c)
      BY <2>1, <3>3 DEF IsHistory
    <3>5. commits[c].parents[1] \in Ids
      <4>1. Past(c) \subseteq Past(h)
        BY DEF IsHistory
      <4> QED  BY <1>2, <3>4, <4>1
    <3>6. Tree(commits[c].parents[1])' = Tree(commits[c].parents[1]) /\ Tree(c)' = Tree(c)
      BY <1>1, <2>1, <3>5 DEF Tree
    <3>7. Differing(commits[c].parents[1], c)' = Differing(commits[c].parents[1], c)
      BY <3>6 DEF Differing
    <3> QED  BY <2>1, <2>3, <3>7 DEF ByCommit
  <2> QED  BY <2>2, <2>3
<1>4. \A m : IsStamped(h, m) => IsStamped(h, m)'
  BY <1>1, <1>2, <1>3 DEF IsStamped
<1>5. \A c \in Past(t) \cap Past(h) : c \in Past(k)' \cap Past(h)' /\ Tree(c)' = Tree(c)
  BY <1>1, <1>2
<1>6. Tree(h)' = Tree(h)
  BY <1>1
<1> QED  BY <1>4, <1>5, <1>6 DEF StampedOrMains

LEMMA HandoffStep == HistoryInv /\ HandoffInv /\ [BranchNext]_branchVars => HandoffInv'
<1> SUFFICES ASSUME HistoryInv, HandoffInv, [BranchNext]_branchVars PROVE HandoffInv'
  OBVIOUS
<1>0. HistoryInv' /\ OthersKept /\ IsHistory
  BY HistoryStep DEF HistoryInv
<1>1. /\ main.local \in Ids /\ main.tracking \in Ids /\ main.remote \in Ids
      /\ topic.local \in Ids /\ topic.remote \in Ids \cup {0}
      /\ main \in [local : Ids, tracking : Ids, remote : Ids] /\ topic \in [local : Ids, remote : Ids \cup {0}]
  BY DEF HistoryInv, AreBranches
<1>2. \A c \in Ids : Past(c)' = Past(c)
  BY <1>0 DEF OthersKept, Past
<1>3. main.tracking \in Past(main.remote)
  BY DEF HandoffInv
\* The branch as it was pushed, and main as it was fetched, or fetched again.
<1>4. ASSUME topic'.remote = topic.remote, main'.tracking \in {main.tracking, main.remote}, so' = so, handed' = None,
             main'.tracking \in Past(main.remote)'
      PROVE  HandoffInv'
  <2>1. ASSUME so'.plain, topic'.remote # 0 PROVE StampedOrMains(main.tracking, topic.remote)'
    <3>1. topic.remote \in Ids /\ StampedOrMains(main.tracking, topic.remote)
      BY <1>1, <1>4, <2>1 DEF HandoffInv
    <3>2. PICK k \in Ids : k = main'.tracking
      BY <1>1, <1>4
    <3>3. Past(main.tracking) \subseteq Past(k)
      BY <1>0, <1>1, <1>3, <1>4, <3>2 DEF IsHistory
    <3>4. PICK t \in Ids : t = main.tracking
      BY <1>1
    <3>5. PICK h \in Ids : h = topic.remote
      BY <3>1
    <3>6. StampedOrMains(k, h)'
      BY <1>0, <3>1, <3>3, <3>4, <3>5, StampsStay
    <3> QED  BY <1>4, <3>2, <3>5, <3>6
  <2> QED  BY <1>4, <2>1 DEF HandoffInv
<1>5. ASSUME main'.tracking = main.tracking, main'.remote = main.remote PROVE main'.tracking \in Past(main.remote)'
  <2>1. Past(main.remote)' = commits'[main.remote].past
    BY <1>5 DEF Past
  <2>2. commits'[main.remote].past = Past(main.remote)
    BY <1>0, <1>1 DEF OthersKept, Past
  <2> QED  BY <1>3, <1>5, <2>1, <2>2
<1>6. CASE Commit \/ Amend \/ MergeMain \/ Checkout \/ ForwardMain
  <2>1. /\ topic'.remote = topic.remote /\ main'.tracking = main.tracking /\ main'.remote = main.remote
        /\ so' = so /\ handed' = None
    <3>1. \A c : MoveHead(c) => topic'.remote = topic.remote /\ main'.tracking = main.tracking /\ main'.remote = main.remote
      BY <1>1 DEF MoveHead
    <3>2. CASE Commit \/ Amend
      BY <1>6, <3>1, <3>2 DEF Commit, Amend, Quietly
    <3>3. CASE MergeMain
      BY <3>1, <3>3 DEF MergeMain, Quietly
    <3>4. CASE Checkout
      BY <3>4 DEF Checkout, Quietly
    <3>5. CASE ForwardMain
      BY <1>1, <3>5 DEF ForwardMain, Quietly
    <3> QED  BY <1>6, <3>2, <3>3, <3>4, <3>5
  <2> QED  BY <1>4, <1>5, <2>1
<1>7. CASE FetchMain
  <2>1. /\ topic' = topic /\ main'.tracking = main.remote /\ main'.remote = main.remote /\ so' = so /\ handed' = None
        /\ commits' = commits
    BY <1>1, <1>7 DEF FetchMain, Quietly
  <2>2. main'.tracking \in Past(main.remote)'
    BY <1>0, <1>1, <2>1 DEF IsHistory, Past
  <2> QED  BY <1>4, <2>1, <2>2
<1>8. CASE MainMoves
  <2>1. /\ topic' = topic /\ main'.tracking = main.tracking /\ main'.remote = New /\ so' = so /\ handed' = None
    BY <1>1, <1>8 DEF MainMoves, Quietly
  <2>2. \E parents \in Seq(Ids), tree \in [Files -> 0 .. 2] :
          \E e : /\ parents # << >> /\ parents[1] = main.remote /\ Add(parents, tree, e)
    <3>1. CASE \E e \in Edits : Add(<<main.remote>>, Changed(main.remote, e), e)
      <4>1. PICK e \in Edits : Add(<<main.remote>>, Changed(main.remote, e), e)
        BY <3>1
      <4>2. <<main.remote>> \in Seq(Ids) /\ <<main.remote>> # << >> /\ <<main.remote>>[1] = main.remote
        BY <1>1
      <4>3. Changed(main.remote, e) \in [Files -> 0 .. 2]
        BY <1>0, <1>1, ChangedIsTree
      <4> QED  BY <4>1, <4>2, <4>3
    <3>2. CASE /\ checked # None /\ checked.head = topic.remote
               /\ \E t \in Merged(main.remote, topic.remote) :
                    Add(<<main.remote, topic.remote>>, t, [author |-> "someone", msn |-> None, signed |-> TRUE, note |-> FALSE])
      <4>1. topic.remote \in Ids
        BY <3>2 DEF HistoryInv
      <4>2. PICK t \in Merged(main.remote, topic.remote) :
              Add(<<main.remote, topic.remote>>, t, [author |-> "someone", msn |-> None, signed |-> TRUE, note |-> FALSE])
        BY <3>2
      <4>3. t \in [Files -> 0 .. 2]
        BY DEF Merged
      <4>4. /\ <<main.remote, topic.remote>> \in Seq(Ids) /\ <<main.remote, topic.remote>> # << >>
            /\ <<main.remote, topic.remote>>[1] = main.remote
        BY <1>1, <4>1
      <4> QED  BY <4>2, <4>3, <4>4
    <3> QED  BY <1>8, <3>1, <3>2 DEF MainMoves
  <2>3. PICK parents, tree, e :
          /\ parents \in Seq(Ids) /\ tree \in [Files -> 0 .. 2]
          /\ parents # << >> /\ parents[1] = main.remote /\ Add(parents, tree, e)
    BY <2>2
  <2>4. Past(main.remote) \subseteq commits'[New].past
    <3>1. commits' = Append(commits, Record(parents, tree, e))
      BY <2>3 DEF Add
    <3>2. commits \in Seq(CommitRecords)
      BY <1>0 DEF IsHistory
    <3>3. commits'[New] = Record(parents, tree, e)
      <4> HIDE DEF Record
      <4> QED  BY <3>1, <3>2 DEF New
    <3>4. 1 \in DOMAIN parents
      BY <2>3
    <3>5. Past(parents[1]) \subseteq commits'[New].past
      BY <3>3, <3>4 DEF Record
    <3> QED  BY <2>3, <3>5
  <2>5. Past(main.remote)' = commits'[New].past
    BY <2>1 DEF Past
  <2>6. main'.tracking \in Past(main.remote)'
    BY <1>3, <2>1, <2>4, <2>5
  <2> QED  BY <1>4, <2>1, <2>6
<1>9. CASE PushTopic
  <2>1. /\ commits' = commits /\ main' = main /\ topic'.remote = topic.local
        /\ handed'.head = topic.local /\ handed'.tracking = main.tracking
    BY <1>1, <1>9 DEF PushTopic
  <2>2. main'.tracking \in Past(main.remote)'
    BY <1>5, <2>1
  <2>3. ASSUME so'.plain PROVE StampedOrMains(main.tracking, topic.remote)'
    <3>1. StampedOrMains(main.tracking, topic.local)
      BY <1>9, <2>3, PushIsStamped
    <3>2. PICK t \in Ids : t = main.tracking
      BY <1>1
    <3>3. PICK h \in Ids : h = topic.local
      BY <1>1
    <3>4. StampedOrMains(t, h)'
      BY <1>0, <3>1, <3>2, <3>3, StampsStay
    <3> QED  BY <2>1, <3>2, <3>3, <3>4
  <2>4. topic'.remote \in Ids'
    BY <1>0, <1>1, <2>1 DEF OthersKept
  <2> QED  BY <2>1, <2>2, <2>3, <2>4 DEF HandoffInv
<1>10. CASE Check
  <2>1. /\ topic' = topic /\ main' = main /\ so' = so /\ handed' = None
    BY <1>10 DEF Check
  <2> QED  BY <1>4, <1>5, <2>1
<1>11. CASE UNCHANGED branchVars
  <2>1. /\ topic' = topic /\ main' = main /\ so' = so /\ handed' = handed /\ commits' = commits
    BY <1>11 DEF branchVars
  <2>2. main'.tracking \in Past(main.remote)'
    BY <1>5, <2>1
  <2>3. ASSUME so'.plain, topic'.remote # 0 PROVE StampedOrMains(main.tracking, topic.remote)'
    <3>1. topic.remote \in Ids /\ StampedOrMains(main.tracking, topic.remote)
      BY <1>1, <2>1, <2>3 DEF HandoffInv
    <3>2. PICK t \in Ids : t = main.tracking
      BY <1>1
    <3>3. PICK h \in Ids : h = topic.remote
      BY <3>1
    <3>4. StampedOrMains(t, h)'
      BY <1>0, <3>1, <3>2, <3>3, StampsStay
    <3> QED  BY <2>1, <3>2, <3>3, <3>4
  <2>4. Ids' = Ids
    BY <2>1 DEF Ids
  <2> QED  BY <2>1, <2>2, <2>3, <2>4 DEF HandoffInv
<1> QED  BY <1>6, <1>7, <1>8, <1>9, <1>10, <1>11 DEF BranchNext

(* Pushed bit by bit, over any history of merges: every mission file that   *)
(* main never had as it is here is stamped by a Planner.                    *)
THEOREM PushesAreStamped == BranchSpec => []HandoffsAreStamped
<1>1. BranchInit => HistoryInv /\ HandoffInv
  <2>1. BranchInit => HistoryInv
    BY HistoryInit
  <2>2. BranchInit => HandoffInv
    BY DEF BranchInit, HandoffInv, Past
  <2> QED  BY <2>1, <2>2
<1>2. HistoryInv /\ HandoffInv /\ [BranchNext]_branchVars => (HistoryInv /\ HandoffInv)'
  BY HistoryStep, HandoffStep
<1>3. HistoryInv /\ HandoffInv => HandoffsAreStamped
  <2> SUFFICES ASSUME HistoryInv, HandoffInv, handed # None, so.plain, NEW m \in MissionsOf(handed)
               PROVE  IsStamped(handed.head, m)
    BY DEF HandoffsAreStamped
  <2>1. handed.head = topic.remote /\ handed.tracking = main.tracking /\ StampedOrMains(main.tracking, topic.remote)
    <3>1. topic.remote \in Ids /\ 0 \notin Ids
      BY DEF HandoffInv, HistoryInv, IsHistory, Ids
    <3> QED  BY <3>1 DEF HandoffInv
  <2> QED  BY <2>1 DEF StampedOrMains, MissionsOf, KeptIn
<1> QED  BY <1>1, <1>2, <1>3, PTL DEF BranchSpec

(* The type invariant.                                                      *)
THEOREM BranchTypeCorrect == BranchSpec => []BranchTypeOK
<1> DEFINE TypedInv == /\ handed # None => handed.verified \subseteq Missions
                       /\ checked # None => checked.green \in BOOLEAN
<1>1. BranchInit => HistoryInv /\ TypedInv
  BY HistoryInit DEF BranchInit
<1>2. HistoryInv /\ TypedInv /\ [BranchNext]_branchVars => (HistoryInv /\ TypedInv)'
  <2> SUFFICES ASSUME HistoryInv, TypedInv, [BranchNext]_branchVars PROVE TypedInv'
    BY HistoryStep
  <2>1. CASE PushTopic
    <3>1. \A a, b : RangeMissions(a, b) \subseteq Missions
      BY DEF RangeMissions
    <3>2. handed'.verified \subseteq Missions /\ checked' = None
      BY <2>1, <3>1 DEF PushTopic
    <3> QED  BY <3>2
  <2>2. CASE Check
    <3>1. handed' = None /\ checked'.green \in BOOLEAN
      <4>1. checked'.green = (SubjectsAreRight(main.remote, topic.remote) /\ MissionsHold(main.remote, topic.remote)
                              /\ PerimeterHolds(main.remote, topic.remote))
        BY <2>2 DEF Check
      <4> QED  BY <2>2, <4>1, Zenon DEF Check
    <3> QED  BY <3>1
  <2>3. CASE Commit \/ Amend \/ MergeMain \/ Checkout \/ ForwardMain \/ FetchMain \/ MainMoves
    BY <2>3 DEF Commit, Amend, MergeMain, Checkout, ForwardMain, FetchMain, MainMoves, Quietly
  <2>4. CASE UNCHANGED branchVars
    BY <2>4 DEF branchVars
  <2> QED  BY <2>1, <2>2, <2>3, <2>4 DEF BranchNext
<1>3. HistoryInv /\ TypedInv => BranchTypeOK
  <2> SUFFICES ASSUME HistoryInv, TypedInv PROVE BranchTypeOK
    OBVIOUS
  <2>1. \A c \in Ids : commits[c] \in CommitRecords
    BY DEF HistoryInv, IsHistory, Ids
  <2>2. \A c \in Ids : DOMAIN commits[c].tree = Files /\ commits[c].msn \in Missions \cup {None}
    BY <2>1 DEF CommitRecords
  <2>3. \A c \in Ids : c \in commits[c].past /\ commits[c].past \subseteq 1 .. c
    BY DEF HistoryInv, IsHistory, Past
  <2> QED  BY <2>2, <2>3 DEF BranchTypeOK, HistoryInv, AreBranches
<1> QED  BY <1>1, <1>2, <1>3, PTL DEF BranchSpec
=============================================================================
