---------------------------- MODULE MissionsProofs ----------------------------
(***************************************************************************)
(* Proofs about five parts of the life of a mission that share no state:   *)
(* architecture documents kept elsewhere (ArchAccess), gates (GateRun),    *)
(* draft tokens with the legislation they allow (DraftLegislation), the    *)
(* interrogation (Interrogation) and trace rows (TraceEvidence).           *)
(***************************************************************************)
EXTENDS DraftLegislation, Interrogation, TraceEvidence, GateRun, ArchAccess,
        FiniteSetTheorems, SequenceTheorems, WellFoundedInduction, TLAPS

-----------------------------------------------------------------------------
(* Architecture documents kept elsewhere.                                  *)

(* A credential file holds what was stored for the slot it names, which may *)
(* be another one than the slot it is looked up by.                         *)
AccessInv ==
  /\ pointer \in Pointers
  /\ files \in [SlotFiles -> {NoFile} \cup [slot : Slots, kind : CredentialKinds, secret : Nat]]
  /\ changes \in Nat
  /\ \A n \in SlotFiles : files[n] # NoFile => <<files[n].slot, files[n].secret>> \in stored
  /\ SecretsStayInTheirSlot

LEMMA AccessInvInit == AccessInit => AccessInv
BY DEF AccessInit, AccessInv, Idle, SecretsStayInTheirSlot, Pointers

(* The request takes the secret of the slot that the pointer it read names. *)
LEMMA FetchStartKept == ASSUME AccessInv, FetchStart PROVE AccessInv'
<1> USE DEF AccessInv
<1>1. CASE Stopped # "none"
  <2>1. fetch'.pointer.kind = "none"
    BY <1>1 DEF FetchStart, Idle
  <2> QED  BY <2>1 DEF FetchStart, SecretsStayInTheirSlot
<1>2. CASE Stopped = "none"
  <2>1. /\ fetch'.pointer = pointer
        /\ fetch'.secret = IF pointer.slot = NoSlot THEN NoFile ELSE files[FileOf[pointer.slot]]
    BY <1>2 DEF FetchStart
  <2>2. CASE pointer.slot = NoSlot
    <3>1. ~pointer.required
      BY <1>2, <2>2 DEF Stopped
    <3> QED  BY <2>1, <2>2, <3>1 DEF FetchStart, SecretsStayInTheirSlot
  <2>3. CASE pointer.slot # NoSlot
    <3>1. Loaded(pointer.slot) # "missing" /\ Loaded(pointer.slot) # "mismatch"
      BY <1>2, <2>3 DEF Stopped
    <3>2. files[FileOf[pointer.slot]] # NoFile /\ files[FileOf[pointer.slot]].slot = pointer.slot
      BY <3>1 DEF Loaded
    <3>3. pointer.slot \in Slots /\ FileOf[pointer.slot] \in SlotFiles
      BY <2>3 DEF Pointers, SlotFiles
    <3>4. <<pointer.slot, fetch'.secret.secret>> \in stored /\ fetch'.secret # NoFile
      BY <2>1, <2>3, <3>2, <3>3
    <3> QED  BY <2>1, <3>4 DEF FetchStart, SecretsStayInTheirSlot
  <2> QED  BY <2>2, <2>3
<1> QED  BY <1>1, <1>2

LEMMA AccessInvStep == AccessInv /\ [AccessNext]_accessVars => AccessInv'
<1> SUFFICES ASSUME AccessInv, [AccessNext]_accessVars PROVE AccessInv'
  OBVIOUS
<1> USE DEF AccessInv
<1>1. CASE EditPointer
  BY <1>1 DEF EditPointer, Change, SecretsStayInTheirSlot
<1>2. CASE FetchStart
  BY <1>2, FetchStartKept
<1>3. CASE FetchEnd
  <2>1. fetch'.pointer = fetch.pointer /\ fetch'.secret = fetch.secret
    BY <1>3 DEF FetchEnd
  <2> QED  BY <1>3, <2>1 DEF FetchEnd, SecretsStayInTheirSlot
<1>4. ASSUME NEW s \in Slots, CredUnset(s) PROVE AccessInv'
  <2>1. /\ files' = [files EXCEPT ![FileOf[s]] = NoFile]
        /\ changes' = changes + 1 /\ UNCHANGED <<pointer, fetch, stored>>
    BY <1>4 DEF CredUnset, Change
  <2>2. files' \in [SlotFiles -> {NoFile} \cup [slot : Slots, kind : CredentialKinds, secret : Nat]]
    BY <2>1
  <2>3. ASSUME NEW n \in SlotFiles, files'[n] # NoFile
        PROVE  <<files'[n].slot, files'[n].secret>> \in stored'
    <3>1. n # FileOf[s]
      BY <2>1, <2>3
    <3> QED  BY <2>1, <2>3, <3>1
  <2>4. SecretsStayInTheirSlot'
    BY <2>1 DEF SecretsStayInTheirSlot
  <2> QED  BY <2>1, <2>2, <2>3, <2>4
<1>5. ASSUME NEW s \in Slots, NEW kind \in CredentialKinds, CredSet(s, kind) PROVE AccessInv'
  <2> DEFINE new == [slot |-> s, kind |-> kind, secret |-> changes]
  <2>1. /\ files' = [files EXCEPT ![FileOf[s]] = new] /\ stored' = stored \cup {<<s, changes>>}
        /\ changes' = changes + 1 /\ UNCHANGED <<pointer, fetch>>
    BY <1>5 DEF CredSet, Change
  <2>2. new \in [slot : Slots, kind : CredentialKinds, secret : Nat] /\ new.slot = s /\ new.secret = changes
    OBVIOUS
  <2> HIDE DEF new
  <2>3. files' \in [SlotFiles -> {NoFile} \cup [slot : Slots, kind : CredentialKinds, secret : Nat]]
    BY <2>1, <2>2
  <2>4. ASSUME NEW n \in SlotFiles, files'[n] # NoFile
        PROVE  <<files'[n].slot, files'[n].secret>> \in stored'
    <3>1. CASE n = FileOf[s]
      BY <2>1, <2>2, <3>1
    <3>2. CASE n # FileOf[s]
      BY <2>1, <2>4, <3>2
    <3> QED  BY <3>1, <3>2
  <2>5. SecretsStayInTheirSlot'
    BY <2>1 DEF SecretsStayInTheirSlot
  <2> QED  BY <2>1, <2>3, <2>4, <2>5
<1>6. CASE UNCHANGED accessVars
  BY <1>6 DEF accessVars, SecretsStayInTheirSlot
<1> QED  BY <1>1, <1>2, <1>3, <1>4, <1>5, <1>6 DEF AccessNext

(* loadArchitectureCredential and fetchExternalArchitecture: no request      *)
(* carries a secret stored for another slot, also where several slots have  *)
(* one file, and none goes out bare where the pointer requires access.      *)
THEOREM SecretsAreNotMixed == AccessSpec => []SecretsStayInTheirSlot
<1>1. AccessInv => SecretsStayInTheirSlot
  BY DEF AccessInv
<1> QED  BY <1>1, AccessInvInit, AccessInvStep, PTL DEF AccessSpec

-----------------------------------------------------------------------------
(* Gates.                                                                  *)

Working(g) == gatePc[g] \in {"run", "exited", "judge"}

GateType ==
  /\ gatePc \in [Gates -> {"idle", "run", "exited", "judge", "done"}]
  /\ at \in [Gates -> Nat] /\ stdout \in [Gates -> Seq(Chunks)]
  /\ held \in [Gates -> BOOLEAN] /\ code \in [Gates -> BOOLEAN]
  /\ DOMAIN found = Gates /\ overlapped \subseteq Gates

(* A gate that never ran beside another one has the log to itself from its  *)
(* start to its judgement.                                                  *)
GateInv ==
  /\ GateType
  /\ \A g \in Gates : /\ held[g] => gatePc[g] = "exited"
                      /\ at[g] = Len(stdout[g])
                      /\ gatePc[g] = "idle" => stdout[g] = << >>
                      /\ gatePc[g] # "done" => found[g] = "running"
  /\ \A g \in Gates \ overlapped : Working(g) => Others(g) = {} /\ gateLog = stdout[g]
  /\ GateIsItsOwn

LEMMA GateInvInit == GateInit => GateInv
BY DEF GateInit, GateInv, GateType, GateIsItsOwn, Working

(* A gate alone appends to its log. *)
LEMMA PutAtEnd ==
  ASSUME NEW g \in Gates, NEW c \in Chunks, gateLog = stdout[g], stdout[g] \in Seq(Chunks), at[g] = Len(stdout[g])
  PROVE  PutAt(g, c) = Append(stdout[g], c)
BY DEF PutAt

LEMMA GateInvStep == GateInv /\ [GateNext]_gateVars => GateInv'
<1> SUFFICES ASSUME GateInv, [GateNext]_gateVars PROVE GateInv'
  OBVIOUS
<1> USE DEF GateInv, GateType, GateGoto, Working, Others, Passed
<1>1. ASSUME NEW g \in Gates, GateStart(g) PROVE GateInv'
  BY <1>1 DEF GateStart, GateIsItsOwn
<1>2. ASSUME NEW g \in Gates, Output(g) PROVE GateInv'
  <2>1. PICK c \in Chunks : stdout' = [stdout EXCEPT ![g] = Append(@, c)] /\ gateLog' = PutAt(g, c)
    BY <1>2 DEF Output
  <2>2. gatePc[g] \in {"run", "exited"} /\ at' = [at EXCEPT ![g] = @ + 1]
        /\ UNCHANGED <<gatePc, held, code, found, overlapped>>
    BY <1>2 DEF Output
  <2>3. g \notin overlapped => gateLog' = stdout'[g]
    BY <2>1, <2>2, PutAtEnd
  <2>4. stdout' \in [Gates -> Seq(Chunks)] /\ at' \in [Gates -> Nat] /\ \A h \in Gates : at'[h] = Len(stdout'[h])
    BY <2>1, <2>2
  <2>5. \A h \in Gates : h # g => stdout'[h] = stdout[h]
    BY <2>1
  <2>6. \A h \in Gates \ overlapped : Working(h) => h = g
    BY <2>2
  <2>7. GateIsItsOwn'
    BY <2>2, <2>5 DEF GateIsItsOwn
  <2> QED  BY <2>2, <2>3, <2>4, <2>5, <2>6, <2>7
<1>3. ASSUME NEW g \in Gates, GateExit(g) PROVE GateInv'
  BY <1>3 DEF GateExit, GateIsItsOwn
<1>4. ASSUME NEW g \in Gates, Release(g) PROVE GateInv'
  BY <1>4 DEF Release, GateIsItsOwn
<1>5. ASSUME NEW g \in Gates, Closed(g) PROVE GateInv'
  BY <1>5 DEF Closed, GateIsItsOwn
<1>6. ASSUME NEW g \in Gates, JudgeGate(g) PROVE GateInv'
  <2>1. PICK v \in GateFinding(g) : found' = [found EXCEPT ![g] = v]
    BY <1>6 DEF JudgeGate
  <2>2. v = "none" <=> code[g] /\ Matched(g)
    <3>1. CASE code[g] /\ Matched(g)
      <4>1. GateFinding(g) = {"none"}
        BY <3>1 DEF GateFinding
      <4>2. v = "none"
        BY <4>1
      <4> QED  BY <3>1, <4>2, Zenon
    <3>2. CASE ~(code[g] /\ Matched(g))
      <4>1. GateFinding(g) \subseteq {"failed", "truncated", "diagnostics and truncated", "unparseable", "diagnostics"}
        BY <3>2 DEF GateFinding
      <4>2. v # "none"
        BY <4>1
      <4> QED  BY <3>2, <4>2, Zenon
    <3> QED  BY <3>1, <3>2
  <2>3. gatePc[g] = "judge" /\ gatePc' = [gatePc EXCEPT ![g] = "done"]
        /\ UNCHANGED <<gateLog, at, stdout, held, code, overlapped>>
    BY <1>6 DEF JudgeGate
  <2>4. g \notin overlapped => (Matched(g) <=> Needle \in ToSet(LastPart(stdout[g])))
    BY <2>3 DEF Matched
  <2>5. GateIsItsOwn'
    BY <2>1, <2>2, <2>3, <2>4 DEF GateIsItsOwn, LastPart
  <2> QED  BY <2>1, <2>3, <2>5
<1>7. CASE UNCHANGED gateVars
  BY <1>7 DEF gateVars, GateIsItsOwn
<1> QED  BY <1>1, <1>2, <1>3, <1>4, <1>5, <1>6, <1>7 DEF GateNext

(* executeGateCommand and findingsFromRun: a gate that ran beside no other   *)
(* passes exactly when its command ended with 0 and the text is in the last *)
(* part of what it and all it started put out, however late they did.       *)
THEOREM GatesJudgeTheirOwn == GateSpec => []GateIsItsOwn
<1>1. GateInv => GateIsItsOwn
  BY DEF GateInv
<1> QED  BY <1>1, GateInvInit, GateInvStep, PTL DEF GateSpec
-----------------------------------------------------------------------------
(* Draft tokens.                                                           *)

TokensSigned == [p : Proposals, head : Nat, exp : Nat, key : Nat \cup {NoKey}]

DraftType ==
  /\ pc \in [Servers -> {"idle", "newKey", "mark", "open", "fill", "legislate", "write"}]
  /\ tok \in [Servers -> Nat]
  /\ DOMAIN old = Servers /\ DOMAIN path = Servers /\ DOMAIN missionFiles = Proposals
  /\ tokens \in Seq(TokensSigned)
  /\ accepted \in Seq(Nat)
  /\ head \in Nat /\ now \in Nat /\ key \in Nat \cup {NoKey} /\ lost \in BOOLEAN

LEMMA SignedWith == ASSUME NEW t \in TokensSigned, NEW k \in Nat PROVE [t EXCEPT !.key = k] \in TokensSigned
BY DEF TokensSigned

LEMMA DraftTypeInit == DraftInit => DraftType
<1> SUFFICES ASSUME DraftInit PROVE DraftType
  OBVIOUS
<1> USE DEF DraftInit
<1>1. pc \in [Servers -> {"idle", "newKey", "mark", "open", "fill", "legislate", "write"}]
  OBVIOUS
<1>2. tok \in [Servers -> Nat]
  OBVIOUS
<1>3. DOMAIN old = Servers /\ DOMAIN path = Servers /\ DOMAIN missionFiles = Proposals
  OBVIOUS
<1>4. tokens \in Seq(TokensSigned) /\ accepted \in Seq(Nat)
  OBVIOUS
<1>5. head \in Nat /\ now \in Nat
  OBVIOUS
<1>6. key \in Nat \cup {NoKey} /\ lost \in BOOLEAN
  OBVIOUS
<1> QED  BY <1>1, <1>2, <1>3, <1>4, <1>5, <1>6 DEF DraftType

LEMMA DraftTypeStep == DraftType /\ [DraftNext]_draftVars => DraftType'
<1> SUFFICES ASSUME DraftType, [DraftNext]_draftVars PROVE DraftType'
  OBVIOUS
<1> USE DraftAssumption DEF DraftType, Goto, End, world, work
<1>1. ASSUME NEW s \in Servers, DraftMission(s) PROVE DraftType'
  <2>1. PICK p \in Proposals : tokens' = Append(tokens, [p |-> p, head |-> head, exp |-> now + TTL, key |-> key])
    BY <1>1 DEF DraftMission
  <2>2. [p |-> p, head |-> head, exp |-> now + TTL, key |-> key] \in TokensSigned
    BY DEF TokensSigned
  <2>3. tokens' \in Seq(TokensSigned) /\ Len(tokens') \in Nat
    BY <2>1, <2>2
  <2>4. UNCHANGED <<key, accepted, missionFiles, world>> /\ key \in Nat \cup {NoKey}
    BY <1>1 DEF DraftMission
  <2>5. \/ End(s)
        \/ tok' = [tok EXCEPT ![s] = Len(tokens')] /\ Goto(s, "newKey") /\ UNCHANGED work
    BY <1>1 DEF DraftMission
  <2>6. tok' \in [Servers -> Nat] /\ DOMAIN old' = Servers /\ DOMAIN path' = Servers
    <3>1. CASE End(s)
      BY <3>1
    <3>2. CASE tok' = [tok EXCEPT ![s] = Len(tokens')] /\ Goto(s, "newKey") /\ UNCHANGED work
      BY <2>3, <3>2
    <3> QED  BY <2>5, <3>1, <3>2
  <2>7. pc' \in [Servers -> {"idle", "newKey", "mark", "open", "fill", "legislate", "write"}]
    BY <2>5
  <2> QED  BY <2>3, <2>4, <2>6, <2>7
<1>2. ASSUME NEW s \in Servers, NewKey(s) PROVE DraftType'
  <2> DEFINE new == [tokens[tok[s]] EXCEPT !.key = tok[s]]
  <2>1. tokens' = [tokens EXCEPT ![tok[s]] = new] /\ key' = tok[s]
    BY <1>2 DEF NewKey
  <2>2. tok[s] \in Nat
    OBVIOUS
  <2>3. tok[s] \in 1 .. Len(tokens) => new \in TokensSigned
    <3> SUFFICES ASSUME tok[s] \in 1 .. Len(tokens) PROVE new \in TokensSigned
      OBVIOUS
    <3>1. tokens[tok[s]] \in TokensSigned
      OBVIOUS
    <3> QED  BY <2>2, <3>1, SignedWith
  <2> HIDE DEF new
  <2>4. tokens' \in Seq(TokensSigned)
    <3>1. CASE tok[s] \in 1 .. Len(tokens)
      BY <2>1, <2>3, <3>1, ExceptSeq
    <3>2. CASE tok[s] \notin 1 .. Len(tokens)
      <4>1. tokens' = tokens
        BY <2>1, <3>2
      <4> QED  BY <4>1
    <3> QED  BY <3>1, <3>2
  <2> QED  BY <1>2, <2>1, <2>2, <2>4 DEF NewKey
<1>3. ASSUME NEW s \in Servers, VerifyToken(s) PROVE DraftType'
  BY <1>3 DEF VerifyToken
<1>4. ASSUME NEW s \in Servers, Mark(s) PROVE DraftType'
  <2>1. old' = [old EXCEPT ![s] = UsedNow] /\ Goto(s, "open")
        /\ UNCHANGED <<key, missionFiles, world, tokens, tok, path, accepted>>
    BY <1>4 DEF Mark
  <2> QED  BY <2>1
<1>5. ASSUME NEW s \in Servers, OpenList(s) PROVE DraftType'
  BY <1>5 DEF OpenList
<1>6. ASSUME NEW s \in Servers, FillList(s) PROVE DraftType'
  BY <1>6 DEF FillList
<1>7. ASSUME NEW s \in Servers, LegislateDirectly(s) PROVE DraftType'
  BY <1>7 DEF LegislateDirectly, Plain, AllowDuplicate
<1>8. ASSUME NEW s \in Servers, Look(s) PROVE DraftType'
  <2>1. UNCHANGED <<missionFiles, world, key, tokens, accepted>>
    BY <1>8 DEF Look
  <2>2. \/ DOMAIN path' = DOMAIN path /\ Goto(s, "write") /\ UNCHANGED <<tok, old>>
        \/ End(s)
    BY <1>8 DEF Look
  <2>3. tok' \in [Servers -> Nat] /\ DOMAIN old' = Servers /\ DOMAIN path' = Servers
    <3>1. CASE End(s)
      BY <3>1
    <3>2. CASE DOMAIN path' = DOMAIN path /\ Goto(s, "write") /\ UNCHANGED <<tok, old>>
      BY <3>2
    <3> QED  BY <2>2, <3>1, <3>2
  <2>4. pc' \in [Servers -> {"idle", "newKey", "mark", "open", "fill", "legislate", "write"}]
    BY <2>2
  <2> QED  BY <2>1, <2>3, <2>4
<1>9. ASSUME NEW s \in Servers, Write(s) PROVE DraftType'
  BY <1>9 DEF Write
<1>10. ASSUME NEW s \in Servers, ServerCrash(s) PROVE DraftType'
  BY <1>10 DEF ServerCrash
<1>11. CASE Tick \/ CommitAny \/ RemoveFile
  BY <1>11 DEF Tick, CommitAny, RemoveFile
<1>12. CASE UNCHANGED draftVars
  BY <1>12 DEF draftVars
<1> QED  BY <1>1, <1>2, <1>3, <1>4, <1>5, <1>6, <1>7, <1>8, <1>9, <1>10, <1>11, <1>12 DEF DraftNext, ServerStep

-----------------------------------------------------------------------------
(* The list of used tokens.                                                *)

InList == {s \in Servers : pc[s] \in {"mark", "open", "fill"}}

(* Accepted tokens that are near each other differ. *)
NoNearRepeats ==
  \A j \in DOMAIN accepted : \A i \in 1 .. j - 1 : j - i <= ReplayCap => accepted[i] # accepted[j]

(* Unless a server lost what another wrote, one server at a time is at the   *)
(* list, which then holds the newest of what was accepted, and the token in  *)
(* hand is not among these.                                                 *)
ListInv ==
  ~lost => /\ \A s, q \in InList : s = q
           /\ (\A s \in Servers : pc[s] # "fill") => used = Trimmed(accepted)
           /\ \A s \in Servers :
                /\ pc[s] = "open" => old[s] = used
                /\ pc[s] = "fill" => old[s] = Trimmed(accepted)
                /\ pc[s] \in {"mark", "open", "fill"} => tok[s] \notin ToSet(Trimmed(accepted))
           /\ NoNearRepeats
(* How many of n entries are kept. *)
Kept(n) == IF n > ReplayCap THEN ReplayCap ELSE n

LEMMA KeptFacts == ASSUME NEW n \in Nat
  PROVE /\ Kept(n) \in Nat /\ Kept(n) <= n /\ Kept(n) <= ReplayCap
        /\ Kept(Kept(n) + 1) = Kept(n + 1) /\ Kept(n + 1) <= Kept(n) + 1
        /\ Kept(n) < n => Kept(n) = ReplayCap
BY DraftAssumption DEF Kept

LEMMA TrimmedType == ASSUME NEW list \in Seq(Nat)
  PROVE /\ Trimmed(list) \in Seq(Nat) /\ Len(Trimmed(list)) = Kept(Len(list))
        /\ \A i \in 1 .. Kept(Len(list)) : Trimmed(list)[i] = list[Len(list) - Kept(Len(list)) + i]
<1> DEFINE n == Len(list)
           m == n - Kept(n) + 1
<1>1. n \in Nat /\ list \in [1 .. n -> Nat]
  OBVIOUS
<1>2. Trimmed(list) = SubSeq(list, m, n)
  <2>1. m = IF n > ReplayCap THEN n - ReplayCap + 1 ELSE 1
    BY <1>1, DraftAssumption DEF Kept
  <2> HIDE DEF m
  <2> QED  BY <2>1 DEF Trimmed
<1> HIDE DEF n
<1>3. Kept(n) \in Nat /\ Kept(n) <= n
  BY <1>1, KeptFacts
<1>4. m \in Nat /\ n - m + 1 = Kept(n) /\ m >= 1 /\ (n < m => Kept(n) = 0)
      /\ \A i \in 1 .. Kept(n) : m + i - 1 = n - Kept(n) + i
  <2> DEFINE q == Kept(n)
  <2>1. q \in Nat /\ q <= n /\ m = n - q + 1
    BY <1>3
  <2> HIDE DEF q, m
  <2>2. m \in Nat /\ n - m + 1 = q /\ m >= 1 /\ (n < m => q = 0)
    BY <1>1, <2>1
  <2>3. \A i \in 1 .. q : m + i - 1 = n - q + i
    BY <1>1, <2>1
  <2> QED  BY <2>2, <2>3 DEF q
<1>5. n \in Int /\ m \in Int /\ \A i \in m .. n : list[i] \in Nat
  BY <1>1, <1>4
<1> HIDE DEF m
<1>6. /\ SubSeq(list, m, n) \in Seq(Nat)
      /\ Len(SubSeq(list, m, n)) = IF m <= n THEN n - m + 1 ELSE 0
      /\ \A i \in 1 .. n - m + 1 : SubSeq(list, m, n)[i] = list[m + i - 1]
  BY <1>5, SubSeqProperties
<1>7. Len(SubSeq(list, m, n)) = Kept(n)
  BY <1>4, <1>5, <1>6
<1>8. \A i \in 1 .. Kept(n) : SubSeq(list, m, n)[i] = list[n - Kept(n) + i]
  BY <1>4, <1>6
<1> QED  BY <1>2, <1>6, <1>7, <1>8 DEF n

(* What falls out of the list is the oldest. *)
LEMMA TrimmedAppend == ASSUME NEW list \in Seq(Nat), NEW t \in Nat
  PROVE Trimmed(Append(Trimmed(list), t)) = Trimmed(Append(list, t))
<1> DEFINE n == Len(list)
           short == Trimmed(list)
           new == Append(short, t)
           all == Append(list, t)
           a == Trimmed(new)
           b == Trimmed(all)
           k == Kept(n + 1)
<1>1. n \in Nat /\ short \in Seq(Nat) /\ Len(short) = Kept(n)
      /\ \A i \in 1 .. Kept(n) : short[i] = list[n - Kept(n) + i]
  BY TrimmedType
<1>2. /\ Kept(n) \in Nat /\ Kept(n) <= n /\ Kept(Kept(n) + 1) = k
      /\ k <= Kept(n) + 1 /\ k \in Nat
  <2>1. n + 1 \in Nat
    BY <1>1
  <2> QED  BY <1>1, <2>1, KeptFacts
<1> HIDE DEF n, short, k
<1>3. /\ new \in Seq(Nat) /\ Len(new) = Kept(n) + 1 /\ new[Kept(n) + 1] = t
      /\ \A i \in 1 .. Kept(n) : new[i] = list[n - Kept(n) + i]
  BY <1>1
<1>4. /\ all \in Seq(Nat) /\ Len(all) = n + 1 /\ all[n + 1] = t
      /\ \A i \in 1 .. n : all[i] = list[i]
  BY <1>1 DEF n
<1> HIDE DEF new, all
<1>5. /\ a \in Seq(Nat) /\ Len(a) = k
      /\ \A i \in 1 .. k : a[i] = new[Kept(n) + 1 - k + i]
  <2>1. Kept(Len(new)) = k /\ Len(new) = Kept(n) + 1
    BY <1>2, <1>3
  <2>2. /\ a \in Seq(Nat) /\ Len(a) = Kept(Len(new))
        /\ \A i \in 1 .. Kept(Len(new)) : a[i] = new[Len(new) - Kept(Len(new)) + i]
    BY <1>3, TrimmedType, Zenon
  <2> HIDE DEF a
  <2>3. ASSUME NEW i \in 1 .. k PROVE a[i] = new[Kept(n) + 1 - k + i]
    <3>1. a[i] = new[Len(new) - Kept(Len(new)) + i]
      BY <2>1, <2>2
    <3> QED  BY <1>1, <1>2, <1>4, <2>1, <3>1
  <2> QED  BY <2>3, <1>1, <1>2, <2>1, <2>2
<1>6. /\ b \in Seq(Nat) /\ Len(b) = k
      /\ \A i \in 1 .. k : b[i] = all[n + 1 - k + i]
  <2>1. Kept(Len(all)) = k
    BY <1>4 DEF k
  <2>2. /\ b \in Seq(Nat) /\ Len(b) = Kept(Len(all))
        /\ \A i \in 1 .. Kept(Len(all)) : b[i] = all[Len(all) - Kept(Len(all)) + i]
    BY <1>4, TrimmedType, Zenon
  <2> HIDE DEF b
  <2>3. ASSUME NEW i \in 1 .. k PROVE b[i] = all[n + 1 - k + i]
    <3>1. b[i] = all[Len(all) - Kept(Len(all)) + i]
      BY <2>1, <2>2
    <3> QED  BY <1>1, <1>2, <1>4, <2>1, <3>1
  <2> QED  BY <2>3, <1>1, <1>2, <1>4, <2>1, <2>2
<1> HIDE DEF a, b
<1>7. ASSUME NEW i \in 1 .. k PROVE a[i] = b[i]
  <2>1. CASE i = k
    <3>1. Kept(n) + 1 - k + i = Kept(n) + 1 /\ n + 1 - k + i = n + 1
      BY <1>1, <1>2, <2>1
    <3> QED  BY <1>3, <1>4, <1>5, <1>6, <3>1
  <2>2. CASE i # k
    <3>1. Kept(n) + 1 - k + i \in 1 .. Kept(n) /\ n + 1 - k + i \in 1 .. n
          /\ n - Kept(n) + (Kept(n) + 1 - k + i) = n + 1 - k + i
      BY <1>1, <1>2, <2>2
    <3> QED  BY <1>3, <1>4, <1>5, <1>6, <3>1
  <2> QED  BY <2>1, <2>2
<1>8. a = b
  BY <1>5, <1>6, <1>7, SeqEqual
<1> QED  BY <1>8 DEF a, b, new, all, short
LEMMA ListInvInit == DraftInit => ListInv
<1> SUFFICES ASSUME DraftInit PROVE ListInv
  OBVIOUS
<1>1. accepted = << >> /\ used = << >> /\ \A s \in Servers : pc[s] = "idle"
  BY DEF DraftInit
<1>2. Trimmed(<< >>) = << >>
  <2>1. Len(<< >>) = 0 /\ Kept(0) = 0 /\ << >> \in Seq(Nat)
    BY DraftAssumption DEF Kept
  <2>2. Trimmed(<< >>) \in Seq(Nat) /\ Len(Trimmed(<< >>)) = 0
    BY <2>1, TrimmedType
  <2> QED  BY <2>2
<1>3. NoNearRepeats
  BY <1>1 DEF NoNearRepeats
<1> QED  BY <1>1, <1>2, <1>3 DEF ListInv, InList

(* A step that leaves the list, and whoever is at it, alone. *)
LEMMA ListElsewhere ==
  ASSUME ListInv, ~lost', ~lost => UNCHANGED <<used, accepted>>,
         lost => lost',
         \A s \in Servers : pc[s] = "fill" => pc'[s] = "fill",
         \A s \in Servers : pc'[s] \in {"mark", "open", "fill"} => pc'[s] = pc[s] /\ tok'[s] = tok[s] /\ old'[s] = old[s]
  PROVE  ListInv'
BY DEF ListInv, InList, NoNearRepeats, Trimmed

LEMMA ListOff ==
  ASSUME NEW s \in Servers, ListInv, UNCHANGED <<used, accepted, lost>>,
         pc[s] \notin {"mark", "open", "fill"}, pc'[s] \notin {"mark", "open", "fill"},
         \A q \in Servers \ {s} : pc'[q] = pc[q] /\ tok'[q] = tok[q] /\ old'[q] = old[q]
  PROVE  ListInv'
<1>1. CASE lost'
  BY <1>1 DEF ListInv
<1>2. CASE ~lost'
  <2>1. \A q \in Servers : pc[q] = "fill" => pc'[q] = "fill"
    OBVIOUS
  <2>2. \A q \in Servers : pc'[q] \in {"mark", "open", "fill"} => pc'[q] = pc[q] /\ tok'[q] = tok[q] /\ old'[q] = old[q]
    OBVIOUS
  <2> QED  BY <1>2, <2>1, <2>2, ListElsewhere
<1> QED  BY <1>1, <1>2

LEMMA FillKeepsApart ==
  ASSUME DraftType, NoNearRepeats, NEW t \in Nat, t \notin ToSet(Trimmed(accepted)), accepted' = Append(accepted, t)
  PROVE  NoNearRepeats'
<1> DEFINE n == Len(accepted)
<1>1. n \in Nat /\ accepted \in Seq(Nat) /\ Len(accepted') = n + 1 /\ accepted'[n + 1] = t
      /\ \A i \in 1 .. n : accepted'[i] = accepted[i]
  BY DEF DraftType
<1>2. Kept(n) \in Nat /\ Kept(n) <= n /\ (Kept(n) < n => Kept(n) = ReplayCap)
  BY <1>1, KeptFacts
<1>3. /\ Len(Trimmed(accepted)) = Kept(n) /\ Trimmed(accepted) \in Seq(Nat)
      /\ \A i \in 1 .. Kept(n) : Trimmed(accepted)[i] = accepted[n - Kept(n) + i]
  BY <1>1, TrimmedType
<1> HIDE DEF n
<1>4. ASSUME NEW i \in 1 .. n, n + 1 - i <= ReplayCap PROVE accepted[i] # t
  <2>1. i - (n - Kept(n)) \in 1 .. Kept(n) /\ n - Kept(n) + (i - (n - Kept(n))) = i
    <3> DEFINE k == Kept(n)
    <3>1. k \in Nat /\ k <= n /\ (k < n => k = ReplayCap)
      BY <1>2
    <3> HIDE DEF k
    <3>2. i - (n - k) \in 1 .. k /\ n - k + (i - (n - k)) = i
      BY <1>1, <1>4, <3>1, DraftAssumption
    <3> QED  BY <3>2 DEF k
  <2>2. Trimmed(accepted)[i - (n - Kept(n))] = accepted[i]
    BY <1>3, <2>1
  <2>3. accepted[i] \in ToSet(Trimmed(accepted))
    BY <1>2, <1>3, <2>1, <2>2 DEF ToSet
  <2> QED  BY <2>3
<1> SUFFICES ASSUME NEW j \in 1 .. n + 1, NEW i \in 1 .. j - 1, j - i <= ReplayCap
             PROVE  accepted'[i] # accepted'[j]
  BY <1>1 DEF NoNearRepeats, DraftType
<1>5. CASE j = n + 1
  <2>1. i \in 1 .. n /\ n + 1 - i <= ReplayCap
    BY <1>1, <1>5
  <2> QED  BY <1>1, <1>4, <1>5, <2>1
<1>6. CASE j # n + 1
  <2>1. j \in 1 .. n /\ i \in 1 .. n /\ j \in DOMAIN accepted
    BY <1>1, <1>6 DEF n
  <2> QED  BY <1>1, <2>1 DEF NoNearRepeats
<1> QED  BY <1>5, <1>6

LEMMA ListInvStep == DraftType /\ ListInv /\ [DraftNext]_draftVars => ListInv'
<1> SUFFICES ASSUME DraftType, ListInv, [DraftNext]_draftVars PROVE ListInv'
  OBVIOUS
<1> USE DEF Goto, End, world, work
<1>t. accepted \in Seq(Nat) /\ Trimmed(accepted) \in Seq(Nat) /\ Trimmed(accepted) # Torn /\ lost \in BOOLEAN
      /\ DOMAIN pc = Servers /\ DOMAIN tok = Servers /\ DOMAIN old = Servers
  BY TrimmedType, DraftAssumption DEF DraftType
<1>1. ASSUME NEW s \in Servers, DraftMission(s) PROVE ListInv'
  <2>1. pc[s] = "idle" /\ UNCHANGED <<used, accepted, lost>>
    BY <1>1 DEF DraftMission
  <2>2. \/ End(s)
        \/ DOMAIN tok' = Servers /\ (\A q \in Servers \ {s} : tok'[q] = tok[q]) /\ Goto(s, "newKey") /\ UNCHANGED old
    BY <1>t, <1>1 DEF DraftMission
  <2>3. \A q \in Servers \ {s} : pc'[q] = pc[q] /\ tok'[q] = tok[q] /\ old'[q] = old[q]
    BY <1>t, <2>2
  <2>4. pc'[s] \in {"idle", "newKey"}
    BY <1>t, <2>2
  <2>5. pc[s] \notin {"mark", "open", "fill"} /\ pc'[s] \notin {"mark", "open", "fill"}
    BY <2>1, <2>4
  <2> QED  BY <2>1, <2>3, <2>5, ListOff
<1>2. ASSUME NEW s \in Servers, NewKey(s) PROVE ListInv'
  <2>1. pc[s] = "newKey" /\ UNCHANGED <<used, accepted, lost>>
    BY <1>2 DEF NewKey
  <2>2. (\A q \in Servers \ {s} : pc'[q] = pc[q] /\ tok'[q] = tok[q] /\ old'[q] = old[q])
        /\ pc'[s] \notin {"mark", "open", "fill"}
    BY <1>t, <1>2 DEF NewKey
  <2>3. pc[s] \notin {"mark", "open", "fill"}
    BY <2>1
  <2> QED  BY <2>1, <2>2, <2>3, ListOff
<1>3. ASSUME NEW s \in Servers, VerifyToken(s) PROVE ListInv'
  <2> SUFFICES ASSUME ~lost' PROVE ListInv'
    BY DEF ListInv
  <2>1. ~lost /\ InList = {} /\ UNCHANGED <<used, old, accepted>>
    BY <1>t, <1>3 DEF VerifyToken, InList
  <2>2. used = Trimmed(accepted)
    BY <2>1 DEF ListInv, InList
  <2>3. pc' = [pc EXCEPT ![s] = "mark"] /\ tok'[s] \notin ToSet(Trimmed(accepted))
    BY <1>t, <1>3, <2>2 DEF VerifyToken, ValidToken, UsedNow
  <2>4. InList' = {s} /\ \A q \in Servers : pc'[q] \notin {"open", "fill"}
    BY <1>t, <2>1, <2>3 DEF InList
  <2> QED  BY <2>1, <2>2, <2>3, <2>4 DEF ListInv, InList, NoNearRepeats, Trimmed
<1>4. ASSUME NEW s \in Servers, Mark(s) PROVE ListInv'
  <2> SUFFICES ASSUME ~lost' PROVE ListInv'
    BY DEF ListInv
  <2>1. ~lost /\ InList = {s} /\ UNCHANGED <<used, tok, accepted>> /\ pc[s] = "mark" /\ pc' = [pc EXCEPT ![s] = "open"]
        /\ old' = [old EXCEPT ![s] = UsedNow]
    BY <1>t, <1>4 DEF Mark, InList, ListInv
  <2>2. used = Trimmed(accepted) /\ UsedNow = used
    BY <1>t, <2>1 DEF ListInv, InList, UsedNow
  <2>3. InList' = {s} /\ \A q \in Servers : pc'[q] # "fill" /\ (pc'[q] = "open" => q = s)
    BY <1>t, <2>1 DEF InList
  <2>4. old'[s] = used' /\ Trimmed(accepted') = Trimmed(accepted) /\ tok'[s] \notin ToSet(Trimmed(accepted)) /\ NoNearRepeats'
    BY <1>t, <2>1, <2>2 DEF ListInv, NoNearRepeats, Trimmed
  <2> QED  BY <2>1, <2>2, <2>3, <2>4 DEF ListInv, InList
<1>5. ASSUME NEW s \in Servers, OpenList(s) PROVE ListInv'
  <2> SUFFICES ASSUME ~lost' PROVE ListInv'
    BY DEF ListInv
  <2>1. ~lost /\ InList = {s} /\ UNCHANGED <<old, tok, accepted>> /\ pc[s] = "open" /\ pc' = [pc EXCEPT ![s] = "fill"]
    BY <1>t, <1>5 DEF OpenList, InList, ListInv
  <2>2. old[s] = Trimmed(accepted)
    BY <2>1 DEF ListInv, InList
  <2>3. InList' = {s} /\ pc'[s] = "fill" /\ \A q \in Servers : pc'[q] \in {"mark", "open", "fill"} => q = s
    BY <1>t, <2>1 DEF InList
  <2>4. old'[s] = Trimmed(accepted') /\ tok'[s] \notin ToSet(Trimmed(accepted')) /\ NoNearRepeats'
    BY <2>1, <2>2 DEF ListInv, NoNearRepeats, Trimmed
  <2> QED  BY <2>3, <2>4 DEF ListInv, InList
<1>6. ASSUME NEW s \in Servers, FillList(s) PROVE ListInv'
  <2> SUFFICES ASSUME ~lost' PROVE ListInv'
    BY DEF ListInv
  <2>1. ~lost /\ InList = {s} /\ UNCHANGED tok /\ pc[s] = "fill" /\ pc' = [pc EXCEPT ![s] = "legislate"]
        /\ accepted' = Append(accepted, tok[s])
        /\ used' = Trimmed(IF tok[s] \in ToSet(old[s]) THEN old[s] ELSE Append(old[s], tok[s]))
    BY <1>t, <1>6 DEF FillList, InList, ListInv
  <2>2. old[s] = Trimmed(accepted) /\ tok[s] \notin ToSet(Trimmed(accepted)) /\ NoNearRepeats /\ tok[s] \in Nat
    BY <2>1 DEF ListInv, DraftType
  <2>3. used' = Trimmed(accepted')
    <3>1. used' = Trimmed(Append(Trimmed(accepted), tok[s]))
      BY <2>1, <2>2
    <3> QED  BY <1>t, <2>1, <2>2, <3>1, TrimmedAppend
  <2>4. NoNearRepeats'
    BY <2>1, <2>2, FillKeepsApart
  <2>5. InList' = {} /\ \A q \in Servers : pc'[q] \notin {"mark", "open", "fill"}
    BY <1>t, <2>1 DEF InList
  <2>6. Trimmed(accepted)' = Trimmed(accepted')
    BY DEF Trimmed
  <2> QED  BY <2>3, <2>4, <2>5, <2>6 DEF ListInv
<1>7. ASSUME NEW s \in Servers, LegislateDirectly(s) PROVE ListInv'
  <2>1. pc[s] = "idle" /\ UNCHANGED <<used, accepted, lost>>
    BY <1>7 DEF LegislateDirectly
  <2>2. (\A q \in Servers \ {s} : pc'[q] = pc[q] /\ tok'[q] = tok[q] /\ old'[q] = old[q])
        /\ pc'[s] \notin {"mark", "open", "fill"}
    BY <1>t, <1>7 DEF LegislateDirectly
  <2>3. pc[s] \notin {"mark", "open", "fill"}
    BY <2>1
  <2> QED  BY <2>1, <2>2, <2>3, ListOff
<1>8. ASSUME NEW s \in Servers, Look(s) PROVE ListInv'
  <2>1. pc[s] = "legislate" /\ UNCHANGED <<used, accepted, lost>>
    BY <1>8 DEF Look
  <2>2. End(s) \/ (Goto(s, "write") /\ UNCHANGED <<tok, old>>)
    BY <1>8 DEF Look
  <2>3. \A q \in Servers \ {s} : pc'[q] = pc[q] /\ tok'[q] = tok[q] /\ old'[q] = old[q]
    BY <1>t, <2>2
  <2>4. pc'[s] \in {"idle", "write"}
    BY <1>t, <2>2
  <2>5. pc[s] \notin {"mark", "open", "fill"} /\ pc'[s] \notin {"mark", "open", "fill"}
    BY <2>1, <2>4
  <2> QED  BY <2>1, <2>3, <2>5, ListOff
<1>9. ASSUME NEW s \in Servers, Write(s) PROVE ListInv'
  <2>1. pc[s] = "write" /\ UNCHANGED <<used, accepted, lost>>
    BY <1>9 DEF Write
  <2>2. (\A q \in Servers \ {s} : pc'[q] = pc[q] /\ tok'[q] = tok[q] /\ old'[q] = old[q])
        /\ pc'[s] \notin {"mark", "open", "fill"}
    BY <1>t, <1>9 DEF Write
  <2>3. pc[s] \notin {"mark", "open", "fill"}
    BY <2>1
  <2> QED  BY <2>1, <2>2, <2>3, ListOff
<1>10. ASSUME NEW s \in Servers, ServerCrash(s) PROVE ListInv'
  BY <1>t, <1>10, ListElsewhere DEF ServerCrash, ListInv
<1>11. CASE Tick \/ CommitAny \/ RemoveFile
  <2>1. UNCHANGED <<used, accepted, lost, pc, tok, old>>
    BY <1>11 DEF Tick, CommitAny, RemoveFile
  <2> QED  BY <2>1, ListElsewhere DEF ListInv
<1>12. CASE UNCHANGED draftVars
  BY <1>12, ListElsewhere DEF draftVars, ListInv
<1> QED  BY <1>1, <1>2, <1>3, <1>4, <1>5, <1>6, <1>7, <1>8, <1>9, <1>10, <1>11, <1>12 DEF DraftNext, ServerStep

(* Between two of the same, as many different ones as the list holds. *)
LEMMA FarApart == DraftType /\ ListInv => SpentOnce
<1> SUFFICES ASSUME DraftType, ListInv, ~lost,
                    NEW j \in DOMAIN accepted, NEW i \in 1 .. j - 1, accepted[i] = accepted[j]
             PROVE  Cardinality({accepted[k] : k \in i + 1 .. j - 1}) >= ReplayCap
  BY DEF SpentOnce
<1> DEFINE T == {accepted[k] : k \in i + 1 .. j - 1}
           g == [k \in i + 1 .. j - 1 |-> accepted[k]]
           f == [m \in 1 .. ReplayCap |-> accepted[i + m]]
<1>1. NoNearRepeats /\ accepted \in Seq(Nat) /\ DOMAIN accepted = 1 .. Len(accepted) /\ Len(accepted) \in Nat
  BY DEF ListInv, DraftType
<1>2. j \in Nat /\ i \in Nat /\ j - i > ReplayCap
  BY <1>1, DraftAssumption DEF NoNearRepeats
<1>3. g \in Surjection(i + 1 .. j - 1, T) /\ IsFiniteSet(i + 1 .. j - 1)
  <2>1. g \in [i + 1 .. j - 1 -> T] /\ \A t \in T : \E k \in i + 1 .. j - 1 : g[k] = t
    OBVIOUS
  <2> HIDE DEF g, T
  <2>2. g \in Surjection(i + 1 .. j - 1, T)
    BY <2>1 DEF Surjection
  <2>3. i + 1 \in Int /\ j - 1 \in Int
    BY <1>2
  <2> QED  BY <2>2, <2>3, FS_Interval
<1>4. IsFiniteSet(T) /\ Cardinality(T) \in Nat
  BY <1>3, FS_Surjection, FS_CardinalityType
<1>5. f \in [1 .. ReplayCap -> T]
  <2>1. \A m \in 1 .. ReplayCap : i + m \in i + 1 .. j - 1
    BY <1>2, DraftAssumption
  <2> QED  BY <2>1
<1>6. \A m, n \in 1 .. ReplayCap : m # n => f[m] # f[n]
  <2>1. ASSUME NEW m \in 1 .. ReplayCap, NEW n \in 1 .. ReplayCap, m < n PROVE f[m] # f[n]
    <3>1. i + n \in DOMAIN accepted /\ i + m \in 1 .. (i + n) - 1 /\ (i + n) - (i + m) <= ReplayCap
      BY <1>1, <1>2, <2>1, DraftAssumption
    <3>2. accepted[i + m] # accepted[i + n]
      BY <1>1, <3>1 DEF NoNearRepeats
    <3> QED  BY <3>2
  <2> HIDE DEF f
  <2>2. \A m, n \in 1 .. ReplayCap : m < n => f[m] # f[n]
    BY <2>1
  <2>3. \A m, n \in 1 .. ReplayCap : m # n => m < n \/ n < m
    BY DraftAssumption
  <2> QED  BY <2>2, <2>3
<1>7. IsFiniteSet(1 .. ReplayCap) /\ Cardinality(1 .. ReplayCap) = ReplayCap
  <2>1. Cardinality(1 .. ReplayCap) = IF 1 > ReplayCap THEN 0 ELSE ReplayCap - 1 + 1
    BY DraftAssumption, FS_Interval
  <2> QED  BY <2>1, DraftAssumption, FS_Interval
<1> HIDE DEF f, T
<1>8. ~(Cardinality(T) < Cardinality(1 .. ReplayCap))
  <2> SUFFICES ASSUME Cardinality(T) < Cardinality(1 .. ReplayCap) PROVE FALSE
    OBVIOUS
  <2>1. \E m, n \in 1 .. ReplayCap : m # n /\ f[m] = f[n]
    <3> DEFINE D == 1 .. ReplayCap
    <3>1. IsFiniteSet(D) /\ IsFiniteSet(T) /\ Cardinality(T) < Cardinality(D) /\ f \in [D -> T]
      BY <1>4, <1>5, <1>7
    <3> HIDE DEF D
    <3>2. \E m, n \in D : m # n /\ f[m] = f[n]
      BY <3>1, FS_PigeonHole
    <3> QED  BY <3>2 DEF D
  <2> QED  BY <1>6, <2>1
<1> QED  BY <1>4, <1>7, <1>8, DraftAssumption DEF T

(* verifyDraftToken and markDraftUsed: a token is accepted a second time only *)
(* after as many others as the list holds, or when a server lost what another *)
(* one wrote to it.                                                          *)
THEOREM TokensAreSpentOnce == DraftSpec => []SpentOnce
<1>1. DraftInit => DraftType /\ ListInv
  BY DraftTypeInit, ListInvInit
<1>2. DraftType /\ ListInv /\ [DraftNext]_draftVars => (DraftType /\ ListInv)'
  BY DraftTypeStep, ListInvStep
<1> QED  BY <1>1, <1>2, FarApart, PTL DEF DraftSpec
-----------------------------------------------------------------------------
(* What was answered.                                                      *)

(* A server about to write found no file of its mission's number, or was     *)
(* told to write beside it; what another one wrote since has marked it.      *)
Excused(s, f, a) == s \in beside \/ (tok[s] = AllowDuplicate /\ a.f # f)

AnswersInv ==
  /\ \A a \in answered : a.f \in Proposals /\ missionFiles[a.f] # NotThere
  /\ \A s \in Servers : pc[s] # "idle" => tok[s] # NotThere
  /\ path \in [Servers -> SUBSET Proposals]
  /\ \A s \in Servers : \A f \in path[s] : \A a \in answered :
        pc[s] = "write" /\ a.f.msn = f.msn => Excused(s, f, a)
  /\ AnswersStand

LEMMA AnswersInvInit == DraftInit => AnswersInv
BY DEF DraftInit, AnswersInv, AnswersStand, AnswerStands, OneFilePerNumber

(* A step of s that leaves the answers and the files alone and ends in no write. *)
LEMMA AnswersElsewhere ==
  ASSUME NEW s \in Servers, AnswersInv, UNCHANGED <<answered, missionFiles>>,
         pc'[s] # "write", pc'[s] # "idle" => tok'[s] # NotThere,
         path'[s] \subseteq Proposals, DOMAIN path' = Servers, path' = [path EXCEPT ![s] = path'[s]],
         \A q \in Servers \ {s} : pc'[q] = pc[q] /\ tok'[q] = tok[q] /\ (q \in beside => q \in beside')
  PROVE  AnswersInv'
<1> USE DEF AnswersInv
<1>1. \A q \in Servers \ {s} : path'[q] = path[q]
  OBVIOUS
<1>2. path' \in [Servers -> SUBSET Proposals]
  OBVIOUS
<1>3. AnswersStand'
  BY DEF AnswersStand, AnswerStands, OneFilePerNumber, AllowDuplicate
<1>4. ASSUME NEW q \in Servers, NEW f \in path'[q], NEW a \in answered', pc'[q] = "write", a.f.msn = f.msn
      PROVE  Excused(q, f, a)'
  <2>1. q # s /\ f \in path[q] /\ a \in answered /\ pc[q] = "write"
    BY <1>1, <1>4
  <2>2. Excused(q, f, a)
    BY <1>4, <2>1
  <2> QED  BY <2>1, <2>2 DEF Excused, AllowDuplicate
<1>5. \A q \in Servers : pc'[q] # "idle" => tok'[q] # NotThere
  OBVIOUS
<1> QED  BY <1>2, <1>3, <1>4, <1>5

LEMMA LookKept == ASSUME DraftType, AnswersInv, NEW s \in Servers, Look(s) PROVE AnswersInv'
<1> USE DEF DraftType, AnswersInv, Goto, End
<1>1. UNCHANGED <<answered, missionFiles>> /\ pc[s] = "legislate"
  BY DEF Look
<1>2. CASE End(s) /\ beside' = beside \ {s}
  BY <1>1, <1>2, AnswersElsewhere
<1>3. ASSUME NEW f \in Mission(s), Clear(s, f), path' = [path EXCEPT ![s] = {f}], Goto(s, "write"),
             UNCHANGED <<tok, old, beside>>
      PROVE  AnswersInv'
  <2>1. f \in Proposals
    <3>1. CASE tok[s] \in DOMAIN tokens
      <4>1. tokens[tok[s]] \in TokensSigned
        BY <3>1
      <4> QED  BY <1>3, <3>1, <4>1 DEF Mission, TokensSigned
    <3>2. CASE tok[s] \notin DOMAIN tokens
      BY <1>3, <3>2 DEF Mission
    <3> QED  BY <3>1, <3>2
  <2>2. path' \in [Servers -> SUBSET Proposals] /\ path'[s] = {f} /\ \A q \in Servers \ {s} : path'[q] = path[q]
    BY <1>3, <2>1
  <2>3. pc'[s] = "write" /\ \A q \in Servers \ {s} : pc'[q] = pc[q]
    BY <1>3
  <2>4. \A a \in answered : a.f.msn = f.msn => Excused(s, f, a)
    BY <1>3, <2>1 DEF Clear, Excused
  <2>5. ASSUME NEW q \in Servers, NEW g \in path'[q], NEW a \in answered', pc'[q] = "write", a.f.msn = g.msn
        PROVE  Excused(q, g, a)'
    <3>1. Excused(q, g, a)
      <4>1. CASE q = s
        BY <1>1, <2>2, <2>4, <2>5, <4>1
      <4>2. CASE q # s
        BY <1>1, <2>2, <2>3, <2>5, <4>2
      <4> QED  BY <4>1, <4>2
    <3> QED  BY <1>3, <3>1 DEF Excused, AllowDuplicate
  <2>6. AnswersStand'
    BY <1>1 DEF AnswersStand, AnswerStands, OneFilePerNumber, AllowDuplicate
  <2>7. \A q \in Servers : pc'[q] # "idle" => tok'[q] # NotThere
    BY <1>1, <1>3, <2>3
  <2>8. \A a \in answered' : a.f \in Proposals /\ missionFiles'[a.f] # NotThere
    BY <1>1
  <2> QED  BY <2>2, <2>5, <2>6, <2>7, <2>8
<1> QED  BY <1>2, <1>3 DEF Look

LEMMA WriteKept == ASSUME DraftType, AnswersInv, NEW s \in Servers, Write(s) PROVE AnswersInv'
<1>1. PICK f \in path[s] : /\ missionFiles' = [missionFiles EXCEPT ![f] = tok[s]]
                           /\ answered' = answered \cup {[f |-> f, by |-> tok[s], beside |-> s \in beside]}
  BY DEF Write
<1> DEFINE b == [f |-> f, by |-> tok[s], beside |-> s \in beside]
<1>2. answered' = answered \cup {b} /\ b.f = f /\ b.by = tok[s] /\ (b.beside <=> s \in beside)
  BY <1>1
<1> HIDE DEF b
<1>3. pc[s] = "write" /\ f \in Proposals /\ tok[s] # NotThere /\ DOMAIN missionFiles = Proposals
  BY DEF Write, AnswersInv, DraftType
<1>4. /\ pc' = [pc EXCEPT ![s] = "idle"] /\ tok' = [tok EXCEPT ![s] = 0] /\ path' = [path EXCEPT ![s] = {}]
      /\ beside' = (beside \cup Busy) \ {s}
  BY DEF Write, End, Goto
<1>5. missionFiles'[f] = tok[s] /\ \A g \in Proposals \ {f} : missionFiles'[g] = missionFiles[g]
  BY <1>1, <1>3
<1>6. \A a \in answered : a.f.msn = f.msn => Excused(s, f, a)
  BY <1>3 DEF AnswersInv
<1>7. \A a \in answered' : a.f \in Proposals /\ missionFiles'[a.f] # NotThere
  BY <1>2, <1>3, <1>5 DEF AnswersInv
<1>8. /\ path' \in [Servers -> SUBSET Proposals]
      /\ \A q \in Servers : pc'[q] # "idle" => q # s /\ pc[q] = pc'[q] /\ tok'[q] = tok[q] /\ path'[q] = path[q]
  BY <1>4 DEF AnswersInv, DraftType
<1>9. ASSUME NEW q \in Servers, NEW g \in path'[q], NEW a \in answered', pc'[q] = "write", a.f.msn = g.msn
      PROVE  Excused(q, g, a)'
  <2>1. q \in beside'
    BY <1>4, <1>8, <1>9 DEF Busy
  <2> QED  BY <2>1 DEF Excused
<1>10. AnswerStands'
  <2> SUFFICES ASSUME NEW a \in answered', missionFiles'[a.f] # a.by
               PROVE  \E c \in answered' : c.f = a.f /\ c # a /\ c.beside
    BY DEF AnswerStands
  <2>1. a # b /\ a \in answered
    BY <1>2, <1>5
  <2>2. CASE a.f = f
    <3>1. Excused(s, f, a)
      BY <1>6, <2>1, <2>2
    <3>2. b.beside
      BY <1>2, <2>2, <3>1 DEF Excused
    <3> QED  BY <1>2, <2>1, <2>2, <3>2
  <2>3. CASE a.f # f
    <3>1. missionFiles[a.f] # a.by
      BY <1>5, <1>7, <2>3
    <3>2. PICK c \in answered : c.f = a.f /\ c # a /\ c.beside
      BY <2>1, <3>1 DEF AnswersInv, AnswersStand, AnswerStands
    <3> QED  BY <1>2, <3>2
  <2> QED  BY <2>2, <2>3
<1>11. OneFilePerNumber'
  <2> SUFFICES ASSUME NEW a \in answered', NEW c \in answered', a.f # c.f, a.f.msn = c.f.msn
               PROVE  a.beside \/ c.beside \/ AllowDuplicate \in {a.by, c.by}
    BY DEF OneFilePerNumber, AllowDuplicate
  <2>1. CASE a \in answered /\ c \in answered
    BY <2>1 DEF AnswersInv, AnswersStand, OneFilePerNumber
  <2>2. CASE a = b /\ c \in answered
    <3>1. Excused(s, f, c)
      BY <1>2, <1>6, <2>2
    <3> QED  BY <1>2, <2>2, <3>1 DEF Excused
  <2>3. CASE c = b /\ a \in answered
    <3>1. Excused(s, f, a)
      BY <1>2, <1>6, <2>3
    <3> QED  BY <1>2, <2>3, <3>1 DEF Excused
  <2> QED  BY <1>2, <2>1, <2>2, <2>3
<1>12. \A q \in Servers : pc'[q] # "idle" => tok'[q] # NotThere
  BY <1>8 DEF AnswersInv
<1> QED  BY <1>7, <1>8, <1>9, <1>10, <1>11, <1>12 DEF AnswersInv, AnswersStand

LEMMA RemoveKept == ASSUME DraftType, AnswersInv, RemoveFile PROVE AnswersInv'
<1>1. PICK f \in Proposals : /\ missionFiles' = [missionFiles EXCEPT ![f] = NotThere]
                             /\ answered' = {a \in answered : a.f # f}
                             /\ UNCHANGED <<pc, tok, work, beside>>
  BY DEF RemoveFile
<1>2. \A a \in answered' : a \in answered /\ a.f # f /\ missionFiles'[a.f] = missionFiles[a.f]
  BY <1>1 DEF AnswersInv, DraftType
<1>3. AnswerStands'
  <2> SUFFICES ASSUME NEW a \in answered', missionFiles'[a.f] # a.by
               PROVE  \E c \in answered' : c.f = a.f /\ c # a /\ c.beside
    BY DEF AnswerStands
  <2>1. PICK c \in answered : c.f = a.f /\ c # a /\ c.beside
    BY <1>2 DEF AnswersInv, AnswersStand, AnswerStands
  <2> QED  BY <1>1, <1>2, <2>1
<1>4. OneFilePerNumber'
  BY <1>2 DEF AnswersInv, AnswersStand, OneFilePerNumber, AllowDuplicate
<1> QED  BY <1>1, <1>2, <1>3, <1>4 DEF AnswersInv, AnswersStand, Excused, AllowDuplicate, work

LEMMA AnswersInvStep == DraftType /\ AnswersInv /\ [DraftNext]_draftVars => AnswersInv'
<1> SUFFICES ASSUME DraftType, AnswersInv, [DraftNext]_draftVars PROVE AnswersInv'
  OBVIOUS
<1>1. ASSUME NEW s \in Servers,
             DraftMission(s) \/ NewKey(s) \/ VerifyToken(s) \/ Mark(s) \/ OpenList(s) \/ FillList(s)
               \/ LegislateDirectly(s) \/ ServerCrash(s)
      PROVE  AnswersInv'
  <2> USE DEF Goto, End, work
  <2>1. /\ UNCHANGED <<answered, missionFiles>> /\ (beside' = beside \/ beside' = beside \ {s})
        /\ path' = path \/ path' = [path EXCEPT ![s] = {}]
    BY <1>1 DEF DraftMission, NewKey, VerifyToken, Mark, OpenList, FillList, LegislateDirectly, ServerCrash
  <2>2. DOMAIN pc = Servers /\ DOMAIN tok = Servers /\ path \in [Servers -> SUBSET Proposals]
        /\ (pc[s] # "idle" => tok[s] # NotThere) /\ MaxTokens \in Nat /\ tokens \in Seq(TokensSigned)
    BY DraftAssumption DEF DraftType, AnswersInv
  <2>3. \A q \in Servers \ {s} : pc'[q] = pc[q] /\ tok'[q] = tok[q]
    BY <1>1, <2>2 DEF DraftMission, NewKey, VerifyToken, Mark, OpenList, FillList, LegislateDirectly, ServerCrash
  <2>4. pc'[s] # "write"
    BY <1>1, <2>2 DEF DraftMission, NewKey, VerifyToken, Mark, OpenList, FillList, LegislateDirectly, ServerCrash
  <2>5. pc'[s] # "idle" => tok'[s] # NotThere
    <3>1. CASE DraftMission(s)
      <4>1. PICK t : tokens' = Append(tokens, t)
        BY <3>1 DEF DraftMission
      <4>2. Len(tokens') = Len(tokens) + 1 /\ Len(tokens) \in Nat
        BY <2>2, <4>1
      <4>3. pc'[s] = "idle" \/ tok'[s] = Len(tokens')
        BY <2>2, <3>1 DEF DraftMission
      <4> QED  BY <4>2, <4>3 DEF NotThere
    <3>2. CASE VerifyToken(s)
      BY <2>2, <3>2 DEF VerifyToken, NotThere
    <3>3. CASE LegislateDirectly(s)
      BY <2>2, <3>3 DEF LegislateDirectly, NotThere, Plain, AllowDuplicate
    <3>4. CASE NewKey(s) \/ ServerCrash(s)
      BY <2>2, <3>4 DEF NewKey, ServerCrash
    <3>5. CASE Mark(s) \/ OpenList(s) \/ FillList(s)
      BY <2>2, <3>5 DEF Mark, OpenList, FillList
    <3> QED  BY <1>1, <3>1, <3>2, <3>3, <3>4, <3>5
  <2>6. path' = [path EXCEPT ![s] = path'[s]] /\ path'[s] \subseteq Proposals /\ DOMAIN path' = Servers
    BY <2>1, <2>2
  <2>7. \A q \in Servers \ {s} : q \in beside => q \in beside'
    BY <2>1
  <2> QED  BY <2>1, <2>3, <2>4, <2>5, <2>6, <2>7, AnswersElsewhere
<1>2. ASSUME NEW s \in Servers, Look(s) \/ Write(s) PROVE AnswersInv'
  BY <1>2, LookKept, WriteKept
<1>3. CASE RemoveFile
  BY <1>3, RemoveKept
<1>4. CASE Tick \/ CommitAny \/ UNCHANGED draftVars
  BY <1>4 DEF Tick, CommitAny, draftVars, work, AnswersInv, AnswersStand, AnswerStands, OneFilePerNumber, Excused,
              AllowDuplicate
<1> QED  BY <1>1, <1>2, <1>3, <1>4 DEF DraftNext, ServerStep

(* runLegislate: the file named in an answer is the one its call wrote, and a *)
(* mission number has one file, unless calls overlapped or one was told to    *)
(* write a duplicate.                                                        *)
THEOREM AnswersHold == DraftSpec => []AnswersStand
<1>1. DraftInit => DraftType /\ AnswersInv
  BY DraftTypeInit, AnswersInvInit
<1>2. DraftType /\ AnswersInv /\ [DraftNext]_draftVars => (DraftType /\ AnswersInv)'
  BY DraftTypeStep, AnswersInvStep
<1>3. AnswersInv => AnswersStand
  BY DEF AnswersInv
<1> QED  BY <1>1, <1>2, <1>3, PTL DEF DraftSpec

-----------------------------------------------------------------------------
(* The least and the greatest of some numbers.                             *)

Less == {p \in Nat \X Nat : p[1] < p[2]}

LEMMA LessIsWellFounded == IsWellFoundedOn(Less, Nat)
<1>1. Less = OpToRel(<, Nat)
  BY DEF OpToRel, Less
<1> QED  BY <1>1, NatLessThanWellFounded

LEMMA LeastOfSome ==
  ASSUME NEW S \in SUBSET Nat, S # {}
  PROVE  \E k \in S : \A j \in S : k <= j
<1>1. PICK k \in S : \A j \in S : <<j, k>> \notin Less
  BY LessIsWellFounded, WFMin
<1>2. ASSUME NEW j \in S PROVE k <= j
  <2> SUFFICES ASSUME ~(k <= j) PROVE FALSE
    OBVIOUS
  <2>1. k \in Nat /\ j \in Nat /\ j < k
    OBVIOUS
  <2>2. <<j, k>> \in Nat \X Nat /\ <<j, k>>[1] < <<j, k>>[2]
    BY <2>1
  <2>3. <<j, k>> \in Less
    BY <2>2 DEF Less
  <2> QED  BY <1>1, <2>3
<1> QED  BY <1>2

LEMMA MinOfSome == ASSUME NEW S \in SUBSET Nat, S # {} PROVE Min(S) \in S
BY LeastOfSome DEF Min

LEMMA MaxOfSome ==
  ASSUME NEW n \in Nat, NEW S \in SUBSET (1 .. n), S # {}
  PROVE  Max(S) \in S /\ \A k \in S : k <= Max(S)
<1> DEFINE Above == {k \in Nat : \A j \in S : j <= k}
<1>1. Above \in SUBSET Nat /\ n \in Above
  OBVIOUS
<1>2. PICK k \in Above : \A j \in Above : k <= j
  <2> HIDE DEF Above
  <2> QED  BY <1>1, LeastOfSome
<1>3. k \in S
  <2> SUFFICES ASSUME k \notin S PROVE FALSE
    OBVIOUS
  <2>1. PICK j \in S : TRUE
    OBVIOUS
  <2>2. k - 1 \in Nat /\ \A i \in S : i <= k - 1
    BY <2>1
  <2> QED  BY <1>2, <2>2
<1>4. \E m \in S : \A j \in S : m >= j
  BY <1>3
<1> QED  BY <1>4 DEF Max

-----------------------------------------------------------------------------
(* The interrogation gate.                                                 *)

(* What the tier of a finding is: a function of what its id is made of.     *)
Asked(t) == IF t = "unlisted" THEN "Tier-2" ELSE t
Shallow(z) == IF Last(z) = Deep THEN Front(z) ELSE z
ZoneTier(z) == IF Shallow(z) \in DOMAIN Risks THEN Risks[Shallow(z)] ELSE "Tier-3"

TierFits(f) ==
  \/ f.kind \in {"risk_escalation", "adr_conflict"} /\ f.tier = "Tier-3"
  \/ f.kind = "forbidden_zone" /\ \E z : f.at = {z} /\ f.tier = ZoneTier(z)
  \/ /\ f.kind = "undefined_boundary" /\ f.of = "unmapped"
     /\ f.at # {} /\ \A p \in f.at : f.tier = Asked(Tier(p))
  \/ f.kind = "undefined_boundary" /\ f.of = "no roots" /\ f.tier = Skill.tier
  \/ f.kind = "missing_test_criteria" /\ f.tier = Skill.tier

IsFinding(f) == f = Finding(f.kind, f.of, f.at, f.tier) /\ TierFits(f)

LEMMA FindingFits ==
  ASSUME NEW kind, NEW of, NEW where, NEW tier,
         \/ kind \in {"risk_escalation", "adr_conflict"} /\ tier = "Tier-3"
         \/ kind = "undefined_boundary" /\ of = "no roots" /\ tier = Skill.tier
         \/ kind = "missing_test_criteria" /\ tier = Skill.tier
  PROVE  IsFinding(Finding(kind, of, where, tier))
<1> DEFINE f == Finding(kind, of, where, tier)
<1>1. f.kind = kind /\ f.of = of /\ f.at = where /\ f.tier = tier
  BY DEF Finding
<1> HIDE DEF f
<1>2. TierFits(f)
  BY <1>1 DEF TierFits
<1> QED  BY <1>1, <1>2 DEF IsFinding, f

LEMMA GapsFit == ASSUME NEW i, NEW f \in Gaps(i) PROVE IsFinding(f)
<1>1. CASE f \in RiskFindings(i)
  <2>1. f = Finding("risk_escalation", Reason(i), {}, "Tier-3")
    BY <1>1 DEF RiskFindings
  <2> QED  BY <2>1, FindingFits
<1>2. CASE f \in ZoneFindings(i)
  <2>1. PICK z \in ZoneHits(i) : f = Finding("forbidden_zone", "zone", {z}, ZoneTier(z))
    BY <1>2 DEF ZoneFindings, ZoneTier, Shallow
  <2> QED  BY <2>1 DEF Finding, IsFinding, TierFits
<1>3. CASE f \in BoundaryFindings(i)
  <2>1. \/ \E t \in {Tier(p) : p \in Unmapped(i)} :
             f = Finding("undefined_boundary", "unmapped", {p \in Unmapped(i) : Tier(p) = t}, Asked(t))
        \/ f = Finding("undefined_boundary", "no roots", {}, Skill.tier)
    BY <1>3 DEF BoundaryFindings, Asked
  <2>2. ASSUME NEW t \in {Tier(p) : p \in Unmapped(i)},
               f = Finding("undefined_boundary", "unmapped", {p \in Unmapped(i) : Tier(p) = t}, Asked(t))
        PROVE  IsFinding(f)
    <3>1. f.at # {} /\ \A p \in f.at : Tier(p) = t
      BY <2>2 DEF Finding
    <3> QED  BY <2>2, <3>1 DEF Finding, IsFinding, TierFits
  <2>3. CASE f = Finding("undefined_boundary", "no roots", {}, Skill.tier)
    BY <2>3 DEF Finding, IsFinding, TierFits
  <2> QED  BY <2>1, <2>2, <2>3
<1>4. CASE f \in GateFindings(i)
  <2>1. f = Finding("missing_test_criteria", i.gate, {}, Skill.tier)
    BY <1>4 DEF GateFindings
  <2> QED  BY <2>1, FindingFits
<1>5. CASE f \in AdrFindings(i)
  <2>1. PICK a \in i.adrs : f = Finding("adr_conflict", a, {}, "Tier-3")
    BY <1>5 DEF AdrFindings
  <2> QED  BY <2>1, FindingFits
<1> QED  BY <1>1, <1>2, <1>3, <1>4, <1>5 DEF Gaps

(* Two findings with one id are one finding: the answer to the one is an   *)
(* answer to the other.                                                    *)
LEMMA IdsIdentify ==
  ASSUME NEW f, NEW g, IsFinding(f), IsFinding(g), FindingId(f) = FindingId(g)
  PROVE  f = g
<1>1. f.kind = g.kind /\ f.of = g.of /\ f.at = g.at
  BY DEF FindingId
<1>2. f.tier = g.tier
  <2>1. CASE f.kind = "forbidden_zone"
    BY <1>1, <2>1 DEF IsFinding, TierFits
  <2>2. CASE f.kind = "undefined_boundary"
    <3>1. CASE f.of = "unmapped"
      <4>1. PICK p \in f.at : f.tier = Asked(Tier(p))
        BY <2>2, <3>1 DEF IsFinding, TierFits
      <4>2. \A q \in g.at : g.tier = Asked(Tier(q))
        BY <1>1, <2>2, <3>1 DEF IsFinding, TierFits
      <4> QED  BY <1>1, <4>1, <4>2
    <3>2. CASE f.of # "unmapped"
      BY <1>1, <2>2, <3>2 DEF IsFinding, TierFits
    <3> QED  BY <3>1, <3>2
  <2>3. CASE f.kind \notin {"forbidden_zone", "undefined_boundary"}
    BY <1>1, <2>3 DEF IsFinding, TierFits
  <2> QED  BY <2>1, <2>2, <2>3
<1> QED  BY <1>1, <1>2 DEF IsFinding

AskedAbout(f) == \E i \in Intents : f \in Gaps(i)
GivenTo(a) == \E answer \in Stub \cup Words, refs \in BOOLEAN : a.row = Row(a.finding, answer, refs)

(* An answer keeps the question that it was given to; a mission that is not  *)
(* committed yet closes every gap of the intent it was written for, with    *)
(* rows that the operator still has.                                       *)
IntentInv ==
  /\ intent \in Intents
  /\ commits \in Seq(Range(commits))
  /\ question.status = "halt" => AskedAbout(question.finding)
  /\ \A a \in said : AskedAbout(a.finding) /\ GivenTo(a)
  /\ written.done /\ commits = << >> =>
       /\ written.intent \in Intents
       /\ written.rows \subseteq {a.row : a \in said}
       /\ Open(Gaps(written.intent), written.rows) = {}

LEMMA IntentInvInit == IntentInit => IntentInv
BY DEF IntentInit, IntentInv, NoQuestion

LEMMA AppendRange ==
  ASSUME NEW s, s \in Seq(Range(s)), NEW x
  PROVE  Append(s, x) \in Seq(Range(Append(s, x))) /\ Append(s, x) # << >>
<1> DEFINE T == Range(s) \cup {x}
           a == Append(s, x)
<1>1. s \in Seq(T) /\ x \in T
  BY SeqMonotonic
<1>2. a \in Seq(T) /\ Len(a) = Len(s) + 1 /\ Len(s) \in Nat
  <2> HIDE DEF T
  <2> QED  BY <1>1
<1> HIDE DEF T, a
<1>3. a = [n \in 1 .. Len(a) |-> a[n]] /\ DOMAIN a = 1 .. Len(a) /\ Len(a) \in Nat
  BY <1>2
<1>4. \A n \in 1 .. Len(a) : a[n] \in Range(a)
  BY <1>3 DEF Range
<1>5. [n \in 1 .. Len(a) |-> a[n]] \in Seq(Range(a))
  BY <1>3, <1>4, IsASeq
<1>6. a # << >>
  BY <1>2
<1> QED  BY <1>3, <1>5, <1>6 DEF a

LEMMA IntentInvStep == IntentInv /\ [IntentNext]_intentVars => IntentInv'
<1> SUFFICES ASSUME IntentInv, [IntentNext]_intentVars PROVE IntentInv'
  OBVIOUS
<1>1. ASSUME NEW file \in Files, Interrogate(file) PROVE IntentInv'
  <2>1. UNCHANGED <<intent, said, commits, written>>
    BY <1>1 DEF Interrogate
  <2>2. ASSUME question'.status = "halt" PROVE AskedAbout(question'.finding)
    <3>1. \E f \in Open(Gaps(intent), file) : question' = [status |-> "halt", finding |-> f]
      BY <1>1, <2>2 DEF Interrogate
    <3> QED  BY <3>1 DEF Open, AskedAbout, IntentInv
  <2> QED  BY <2>1, <2>2 DEF IntentInv
<1>2. ASSUME NEW file \in Files, Legislate(file) PROVE IntentInv'
  <2>1. file \subseteq {a.row : a \in said}
    BY DEF Files
  <2>2. written' = [intent |-> intent, rows |-> file, done |-> TRUE]
        /\ Open(Gaps(intent), file) = {} /\ UNCHANGED <<intent, said, question, commits>>
    BY <1>2 DEF Legislate
  <2> QED  BY <2>1, <2>2 DEF IntentInv
<1>3. ASSUME NEW answer \in Stub \cup Words, NEW refs \in BOOLEAN, Say(answer, refs) PROVE IntentInv'
  <2> DEFINE new == [finding |-> question.finding, row |-> Row(question.finding, answer, refs)]
  <2>1. said' = said \cup {new} /\ question' = NoQuestion /\ UNCHANGED <<intent, commits, written>>
        /\ question.status = "halt"
    BY <1>3 DEF Say
  <2>2. AskedAbout(new.finding) /\ GivenTo(new)
    BY <2>1 DEF IntentInv, GivenTo
  <2>3. {a.row : a \in said} \subseteq {a.row : a \in said'}
    BY <2>1
  <2> HIDE DEF new
  <2> QED  BY <2>1, <2>2, <2>3 DEF IntentInv, NoQuestion
<1>4. ASSUME NEW i \in Intents, Reword(i) PROVE IntentInv'
  BY <1>4 DEF Reword, IntentInv, NoQuestion
<1>5. ASSUME NEW planner \in BOOLEAN, NEW paths \in SUBSET Sources, Commit(planner, paths) PROVE IntentInv'
  <2> DEFINE new == [planner |-> planner, mission |-> mission,
                     changed |-> paths \cup (IF mission # Committed THEN {MissionAt} ELSE {})]
  <2>1. commits' = Append(commits, new) /\ said' = {} /\ question' = NoQuestion /\ UNCHANGED <<intent, written>>
    BY <1>5 DEF Commit
  <2> HIDE DEF new
  <2>2. commits' \in Seq(Range(commits')) /\ commits' # << >>
    BY <2>1, AppendRange DEF IntentInv
  <2> QED  BY <2>1, <2>2 DEF IntentInv, NoQuestion
<1>6. ASSUME NEW m, Edit(m) PROVE IntentInv'
  BY <1>6 DEF Edit, IntentInv
<1>7. ASSUME NEW required \in BOOLEAN, Verify(required) PROVE IntentInv'
  BY <1>7 DEF Verify, IntentInv
<1>8. CASE UNCHANGED intentVars
  BY <1>8 DEF intentVars, IntentInv
<1> QED  BY <1>1, <1>2, <1>3, <1>4, <1>5, <1>6, <1>7, <1>8
         DEF IntentNext, AddEvidence, Declare, Reanswer, DropBlock

LEMMA AnsweredByInv == IntentInv => GapsAreAnswered
<1> SUFFICES ASSUME IntentInv, written.done, commits = << >>, NEW f \in Gaps(written.intent)
             PROVE  \E a \in said : /\ a.finding = f /\ a.row \in written.rows /\ a.row.answer \in Words
                                    /\ (f.tier = "Tier-3" => a.row.refs)
  BY DEF GapsAreAnswered
<1>1. PICK r \in written.rows : Closes(r, f)
  BY DEF IntentInv, Open
<1>2. PICK a \in said : a.row = r
  BY DEF IntentInv
<1>3. PICK answer \in Stub \cup Words, refs \in BOOLEAN : a.row = Row(a.finding, answer, refs)
  BY DEF IntentInv, GivenTo
<1>4. r.id = FindingId(f) /\ r.answer \notin Stub /\ (f.tier = "Tier-3" => r.refs)
  BY <1>1 DEF Closes
<1>5. r.id = FindingId(a.finding) /\ r.answer = answer
  BY <1>2, <1>3 DEF Row
<1>6. IsFinding(f) /\ IsFinding(a.finding)
  BY GapsFit DEF IntentInv, AskedAbout
<1>7. a.finding = f
  BY <1>4, <1>5, <1>6, IdsIdentify
<1> QED  BY <1>2, <1>3, <1>4, <1>5, <1>7

LEMMA StampedByVerify ==
  ASSUME IntentInv, NEW required, Verify(required) PROVE AnswersAreStamped'
<1> SUFFICES ASSUME verdict' = "ok", mission'.rows # {}, ~mission'.stub
             PROVE  \E n \in DOMAIN commits' :
                      /\ commits'[n].planner /\ MissionAt \in commits'[n].changed
                      /\ commits'[n].mission.digest = mission'.rows
                      /\ \A k \in n + 1 .. Len(commits') :
                           /\ commits'[k].planner => MissionAt \notin commits'[k].changed
                           /\ \A p \in commits'[k].changed \ mission'.declared : Tier(p) # "Tier-3"
  BY DEF AnswersAreStamped
<1>1. UNCHANGED <<mission, commits>> /\ Accepts(mission, required)
  BY DEF Verify
<1>2. Stamps(Window) # {} /\ RowsHold(mission) /\ StampHolds(mission) /\ Drifted(mission) = {}
  BY <1>1 DEF Accepts
<1>3. Len(commits) \in Nat /\ DOMAIN commits = 1 .. Len(commits)
  BY DEF IntentInv
<1>4. Stamp \in Stamps(Window) /\ \A k \in Stamps(Window) : k <= Stamp
  <2>1. Stamps(Window) \in SUBSET (1 .. Len(commits))
    BY <1>3 DEF Stamps, Window
  <2> QED  BY <1>2, <1>3, <2>1, MaxOfSome DEF Stamp
<1>5. /\ Stamp \in 1 .. Len(commits) /\ Stamp > Len(commits) - ScanDepth
      /\ commits[Stamp].planner /\ MissionAt \in commits[Stamp].changed
  BY <1>3, <1>4 DEF Stamps, Window
<1>6. commits[Stamp].mission.digest = mission.rows
  BY <1>1, <1>2 DEF RowsHold, StampHolds
<1>7. ASSUME NEW k \in Stamp + 1 .. Len(commits)
      PROVE  /\ commits[k].planner => MissionAt \notin commits[k].changed
             /\ \A p \in commits[k].changed \ mission.declared : Tier(p) # "Tier-3"
  <2>1. k \in Window /\ k # Stamp /\ ~(k <= Stamp)
    BY <1>3, <1>5, InterrogationAssumption DEF Window
  <2>2. commits[k].planner => MissionAt \notin commits[k].changed
    BY <1>4, <2>1 DEF Stamps
  <2>3. commits[k].changed \subseteq Changed
    <3>1. \A p \in commits[k].changed : p \in commits[k].changed \ (IF k = Stamp THEN {MissionAt} ELSE {})
      BY <2>1
    <3> QED  BY <2>1, <3>1 DEF Changed
  <2> QED  BY <1>2, <2>2, <2>3 DEF Drifted
<1> QED  BY <1>1, <1>3, <1>5, <1>6, <1>7

LEMMA StampedStep == IntentInv /\ AnswersAreStamped /\ [IntentNext]_intentVars => AnswersAreStamped'
<1> SUFFICES ASSUME IntentInv, AnswersAreStamped, [IntentNext]_intentVars PROVE AnswersAreStamped'
  OBVIOUS
<1>1. ASSUME NEW required \in BOOLEAN, Verify(required) PROVE AnswersAreStamped'
  BY <1>1, StampedByVerify
<1>2. CASE verdict' = "none"
  BY <1>2 DEF AnswersAreStamped
<1>3. CASE UNCHANGED intentVars
  BY <1>3 DEF intentVars, AnswersAreStamped
<1> QED  BY <1>1, <1>2, <1>3
         DEF IntentNext, Interrogate, Legislate, Say, Reword, Commit, AddEvidence, Declare, Reanswer, DropBlock, Edit

(* A mission binds the operator's own answers: every gap of its intent is  *)
(* closed by words given to that very question, and a verification that    *)
(* passes found their digest in the Planner's stamp, with no undeclared     *)
(* Tier-3 change after it (InterrogationBinds).                            *)
THEOREM AnswersBind == IntentSpec => []InterrogationBinds
<1>1. IntentInit => IntentInv /\ AnswersAreStamped
  BY IntentInvInit DEF IntentInit, AnswersAreStamped
<1>2. IntentInv /\ AnswersAreStamped /\ [IntentNext]_intentVars => (IntentInv /\ AnswersAreStamped)'
  BY IntentInvStep, StampedStep
<1>3. IntentInv /\ AnswersAreStamped => InterrogationBinds
  BY AnsweredByInv DEF InterrogationBinds
<1> QED  BY <1>1, <1>2, <1>3, PTL DEF IntentSpec

-----------------------------------------------------------------------------
(* Trace rows.                                                             *)

TraceType ==
  /\ source \in Nat
  /\ log \in Seq([has : Lines, from : Nat])
  /\ history \in Seq(Nat)
  /\ DOMAIN rows \subseteq Nat

LEMMA TraceTypeInit == TraceInit => TraceType
<1> SUFFICES ASSUME TraceInit PROVE TraceType
  OBVIOUS
<1>1. DOMAIN rows \subseteq Nat
  BY TraceAssumption DEF TraceInit
<1> QED  BY <1>1 DEF TraceInit, TraceType, NoLog

LEMMA TraceTypeStep == TraceType /\ [TraceNext]_traceVars => TraceType'
<1> SUFFICES ASSUME TraceType, [TraceNext]_traceVars PROVE TraceType'
  OBVIOUS
<1> USE DEF TraceType
<1>1. ASSUME NEW v \in 0 .. MaxVersion, EditSource(v) PROVE TraceType'
  BY <1>1 DEF EditSource, Step
<1>2. ASSUME NEW l \in Lines, AppendLine(l) PROVE TraceType'
  BY <1>2 DEF AppendLine, Step
<1>3. ASSUME NEW l \in Lines, PrependLine(l) PROVE TraceType'
  <2> DEFINE entry == [has |-> l, from |-> 0]
  <2>1. log' = <<entry>> \o log /\ UNCHANGED <<source, history, rows>>
    BY <1>3 DEF PrependLine, Step
  <2>2. <<entry>> \in Seq([has : Lines, from : Nat])
    OBVIOUS
  <2>3. log' \in Seq([has : Lines, from : Nat])
    BY <2>1, <2>2, ConcatProperties
  <2> QED  BY <2>1, <2>3
<1>4. CASE Restart
  BY <1>4 DEF Restart, Step, NoLog
<1>5. ASSUME NEW k \in DOMAIN rows, NEW row \in Rows, WriteRow(k, row) PROVE TraceType'
  BY <1>5 DEF WriteRow, Step
<1>6. CASE CommitLog
  <2> DEFINE stamped(l) == [l EXCEPT !.from = IF @ = 0 THEN Len(history) + 1 ELSE @]
  <2>1. log' = [n \in DOMAIN log |-> stamped(log[n])] /\ history' = Append(history, source)
        /\ UNCHANGED <<source, rows>>
    BY <1>6 DEF CommitLog
  <2>2. Len(log) \in Nat /\ DOMAIN log = 1 .. Len(log)
        /\ \A n \in 1 .. Len(log) : log[n] \in [has : Lines, from : Nat]
    BY ElementOfSeq, LenProperties
  <2>3. \A n \in 1 .. Len(log) : stamped(log[n]) \in [has : Lines, from : Nat]
    <3>1. Len(history) + 1 \in Nat
      OBVIOUS
    <3>2. \A l \in [has : Lines, from : Nat], m \in Nat :
             [l EXCEPT !.from = IF @ = 0 THEN m ELSE @] \in [has : Lines, from : Nat]
      OBVIOUS
    <3> QED  BY <2>2, <3>1, <3>2
  <2>4. [n \in 1 .. Len(log) |-> stamped(log[n])] \in Seq([has : Lines, from : Nat])
    <3> HIDE DEF stamped
    <3> QED  BY <2>2, <2>3, IsASeq
  <2> QED  BY <2>1, <2>2, <2>4
<1>7. ASSUME NEW strict, NEW fuzzy, NEW skip, NEW prePush, VerifyTrace(strict, fuzzy, skip, prePush) PROVE TraceType'
  BY <1>7 DEF VerifyTrace
<1>8. CASE UNCHANGED traceVars
  BY <1>8 DEF traceVars
<1> QED  BY <1>1, <1>2, <1>3, <1>4, <1>5, <1>6, <1>7, <1>8 DEF TraceNext

(* The line that verify looks at is one that the row quotes.               *)
LEMMA ResolvedIsQuoted ==
  ASSUME TraceType, NEW row, NEW strict, NEW fuzzy, Trace(row, strict, fuzzy) \in {"ok", "drifted"}
  PROVE  Resolved(row) \in Quoted(row)
<1>1. row.quote # Blank /\ LinesWith(row.quote) # {}
  <2>1. CASE row.quote = Blank
    BY <2>1 DEF Trace
  <2>2. CASE row.quote # Blank /\ LinesWith(row.quote) = {}
    BY <2>2 DEF Trace, Missing
  <2> QED  BY <2>1, <2>2
<1>2. \A text : LinesWith(text) \in SUBSET Nat /\ IsFiniteSet(LinesWith(text))
  <2>1. Len(log) \in Nat /\ DOMAIN log = 1 .. Len(log)
    BY DEF TraceType
  <2> SUFFICES ASSUME NEW text PROVE LinesWith(text) \in SUBSET Nat /\ IsFiniteSet(LinesWith(text))
    OBVIOUS
  <2>2. LinesWith(text) \in SUBSET (1 .. Len(log))
    BY <2>1 DEF LinesWith
  <2>3. IsFiniteSet(1 .. Len(log))
    BY <2>1, FS_Interval
  <2>4. IsFiniteSet(LinesWith(text))
    BY <2>2, <2>3, FS_Subset
  <2> QED  BY <2>1, <2>2, <2>4
<1>3. CASE ~IsNumeric(row)
  <2>1. Anchored(row) # {}
    BY <1>1, <1>3 DEF Trace
  <2>2. Anchored(row) \in SUBSET Nat
    BY <1>2 DEF Anchored
  <2>3. Min(Anchored(row)) \in Anchored(row)
    BY <2>1, <2>2, MinOfSome
  <2> QED  BY <1>3, <2>3 DEF Resolved, Quoted
<1>4. CASE IsNumeric(row) /\ Exact(row)
  BY <1>4 DEF Resolved, Quoted
<1>5. CASE IsNumeric(row) /\ ~Exact(row)
  <2>1. Drift(row) = "drifted"
    BY <1>1, <1>5 DEF Trace, Drift
  <2>2. ~(Cardinality(LinesWith(row.quote)) > 1)
    BY <2>1 DEF Drift
  <2>3. PICK n : LinesWith(row.quote) = {n}
    <3>1. Cardinality(LinesWith(row.quote)) \in Nat /\ Cardinality(LinesWith(row.quote)) # 0
      BY <1>1, <1>2, FS_CardinalityType, FS_EmptySet
    <3>2. Cardinality(LinesWith(row.quote)) = 1
      BY <2>2, <3>1
    <3> QED  BY <1>2, <3>2, FS_Singleton
  <2>4. Min(LinesWith(row.quote)) \in LinesWith(row.quote)
    BY <1>1, <1>2, MinOfSome
  <2> QED  BY <1>5, <2>3, <2>4 DEF Resolved, Quoted
<1> QED  BY <1>3, <1>4, <1>5

(* So is what is kept of it by its dod_id, when no other row has that.     *)
LEMMA KeptIsQuoted ==
  ASSUME TraceType, NEW strict, NEW fuzzy, NEW k \in PassRows,
         Trace(rows[k], strict, fuzzy) \in {"ok", "drifted"},
         \A d \in PassRows \ {k} : rows[d].dod # rows[k].dod
  PROVE  ResolvedLine(k, strict, fuzzy) \in Quoted(rows[k])
<1> DEFINE drifted == {d \in PassRows : rows[d].dod = rows[k].dod /\ Trace(rows[d], strict, fuzzy) = "drifted"}
<1>1. k \in Nat
  BY DEF PassRows, TraceType
<1>2. drifted \subseteq {k}
  OBVIOUS
<1>3. ResolvedLine(k, strict, fuzzy) = Resolved(rows[k])
  <2>1. CASE drifted = {}
    BY <2>1 DEF ResolvedLine
  <2>2. CASE drifted = {k}
    <3>1. Max({k}) = k
      BY <1>1 DEF Max
    <3>2. ResolvedLine(k, strict, fuzzy) = IF drifted = {} THEN Resolved(rows[k]) ELSE Resolved(rows[Max(drifted)])
      BY DEF ResolvedLine
    <3> HIDE DEF drifted
    <3> QED  BY <2>2, <3>1, <3>2
  <2> QED  BY <1>2, <2>1, <2>2
<1> QED  BY <1>3, ResolvedIsQuoted

LEMMA FreshByVerify ==
  ASSUME TraceType, NEW strict, NEW fuzzy, NEW skip, NEW prePush, VerifyTrace(strict, fuzzy, skip, prePush)
  PROVE  TraceIsFresh'
<1> DEFINE Fresh == \A k \in PassRows : (\A d \in PassRows \ {k} : rows[d].dod # rows[k].dod) =>
                                           \E n \in Quoted(rows[k]) : IsFresh(n)
<1>1. UNCHANGED <<source, log, history, rows>>
  BY DEF VerifyTrace
<1>2. ASSUME traced'.kind = "ok", ~traced'.skip, HasRoots PROVE Fresh
  <2>1. traced' = Answer(strict, fuzzy, skip) /\ Answer(strict, fuzzy, skip).kind = "ok"
    BY <1>2 DEF VerifyTrace
  <2> DEFINE traces == {Trace(rows[k], strict, fuzzy) : k \in PassRows}
             stale == {k \in PassRows : Stale(ResolvedLine(k, strict, fuzzy))}
  <2>2. traces \subseteq {"ok", "drifted"} /\ stale = {}
    <3>1. Answer(strict, fuzzy, skip) =
            IF PendingRows # {} THEN [kind |-> "pending"]
            ELSE IF log = NoLog /\ PassRows # {} THEN [kind |-> "executor_log_missing"]
            ELSE IF traces \subseteq {"ok", "drifted"} /\ (skip \/ stale = {}) THEN [kind |-> "ok", skip |-> skip]
            ELSE IF traces \subseteq {"ok", "drifted"} THEN [kind |-> "stale_evidence"]
            ELSE [kind |-> "trace"]
      BY DEF Answer
    <3> HIDE DEF traces, stale
    <3> QED  BY <1>2, <2>1, <3>1
  <2>3. ASSUME NEW k \in PassRows, \A d \in PassRows \ {k} : rows[d].dod # rows[k].dod
        PROVE  \E n \in Quoted(rows[k]) : IsFresh(n)
    <3>1. Trace(rows[k], strict, fuzzy) \in {"ok", "drifted"} /\ ~Stale(ResolvedLine(k, strict, fuzzy))
      BY <2>2
    <3>2. ResolvedLine(k, strict, fuzzy) \in Quoted(rows[k])
      BY <2>3, <3>1, KeptIsQuoted
    <3>3. IsFresh(ResolvedLine(k, strict, fuzzy))
      BY <1>2, <3>1 DEF Stale, IsFresh
    <3> QED  BY <3>2, <3>3
  <2> QED  BY <2>3
<1>3. Fresh => Fresh'
  BY <1>1 DEF PassRows, Quoted, IsNumeric, Anchored, Exact, LinesWith, IsFresh
<1> HIDE DEF Fresh
<1>4. traced'.kind = "ok" /\ ~traced'.skip /\ HasRoots => Fresh'
  BY <1>2, <1>3
<1> QED  BY <1>4 DEF TraceIsFresh, Fresh

LEMMA FreshStep == TraceType /\ TraceIsFresh /\ [TraceNext]_traceVars => TraceIsFresh'
<1> SUFFICES ASSUME TraceType, TraceIsFresh, [TraceNext]_traceVars PROVE TraceIsFresh'
  OBVIOUS
<1>1. ASSUME NEW strict, NEW fuzzy, NEW skip, NEW prePush, VerifyTrace(strict, fuzzy, skip, prePush) PROVE TraceIsFresh'
  BY <1>1, FreshByVerify
<1>2. CASE traced' = NotVerified
  BY <1>2 DEF NotVerified, TraceIsFresh
<1>3. CASE UNCHANGED traceVars
  BY <1>3 DEF traceVars, TraceIsFresh, PassRows, Quoted, IsNumeric, Anchored, Exact, LinesWith, IsFresh
<1> QED  BY <1>1, <1>2, <1>3 DEF TraceNext, EditSource, AppendLine, PrependLine, Restart, WriteRow, CommitLog, Step

(* A verification that passes found, for each PASS row with a dod_id of its *)
(* own, a line with the row's quote that is not committed or was committed  *)
(* with the content that the roots have now (TraceIsFresh).                 *)
THEOREM EvidenceIsFresh == TraceSpec => []TraceIsFresh
<1>1. TraceInit => TraceType /\ TraceIsFresh
  BY TraceTypeInit DEF TraceInit, NotVerified, TraceIsFresh
<1>2. TraceType /\ TraceIsFresh /\ [TraceNext]_traceVars => (TraceType /\ TraceIsFresh)'
  BY TraceTypeStep, FreshStep
<1> QED  BY <1>1, <1>2, PTL DEF TraceSpec
=============================================================================
