--------------------------- MODULE GovernanceProofs ---------------------------
(***************************************************************************)
(* Proofs about four parts that share no state: the policy floor           *)
(* (OrgPolicy), upgrades (Upgrade), what a verification leaves behind      *)
(* (VerifyOutcome) and the scaffold of gantry init (Scaffold).             *)
(***************************************************************************)
EXTENDS VerifyOutcome, Upgrade, OrgPolicy, Scaffold, FiniteSetTheorems, SequenceTheorems, TLAPS

-----------------------------------------------------------------------------
(* The policy floor.                                                       *)

Names == Commits \cup {Branch}
DocSet == [form : {"doc"}, url : BOOLEAN, pin : Commits \cup {NoPin, Branch}, sha : Int]
Pullers == [pc : {"idle", "fetch", "write", "rest", "hash", "pin"}, doc : DocSet \cup {Absent},
            yaml : BOOLEAN, commit : Int, name : Int, sha : Int]
Answers == [bundle : Int, from : Commits, name : Names]
Settings == [DOMAIN FloorOf[1] -> Nat]
Verifiers == [pc : {"idle", "hash", "load", "depends", "passed", "failed"},
              doc : DocSet \cup {Absent, [form |-> "ambiguous"]}, bundle : Int,
              under : Answers \cup {NoPull}, steady : BOOLEAN, settings : Settings \cup {<< >>}]

OrgType ==
  /\ yaml \in DocSet \cup {Absent} /\ json \in DocSet \cup {Absent}
  /\ cache \in [Names -> Int]
  /\ tip \in Commits
  /\ local \in Settings
  /\ pull \in [Pulls -> Pullers]
  /\ verify \in [Verifies -> Verifiers]
  /\ pulled \in Answers \cup {NoPull}
  /\ \A v \in Verifies : verify[v].pc \in {"hash", "load"} => verify[v].doc.pin \in Commits

(* A bundle that is cached under a commit is of that commit, or no bundle   *)
(* that a pull wrote whole.                                                 *)
CacheInv == \A c \in Commits : cache[c] \in {Nothing, Half, Foreign, c}

PullInv ==
  \A p \in Pulls :
     /\ pull[p].pc # "idle" => pull[p].doc \in DocSet /\ pull[p].doc.url
     /\ pull[p].pc \in {"write", "rest", "hash", "pin"} =>
          /\ pull[p].commit \in Commits /\ pull[p].name \in Names
          /\ pull[p].name \in Commits => pull[p].commit = pull[p].name

(* What the last pull pinned is one of the two forms; when the other one    *)
(* differs, the pointer is ambiguous.                                       *)
PinInv == pulled # NoPull => /\ Doc(TRUE, pulled.name, pulled.bundle) \in {yaml, json}
                             /\ pulled.name \in Commits => pulled.from = pulled.name

Judges(w) == w.under # NoPull /\ w.under.name \in Commits /\ w.under.bundle # Foreign

(* A verify after a pull reads the document that pull wrote, and while it   *)
(* is steady finds the pinned commit's bundle or half of it.                *)
Held(w) ==
  Judges(w) =>
     /\ w.under.from = w.under.name
     /\ w.pc \in {"hash", "load"} => w.doc = Doc(TRUE, w.under.name, w.under.bundle)
     /\ w.pc = "load" /\ w.steady => cache[w.under.name] \in {Half, w.under.name}
     /\ w.pc \in {"depends", "passed"} /\ w.steady =>
          /\ w.bundle = w.under.from
          /\ \A k \in DOMAIN local : FloorOf[w.under.from][k] <= w.settings[k]
VerifyInv == \A v \in Verifies : Held(verify[v])

OrgInv == OrgType /\ CacheInv /\ PullInv /\ PinInv /\ VerifyInv

LEMMA OrgNumbers == /\ {Nothing, Half, Foreign, Branch, NoPin} \subseteq Int
                    /\ Commits \subseteq Int
                    /\ \A c \in Commits : c \notin {Nothing, Half, Foreign, Branch, NoPin}
BY CommitsAssumption DEF Commits, Nothing, Half, Foreign, Branch, NoPin

LEMMA DocsAreDocs == /\ Docs \subseteq DocSet /\ Absent \notin DocSet
                     /\ \A u \in BOOLEAN, p \in Commits \cup {NoPin, Branch}, s \in Int : Doc(u, p, s) \in DocSet
BY OrgNumbers DEF Docs, DocSet, Doc, Absent

LEMMA OrgInvInit == OrgInit => OrgInv
<1> SUFFICES ASSUME OrgInit PROVE OrgInv
  OBVIOUS
<1> USE OrgNumbers DEF OrgInit
<1>1. yaml \in DocSet \cup {Absent} /\ json \in DocSet \cup {Absent}
  BY DocsAreDocs
<1>2. cache \in [Names -> Int] /\ tip \in Commits /\ CacheInv
  BY DEF Names, CacheInv
<1>3. local \in Settings
  BY FloorsAssumption DEF Settings, Commits
<1>4. pull \in [Pulls -> Pullers] /\ PullInv
  BY DEF Pullers, Idle, PullInv
<1>5. verify \in [Verifies -> Verifiers]
  BY DEF Verifiers, Started
<1>6. pulled = NoPull /\ PinInv
  BY DEF PinInv
<1>8. \A v \in Verifies : verify[v].pc = "idle"
  BY DEF Started
<1>7. VerifyInv
  BY DEF VerifyInv, Held, Judges, Started
<1> QED  BY <1>1, <1>2, <1>3, <1>4, <1>5, <1>6, <1>7, <1>8 DEF OrgInv, OrgType
LEMMA SelectedIsPinned ==
  ASSUME OrgInv, pulled # NoPull
  PROVE  Selected = Doc(TRUE, pulled.name, pulled.bundle) \/ Selected.form = "ambiguous"
<1>1. Doc(TRUE, pulled.name, pulled.bundle) \in {yaml, json} /\ Doc(TRUE, pulled.name, pulled.bundle) # Absent
  BY DEF OrgInv, PinInv, Doc, Absent
<1>2. CASE yaml # Absent /\ json # Absent /\ yaml # json
  <2>1. Selected = [form |-> "ambiguous"]
    BY <1>2 DEF Selected
  <2> QED  BY <2>1
<1>3. CASE ~(yaml # Absent /\ json # Absent /\ yaml # json)
  <2>1. CASE yaml = Absent
    BY <1>1, <2>1 DEF Selected
  <2>2. CASE yaml # Absent
    BY <1>1, <1>3, <2>2 DEF Selected
  <2> QED  BY <2>1, <2>2
<1> QED  BY <1>2, <1>3

LEMMA SelectedType == ASSUME OrgType PROVE Selected \in DocSet \cup {Absent, [form |-> "ambiguous"]}
BY DEF OrgType, Selected

(* A step that leaves the verifies alone, and in the cache writes a bundle or half of it. *)
LEMMA VerifyElsewhere ==
  ASSUME OrgInv, UNCHANGED verify, DOMAIN local' = DOMAIN local,
         \A c \in Commits : cache'[c] \in {cache[c], Half, c}
  PROVE  VerifyInv'
BY DEF OrgInv, VerifyInv, Held, Judges

(* A pull moves on. *)
LEMMA PullMoves ==
  ASSUME OrgInv, NEW p \in Pulls, NEW w \in Pullers, Set(p, w),
         w.pc # "idle" => w.doc \in DocSet /\ w.doc.url,
         w.pc \in {"write", "rest", "hash", "pin"} =>
            w.commit \in Commits /\ w.name \in Names /\ (w.name \in Commits => w.commit = w.name)
  PROVE  pull' \in [Pulls -> Pullers] /\ PullInv'
BY DEF OrgInv, OrgType, PullInv, Set

LEMMA PullIsIdle ==
  ASSUME OrgInv, NEW p \in Pulls, Set(p, Idle) PROVE pull' \in [Pulls -> Pullers] /\ PullInv'
<1>1. Idle \in Pullers /\ Idle.pc = "idle"
  BY OrgNumbers DEF Idle, Pullers
<1> QED  BY <1>1, PullMoves

LEMMA OutsideKept ==
  ASSUME OrgInv, Publish \/ Edit \/ EditSettings \/ EditCache \/ Receive \/ FetchDependency \/ Migrate
  PROVE  OrgInv'
<1> USE OrgNumbers
<1>1. CASE Publish \/ Receive \/ FetchDependency
  <2>1. UNCHANGED <<pointer, cache, local, pull, verify, pulled>> /\ tip' \in Commits
    BY <1>1 DEF Publish, Receive, FetchDependency, OrgInv, OrgType
  <2>2. VerifyInv'
    BY <2>1, VerifyElsewhere
  <2> QED  BY <2>1, <2>2 DEF OrgInv, OrgType, CacheInv, PullInv, PinInv, pointer
<1>2. CASE EditSettings
  <2>1. UNCHANGED <<pointer, cache, tip, pull, verify, pulled>> /\ local' \in Settings /\ DOMAIN local' = DOMAIN local
    BY <1>2 DEF EditSettings, OrgInv, OrgType, Settings
  <2>2. VerifyInv'
    BY <2>1, VerifyElsewhere
  <2> QED  BY <2>1, <2>2 DEF OrgInv, OrgType, CacheInv, PullInv, PinInv, pointer
<1>3. CASE Edit
  <2>1. pulled' = NoPull /\ UNCHANGED <<cache, tip, local, pull, verify>>
        /\ yaml' \in DocSet \cup {Absent} /\ json' \in DocSet \cup {Absent}
    BY <1>3, DocsAreDocs DEF Edit, OrgInv, OrgType, outside
  <2>2. VerifyInv'
    BY <2>1, VerifyElsewhere
  <2> QED  BY <2>1, <2>2 DEF OrgInv, OrgType, CacheInv, PullInv, PinInv
<1>4. CASE Migrate
  <2>1. /\ yaml = Absent /\ yaml' = json /\ json' \in {json, Absent}
        /\ UNCHANGED <<cache, tip, local, pull, verify, pulled>>
    BY <1>4 DEF Migrate, outside
  <2>2. VerifyInv'
    BY <2>1, VerifyElsewhere
  <2>3. PinInv'
    BY <2>1 DEF OrgInv, PinInv, Doc, Absent
  <2> QED  BY <2>1, <2>2, <2>3 DEF OrgInv, OrgType, CacheInv, PullInv
<1>5. CASE EditCache
  <2>1. PICK n \in Names, to \in {Nothing, Foreign} : cache' = [cache EXCEPT ![n] = to]
    BY <1>5 DEF EditCache, OrgInv, OrgType
  <2>2. /\ verify' = [v \in Verifies |-> [verify[v] EXCEPT !.steady = @ /\ verify[v].pc # "load"]]
        /\ UNCHANGED <<pointer, tip, local, pull, pulled>>
    BY <1>5 DEF EditCache, outside
  <2>3. cache' \in [Names -> Int] /\ CacheInv'
    BY <2>1 DEF OrgInv, OrgType, CacheInv
  <2>4. ASSUME NEW v \in Verifies
        PROVE  /\ verify'[v] \in Verifiers
               /\ UNCHANGED <<verify[v].pc, verify[v].doc, verify[v].bundle, verify[v].under, verify[v].settings>>
               /\ verify'[v].steady => verify[v].steady /\ verify[v].pc # "load"
    <3>1. verify[v] \in Verifiers
      BY DEF OrgInv, OrgType
    <3> QED  BY <2>2, <3>1 DEF Verifiers
  <2>5. verify' \in [Verifies -> Verifiers]
    BY <2>2, <2>4
  <2>6. VerifyInv'
    <3> SUFFICES ASSUME NEW v \in Verifies PROVE Held(verify[v])'
      BY DEF VerifyInv
    <3>1. /\ verify'[v].pc = verify[v].pc /\ verify'[v].doc = verify[v].doc /\ verify'[v].bundle = verify[v].bundle
          /\ verify'[v].under = verify[v].under /\ verify'[v].settings = verify[v].settings
          /\ (verify'[v].steady => verify[v].steady /\ verify[v].pc # "load") /\ local' = local
      BY <2>2, <2>4
    <3>2. Held(verify[v])
      BY DEF OrgInv, VerifyInv
    <3> QED  BY <3>1, <3>2 DEF Held, Judges
  <2>7. \A v \in Verifies : verify'[v].pc \in {"hash", "load"} => verify'[v].doc.pin \in Commits
    BY <2>4 DEF OrgInv, OrgType
  <2> QED  BY <2>2, <2>3, <2>5, <2>6, <2>7 DEF OrgInv, OrgType, PullInv, PinInv, pointer
<1> QED  BY <1>1, <1>2, <1>3, <1>4, <1>5

(* A pull that has not come to pin anything. *)
LEMMA PullStepKept ==
  ASSUME OrgInv, NEW p \in Pulls,
         PullStart(p) \/ Fetch(p) \/ WriteHalf(p) \/ WriteRest(p) \/ Hash(p) \/ PullCrash(p)
  PROVE  OrgInv'
<1> USE OrgNumbers
<1>1. UNCHANGED <<pointer, tip, local, verify, pulled>>
  BY DEF PullStart, Fetch, WriteHalf, WriteRest, Hash, PullCrash, outside
<1>2. pull[p] \in Pullers /\ cache \in [Names -> Int] /\ tip \in Commits
  BY DEF OrgInv, OrgType
<1>3. cache' \in [Names -> Int] /\ CacheInv' /\ \A c \in Commits : cache'[c] \in {cache[c], Half, c}
  <2>1. CASE UNCHANGED cache
    BY <1>2, <2>1 DEF OrgInv, CacheInv
  <2>2. CASE WriteHalf(p)
    BY <1>2, <2>2 DEF WriteHalf, OrgInv, CacheInv, PullInv
  <2>3. CASE WriteRest(p)
    <3>1. pull[p].commit \in Commits /\ pull[p].name \in Names /\ (pull[p].name \in Commits => pull[p].commit = pull[p].name)
      BY <2>3 DEF WriteRest, OrgInv, PullInv
    <3>2. cache' = [cache EXCEPT ![pull[p].name] = pull[p].commit]
      BY <2>3 DEF WriteRest
    <3>3. cache' \in [Names -> Int]
      BY <1>2, <3>1, <3>2
    <3>4. ASSUME NEW c \in Commits PROVE cache'[c] = cache[c] \/ cache'[c] = c
      <4>1. c \in Names
        BY DEF Names
      <4>2. CASE c = pull[p].name
        BY <1>2, <3>1, <3>2, <4>1, <4>2
      <4>3. CASE c # pull[p].name
        BY <1>2, <3>1, <3>2, <4>1, <4>3
      <4> QED  BY <4>2, <4>3
    <3> QED  BY <3>3, <3>4 DEF OrgInv, CacheInv
  <2> QED  BY <2>1, <2>2, <2>3 DEF PullStart, Fetch, Hash, PullCrash
<1>4. VerifyInv'
  BY <1>1, <1>3, VerifyElsewhere
<1>5. pull' \in [Pulls -> Pullers] /\ PullInv'
  <2>1. CASE PullStart(p)
    <3> DEFINE w == [Idle EXCEPT !.pc = "fetch", !.doc = Selected, !.yaml = yaml # Absent]
    <3>1. Selected \in DocSet /\ Selected.url
      BY <2>1, SelectedType DEF PullStart, OrgInv, Absent
    <3>2. w \in Pullers /\ w.pc = "fetch" /\ w.doc = Selected
      BY <3>1 DEF Idle, Pullers
    <3>3. Set(p, w)
      BY <2>1 DEF PullStart
    <3> HIDE DEF w
    <3> QED  BY <3>1, <3>2, <3>3, PullMoves
  <2>2. CASE Fetch(p)
    <3>1. CASE Set(p, Idle)
      BY <3>1, PullIsIdle
    <3>2. CASE Set(p, [pull[p] EXCEPT !.pc = "write", !.commit = Fetched(pull[p].doc), !.name = NameOf(pull[p].doc)])
      <4> DEFINE c == Fetched(pull[p].doc)
                 n == NameOf(pull[p].doc)
                 w == [pull[p] EXCEPT !.pc = "write", !.commit = c, !.name = n]
      <4>1. pull[p].doc \in DocSet /\ pull[p].doc.url
        BY <2>2 DEF Fetch, OrgInv, PullInv
      <4>2. pull[p].doc.pin \in Commits \cup {NoPin, Branch}
        BY <4>1 DEF DocSet
      <4>3. c \in Commits /\ n \in Names /\ (n \in Commits => c = n)
        BY <1>2, <4>2 DEF Fetched, NameOf, Names
      <4> HIDE DEF c, n
      <4>4. w \in Pullers /\ w.pc = "write" /\ w.doc = pull[p].doc /\ w.commit = c /\ w.name = n
        BY <1>2, <4>3 DEF Pullers, Names
      <4>5. Set(p, w)
        BY <3>2 DEF c, n
      <4> HIDE DEF w
      <4> QED  BY <4>1, <4>3, <4>4, <4>5, PullMoves
    <3> QED  BY <2>2, <3>1, <3>2 DEF Fetch
  <2>3. CASE WriteHalf(p) \/ WriteRest(p)
    <3>1. PICK pc2 \in {"rest", "hash"} : Set(p, [pull[p] EXCEPT !.pc = pc2]) /\ pull[p].pc \in {"write", "rest"}
      BY <2>3 DEF WriteHalf, WriteRest
    <3> DEFINE w == [pull[p] EXCEPT !.pc = pc2]
    <3>2. w \in Pullers /\ w.doc = pull[p].doc /\ w.commit = pull[p].commit /\ w.name = pull[p].name
      BY <1>2 DEF Pullers
    <3>3. Set(p, w)
      BY <3>1
    <3> HIDE DEF w
    <3> QED  BY <3>1, <3>2, <3>3, PullMoves DEF OrgInv, PullInv
  <2>4. CASE Hash(p)
    <3>1. CASE Set(p, Idle)
      BY <3>1, PullIsIdle
    <3>2. CASE Set(p, [pull[p] EXCEPT !.pc = "pin", !.sha = cache[pull[p].name]])
      <4> DEFINE w == [pull[p] EXCEPT !.pc = "pin", !.sha = cache[pull[p].name]]
      <4>1. pull[p].pc = "hash" /\ pull[p].name \in Names
        BY <2>4 DEF Hash, OrgInv, PullInv
      <4>2. w \in Pullers /\ w.doc = pull[p].doc /\ w.commit = pull[p].commit /\ w.name = pull[p].name
        BY <1>2, <4>1 DEF Pullers
      <4>3. Set(p, w)
        BY <3>2
      <4> HIDE DEF w
      <4> QED  BY <4>1, <4>2, <4>3, PullMoves DEF OrgInv, PullInv
    <3> QED  BY <2>4, <3>1, <3>2 DEF Hash
  <2>5. CASE PullCrash(p)
    BY <2>5, PullIsIdle DEF PullCrash
  <2> QED  BY <2>1, <2>2, <2>3, <2>4, <2>5
<1> QED  BY <1>1, <1>3, <1>4, <1>5 DEF OrgInv, OrgType, PinInv, pointer

LEMMA PinKept == ASSUME OrgInv, NEW p \in Pulls, Pin(p) PROVE OrgInv'
<1> USE OrgNumbers
<1>1. /\ pull[p].pc = "pin" /\ Set(p, Idle) /\ UNCHANGED <<cache, tip, local, verify>>
      /\ pulled' = [bundle |-> pull[p].sha, from |-> pull[p].commit, name |-> pull[p].name]
      /\ \/ yaml' = Pinned(p) /\ json' = json
         \/ json' = Pinned(p) /\ yaml' = yaml
  BY DEF Pin, outside
<1>2. /\ pull[p].doc.url /\ pull[p].doc \in DocSet /\ pull[p].sha \in Int /\ pull[p].name \in Names
      /\ pull[p].commit \in Commits /\ (pull[p].name \in Commits => pull[p].commit = pull[p].name)
  BY <1>1 DEF OrgInv, OrgType, PullInv, Pullers
<1>3. Pinned(p) = Doc(TRUE, pull[p].name, pull[p].sha)
  BY <1>2 DEF Pinned, DocSet
<1>4. Pinned(p) \in DocSet
  BY <1>2, <1>3, DocsAreDocs DEF Names
<1>5. pulled' \in Answers /\ pulled'.name = pull[p].name /\ pulled'.bundle = pull[p].sha /\ pulled'.from = pull[p].commit
  BY <1>1, <1>2 DEF Answers
<1>6. PinInv'
  BY <1>1, <1>2, <1>3, <1>5 DEF PinInv, Doc
<1>7. VerifyInv'
  BY <1>1, VerifyElsewhere
<1>8. pull' \in [Pulls -> Pullers] /\ PullInv'
  BY <1>1, PullIsIdle
<1> QED  BY <1>1, <1>4, <1>5, <1>6, <1>7, <1>8 DEF OrgInv, OrgType, CacheInv
LEMMA VerifyStepKept ==
  ASSUME OrgInv, NEW v \in Verifies, ReadPointer(v) \/ CheckHash(v) \/ Load(v) \/ Depends(v)
  PROVE  OrgInv'
<1> USE OrgNumbers
<1>1. UNCHANGED <<yaml, json, cache, tip, local, pull, pulled>>
  BY DEF ReadPointer, CheckHash, Load, Depends, Answer, pointer, outside
<1>2. /\ verify[v] \in Verifiers /\ DOMAIN verify = Verifies /\ cache \in [Names -> Int] /\ local \in Settings
      /\ pulled \in Answers \cup {NoPull}
  BY DEF OrgInv, OrgType
<1>3. Held(verify[v])
  BY DEF OrgInv, VerifyInv
<1>4. SUFFICES ASSUME NEW w \in Verifiers, Held(w), w.pc \in {"hash", "load"} => w.doc.pin \in Commits,
                         verify' = [verify EXCEPT ![v] = w] PROVE OrgInv'
  <2>1. CASE ReadPointer(v)
    <3> DEFINE pc2 == IF Selected.form = "ambiguous" THEN "failed"
                      ELSE IF Selected # Absent /\ IsPinned(Selected) THEN "hash" ELSE "depends"
               w == [Started(pc2) EXCEPT !.doc = Selected, !.under = pulled]
    <3>1. verify' = [verify EXCEPT ![v] = w]
      BY <2>1 DEF ReadPointer, Answer
    <3>2. pc2 \in {"failed", "hash", "depends"}
      OBVIOUS
    <3> HIDE DEF pc2
    <3>3. /\ w \in Verifiers /\ w.pc = pc2 /\ w.doc = Selected /\ w.under = pulled
      <4>1. Selected \in DocSet \cup {Absent, [form |-> "ambiguous"]}
        BY SelectedType DEF OrgInv
      <4> QED  BY <1>2, <3>2, <4>1 DEF Started, Verifiers
    <3>4. Held(w)
      <4> SUFFICES ASSUME pulled # NoPull, pulled.name \in Commits
                   PROVE  /\ pulled.from = pulled.name /\ pc2 \in {"failed", "hash"}
                          /\ pc2 = "hash" => Selected = Doc(TRUE, pulled.name, pulled.bundle)
        BY <3>2, <3>3 DEF Held, Judges
      <4>1. pulled.from = pulled.name
        BY DEF OrgInv, PinInv
      <4>2. CASE Selected.form = "ambiguous"
        BY <4>1, <4>2 DEF pc2
      <4>3. CASE Selected.form # "ambiguous"
        <5>1. Selected = Doc(TRUE, pulled.name, pulled.bundle)
          BY <4>3, SelectedIsPinned
        <5>2. IsPinned(Selected) /\ Selected # Absent
          BY <5>1 DEF IsPinned, Doc, Absent
        <5> QED  BY <4>1, <4>3, <5>1, <5>2 DEF pc2
      <4> QED  BY <4>2, <4>3
    <3>5. pc2 = "hash" => Selected.pin \in Commits
      BY DEF pc2, IsPinned
    <3> HIDE DEF w
    <3> QED  BY <1>4, <3>1, <3>2, <3>3, <3>4, <3>5
  <2>2. CASE CheckHash(v)
    <3> DEFINE pc2 == IF HashHolds(verify[v].doc) THEN "load" ELSE "failed"
               w == [verify[v] EXCEPT !.pc = pc2]
    <3>1. verify' = [verify EXCEPT ![v] = w] /\ verify[v].pc = "hash"
      BY <2>2 DEF CheckHash, Answer
    <3>2. pc2 \in {"load", "failed"}
      OBVIOUS
    <3>3. Judges(verify[v]) /\ pc2 = "load" => cache[verify[v].under.name] \in {Half, verify[v].under.name}
      <4> SUFFICES ASSUME Judges(verify[v]), HashHolds(verify[v].doc)
                   PROVE  cache[verify[v].under.name] \in {Half, verify[v].under.name}
        OBVIOUS
      <4>1. verify[v].doc = Doc(TRUE, verify[v].under.name, verify[v].under.bundle)
        BY <1>3, <3>1 DEF Held, Judges
      <4>2. cache[verify[v].under.name] # Nothing /\ cache[verify[v].under.name] = verify[v].under.bundle
        BY <4>1 DEF HashHolds, Doc
      <4> QED  BY <4>2 DEF Judges, OrgInv, CacheInv
    <3> HIDE DEF pc2
    <3>4. /\ w \in Verifiers /\ w.pc = pc2 /\ w.doc = verify[v].doc /\ w.under = verify[v].under
          /\ w.steady = verify[v].steady
      BY <1>2, <3>2 DEF Verifiers
    <3>5. Held(w)
      BY <1>3, <3>1, <3>2, <3>3, <3>4 DEF Held, Judges
    <3>6. w.doc.pin \in Commits
      BY <3>1, <3>4 DEF OrgInv, OrgType
    <3> HIDE DEF w
    <3> QED  BY <1>4, <3>1, <3>4, <3>5, <3>6
  <2>3. CASE Load(v)
    <3> DEFINE file == cache[verify[v].doc.pin]
               pc2 == IF file \in {Nothing, Half} \/ FloorViolations(file) # {} THEN "failed" ELSE "depends"
               w == [verify[v] EXCEPT !.pc = pc2, !.bundle = file, !.settings = local]
    <3>1. verify' = [verify EXCEPT ![v] = w] /\ verify[v].pc = "load"
      BY <2>3 DEF Load, Answer
    <3>2. pc2 \in {"failed", "depends"}
      OBVIOUS
    <3>3. Judges(verify[v]) /\ verify[v].steady /\ pc2 = "depends" =>
             /\ file = verify[v].under.name
             /\ \A k \in DOMAIN local : FloorOf[verify[v].under.name][k] <= local[k]
      <4> SUFFICES ASSUME Judges(verify[v]), verify[v].steady, file \notin {Nothing, Half}, FloorViolations(file) = {}
                   PROVE  /\ file = verify[v].under.name
                          /\ \A k \in DOMAIN local : FloorOf[verify[v].under.name][k] <= local[k]
        OBVIOUS
      <4>1. verify[v].doc = Doc(TRUE, verify[v].under.name, verify[v].under.bundle)
        BY <1>3, <3>1 DEF Held, Judges
      <4>2. file = verify[v].under.name /\ verify[v].under.name \in Commits
        BY <1>3, <3>1, <4>1 DEF Held, Judges, Doc
      <4>3. \A k \in DOMAIN local : ~(FloorOf[file][k] > local[k])
        BY <4>2 DEF FloorViolations
      <4>4. \A k \in DOMAIN local : FloorOf[file][k] \in Nat /\ local[k] \in Nat
        BY <1>2, <4>2, FloorsAssumption DEF Settings, Commits
      <4> QED  BY <4>2, <4>3, <4>4
    <3>4. file \in Int
      BY <1>2, <3>1 DEF OrgInv, OrgType, Names
    <3> HIDE DEF file, pc2
    <3>5. /\ w \in Verifiers /\ w.pc = pc2 /\ w.under = verify[v].under
          /\ w.steady = verify[v].steady /\ w.bundle = file /\ w.settings = local
      BY <1>2, <3>2, <3>4 DEF Verifiers
    <3>6. Held(w)
      BY <1>3, <3>1, <3>2, <3>3, <3>5 DEF Held, Judges
    <3> HIDE DEF w
    <3> QED  BY <1>4, <3>1, <3>2, <3>5, <3>6
  <2>4. CASE Depends(v)
    <3> DEFINE pc2 == IF DependencyHolds THEN "passed" ELSE "failed"
               w == [verify[v] EXCEPT !.pc = pc2]
    <3>1. verify' = [verify EXCEPT ![v] = w] /\ verify[v].pc = "depends"
      BY <2>4 DEF Depends, Answer
    <3>2. pc2 \in {"passed", "failed"}
      OBVIOUS
    <3> HIDE DEF pc2
    <3>3. /\ w \in Verifiers /\ w.pc = pc2 /\ w.doc = verify[v].doc /\ w.under = verify[v].under
          /\ w.steady = verify[v].steady /\ w.bundle = verify[v].bundle /\ w.settings = verify[v].settings
      BY <1>2, <3>2 DEF Verifiers
    <3>4. Held(w)
      BY <1>3, <3>1, <3>2, <3>3 DEF Held, Judges
    <3> HIDE DEF w
    <3> QED  BY <1>4, <3>1, <3>2, <3>3, <3>4
  <2> QED  BY <2>1, <2>2, <2>3, <2>4
<1>5. /\ verify' \in [Verifies -> Verifiers] /\ verify'[v] = w
      /\ \A u \in Verifies \ {v} : verify'[u] = verify[u]
  BY <1>2, <1>4 DEF OrgInv, OrgType
<1>6. \A u \in Verifies : verify'[u].pc \in {"hash", "load"} => verify'[u].doc.pin \in Commits
  BY <1>4, <1>5 DEF OrgInv, OrgType
<1>7. VerifyInv'
  <2> SUFFICES ASSUME NEW u \in Verifies PROVE Held(verify[u])'
    BY DEF VerifyInv
  <2>1. Held(verify'[u])
    BY <1>4, <1>5 DEF OrgInv, VerifyInv
  <2> QED  BY <1>1, <2>1 DEF Held, Judges
<1> QED  BY <1>1, <1>5, <1>6, <1>7 DEF OrgInv, OrgType, CacheInv, PullInv, PinInv

LEMMA OrgInvStep == OrgInv /\ [OrgNext]_orgVars => OrgInv'
<1> SUFFICES ASSUME OrgInv, [OrgNext]_orgVars PROVE OrgInv'
  OBVIOUS
<1>1. CASE UNCHANGED orgVars
  BY <1>1 DEF orgVars, pointer, outside, OrgInv, OrgType, CacheInv, PullInv, PinInv, VerifyInv, Held, Judges
<1> QED  BY <1>1, OutsideKept, PullStepKept, PinKept, VerifyStepKept DEF OrgNext

(* evaluatePolicyPhase: a verify that passes after a pull pinned a commit was *)
(* held to that commit's bundle and its whole floor, whatever pulls,         *)
(* migrations and crashes came between.                                      *)
THEOREM FloorsAreMet == OrgSpec => []PassMeetsTheFloor
<1>1. OrgInv => PassMeetsTheFloor
  BY DEF OrgInv, VerifyInv, Held, Judges, PassMeetsTheFloor, UnderCommit
<1> QED  BY <1>1, OrgInvInit, OrgInvStep, PTL DEF OrgSpec

-----------------------------------------------------------------------------
(* Upgrades.                                                               *)

Orders == [to : Nat, writes : SUBSET Assets, hashes : UNION {[w -> Nat] : w \in SUBSET Assets}]
Plans == [at : {"stage"}, key : Numbers \X Nat, writes : SUBSET Assets, left : SUBSET Assets]
ApplySteps == {"check", "copy", "promote", "fill", "swap", "version", "clean", "clean staging"}
Applies == [pc : ApplySteps, mission : Orders, left : SUBSET Assets, target : Assets \cup {NoTarget}]

(* A mission names a version, the files it writes, and their hashes.        *)
IsOrder(m, to) == m \in Orders /\ m.to = to /\ m.writes # {} /\ m.hashes = [p \in m.writes |-> to]

Files(f) == DOMAIN f \subseteq Assets /\ \A p \in DOMAIN f : f[p] \in Int

InOrder(w) == /\ IsOrder(w.mission, w.mission.to)
              /\ w.left \subseteq w.mission.writes
              /\ w.pc \in {"fill", "swap"} => w.target \in w.left

UpgradeType ==
  /\ files \in [Assets -> Int] /\ pinned \in Nat /\ bundle \in Nat
  /\ Files(staging) /\ Files(applyTmp) /\ Files(tmps)
  /\ DOMAIN missions \subseteq Numbers \X Nat
  /\ \A key \in DOMAIN missions : IsOrder(missions[key], key[2])
  /\ plan \in Plans \cup {NoPlan} /\ (plan # NoPlan => plan.writes # {})
  /\ apply \in [Appliers -> Applies \cup {NoApply}]
  /\ \A a \in Running : InOrder(apply[a])
  /\ mixed \subseteq Appliers

(* An apply that was not mixed runs alone, on the files that it checked.    *)
Own(a) == /\ apply[a].pc = "copy" => \A p \in apply[a].mission.writes :
                                        p \in DOMAIN staging /\ staging[p] = apply[a].mission.to
          /\ apply[a].pc \in {"copy", "promote", "fill", "swap"} =>
               \A p \in DOMAIN applyTmp : applyTmp[p] = apply[a].mission.to
          /\ apply[a].pc = "swap" /\ apply[a].target \in DOMAIN tmps =>
               tmps[apply[a].target] = apply[a].mission.to
OwnInv == \A a \in Running \ mixed : Running = {a} /\ Own(a)

(* The versions only go up: from what is pinned and what was planned to     *)
(* what is staged and to the package's.                                     *)
AtLeast(p, v) == files[p] >= v \/ files[p] = Edited

StagedInv == /\ pinned <= bundle
             /\ \A key \in DOMAIN missions : key[2] <= bundle
             /\ plan # NoPlan => /\ pinned <= plan.key[2] /\ plan.key[2] <= bundle
                                 /\ \A key \in DOMAIN missions : key[2] <= plan.key[2]
             /\ \A p \in DOMAIN staging :
                  /\ pinned <= staging[p] /\ staging[p] <= bundle
                  /\ \A key \in DOMAIN missions : key[2] <= staging[p]
                  /\ \A q \in DOMAIN staging : staging[q] = staging[p]
                  /\ plan # NoPlan => staging[p] = plan.key[2]

(* What a plan or a mission does not write is there already.                *)
RestInv == /\ plan # NoPlan => \A p \in Assets \ plan.writes : AtLeast(p, plan.key[2])
           /\ \A key \in DOMAIN missions : \A p \in Assets \ missions[key].writes : AtLeast(p, key[2])

Checked == {"copy", "promote", "fill", "swap", "version"}
(* An apply that passed the check is of the version that is staged, and has *)
(* put in place what is no longer left.                                     *)
Latest(to) == /\ pinned <= to /\ to <= bundle
              /\ \A key \in DOMAIN missions : key[2] <= to
              /\ plan # NoPlan => to = plan.key[2]
              /\ \A p \in DOMAIN staging : staging[p] = to
InPlace(a, S) == \A p \in S : AtLeast(p, apply[a].mission.to)
Sound(a) == /\ InPlace(a, Assets \ apply[a].mission.writes)
            /\ apply[a].pc \in Checked => Latest(apply[a].mission.to)
            /\ apply[a].pc \in {"promote", "fill", "swap"} =>
                 InPlace(a, apply[a].mission.writes \ apply[a].left)
            /\ apply[a].pc = "version" => InPlace(a, Assets)
ApplyInv == \A a \in Running : Sound(a)

PureInv == /\ \A p \in Assets : files[p] = Edited \/ files[p] >= pinned
           /\ StagedInv /\ RestInv /\ ApplyInv

UpgradeInv == UpgradeType /\ OwnInv /\ (mixed = {} => PureInv)

LEMMA UpgradeSpecials == /\ Edited \in Int /\ HalfCopied \in Int /\ Edited = -1 /\ HalfCopied = -2
                         /\ MaxVersion \in Nat
BY UpgradeAssumption DEF Edited, HalfCopied

LEMMA PutFile ==
  ASSUME NEW f, Files(f), NEW p \in Assets, NEW c \in Int
  PROVE  /\ Files(Put(f, p, c)) /\ DOMAIN Put(f, p, c) = DOMAIN f \cup {p}
         /\ \A q \in DOMAIN f \cup {p} : Put(f, p, c)[q] = IF q = p THEN c ELSE f[q]
BY DEF Files, Put

LEMMA RestrictFile ==
  ASSUME NEW f, Files(f), NEW S
  PROVE  /\ Files(Restrict(f, DOMAIN f \ S)) /\ DOMAIN Restrict(f, DOMAIN f \ S) = DOMAIN f \ S
         /\ \A q \in DOMAIN f \ S : Restrict(f, DOMAIN f \ S)[q] = f[q]
BY DEF Files, Restrict

LEMMA EmptyFiles == Files(Empty) /\ DOMAIN Empty = {}
BY DEF Files, Empty

LEMMA UpgradeStart == UpgradeInit => UpgradeInv
<1> SUFFICES ASSUME UpgradeInit PROVE UpgradeInv
  OBVIOUS
<1>1. UpgradeType
  BY EmptyFiles, UpgradeSpecials DEF UpgradeInit, UpgradeType, Running, NoApply, Empty
<1>2. Running = {}
  BY DEF UpgradeInit, Running, NoApply
<1>3. PureInv
  BY <1>2, EmptyFiles DEF UpgradeInit, PureInv, StagedInv, RestInv, ApplyInv, AtLeast, Empty
<1> QED  BY <1>1, <1>2, <1>3 DEF UpgradeInv, OwnInv

(* Nothing of an apply changes. *)
LEMMA PlanStartKept == UpgradeInv /\ PlanStart => UpgradeInv'
<1> SUFFICES ASSUME UpgradeInv, PlanStart PROVE UpgradeInv'
  OBVIOUS
<1>1. UNCHANGED <<files, pinned, bundle, applyTmp, tmps, repo, apply>> /\ staging' = Empty /\ mixed' = mixed \cup Running
  BY DEF PlanStart
<1>r. Running' = Running
  BY <1>1 DEF Running
<1>2. PICK n \in Numbers : plan' = [at |-> "stage", key |-> <<n, bundle>>, writes |-> Differing, left |-> Differing]
  BY DEF PlanStart, FirstFree, Taken, UpgradeInv, UpgradeType
<1>3. bundle > pinned /\ Differing # {} /\ plan = NoPlan
  BY DEF PlanStart
<1>4. UpgradeType'
  BY <1>1, <1>2, <1>3, <1>r, EmptyFiles DEF UpgradeInv, UpgradeType, Plans, Differing, repo, Running, NoPlan
<1>5. OwnInv'
  BY <1>1, <1>r DEF UpgradeInv, OwnInv
<1>6. ASSUME mixed' = {} PROVE PureInv'
  <2>1. mixed = {} /\ Running = {} /\ PureInv
    BY <1>6, <1>1 DEF UpgradeInv
  <2>2. plan'.key[2] = bundle /\ plan'.writes = Differing /\ plan' # NoPlan
    BY <1>2 DEF NoPlan
  <2>3. pinned \in Nat /\ bundle \in Nat /\ \A p \in Assets : files[p] \in Int
    BY DEF UpgradeInv, UpgradeType
  <2>4. StagedInv'
    BY <1>1, <1>3, <2>1, <2>2, <2>3, EmptyFiles DEF PureInv, StagedInv, repo
  <2>5. RestInv'
    BY <1>1, <2>1, <2>2, <2>3 DEF PureInv, RestInv, AtLeast, Differing, repo
  <2> QED  BY <2>1, <2>4, <2>5, <1>1, <1>r DEF PureInv, ApplyInv
<1> QED  BY <1>4, <1>5, <1>6 DEF UpgradeInv

LEMMA StageKept == UpgradeInv /\ Stage => UpgradeInv'
<1> SUFFICES ASSUME UpgradeInv, Stage PROVE UpgradeInv'
  OBVIOUS
<1>1. /\ UNCHANGED <<files, pinned, bundle, applyTmp, tmps, repo, apply>> /\ mixed' = mixed \cup Running
      /\ plan # NoPlan
  BY DEF Stage
<1>r. Running' = Running
  BY <1>1 DEF Running
<1>2. PICK p \in plan.left : /\ staging' = Put(staging, p, plan.key[2])
                             /\ plan' = [plan EXCEPT !.left = @ \ {p}]
  BY DEF Stage
<1>3. /\ plan \in Plans /\ p \in Assets /\ plan.key[2] \in Nat /\ Files(staging)
      /\ pinned \in Nat /\ bundle \in Nat
  BY <1>1, <1>2 DEF UpgradeInv, UpgradeType, Plans
<1>4. /\ Files(staging') /\ DOMAIN staging' = DOMAIN staging \cup {p}
      /\ \A q \in DOMAIN staging \cup {p} : staging'[q] = IF q = p THEN plan.key[2] ELSE staging[q]
  BY <1>2, <1>3, PutFile
<1>5. plan' \in Plans /\ plan'.key = plan.key /\ plan'.writes = plan.writes /\ plan' # NoPlan
  BY <1>2, <1>3 DEF Plans, NoPlan
<1>6. UpgradeType'
  BY <1>1, <1>4, <1>5, <1>r DEF UpgradeInv, UpgradeType, repo, Running
<1>7. OwnInv'
  BY <1>1, <1>r DEF UpgradeInv, OwnInv
<1>8. ASSUME mixed' = {} PROVE PureInv'
  <2>1. Running = {} /\ PureInv
    BY <1>8, <1>1 DEF UpgradeInv
  <2>4. StagedInv'
    BY <1>1, <1>3, <2>1, <1>4, <1>5 DEF PureInv, StagedInv, repo
  <2>5. RestInv'
    BY <1>1, <2>1, <1>5 DEF PureInv, RestInv, AtLeast, repo
  <2> QED  BY <2>1, <2>4, <2>5, <1>1, <1>r DEF PureInv, ApplyInv
<1> QED  BY <1>6, <1>7, <1>8 DEF UpgradeInv

LEMMA DraftUpgradeKept == UpgradeInv /\ DraftUpgrade => UpgradeInv'
<1> SUFFICES ASSUME UpgradeInv, DraftUpgrade PROVE UpgradeInv'
  OBVIOUS
<1> DEFINE m == [to |-> plan.key[2], writes |-> plan.writes, hashes |-> [p \in plan.writes |-> plan.key[2]]]
<1>1. /\ UNCHANGED <<files, pinned, bundle, dirs, apply, mixed>>
      /\ plan # NoPlan /\ plan' = NoPlan /\ missions' = Put(missions, plan.key, m)
  BY DEF DraftUpgrade
<1>r. Running' = Running
  BY <1>1 DEF Running
<1>2. /\ plan.key \in Numbers \X Nat /\ plan.key[2] \in Nat /\ plan.writes \subseteq Assets /\ plan.writes # {}
  BY <1>1 DEF UpgradeInv, UpgradeType, Plans
<1>3. IsOrder(m, plan.key[2]) /\ m.writes = plan.writes
  BY <1>2 DEF IsOrder, Orders
<1> HIDE DEF m
<1>4. /\ DOMAIN missions' = DOMAIN missions \cup {plan.key}
      /\ \A key \in DOMAIN missions' : missions'[key] = IF key = plan.key THEN m ELSE missions[key]
  BY <1>1 DEF Put
<1>5. UpgradeType'
  BY <1>1, <1>2, <1>3, <1>4, <1>r DEF UpgradeInv, UpgradeType, dirs, Running
<1>6. OwnInv'
  BY <1>1, <1>r DEF UpgradeInv, OwnInv, Own, dirs
<1>7. ASSUME mixed' = {} PROVE PureInv'
  <2>1. PureInv
    BY <1>7, <1>1 DEF UpgradeInv
  <2>4. StagedInv'
    BY <1>1, <1>2, <1>4, <2>1 DEF PureInv, StagedInv, dirs
  <2>5. RestInv'
    BY <1>1, <1>3, <1>4, <2>1 DEF PureInv, RestInv, AtLeast
  <2>6. ApplyInv'
    <3> SUFFICES ASSUME NEW a \in Running' PROVE Sound(a)'
      BY DEF ApplyInv
    <3>0. a \in Running /\ apply'[a] = apply[a] /\ Sound(a)
      BY <1>1, <1>r, <2>1 DEF PureInv, ApplyInv
    <3>1. \A to : Latest(to) => Latest(to)'
      BY <1>1, <1>2, <1>4, <2>1 DEF Latest, dirs
    <3>2. \A S : InPlace(a, S) => InPlace(a, S)'
      BY <1>1 DEF InPlace, AtLeast
    <3> QED  BY <3>0, <3>1, <3>2 DEF Sound
  <2> QED  BY <2>1, <2>4, <2>5, <2>6, <1>1 DEF PureInv
<1> QED  BY <1>5, <1>6, <1>7 DEF UpgradeInv

LEMMA OutsideUpgradeKept == UpgradeInv /\ (PlanFails \/ PlannerCommit \/ EditAsset \/ Update) => UpgradeInv'
<1> SUFFICES ASSUME UpgradeInv, PlanFails \/ PlannerCommit \/ EditAsset \/ Update PROVE UpgradeInv'
  OBVIOUS
<1>1. /\ UNCHANGED <<pinned, dirs, missions, apply, mixed>>
      /\ plan' \in {plan, NoPlan} /\ bundle' \in Nat /\ bundle <= bundle'
      /\ files' \in [Assets -> Int] /\ \A p \in Assets : files'[p] \in {files[p], Edited}
  BY UpgradeSpecials DEF PlanFails, PlannerCommit, EditAsset, Update, repo, UpgradeInv, UpgradeType
<1>r. Running' = Running
  BY <1>1 DEF Running
<1>2. UpgradeType'
  BY <1>1, <1>r DEF UpgradeInv, UpgradeType, dirs, Running
<1>3. OwnInv'
  BY <1>1, <1>r DEF UpgradeInv, OwnInv, Own, dirs
<1>4. ASSUME mixed' = {} PROVE PureInv'
  <2>1. PureInv
    BY <1>4, <1>1 DEF UpgradeInv
  <2>2. \A p \in Assets, v \in Nat : AtLeast(p, v) => AtLeast(p, v)'
    BY <1>1 DEF AtLeast
  <2>3. /\ pinned \in Nat /\ bundle \in Nat /\ Files(staging) /\ \A p \in Assets : files[p] \in Int
        /\ \A key \in DOMAIN missions : key[2] \in Nat
        /\ plan # NoPlan => plan.key[2] \in Nat
        /\ \A a \in Running : apply[a].mission.to \in Nat
    BY DEF UpgradeInv, UpgradeType, InOrder, IsOrder, Orders, Plans
  <2>4. StagedInv'
    BY <1>1, <2>1, <2>3 DEF PureInv, StagedInv, dirs, Files
  <2>5. RestInv'
    BY <1>1, <2>1, <2>2, <2>3 DEF PureInv, RestInv
  <2>6. ApplyInv'
    <3> SUFFICES ASSUME NEW a \in Running' PROVE Sound(a)'
      BY DEF ApplyInv
    <3>0. a \in Running /\ apply'[a] = apply[a] /\ Sound(a) /\ apply[a].mission.to \in Nat
      BY <1>1, <1>r, <2>1, <2>3 DEF PureInv, ApplyInv
    <3>1. \A to \in Nat : Latest(to) => Latest(to)'
      BY <1>1, <2>3 DEF Latest, dirs
    <3>2. \A S : S \subseteq Assets /\ InPlace(a, S) => InPlace(a, S)'
      BY <1>1, <2>2, <3>0 DEF InPlace
    <3>3. apply[a].mission.writes \subseteq Assets
      BY <3>0 DEF UpgradeInv, UpgradeType, InOrder, IsOrder, Orders
    <3> QED  BY <3>0, <3>1, <3>2, <3>3 DEF Sound
  <2>7. \A p \in Assets : files'[p] = Edited \/ files'[p] >= pinned'
    BY <1>1, <2>1 DEF PureInv
  <2> QED  BY <2>4, <2>5, <2>6, <2>7 DEF PureInv
<1> QED  BY <1>2, <1>3, <1>4 DEF UpgradeInv

(* A step of an apply keeps the invariant when what it leaves does. *)
LEMMA ApplyMoves ==
  ASSUME UpgradeInv, NEW a \in Running, NEW w \in Applies \cup {NoApply}, apply' = [apply EXCEPT ![a] = w],
         UNCHANGED <<bundle, missions, plan, mixed>>,
         files' \in [Assets -> Int], pinned' \in Nat, Files(staging'), Files(applyTmp'), Files(tmps'),
         w.pc # "idle" => InOrder(w),
         a \notin mixed /\ w.pc # "idle" => Own(a)',
         mixed = {} => /\ (\A p \in Assets : files[p] = Edited \/ files[p] >= pinned)'
                       /\ StagedInv' /\ RestInv'
                       /\ w.pc # "idle" => Sound(a)'
  PROVE  UpgradeInv'
<1>1. a \in Appliers /\ apply'[a] = w /\ \A b \in Appliers : b # a => apply'[b] = apply[b]
  BY DEF Running, UpgradeInv, UpgradeType
<1>2. /\ apply' \in [Appliers -> Applies \cup {NoApply}]
      /\ \A b \in Running' : b \in Running /\ (b # a => apply'[b] = apply[b])
      /\ a \in Running' => w.pc # "idle"
  BY <1>1 DEF Running, UpgradeInv, UpgradeType
<1>3. UpgradeType'
  BY <1>1, <1>2 DEF UpgradeInv, UpgradeType
<1>4. OwnInv'
  <2> SUFFICES ASSUME NEW b \in Running' \ mixed' PROVE Running' = {b} /\ Own(b)'
    BY DEF OwnInv
  <2>1. b \in Running \ mixed
    BY <1>2
  <2>2. Running = {b}
    BY <2>1 DEF UpgradeInv, OwnInv
  <2>3. b = a /\ Running' = {a}
    BY <2>2, <1>2
  <2> QED  BY <2>1, <2>3, <1>2
<1>5. ASSUME mixed = {} PROVE ApplyInv'
  <2> SUFFICES ASSUME NEW b \in Running' PROVE Sound(b)'
    BY DEF ApplyInv
  <2>1. Running = {b}
    BY <1>2, <1>5 DEF UpgradeInv, OwnInv
  <2> QED  BY <2>1, <1>2, <1>5
<1> QED  BY <1>3, <1>4, <1>5 DEF UpgradeInv, PureInv

(* A file that a checked apply puts in place is as new as anything. *)
LEMMA Promotion ==
  ASSUME UpgradeInv, mixed = {}, NEW a \in Running, apply[a].pc \in Checked, NEW p \in Assets,
         files' = [files EXCEPT ![p] = apply[a].mission.to],
         UNCHANGED <<pinned, bundle, staging, missions, plan>>
  PROVE  /\ (\A q \in Assets : files[q] = Edited \/ files[q] >= pinned)'
         /\ StagedInv' /\ RestInv'
         /\ \A q \in Assets, v \in Nat : (AtLeast(q, v) \/ q = p) /\ v <= apply[a].mission.to => AtLeast(q, v)'
         /\ \A to : Latest(to) => Latest(to)'
<1> DEFINE to == apply[a].mission.to
<1>1. Latest(to) /\ PureInv
  BY DEF UpgradeInv, PureInv, ApplyInv, Sound
<1>2. /\ to \in Nat /\ pinned \in Nat /\ \A q \in Assets : files[q] \in Int
      /\ \A key \in DOMAIN missions : key[2] \in Nat
      /\ plan # NoPlan => plan.key[2] \in Nat
  BY DEF UpgradeInv, UpgradeType, InOrder, IsOrder, Orders, Plans
<1>3. \A q \in Assets : files'[q] = IF q = p THEN to ELSE files[q]
  BY DEF UpgradeInv, UpgradeType
<1> HIDE DEF to
<1>4. (\A q \in Assets : files[q] = Edited \/ files[q] >= pinned)'
  BY <1>1, <1>2, <1>3 DEF PureInv, Latest
<1>5. StagedInv'
  BY <1>1 DEF PureInv, StagedInv
<1>6. \A q \in Assets, v \in Nat : (AtLeast(q, v) \/ q = p) /\ v <= to => AtLeast(q, v)'
  BY <1>2, <1>3 DEF AtLeast
<1>7. RestInv'
  BY <1>1, <1>2, <1>6 DEF PureInv, RestInv, Latest
<1>8. \A v : Latest(v) => Latest(v)'
  BY DEF Latest
<1> QED  BY <1>2, <1>4, <1>5, <1>6, <1>7, <1>8 DEF to

(* A step that leaves the files in place alone. *)
LEMMA FilesStay ==
  ASSUME UpgradeInv, mixed = {}, UNCHANGED <<files, pinned, bundle, missions, plan>>, staging' \in {staging, Empty}
  PROVE  /\ (\A q \in Assets : files[q] = Edited \/ files[q] >= pinned)'
         /\ StagedInv' /\ RestInv'
         /\ \A q, v : AtLeast(q, v) => AtLeast(q, v)'
         /\ \A to : Latest(to) => Latest(to)'
BY EmptyFiles DEF UpgradeInv, PureInv, StagedInv, RestInv, AtLeast, Latest

LEMMA ApplyStartKept == ASSUME UpgradeInv, NEW a \in Appliers, ApplyStart(a) PROVE UpgradeInv'
<1>1. /\ apply[a] = NoApply /\ UNCHANGED <<files, pinned, bundle, dirs, missions, plan>>
      /\ mixed' = IF Running = {} THEN mixed ELSE mixed \cup Running \cup {a}
  BY DEF ApplyStart, repo
<1>2. PICK key \in DOMAIN missions :
        apply' = [apply EXCEPT ![a] = [pc |-> "check", mission |-> missions[key],
                                       left |-> missions[key].writes, target |-> NoTarget]]
  BY DEF ApplyStart
<1> DEFINE w == [pc |-> "check", mission |-> missions[key], left |-> missions[key].writes, target |-> NoTarget]
<1>3. IsOrder(missions[key], key[2]) /\ missions[key].to = key[2]
  BY DEF UpgradeInv, UpgradeType, IsOrder
<1>4. w \in Applies /\ InOrder(w) /\ w.pc = "check" /\ w.mission = missions[key]
  BY <1>3 DEF Applies, InOrder, IsOrder, Orders, ApplySteps
<1>5. /\ apply'[a] = w /\ \A b \in Appliers : b # a => apply'[b] = apply[b]
      /\ apply' \in [Appliers -> Applies \cup {NoApply}]
  BY <1>2, <1>4 DEF UpgradeInv, UpgradeType
<1> HIDE DEF w
<1>6. Running' = Running \cup {a} /\ \A b \in Running : b # a
  BY <1>1, <1>4, <1>5 DEF Running, NoApply
<1>7. UpgradeType'
  BY <1>1, <1>4, <1>5, <1>6 DEF UpgradeInv, UpgradeType, dirs, Running
<1>8. OwnInv'
  BY <1>1, <1>4, <1>5, <1>6 DEF OwnInv, Own
<1>9. ASSUME mixed' = {} PROVE PureInv'
  <2>1. mixed = {} /\ Running = {} /\ PureInv
    BY <1>1, <1>9 DEF UpgradeInv
  <2>2. InPlace(a, Assets \ apply[a].mission.writes)'
    BY <2>1, <1>1, <1>3, <1>4, <1>5 DEF PureInv, RestInv, InPlace, AtLeast
  <2>3. ApplyInv'
    BY <2>1, <2>2, <1>4, <1>5, <1>6 DEF ApplyInv, Sound, Checked
  <2> QED  BY <2>1, <2>3, <1>1 DEF PureInv, StagedInv, RestInv, AtLeast, dirs
<1> QED  BY <1>7, <1>8, <1>9 DEF UpgradeInv

(* What an apply is, while it runs. *)
LEMMA ApplyFacts ==
  ASSUME UpgradeInv, NEW a \in Appliers, apply[a].pc # "idle"
  PROVE  /\ a \in Running /\ apply[a] \in Applies /\ InOrder(apply[a])
         /\ apply[a].mission.to \in Nat /\ apply[a].mission.writes \subseteq Assets
         /\ apply[a].mission.writes # {} /\ apply[a].left \subseteq apply[a].mission.writes
         /\ Files(staging) /\ Files(applyTmp) /\ Files(tmps) /\ files \in [Assets -> Int] /\ pinned \in Nat
         /\ a \notin mixed => Running = {a} /\ Own(a)
         /\ mixed = {} => PureInv /\ Sound(a)
BY DEF UpgradeInv, UpgradeType, Running, NoApply, InOrder, IsOrder, Orders, OwnInv, PureInv, ApplyInv

LEMMA CheckKept == ASSUME UpgradeInv, NEW a \in Appliers, Check(a) PROVE UpgradeInv'
<1>1. apply[a].pc = "check" /\ UNCHANGED <<files, pinned, bundle, staging, tmps, missions, plan, mixed>>
  BY DEF Check, repo
<1>2. CASE HashesHold(apply[a].mission.hashes)
  <2> DEFINE w == [apply[a] EXCEPT !.pc = "copy"]
  <2>1. apply' = [apply EXCEPT ![a] = w] /\ applyTmp' = Empty
    BY <1>2 DEF Check
  <2>2. /\ w \in Applies /\ w.pc = "copy" /\ w.mission = apply[a].mission /\ w.left = apply[a].left
        /\ InOrder(w)
    BY <1>1, ApplyFacts DEF Applies, ApplySteps, InOrder
  <2> HIDE DEF w
  <2>3. apply'[a] = w
    BY <2>1 DEF UpgradeInv, UpgradeType
  <2>4. \A p \in apply[a].mission.writes : p \in DOMAIN staging /\ staging[p] = apply[a].mission.to
    BY <1>1, <1>2, ApplyFacts DEF HashesHold, InOrder, IsOrder
  <2>5. Own(a)'
    BY <1>1, <2>1, <2>2, <2>3, <2>4, EmptyFiles DEF Own
  <2>6. ASSUME mixed = {} PROVE Sound(a)'
    <3> PICK v \in Nat : v = apply[a].mission.to
      BY <1>1, ApplyFacts
    <3>1. Latest(v)
      BY <2>4, <2>6, <1>1, ApplyFacts DEF PureInv, StagedInv, Latest
    <3>2. Latest(v)'
      BY <3>1, <2>6, <1>1, FilesStay
    <3>5. Latest(apply[a].mission.to)'
      BY <3>2, <2>2, <2>3 DEF Latest
    <3>3. InPlace(a, Assets \ apply[a].mission.writes)
      BY <1>1, <2>6, ApplyFacts DEF Sound
    <3>4. InPlace(a, Assets \ apply[a].mission.writes)'
      BY <3>3, <2>2, <2>3, <1>1 DEF InPlace, AtLeast
    <3> QED  BY <3>5, <3>4, <2>2, <2>3 DEF Sound
  <2> QED  BY <1>1, <2>1, <2>2, <2>5, <2>6, ApplyFacts, EmptyFiles, FilesStay, ApplyMoves
<1>3. CASE ~HashesHold(apply[a].mission.hashes)
  <2>1. apply' = [apply EXCEPT ![a] = NoApply] /\ applyTmp' = applyTmp /\ NoApply.pc = "idle"
    BY <1>3 DEF Check, NoApply
  <2> QED  BY <1>1, <2>1, ApplyFacts, FilesStay, ApplyMoves
<1> QED  BY <1>2, <1>3

(* The order of an apply is the same; nothing is put in place, or one file. *)
LEMMA OrderStays ==
  ASSUME UpgradeInv, mixed = {}, NEW a \in Appliers, apply[a].pc # "idle", apply'[a].mission = apply[a].mission,
         UNCHANGED <<files, pinned, bundle, missions, plan>>, staging' \in {staging, Empty}
  PROVE  /\ \A S : InPlace(a, S) => InPlace(a, S)'
         /\ Latest(apply[a].mission.to) => Latest(apply[a].mission.to)'
<1>1. \A S : InPlace(a, S) => InPlace(a, S)'
  BY DEF InPlace, AtLeast
<1>2. ASSUME Latest(apply[a].mission.to) PROVE Latest(apply[a].mission.to)'
  <2> PICK v \in Nat : v = apply[a].mission.to
    BY ApplyFacts
  <2>1. Latest(v)'
    BY <1>2, FilesStay
  <2> QED  BY <2>1 DEF Latest
<1> QED  BY <1>1, <1>2

LEMMA OrderAdvances ==
  ASSUME UpgradeInv, mixed = {}, NEW a \in Appliers, apply[a].pc \in Checked, apply'[a].mission = apply[a].mission,
         NEW p \in Assets, files' = [files EXCEPT ![p] = apply[a].mission.to],
         UNCHANGED <<pinned, bundle, staging, missions, plan>>
  PROVE  /\ \A S \in SUBSET Assets : InPlace(a, S) => InPlace(a, S \cup {p})'
         /\ Latest(apply[a].mission.to)'
<1> PICK v \in Nat : v = apply[a].mission.to
  BY ApplyFacts DEF Checked
<1>1. a \in Running /\ Latest(v)
  BY ApplyFacts DEF Sound, Checked
<1>2. Latest(v)' /\ \A q \in Assets : AtLeast(q, v) \/ q = p => AtLeast(q, v)'
  <2>1. /\ \A q \in Assets, u \in Nat : (AtLeast(q, u) \/ q = p) /\ u <= apply[a].mission.to => AtLeast(q, u)'
        /\ \A to : Latest(to) => Latest(to)'
    BY <1>1, Promotion
  <2>2. v <= apply[a].mission.to
    OBVIOUS
  <2> QED  BY <1>1, <2>1, <2>2
<1>3. apply'[a].mission.to = v
  OBVIOUS
<1>4. Latest(apply[a].mission.to)'
  BY <1>2, <1>3 DEF Latest
<1>5. ASSUME NEW S \in SUBSET Assets, InPlace(a, S) PROVE InPlace(a, S \cup {p})'
  BY <1>2, <1>3, <1>5 DEF InPlace, AtLeast
<1> QED  BY <1>4, <1>5

LEMMA SoundStays ==
  ASSUME UpgradeInv, mixed = {}, NEW a \in Appliers, apply[a].pc \in {"promote", "fill"},
         apply'[a].pc \in {"fill", "swap"}, apply'[a].mission = apply[a].mission, apply'[a].left = apply[a].left,
         UNCHANGED <<files, pinned, bundle, staging, missions, plan>>
  PROVE  Sound(a)'
<1>1. /\ InPlace(a, Assets \ apply[a].mission.writes)
      /\ InPlace(a, apply[a].mission.writes \ apply[a].left)
      /\ Latest(apply[a].mission.to)
  BY ApplyFacts DEF Sound, Checked
<1>2. /\ \A S : InPlace(a, S) => InPlace(a, S)'
      /\ Latest(apply[a].mission.to)'
  BY <1>1, OrderStays
<1> QED  BY <1>1, <1>2 DEF Sound, Checked

(* An apply that ends, fails or is killed. *)
LEMMA ApplyEnds ==
  ASSUME UpgradeInv, NEW a \in Appliers, apply[a].pc # "idle",
         NEW w \in {NoApply, [apply[a] EXCEPT !.pc = "clean"], [apply[a] EXCEPT !.pc = "clean staging"]},
         apply' = [apply EXCEPT ![a] = w],
         UNCHANGED <<files, pinned, bundle, missions, plan, mixed>>, staging' \in {staging, Empty},
         Files(applyTmp'), Files(tmps')
  PROVE  UpgradeInv'
<1>1. CASE w = NoApply
  BY <1>1, ApplyFacts, EmptyFiles, FilesStay, ApplyMoves DEF NoApply
<1>2. CASE w # NoApply
  <2>1. /\ w \in Applies /\ w.pc \in {"clean", "clean staging"} /\ w.mission = apply[a].mission
        /\ w.left = apply[a].left /\ InOrder(w)
    BY <1>2, ApplyFacts DEF Applies, ApplySteps, InOrder
  <2>2. apply'[a] = w
    BY DEF UpgradeInv, UpgradeType
  <2>3. Own(a)'
    BY <2>1, <2>2 DEF Own
  <2>4. ASSUME mixed = {} PROVE Sound(a)'
    <3>1. InPlace(a, Assets \ apply[a].mission.writes)
      BY <2>4, ApplyFacts DEF Sound
    <3>2. InPlace(a, Assets \ apply[a].mission.writes)'
      BY <3>1, <2>1, <2>2, <2>4, OrderStays
    <3> QED  BY <3>2, <2>1, <2>2 DEF Sound, Checked
  <2> HIDE <1>2
  <2> QED  BY <2>1, <2>3, <2>4, ApplyFacts, EmptyFiles, FilesStay, ApplyMoves
<1> QED  BY <1>1, <1>2

LEMMA CopyKept == ASSUME UpgradeInv, NEW a \in Appliers, Copy(a) PROVE UpgradeInv'
<1>1. apply[a].pc = "copy" /\ UNCHANGED <<files, pinned, bundle, staging, tmps, missions, plan, mixed>>
  BY DEF Copy, repo
<1>2. PICK p \in apply[a].left :
        IF p \in DOMAIN staging
        THEN /\ applyTmp' = Put(applyTmp, p, staging[p])
             /\ apply' = [apply EXCEPT ![a] =
                   IF apply[a].left = {p}
                   THEN [apply[a] EXCEPT !.pc = "promote", !.left = apply[a].mission.writes]
                   ELSE [apply[a] EXCEPT !.left = @ \ {p}]]
        ELSE /\ apply' = [apply EXCEPT ![a].pc = "clean staging"]
             /\ UNCHANGED applyTmp
  BY DEF Copy
<1>3. p \in Assets /\ p \in apply[a].mission.writes
  BY <1>1, ApplyFacts
<1>4. CASE p \notin DOMAIN staging
  BY <1>1, <1>2, <1>4, ApplyFacts, ApplyEnds
<1>5. CASE p \in DOMAIN staging
  <2> DEFINE w == IF apply[a].left = {p} THEN [apply[a] EXCEPT !.pc = "promote", !.left = apply[a].mission.writes]
                  ELSE [apply[a] EXCEPT !.left = @ \ {p}]
  <2>1. apply' = [apply EXCEPT ![a] = w] /\ applyTmp' = Put(applyTmp, p, staging[p])
    BY <1>2, <1>5
  <2>2. /\ w \in Applies /\ w.mission = apply[a].mission /\ InOrder(w)
        /\ \/ w.pc = "copy"
           \/ w.pc = "promote" /\ w.left = apply[a].mission.writes
    BY <1>1, ApplyFacts DEF Applies, ApplySteps, InOrder
  <2> HIDE DEF w
  <2>3. apply'[a] = w
    BY <2>1 DEF UpgradeInv, UpgradeType
  <2>4. staging[p] \in Int
    BY <1>1, <1>5, ApplyFacts DEF Files
  <2>5. /\ Files(applyTmp') /\ DOMAIN applyTmp' = DOMAIN applyTmp \cup {p}
        /\ \A q \in DOMAIN applyTmp \cup {p} : applyTmp'[q] = IF q = p THEN staging[p] ELSE applyTmp[q]
    <3>1. Files(applyTmp)
      BY <1>1, ApplyFacts
    <3> PICK c \in Int : c = staging[p]
      BY <2>4
    <3>2. /\ Files(Put(applyTmp, p, c)) /\ DOMAIN Put(applyTmp, p, c) = DOMAIN applyTmp \cup {p}
          /\ \A q \in DOMAIN applyTmp \cup {p} : Put(applyTmp, p, c)[q] = IF q = p THEN c ELSE applyTmp[q]
      <4>1. p \in Assets
        BY <1>3
      <4>2. Files(Put(applyTmp, p, c))
        BY <3>1, <4>1 DEF Files, Put
      <4>3. \A q \in DOMAIN applyTmp \cup {p} : Put(applyTmp, p, c)[q] = IF q = p THEN c ELSE applyTmp[q]
        BY DEF Put
      <4>4. DOMAIN Put(applyTmp, p, c) = DOMAIN applyTmp \cup {p}
        BY DEF Put
      <4> QED  BY <4>2, <4>3, <4>4
    <3> QED  BY <2>1, <3>2
  <2>6. ASSUME a \notin mixed PROVE Own(a)'
    BY <1>1, <1>3, <2>2, <2>3, <2>5, <2>6, ApplyFacts DEF Own
  <2>7. ASSUME mixed = {} PROVE Sound(a)'
    <3>1. InPlace(a, Assets \ apply[a].mission.writes) /\ Latest(apply[a].mission.to)
      BY <2>7, <1>1, ApplyFacts DEF Sound, Checked
    <3>2. InPlace(a, Assets \ apply[a].mission.writes)' /\ Latest(apply[a].mission.to)'
      BY <3>1, <1>1, <2>2, <2>3, <2>7, OrderStays
    <3>3. w.pc = "promote" => InPlace(a, apply[a].mission.writes \ apply[a].left)'
      BY <2>2, <2>3 DEF InPlace
    <3> QED  BY <3>2, <3>3, <2>2, <2>3 DEF Sound
  <2> QED  BY <1>1, <2>1, <2>2, <2>5, <2>6, <2>7, ApplyFacts, FilesStay, ApplyMoves
<1> QED  BY <1>4, <1>5

(* A file p is put in place with the content c, and an apply goes on. *)
LEMMA PromotedKept ==
  ASSUME UpgradeInv, NEW a \in Appliers, apply[a].pc \in {"promote", "fill", "swap"}, NEW p \in apply[a].left,
         NEW c \in Int, files' = [files EXCEPT ![p] = c], Promoted(a, p),
         a \notin mixed => /\ c = apply[a].mission.to
                           /\ \A q \in DOMAIN applyTmp' : q \in DOMAIN applyTmp /\ applyTmp'[q] = applyTmp[q],
         Files(applyTmp'), Files(tmps'),
         UNCHANGED <<pinned, bundle, staging, missions, plan, mixed>>
  PROVE  UpgradeInv'
<1> DEFINE w == [apply[a] EXCEPT !.left = @ \ {p}, !.target = NoTarget,
                                 !.pc = IF apply[a].left = {p} THEN "version" ELSE "promote"]
<1>1. apply' = [apply EXCEPT ![a] = w]
  BY DEF Promoted
<1>2. /\ w \in Applies /\ w.mission = apply[a].mission /\ InOrder(w) /\ w.left = apply[a].left \ {p}
      /\ \/ w.pc = "promote"
         \/ w.pc = "version" /\ apply[a].left = {p}
  BY ApplyFacts DEF Applies, ApplySteps, InOrder
<1> HIDE DEF w
<1>3. apply'[a] = w
  BY <1>1 DEF UpgradeInv, UpgradeType
<1>4. p \in Assets /\ p \in apply[a].mission.writes /\ files' \in [Assets -> Int]
  BY ApplyFacts
<1>5. ASSUME a \notin mixed PROVE Own(a)'
  BY <1>2, <1>3, <1>5, ApplyFacts DEF Own
<1>6. ASSUME mixed = {} PROVE Sound(a)'
  <2>1. /\ InPlace(a, Assets \ apply[a].mission.writes)
        /\ InPlace(a, apply[a].mission.writes \ apply[a].left)
    BY <1>6, ApplyFacts DEF Sound
  <2>2. /\ Latest(apply[a].mission.to)'
        /\ \A S \in SUBSET Assets : InPlace(a, S) => InPlace(a, S \cup {p})'
    BY <1>6, <1>2, <1>3, <1>4, OrderAdvances DEF Checked
  <2> PICK S \in SUBSET Assets, T \in SUBSET Assets :
             S = Assets \ apply[a].mission.writes /\ T = apply[a].mission.writes \ apply[a].left
    BY ApplyFacts
  <2>3. InPlace(a, S \cup {p})' /\ InPlace(a, T \cup {p})'
    BY <2>1, <2>2
  <2> QED  BY <2>2, <2>3, <1>2, <1>3 DEF Sound, InPlace, Checked
<1>7. ASSUME mixed = {} PROVE (\A q \in Assets : files[q] = Edited \/ files[q] >= pinned)' /\ StagedInv' /\ RestInv'
  BY <1>4, <1>7, ApplyFacts, Promotion DEF Checked
<1> QED  BY <1>1, <1>2, <1>4, <1>5, <1>6, <1>7, ApplyFacts, ApplyMoves

LEMMA PromoteKept == ASSUME UpgradeInv, NEW a \in Appliers, Promote(a) PROVE UpgradeInv'
<1>1. apply[a].pc = "promote" /\ UNCHANGED <<pinned, bundle, staging, tmps, missions, plan, mixed>>
  BY DEF Promote, repo
<1>2. PICK p \in apply[a].left :
        IF p \in DOMAIN applyTmp
        THEN /\ files' = [files EXCEPT ![p] = applyTmp[p]]
             /\ applyTmp' = Restrict(applyTmp, DOMAIN applyTmp \ {p})
             /\ Promoted(a, p)
        ELSE Fails(a) /\ UNCHANGED <<files, applyTmp>>
  BY DEF Promote
<1>3. CASE p \notin DOMAIN applyTmp
  BY <1>1, <1>2, <1>3, ApplyFacts, ApplyEnds DEF Fails
<1>4. CASE p \in DOMAIN applyTmp
  <2>1. /\ Files(applyTmp') /\ applyTmp[p] \in Int
        /\ \A q \in DOMAIN applyTmp' : q \in DOMAIN applyTmp /\ applyTmp'[q] = applyTmp[q]
    <3>1. Files(applyTmp)
      BY <1>1, ApplyFacts
    <3>2. /\ Files(Restrict(applyTmp, DOMAIN applyTmp \ {p}))
          /\ DOMAIN Restrict(applyTmp, DOMAIN applyTmp \ {p}) = DOMAIN applyTmp \ {p}
          /\ \A q \in DOMAIN applyTmp \ {p} : Restrict(applyTmp, DOMAIN applyTmp \ {p})[q] = applyTmp[q]
      BY <3>1, RestrictFile
    <3>3. applyTmp[p] \in Int
      BY <3>1, <1>4 DEF Files
    <3> QED  BY <1>2, <1>4, <3>2, <3>3
  <2>2. a \notin mixed => applyTmp[p] = apply[a].mission.to
    BY <1>1, <1>4, ApplyFacts DEF Own
  <2> QED  BY <1>1, <1>2, <1>4, <2>1, <2>2, ApplyFacts, PromotedKept
<1> QED  BY <1>3, <1>4

LEMMA PromoteBusyKept == ASSUME UpgradeInv, NEW a \in Appliers, PromoteBusy(a) PROVE UpgradeInv'
<1>1. /\ apply[a].pc = "promote"
      /\ UNCHANGED <<files, pinned, bundle, staging, applyTmp, missions, plan, mixed>>
  BY DEF PromoteBusy, CopyBegin, repo
<1>2. PICK p \in apply[a].left \cap DOMAIN applyTmp :
        /\ tmps' = Put(tmps, p, HalfCopied)
        /\ apply' = [apply EXCEPT ![a].pc = "fill", ![a].target = p]
  BY DEF PromoteBusy, CopyBegin
<1> DEFINE w == [apply[a] EXCEPT !.pc = "fill", !.target = p]
<1>3. apply' = [apply EXCEPT ![a] = w]
  BY <1>2 DEF UpgradeInv, UpgradeType
<1>4. /\ w \in Applies /\ w.pc = "fill" /\ w.mission = apply[a].mission /\ w.left = apply[a].left /\ InOrder(w)
  BY <1>1, <1>2, ApplyFacts DEF Applies, ApplySteps, InOrder
<1> HIDE DEF w
<1>5. apply'[a] = w
  BY <1>3 DEF UpgradeInv, UpgradeType
<1>6. Files(tmps')
  <2>1. Files(tmps) /\ p \in Assets /\ HalfCopied \in Int
    BY <1>1, <1>2, ApplyFacts, UpgradeSpecials
  <2> QED  BY <1>2, <2>1, PutFile
<1>7. ASSUME a \notin mixed PROVE Own(a)'
  BY <1>1, <1>4, <1>5, <1>7, ApplyFacts DEF Own
<1>8. ASSUME mixed = {} PROVE Sound(a)'
  BY <1>1, <1>4, <1>5, <1>8, ApplyFacts, SoundStays
<1> QED  BY <1>1, <1>3, <1>4, <1>6, <1>7, <1>8, ApplyFacts, FilesStay, ApplyMoves

LEMMA FillTmpKept == ASSUME UpgradeInv, NEW a \in Appliers, FillTmp(a) PROVE UpgradeInv'
<1> DEFINE p == apply[a].target
<1>1. /\ apply[a].pc = "fill"
      /\ UNCHANGED <<files, pinned, bundle, staging, applyTmp, missions, plan, mixed>>
      /\ IF p \in DOMAIN applyTmp
         THEN tmps' = Put(tmps, p, applyTmp[p]) /\ apply' = [apply EXCEPT ![a].pc = "swap"]
         ELSE Fails(a) /\ UNCHANGED tmps
  BY DEF FillTmp, repo
<1>2. CASE p \notin DOMAIN applyTmp
  BY <1>1, <1>2, ApplyFacts, ApplyEnds DEF Fails
<1>3. CASE p \in DOMAIN applyTmp
  <2> DEFINE w == [apply[a] EXCEPT !.pc = "swap"]
  <2>1. apply' = [apply EXCEPT ![a] = w]
    BY <1>1, <1>3 DEF UpgradeInv, UpgradeType
  <2>2. /\ w \in Applies /\ w.pc = "swap" /\ w.mission = apply[a].mission /\ w.left = apply[a].left
        /\ w.target = p /\ InOrder(w) /\ p \in Assets
    BY <1>1, ApplyFacts DEF Applies, ApplySteps, InOrder
  <2> HIDE DEF w
  <2>3. apply'[a] = w
    BY <2>1 DEF UpgradeInv, UpgradeType
  <2> PICK c \in Int : c = applyTmp[p]
    BY <1>1, <1>3, ApplyFacts DEF Files
  <2> PICK q \in Assets : q = p
    BY <2>2
  <2>4. Files(Put(tmps, q, c)) /\ Put(tmps, q, c)[q] = c
    <3>1. Files(tmps)
      BY <1>1, ApplyFacts
    <3>2. ASSUME NEW x \in Assets, NEW d \in Int PROVE Files(Put(tmps, x, d)) /\ Put(tmps, x, d)[x] = d
      BY <3>1 DEF Files, Put
    <3> QED  BY <3>2
  <2>5. tmps' = Put(tmps, q, c)
    BY <1>1, <1>3
  <2>6. ASSUME a \notin mixed PROVE Own(a)'
    <3>1. c = apply[a].mission.to
      BY <1>1, <1>3, <2>6, ApplyFacts DEF Own
    <3>2. apply'[a].mission.to = c /\ apply'[a].target = q /\ apply'[a].pc = "swap"
      BY <2>2, <2>3, <3>1
    <3>3. \A x \in DOMAIN applyTmp' : applyTmp'[x] = c
      BY <1>1, <2>6, <3>1, ApplyFacts DEF Own
    <3>4. tmps'[q] = c
      BY <2>4, <2>5
    <3> QED  BY <3>2, <3>3, <3>4 DEF Own
  <2>7. ASSUME mixed = {} PROVE Sound(a)'
    BY <1>1, <2>2, <2>3, <2>7, ApplyFacts, SoundStays
  <2> QED  BY <1>1, <2>1, <2>2, <2>4, <2>5, <2>6, <2>7, ApplyFacts, FilesStay, ApplyMoves
<1> QED  BY <1>2, <1>3

LEMMA SwapKept == ASSUME UpgradeInv, NEW a \in Appliers, Swap(a) PROVE UpgradeInv'
<1> DEFINE p == apply[a].target
<1>1. /\ apply[a].pc = "swap" /\ UNCHANGED <<pinned, bundle, staging, missions, plan, mixed>>
      /\ IF p \in DOMAIN tmps
         THEN /\ files' = [files EXCEPT ![p] = tmps[p]]
              /\ tmps' = Restrict(tmps, DOMAIN tmps \ {p})
              /\ applyTmp' = Restrict(applyTmp, DOMAIN applyTmp \ {p})
              /\ Promoted(a, p)
         ELSE Fails(a) /\ UNCHANGED <<files, tmps, applyTmp>>
  BY DEF Swap, repo
<1>2. CASE p \notin DOMAIN tmps
  BY <1>1, <1>2, ApplyFacts, ApplyEnds DEF Fails
<1>3. CASE p \in DOMAIN tmps
  <2>1. Files(applyTmp) /\ Files(tmps)
    BY <1>1, ApplyFacts
  <2>2. Files(Restrict(tmps, DOMAIN tmps \ {p}))
    BY <2>1, RestrictFile
  <2>3. /\ Files(Restrict(applyTmp, DOMAIN applyTmp \ {p}))
        /\ DOMAIN Restrict(applyTmp, DOMAIN applyTmp \ {p}) = DOMAIN applyTmp \ {p}
        /\ \A q \in DOMAIN applyTmp \ {p} : Restrict(applyTmp, DOMAIN applyTmp \ {p})[q] = applyTmp[q]
    BY <2>1, RestrictFile
  <2> PICK c \in Int : c = tmps[p]
    BY <2>1, <1>3 DEF Files
  <2>4. p \in apply[a].left
    BY <1>1, ApplyFacts DEF InOrder
  <2>5. a \notin mixed => c = apply[a].mission.to
    BY <1>1, <1>3, ApplyFacts DEF Own
  <2> PICK q \in apply[a].left : q = p
    BY <2>4
  <2>6. /\ Files(applyTmp') /\ Files(tmps') /\ files' = [files EXCEPT ![q] = c] /\ Promoted(a, q)
        /\ \A x \in DOMAIN applyTmp' : x \in DOMAIN applyTmp /\ applyTmp'[x] = applyTmp[x]
    BY <1>1, <1>3, <2>2, <2>3
  <2> HIDE DEF p
  <2> QED  BY <1>1, <2>5, <2>6, PromotedKept
<1> QED  BY <1>2, <1>3

LEMMA WriteVersionKept == ASSUME UpgradeInv, NEW a \in Appliers, WriteVersion(a) PROVE UpgradeInv'
<1>1. /\ apply[a].pc = "version" /\ pinned' = apply[a].mission.to
      /\ UNCHANGED <<files, bundle, dirs, missions, plan, mixed>>
      /\ apply' = [apply EXCEPT ![a].pc = "clean"]
  BY DEF WriteVersion, repo
<1> DEFINE w == [apply[a] EXCEPT !.pc = "clean"]
<1>2. apply' = [apply EXCEPT ![a] = w]
  BY <1>1 DEF UpgradeInv, UpgradeType
<1>3. w \in Applies /\ w.pc = "clean" /\ w.mission = apply[a].mission /\ InOrder(w)
  BY <1>1, ApplyFacts DEF Applies, ApplySteps, InOrder
<1> HIDE DEF w
<1>4. apply'[a] = w
  BY <1>2 DEF UpgradeInv, UpgradeType
<1>5. Own(a)'
  BY <1>3, <1>4 DEF Own
<1>6. ASSUME mixed = {}
      PROVE  /\ (\A p \in Assets : files[p] = Edited \/ files[p] >= pinned)'
             /\ StagedInv' /\ RestInv' /\ Sound(a)'
  <2>1. Latest(apply[a].mission.to) /\ InPlace(a, Assets) /\ PureInv /\ apply[a].mission.to \in Nat
        /\ InPlace(a, Assets \ apply[a].mission.writes)
    BY <1>1, <1>6, ApplyFacts DEF Sound, Checked
  <2>2. (\A p \in Assets : files[p] = Edited \/ files[p] >= pinned)'
    BY <1>1, <2>1 DEF InPlace, AtLeast
  <2>3. StagedInv'
    BY <1>1, <2>1 DEF dirs, PureInv, StagedInv, Latest
  <2>4. RestInv'
    BY <1>1, <2>1 DEF PureInv, RestInv, AtLeast
  <2>5. InPlace(a, Assets \ apply[a].mission.writes)'
    BY <1>1, <1>3, <1>4, <2>1 DEF InPlace, AtLeast
  <2> QED  BY <1>3, <1>4, <2>2, <2>3, <2>4, <2>5 DEF Sound, Checked
<1> QED  BY <1>1, <1>2, <1>3, <1>5, <1>6, ApplyFacts, ApplyMoves DEF dirs

LEMMA RestOfApplyKept ==
  ASSUME UpgradeInv, NEW a \in Appliers, SwapBusy(a) \/ CleanUp(a) \/ ApplyCrash(a) PROVE UpgradeInv'
<1>1. /\ apply[a].pc # "idle"
      /\ UNCHANGED <<files, pinned, bundle, missions, plan, mixed>> /\ staging' \in {staging, Empty}
      /\ applyTmp' \in {applyTmp, Empty}
      /\ tmps' \in {tmps, Restrict(tmps, DOMAIN tmps \ {apply[a].target})}
      /\ \E w \in {NoApply, [apply[a] EXCEPT !.pc = "clean"]} : apply' = [apply EXCEPT ![a] = w]
  <2>1. apply[a] # NoApply => apply[a].pc # "idle"
    BY DEF UpgradeInv, UpgradeType, Applies, ApplySteps
  <2>2. CASE SwapBusy(a)
    BY <2>2 DEF SwapBusy, Fails, repo, UpgradeInv, UpgradeType
  <2>3. CASE CleanUp(a)
    BY <2>3 DEF CleanUp, repo
  <2>4. CASE ApplyCrash(a)
    BY <2>1, <2>4 DEF ApplyCrash, repo, dirs
  <2> QED  BY <2>2, <2>3, <2>4
<1>2. Files(tmps)
  BY <1>1, ApplyFacts
<1>3. Files(Restrict(tmps, DOMAIN tmps \ {apply[a].target}))
  BY <1>2, RestrictFile
<1>4. Files(tmps') /\ Files(applyTmp')
  BY <1>1, <1>2, <1>3, ApplyFacts, EmptyFiles
<1> QED  BY <1>1, <1>4, ApplyEnds

LEMMA UpgradeStutter == UpgradeInv /\ UNCHANGED upgradeVars => UpgradeInv'
BY DEF upgradeVars, dirs, repo, bounded, UpgradeInv, UpgradeType, OwnInv, Own, PureInv, StagedInv, RestInv,
       ApplyInv, Sound, Latest, InPlace, AtLeast, Running

LEMMA UpgradeStep == UpgradeInv /\ [UpgradeNext]_upgradeVars => UpgradeInv'
BY PlanStartKept, StageKept, DraftUpgradeKept, OutsideUpgradeKept, ApplyStartKept, CheckKept, CopyKept,
   PromoteKept, PromoteBusyKept, FillTmpKept, SwapKept, WriteVersionKept, RestOfApplyKept, UpgradeStutter
   DEF UpgradeNext, ApplyStep

LEMMA UpgradeIsInv == UpgradeSpec => []UpgradeInv
BY UpgradeStart, UpgradeStep, PTL DEF UpgradeSpec

(* An upgrade that fails or is killed anywhere - in the copy, between two    *)
(* renames, before the version file - leaves whole files, none older than    *)
(* the pinned version (promoteFileAtomic, runUpgradeApply).                  *)
THEOREM UpgradesAreWhole == UpgradeSpec => []UpgradeIsWhole
<1>1. UpgradeInv => UpgradeIsWhole
  BY UpgradeSpecials DEF UpgradeInv, UpgradeType, PureInv, UpgradeIsWhole, NeverHalf, NoOldAsset
<1> QED  BY <1>1, UpgradeIsInv, PTL

(* What an apply puts in place has the hash that its mission names, unless a *)
(* plan or another apply touched the directories while it ran                *)
(* (verifyStagedHashes, stageWritesForApply, promoteFileAtomic).             *)
THEOREM InstallsAreChecked == UpgradeSpec => InstallsWhatWasChecked
<1>1. UpgradeInv /\ [UpgradeNext]_upgradeVars => [InstallChecked]_upgradeVars
  <2> SUFFICES ASSUME UpgradeInv, UpgradeNext, NEW a \in Appliers, NEW p \in Assets,
                      files'[p] # files[p], files'[p] # Edited, apply'[a] # apply[a], a \notin mixed
               PROVE  files'[p] = apply[a].mission.hashes[p]
    BY DEF InstallChecked
  <2>1. ~EditAsset
    BY UpgradeSpecials DEF EditAsset, UpgradeInv, UpgradeType
  <2>2. ~(PlanStart \/ Stage \/ DraftUpgrade \/ PlanFails \/ PlannerCommit \/ Update)
    BY DEF PlanStart, Stage, DraftUpgrade, PlanFails, PlannerCommit, Update
  <2>3. PICK b \in Appliers : ApplyStep(b)
    BY <2>1, <2>2 DEF UpgradeNext
  <2>4. Promote(b) \/ Swap(b)
    BY <2>3 DEF ApplyStep, ApplyStart, Check, Copy, PromoteBusy, CopyBegin, FillTmp, SwapBusy, WriteVersion,
                CleanUp, ApplyCrash
  <2>5. b = a
    BY <2>4 DEF Promote, Swap, Promoted, Fails, UpgradeInv, UpgradeType
  <2>6. /\ apply[a].pc \in {"promote", "swap"}
        /\ p \in apply[a].left
        /\ \/ apply[a].pc = "promote" /\ p \in DOMAIN applyTmp /\ files'[p] = applyTmp[p]
           \/ apply[a].pc = "swap" /\ p = apply[a].target /\ p \in DOMAIN tmps /\ files'[p] = tmps[p]
    <3>1. files \in [Assets -> Int] /\ (apply[a].pc = "swap" => apply[a].target \in apply[a].left)
      BY ApplyFacts DEF UpgradeInv, UpgradeType, InOrder
    <3> QED  BY <2>4, <2>5, <3>1 DEF Promote, Swap
  <2>7. files'[p] = apply[a].mission.to
    BY <2>6, ApplyFacts DEF Own
  <2>8. apply[a].mission.hashes[p] = apply[a].mission.to
    BY <2>6, ApplyFacts DEF InOrder, IsOrder
  <2> QED  BY <2>7, <2>8
<1> QED  BY <1>1, UpgradeIsInv, PTL DEF UpgradeSpec, InstallsWhatWasChecked

-----------------------------------------------------------------------------
(* The circuit breaker.                                                    *)

Failed == [outcome : {"failed"}, m : Missions, report : Reports]
Digests == {DigestOf(r) : r \in Reports} \cup {{"init"}}
Entries == [outcome : {"failed"}, m : Missions, report : Reports, recurred : BOOLEAN, clean : BOOLEAN]
           \cup [outcome : {"passed", "init"}, recurred : {FALSE}, clean : BOOLEAN]

OutcomeType ==
  /\ DOMAIN stage = Procs /\ DOMAIN cur = Procs /\ DOMAIN ring = Procs
  /\ log \in Seq(Entries)
  /\ \A p \in Procs : stage[p] \in {"read", "persist"} => cur[p] \in Failed

KeysOf(k) == {f.key : f \in log[k].report}
IsFailure(k, m, d) == log[k].outcome = "failed" /\ log[k].m = m /\ KeysOf(k) = d
CleanFrom(i) == \A k \in DOMAIN log : i <= k => log[k].clean
OnlyOf(i, m) == \A k \in DOMAIN log : i < k => log[k].outcome = "failed" /\ log[k].m = m
Now == Len(log) + 1

IsRing(s) == /\ s \in Seq(Digests) /\ Len(s) <= RingCap
             /\ \A x, y \in 1 .. Len(s) : s[x] = s[y] => x = y

(* What a run has read is of failures of its mission; it is still in the   *)
(* feed unless the run was overtaken.                                      *)
ReadInv(p) ==
  stage[p] = "persist" =>
    /\ IsRing(ring[p])
    /\ \A d \in ToSet(ring[p]) : \E i \in DOMAIN log : IsFailure(i, cur[p].m, d)
    /\ p \notin overtaken => ring[p] = RingOf(cur[p].m)

(* The feed's ring is of failures of its mission, and of nothing before    *)
(* another mission's feed or a pass.                                       *)
BackedInv ==
  \A m \in Missions : feed.msn = {m} =>
    \A d \in ToSet(feed.ring) : \E i \in DOMAIN log :
        IsFailure(i, m, d) /\ (CleanFrom(1) => OnlyOf(i, m))

(* A failure since which only that mission failed, fewer times than the    *)
(* ring holds, is in the ring with nothing but later failures behind it.   *)
Counts(i) == /\ log[i].outcome = "failed" /\ ~log[i].recurred
             /\ CleanFrom(i) /\ OnlyOf(i, log[i].m)
             /\ Cardinality(OtherFailures(i, Now)) < RingCap
Remembered(i) ==
  /\ feed.msn = {log[i].m}
  /\ \E n \in 1 .. Len(feed.ring) :
       /\ feed.ring[n] = KeysOf(i)
       /\ \A x \in n + 1 .. Len(feed.ring) : feed.ring[x] \in OtherFailures(i, Now)
RememberedInv == \A i \in DOMAIN log : Counts(i) => Remembered(i)

BreakInv ==
  /\ OutcomeType
  /\ IsRing(feed.ring)
  /\ \A p \in Procs : ReadInv(p)
  /\ BackedInv
  /\ RememberedInv
  /\ BreakerIsExact

LEMMA BreakInvInit == OutcomeInit => BreakInv
<1> SUFFICES ASSUME OutcomeInit PROVE BreakInv
  OBVIOUS
<1> USE DEF OutcomeInit
<1>1. DOMAIN log = {} /\ Len(log) = 0
  OBVIOUS
<1>2. OutcomeType
  BY DEF OutcomeType
<1>3. IsRing(feed.ring)
  BY RingAssumption DEF IsRing, Cleared
<1>4. \A p \in Procs : ReadInv(p)
  BY DEF ReadInv
<1>5. BackedInv
  BY DEF BackedInv, Cleared
<1>6. RememberedInv
  BY <1>1 DEF RememberedInv
<1>7. BreakerIsExact
  BY <1>1 DEF BreakerIsExact, LoopsAreStopped, StopsOnlyLoops
<1> QED  BY <1>2, <1>3, <1>4, <1>5, <1>6, <1>7 DEF BreakInv

-----------------------------------------------------------------------------
(* The history that a step leaves alone.                                   *)

LEMMA LogFacts ==
  ASSUME OutcomeType
  PROVE  /\ Len(log) \in Nat /\ DOMAIN log = 1 .. Len(log)
         /\ \A k \in 1 .. Len(log) : log[k] \in Entries
BY ElementOfSeq, LenProperties DEF OutcomeType

LEMMA SameHistory ==
  ASSUME UNCHANGED log
  PROVE  /\ BreakerIsExact => BreakerIsExact'
         /\ UNCHANGED feed => (BackedInv => BackedInv') /\ (RememberedInv => RememberedInv')
<1>1. BreakerIsExact => BreakerIsExact'
  <2>1. \A i, j : /\ (SameFailure(i, j)' <=> SameFailure(i, j))
                  /\ (FailuresOnly(i, j)' <=> FailuresOnly(i, j))
                  /\ OtherFailures(i, j)' = OtherFailures(i, j)
    BY DEF OtherFailures, Between, SameFailure, FailuresOnly
  <2>2. LoopsAreStopped => LoopsAreStopped'
    BY <2>1 DEF LoopsAreStopped
  <2>3. StopsOnlyLoops => StopsOnlyLoops'
    BY <2>1 DEF StopsOnlyLoops
  <2> QED  BY <2>2, <2>3 DEF BreakerIsExact
<1>2. UNCHANGED feed => (BackedInv => BackedInv')
  BY DEF BackedInv, IsFailure, KeysOf, CleanFrom, OnlyOf
<1>3. ASSUME NEW i PROVE (Counts(i)' <=> Counts(i)) /\ (UNCHANGED feed => (Remembered(i) => Remembered(i)'))
  <2>1. OtherFailures(i, Now)' = OtherFailures(i, Now)
    BY DEF OtherFailures, Between, SameFailure, Now
  <2>2. Counts(i)' <=> Counts(i)
    BY <2>1 DEF Counts, CleanFrom, OnlyOf
  <2>3. KeysOf(i)' = KeysOf(i)
    BY DEF KeysOf
  <2>4. UNCHANGED feed => (Remembered(i) => Remembered(i)')
    BY <2>1, <2>3 DEF Remembered
  <2> QED  BY <2>2, <2>4
<1>4. UNCHANGED feed => (RememberedInv => RememberedInv')
  BY <1>3 DEF RememberedInv
<1> QED  BY <1>1, <1>2, <1>4

(* A step that writes no feed.                                             *)
LEMMA QuietStep ==
  ASSUME BreakInv, UNCHANGED <<feed, log>>,
         NEW p \in Procs, NEW st, stage' = [stage EXCEPT ![p] = st],
         DOMAIN cur' = Procs /\ DOMAIN ring' = Procs,
         \A q \in Procs \ {p} : cur'[q] = cur[q] /\ ring'[q] = ring[q] /\ (q \in overtaken <=> q \in overtaken'),
         st \in {"read", "persist"} => cur'[p] \in Failed,
         st = "persist" => ring'[p] = RingOf(cur'[p].m)
  PROVE  BreakInv'
<1>1. OutcomeType'
  BY DEF BreakInv, OutcomeType
<1>2. \A i \in DOMAIN log : i \in Nat
  BY LogFacts DEF BreakInv
<1>3. ASSUME NEW q \in Procs PROVE ReadInv(q)'
  <2>1. CASE q # p
    BY <2>1 DEF BreakInv, OutcomeType, ReadInv, IsRing, IsFailure, KeysOf, RingOf
  <2>2. CASE q = p
    <3> SUFFICES ASSUME st = "persist" PROVE ReadInv(p)'
      BY <2>2 DEF BreakInv, OutcomeType, ReadInv
    <3>1. ring'[p] = RingOf(cur'[p].m) /\ cur'[p].m \in Missions
      BY DEF Failed
    <3>2. IsRing(ring'[p])
      <4>1. IsRing(<< >>)
        BY RingAssumption DEF IsRing
      <4>2. IsRing(feed.ring)
        BY DEF BreakInv
      <4>3. IsRing(ring'[p])
        BY <3>1, <4>1, <4>2 DEF RingOf
      <4> QED  BY <4>3
    <3>3. ASSUME NEW d \in ToSet(ring'[p]) PROVE \E i \in DOMAIN log : IsFailure(i, cur'[p].m, d)
      <4>1. CASE feed.msn = {cur'[p].m}
        BY <3>1, <3>3, <4>1 DEF RingOf, BreakInv, BackedInv
      <4>2. CASE feed.msn # {cur'[p].m}
        BY <3>1, <3>3, <4>2 DEF RingOf, ToSet
      <4> QED  BY <4>1, <4>2
    <3>4. ring'[p] = RingOf(cur[p].m)'
      BY <3>1 DEF RingOf
    <3>5. (\A d \in ToSet(ring[p]) : \E i \in DOMAIN log : IsFailure(i, cur[p].m, d))'
      BY <3>3 DEF IsFailure, KeysOf
    <3> QED  BY <3>2, <3>4, <3>5 DEF ReadInv
  <2> QED  BY <2>1, <2>2
<1> QED  BY <1>1, <1>3, SameHistory DEF BreakInv, IsRing

-----------------------------------------------------------------------------
(* A step that adds to the history.                                        *)

LEMMA Appended ==
  ASSUME OutcomeType, NEW e \in Entries, log' = Append(log, e), NEW n, n = Len(log) + 1
  PROVE  /\ n \in Nat /\ n > 0 /\ Len(log) = n - 1
         /\ log' \in Seq(Entries) /\ Len(log') = n /\ DOMAIN log' = 1 .. n /\ DOMAIN log = 1 .. n - 1
         /\ log'[n] = e /\ \A k \in 1 .. n - 1 : log'[k] = log[k]
BY DEF OutcomeType

(* What was said of the entries before stays.                              *)
LEMMA SameBefore ==
  ASSUME OutcomeType, NEW e \in Entries, log' = Append(log, e), NEW n, n = Len(log) + 1
  PROVE  /\ \A i \in 1 .. n - 1 : KeysOf(i)' = KeysOf(i)
         /\ \A i, j \in 1 .. n - 1 : SameFailure(i, j)' <=> SameFailure(i, j)
         /\ \A i \in 1 .. n - 1, j \in 1 .. n : /\ (FailuresOnly(i, j)' <=> FailuresOnly(i, j))
                                                /\ OtherFailures(i, j)' = OtherFailures(i, j)
         /\ \A i \in 1 .. n - 1 : FailuresOnly(i, n) <=> OnlyOf(i, log[i].m)
<1>1. /\ n \in Nat /\ n > 0 /\ DOMAIN log' = 1 .. n /\ DOMAIN log = 1 .. n - 1
      /\ \A k \in 1 .. n - 1 : log'[k] = log[k]
  BY Appended
<1>2. \A i \in 1 .. n - 1 : KeysOf(i)' = KeysOf(i)
  BY <1>1 DEF KeysOf
<1>3. \A i, j \in 1 .. n - 1 : SameFailure(i, j)' <=> SameFailure(i, j)
  BY <1>1 DEF SameFailure
<1>4. ASSUME NEW i \in 1 .. n - 1, NEW j \in 1 .. n
      PROVE  (FailuresOnly(i, j)' <=> FailuresOnly(i, j)) /\ OtherFailures(i, j)' = OtherFailures(i, j)
  <2>1. Between(i, j)' = Between(i, j) /\ Between(i, j) \subseteq 1 .. n - 1
    BY <1>1 DEF Between
  <2>2. FailuresOnly(i, j)' <=> FailuresOnly(i, j)
    BY <1>1, <2>1 DEF FailuresOnly
  <2>3. {k \in Between(i, j) : ~SameFailure(i, k)}' = {k \in Between(i, j) : ~SameFailure(i, k)}
    BY <1>3, <2>1
  <2>4. \A k \in Between(i, j) : {f.key : f \in log[k].report}' = {f.key : f \in log[k].report}
    BY <1>1, <2>1
  <2>5. OtherFailures(i, j)' = OtherFailures(i, j)
    BY <2>1, <2>3, <2>4 DEF OtherFailures
  <2> QED  BY <2>2, <2>5
<1>5. ASSUME NEW i \in 1 .. n - 1 PROVE FailuresOnly(i, n) <=> OnlyOf(i, log[i].m)
  BY <1>1 DEF FailuresOnly, OnlyOf, Between
<1> QED  BY <1>2, <1>3, <1>4, <1>5

(* One more entry is one more other failure, or the same one again.        *)
LEMMA OthersGrow ==
  ASSUME OutcomeType, NEW e \in Entries, log' = Append(log, e), NEW n, n = Len(log) + 1,
         NEW i \in 1 .. n - 1
  PROVE  OtherFailures(i, n + 1)' =
           OtherFailures(i, n) \cup (IF SameFailure(i, n)' THEN {} ELSE {KeysOf(n)'})
<1>1. /\ n \in Nat /\ n > 0 /\ DOMAIN log' = 1 .. n /\ DOMAIN log = 1 .. n - 1
      /\ \A k \in 1 .. n - 1 : log'[k] = log[k]
  BY Appended
<1>2. Between(i, n + 1)' = Between(i, n) \cup {n} /\ Between(i, n) \subseteq 1 .. n - 1
  BY <1>1 DEF Between
<1>3. \A k \in 1 .. n - 1 : KeysOf(k)' = KeysOf(k) /\ (SameFailure(i, k)' <=> SameFailure(i, k))
  BY SameBefore
<1>4. OtherFailures(i, n) = {KeysOf(k) : k \in {k \in Between(i, n) : ~SameFailure(i, k)}}
  BY DEF OtherFailures, KeysOf
<1>5. OtherFailures(i, n + 1)' = {KeysOf(k)' : k \in {k \in Between(i, n + 1)' : ~SameFailure(i, k)'}}
  BY DEF OtherFailures, KeysOf
<1> QED  BY <1>2, <1>3, <1>4, <1>5

LEMMA ImageIsFinite ==
  ASSUME NEW K, IsFiniteSet(K), NEW f, DOMAIN f = K
  PROVE  IsFiniteSet({f[k] : k \in K})
<1> DEFINE T == {f[k] : k \in K}
<1>1. f = [k \in K |-> f[k]] \/ TRUE
  OBVIOUS
<1>2. [k \in K |-> f[k]] \in Surjection(K, T)
  BY DEF Surjection
<1> QED  BY <1>2, FS_Surjection

LEMMA OthersAreFinite ==
  ASSUME OutcomeType, NEW i, NEW j PROVE IsFiniteSet(OtherFailures(i, j))
<1> DEFINE K == {k \in Between(i, j) : ~SameFailure(i, k)}
<1>1. IsFiniteSet(K)
  <2>1. Len(log) \in Nat /\ DOMAIN log = 1 .. Len(log)
    BY LogFacts
  <2>2. K \in SUBSET (1 .. Len(log)) /\ IsFiniteSet(1 .. Len(log))
    BY <2>1, FS_Interval DEF Between
  <2> HIDE DEF K
  <2> QED  BY <2>2, FS_Subset
<1> DEFINE keys == [k \in K |-> {f.key : f \in log[k].report}]
<1>2. OtherFailures(i, j) = {keys[k] : k \in K}
  BY DEF OtherFailures
<1>3. DOMAIN keys = K
  OBVIOUS
<1> HIDE DEF K, keys
<1> QED  BY <1>1, <1>2, <1>3, ImageIsFinite

(* The breaker stays exact when it is exact about the new entry.           *)
LEMMA ExactStep ==
  ASSUME BreakInv, NEW e \in Entries, log' = Append(log, e), NEW n, n = Len(log) + 1,
         ASSUME NEW i \in 1 .. n - 1, SameFailure(i, n)', Counts(i), e.clean PROVE e.recurred,
         e.recurred => \E i \in 1 .. n - 1 :
                          SameFailure(i, n)' /\ (CleanFrom(1) /\ e.clean => OnlyOf(i, log[i].m))
  PROVE  BreakerIsExact'
<1>1. /\ n \in Nat /\ n > 0 /\ DOMAIN log' = 1 .. n /\ DOMAIN log = 1 .. n - 1
      /\ log'[n] = e /\ \A k \in 1 .. n - 1 : log'[k] = log[k]
  BY Appended DEF BreakInv
<1>2. /\ \A i, j \in 1 .. n - 1 : SameFailure(i, j)' <=> SameFailure(i, j)
      /\ \A i \in 1 .. n - 1, j \in 1 .. n : /\ (FailuresOnly(i, j)' <=> FailuresOnly(i, j))
                                             /\ OtherFailures(i, j)' = OtherFailures(i, j)
      /\ \A i \in 1 .. n - 1 : FailuresOnly(i, n) <=> OnlyOf(i, log[i].m)
  BY SameBefore DEF BreakInv
<1>3. LoopsAreStopped'
  <2> SUFFICES ASSUME NEW j \in 1 .. n, NEW i \in 1 .. j - 1,
                      SameFailure(i, j)', ~log'[i].recurred, \A k \in i .. j : log'[k].clean,
                      FailuresOnly(i, j)', Cardinality(OtherFailures(i, j)') < RingCap
               PROVE  log'[j].recurred
    BY <1>1 DEF LoopsAreStopped
  <2>1. CASE j = n
    <3>1. i \in 1 .. n - 1 /\ j \in 1 .. n
      BY <1>1, <2>1
    <3>2. log[i].outcome = "failed" /\ ~log[i].recurred
      BY <1>1, <2>1, <3>1 DEF SameFailure
    <3>3. CleanFrom(i) /\ e.clean
      BY <1>1, <2>1, <3>1 DEF CleanFrom
    <3>4. OnlyOf(i, log[i].m) /\ Cardinality(OtherFailures(i, n)) < RingCap
      BY <1>2, <2>1, <3>1
    <3>5. Counts(i)
      BY <3>2, <3>3, <3>4 DEF Counts, Now
    <3> QED  BY <1>1, <2>1, <3>1, <3>3, <3>5
  <2>2. CASE j # n
    <3>1. i \in 1 .. n - 1 /\ j \in 1 .. n - 1 /\ j \in 1 .. n
      BY <1>1, <2>2
    <3>2. \A k \in i .. j : log[k].clean
      BY <1>1, <3>1
    <3>3. SameFailure(i, j) /\ ~log[i].recurred /\ FailuresOnly(i, j) /\ Cardinality(OtherFailures(i, j)) < RingCap
      BY <1>1, <1>2, <3>1
    <3>4. log[j].recurred
      BY <1>1, <3>1, <3>2, <3>3 DEF BreakInv, BreakerIsExact, LoopsAreStopped
    <3> QED  BY <1>1, <3>1, <3>4
  <2> QED  BY <2>1, <2>2
<1>4. StopsOnlyLoops'
  <2> SUFFICES ASSUME NEW j \in 1 .. n, log'[j].recurred
               PROVE  \E i \in 1 .. j - 1 : /\ SameFailure(i, j)'
                                            /\ (\A k \in 1 .. j : log'[k].clean) => FailuresOnly(i, j)'
    <3>1. StopsOnlyLoops' <=>
            \A j \in DOMAIN log' : log'[j].recurred =>
              \E i \in 1 .. j - 1 : /\ SameFailure(i, j)'
                                    /\ (\A k \in 1 .. j : log'[k].clean) => FailuresOnly(i, j)'
      BY DEF StopsOnlyLoops
    <3> QED  BY <1>1, <3>1
  <2>1. CASE j = n
    <3>1. PICK i \in 1 .. n - 1 : SameFailure(i, n)' /\ (CleanFrom(1) /\ e.clean => OnlyOf(i, log[i].m))
      BY <1>1, <2>1
    <3>2. ASSUME \A k \in 1 .. j : log'[k].clean PROVE FailuresOnly(i, j)'
      <4>1. CleanFrom(1) /\ e.clean
        BY <1>1, <2>1, <3>2 DEF CleanFrom
      <4>2. i \in 1 .. n - 1 /\ n \in 1 .. n
        BY <1>1
      <4> QED  BY <1>2, <2>1, <3>1, <4>1, <4>2
    <3> QED  BY <2>1, <3>1, <3>2
  <2>2. CASE j # n
    <3>1. j \in 1 .. n - 1 /\ j \in 1 .. n
      BY <1>1, <2>2
    <3>2. PICK i \in 1 .. j - 1 : SameFailure(i, j) /\ ((\A k \in 1 .. j : log[k].clean) => FailuresOnly(i, j))
      BY <1>1, <3>1 DEF BreakInv, BreakerIsExact, StopsOnlyLoops
    <3>3. i \in 1 .. n - 1
      BY <1>1, <3>1
    <3>4. SameFailure(i, j)' /\ (FailuresOnly(i, j)' <=> FailuresOnly(i, j))
      BY <1>2, <3>1, <3>2, <3>3
    <3>5. \A k \in 1 .. j : log'[k] = log[k]
      BY <1>1, <3>1
    <3> QED  BY <3>2, <3>4, <3>5
  <2> QED  BY <2>1, <2>2
<1> QED  BY <1>3, <1>4 DEF BreakerIsExact

(* What the other runs have read: another one's write overtakes them.      *)
LEMMA ReadAfterSwap ==
  ASSUME BreakInv, NEW e \in Entries, log' = Append(log, e), NEW to, NEW ok \in BOOLEAN, NEW p \in Procs,
         feed' = IF ok THEN to ELSE feed,
         overtaken' = (IF ok THEN overtaken \cup {q \in Procs : stage[q] = "persist"} ELSE overtaken) \ {p},
         NEW q \in Procs \ {p}, stage'[q] = stage[q], cur'[q] = cur[q], ring'[q] = ring[q]
  PROVE  ReadInv(q)'
<1> SUFFICES ASSUME stage[q] = "persist" PROVE ReadInv(q)'
  BY DEF ReadInv
<1>1. IsRing(ring'[q])
  BY DEF BreakInv, ReadInv
<1>2. ASSUME NEW d \in ToSet(ring[q]) PROVE \E i \in DOMAIN log' : IsFailure(i, cur[q].m, d)'
  <2>1. PICK i \in DOMAIN log : IsFailure(i, cur[q].m, d)
    BY DEF BreakInv, ReadInv
  <2>2. i \in DOMAIN log' /\ log'[i] = log[i]
    BY Appended DEF BreakInv
  <2> QED  BY <2>1, <2>2 DEF IsFailure, KeysOf
<1>3. ASSUME q \notin overtaken' PROVE ring'[q] = RingOf(cur[q].m)'
  <2>1. ~ok /\ q \notin overtaken
    BY <1>3
  <2>2. ring[q] = RingOf(cur[q].m)
    BY <2>1 DEF BreakInv, ReadInv
  <2> QED  BY <2>1, <2>2 DEF RingOf
<1>4. (\A d \in ToSet(ring[q]) : \E i \in DOMAIN log : IsFailure(i, cur[q].m, d))'
  BY <1>2 DEF IsFailure, KeysOf
<1> QED  BY <1>1, <1>3, <1>4 DEF ReadInv

(* A feed that was not written, or by a run that was overtaken, is the end *)
(* of what is remembered.                                                  *)
LEMMA NothingRemembered ==
  ASSUME BreakInv, NEW e \in Entries, log' = Append(log, e), ~e.clean
  PROVE  RememberedInv'
<1>1. PICK n : n = Len(log) + 1
  OBVIOUS
<1>2. n \in Nat /\ n > 0 /\ DOMAIN log' = 1 .. n /\ log'[n] = e
  BY <1>1, Appended DEF BreakInv
<1>3. ASSUME NEW i \in 1 .. n PROVE ~Counts(i)'
  <2>1. ~CleanFrom(i)'
    BY <1>2 DEF CleanFrom
  <2> QED  BY <2>1 DEF Counts
<1> QED  BY <1>2, <1>3 DEF RememberedInv

LEMMA NothingForgotten ==
  ASSUME BreakInv, NEW e \in Entries, log' = Append(log, e), ~e.clean, UNCHANGED feed
  PROVE  BackedInv'
<1>1. PICK n : n = Len(log) + 1
  OBVIOUS
<1>2. /\ n \in Nat /\ n > 0 /\ DOMAIN log' = 1 .. n /\ DOMAIN log = 1 .. n - 1
      /\ log'[n] = e /\ \A k \in 1 .. n - 1 : log'[k] = log[k]
  BY <1>1, Appended DEF BreakInv
<1>3. ~CleanFrom(1)'
  BY <1>2 DEF CleanFrom
<1>4. ASSUME NEW i \in 1 .. n - 1, NEW m, NEW d, IsFailure(i, m, d) PROVE i \in 1 .. n /\ IsFailure(i, m, d)'
  BY <1>2, <1>4 DEF IsFailure, KeysOf
<1>5. ASSUME NEW m \in Missions, feed.msn = {m}, NEW d \in ToSet(feed.ring)
      PROVE  \E i \in 1 .. n : IsFailure(i, m, d)' /\ (CleanFrom(1)' => OnlyOf(i, m)')
  <2>1. PICK i \in 1 .. n - 1 : IsFailure(i, m, d)
    BY <1>2, <1>5 DEF BreakInv, BackedInv
  <2> QED  BY <1>3, <1>4, <2>1
<1> QED  BY <1>2, <1>5 DEF BackedInv

LEMMA OtherWritten ==
  ASSUME NEW outcome, NEW c
  PROVE  [NoFailure(outcome) EXCEPT !.clean = c] = [outcome |-> outcome, recurred |-> FALSE, clean |-> c]
<1> DEFINE entry(r, x) == [outcome |-> outcome, recurred |-> r, clean |-> x]
<1>1. NoFailure(outcome) = entry(FALSE, TRUE)
  BY DEF NoFailure
<1>2. ASSUME NEW r, NEW x PROVE [entry(r, x) EXCEPT !.clean = c] = entry(r, c)
  OBVIOUS
<1> QED  BY <1>1, <1>2

LEMMA FailureWritten ==
  ASSUME NEW p, NEW r, NEW c
  PROVE  [Failure(p, r) EXCEPT !.clean = c] =
           [outcome |-> "failed", m |-> cur[p].m, report |-> cur[p].report, recurred |-> r, clean |-> c]
<1> DEFINE entry(x) == [outcome |-> "failed", m |-> cur[p].m, report |-> cur[p].report, recurred |-> r, clean |-> x]
<1>1. Failure(p, r) = entry(TRUE)
  BY DEF Failure
<1>2. [entry(TRUE) EXCEPT !.clean = c] = entry(c)
  OBVIOUS
<1> QED  BY <1>1, <1>2

(* A pass, or an error before the phases.                                  *)
LEMMA OtherSwap ==
  ASSUME BreakInv, NEW p \in Procs, NEW to, to.msn = {}, IsRing(to.ring),
         NEW outcome \in {"passed", "init"}, SwapFeed(p, to, NoFailure(outcome)),
         EndRun(p), UNCHANGED ring
  PROVE  BreakInv'
<1>1. PICK ok \in BOOLEAN :
        /\ feed' = IF ok THEN to ELSE feed
        /\ overtaken' = (IF ok THEN overtaken \cup {q \in Procs : stage[q] = "persist"} ELSE overtaken) \ {p}
        /\ log' = Append(log, [NoFailure(outcome) EXCEPT !.clean = ok /\ p \notin overtaken])
  BY DEF SwapFeed
<1> DEFINE clean == ok /\ p \notin overtaken
           e == [outcome |-> outcome, recurred |-> FALSE, clean |-> clean]
<1>2. log' = Append(log, e) /\ e \in Entries /\ e.outcome # "failed" /\ ~e.recurred /\ e.clean = clean
  <2>1. clean \in BOOLEAN
    OBVIOUS
  <2>2. [NoFailure(outcome) EXCEPT !.clean = clean] = e
    <3> HIDE DEF clean
    <3> QED  BY OtherWritten DEF e
  <2>3. e \in Entries
    <3> HIDE DEF clean
    <3> QED  BY <2>1 DEF Entries
  <2> QED  BY <1>1, <2>2, <2>3
<1>3. clean => ok
  OBVIOUS
<1> HIDE DEF e, clean
<1>4. PICK n : n = Len(log) + 1
  OBVIOUS
<1>5. /\ n \in Nat /\ n > 0 /\ DOMAIN log' = 1 .. n /\ log'[n] = e /\ log' \in Seq(Entries)
  BY <1>2, <1>4, Appended DEF BreakInv
<1>6. OutcomeType'
  BY <1>5 DEF BreakInv, OutcomeType, EndRun, AtStage
<1>7. IsRing(feed'.ring)
  BY <1>1 DEF BreakInv
<1>8. ASSUME NEW q \in Procs PROVE ReadInv(q)'
  <2>1. CASE q = p
    BY <2>1 DEF ReadInv, EndRun, AtStage, BreakInv, OutcomeType
  <2>2. CASE q # p
    <3>1. stage'[q] = stage[q] /\ cur'[q] = cur[q] /\ ring'[q] = ring[q] /\ q \in Procs \ {p}
      BY <2>2 DEF EndRun, AtStage, BreakInv, OutcomeType
    <3> QED  BY <1>1, <1>2, <3>1, ReadAfterSwap
  <2> QED  BY <2>1, <2>2
<1>9. BackedInv'
  <2>1. CASE ok
    BY <1>1, <2>1 DEF BackedInv
  <2>2. CASE ~ok
    BY <1>1, <1>2, <1>3, <2>2, NothingForgotten
  <2> QED  BY <2>1, <2>2
<1>10. RememberedInv'
  <2>1. ASSUME NEW i \in 1 .. n PROVE ~Counts(i)'
    <3>1. CASE i = n
      BY <1>2, <1>5, <3>1 DEF Counts
    <3>2. CASE i # n
      <4>1. i < n /\ n \in DOMAIN log' /\ log'[n].outcome # "failed"
        BY <1>2, <1>5, <3>2
      <4>2. \A m : ~OnlyOf(i, m)'
        BY <4>1 DEF OnlyOf
      <4>3. Counts(i)' => OnlyOf(i, log[i].m)'
        BY DEF Counts
      <4> QED  BY <4>2, <4>3 DEF OnlyOf
    <3> QED  BY <3>1, <3>2
  <2> QED  BY <1>5, <2>1 DEF RememberedInv
<1>11. BreakerIsExact'
  <2>1. ASSUME NEW i \in 1 .. n - 1, SameFailure(i, n)' PROVE FALSE
    BY <1>2, <1>5, <2>1 DEF SameFailure
  <2> QED  BY <1>2, <1>4, <2>1, ExactStep
<1> QED  BY <1>6, <1>7, <1>8, <1>9, <1>10, <1>11 DEF BreakInv

-----------------------------------------------------------------------------
(* A failed run.                                                           *)

(* What the ring is with a new digest.                                     *)
LEMMA RingWithNew ==
  ASSUME NEW s, IsRing(s), NEW d \in Digests, d \notin ToSet(s), NEW r, r = RingWith(s, d)
  PROVE  /\ IsRing(r) /\ Len(r) > 0 /\ r[Len(r)] = d
         /\ \A x \in 1 .. Len(r) : r[x] \in ToSet(s) \cup {d}
         /\ \/ Len(r) = Len(s) + 1 /\ \A x \in 1 .. Len(s) : r[x] = s[x]
            \/ Len(r) = RingCap /\ Len(s) = RingCap /\ \A x \in 1 .. RingCap - 1 : r[x] = s[x + 1]
<1> DEFINE w == Append(s, d)
<1>1. s \in Seq(Digests) /\ Len(s) \in Nat /\ Len(s) <= RingCap /\ RingCap \in Nat \ {0}
  BY RingAssumption, LenProperties DEF IsRing
<1>2. /\ w \in Seq(Digests) /\ Len(w) = Len(s) + 1 /\ w[Len(s) + 1] = d
      /\ \A x \in 1 .. Len(s) : w[x] = s[x]
  <2> HIDE DEF Digests
  <2> QED  BY <1>1
<1>3. \A x \in 1 .. Len(s) : s[x] \in ToSet(s) /\ s[x] # d
  BY <1>1 DEF ToSet
<1>4. \A x, y \in 1 .. Len(w) : w[x] = w[y] => x = y
  BY <1>1, <1>2, <1>3 DEF IsRing
<1>5. r = SubSeq(w, IF Len(w) > RingCap THEN Len(w) - RingCap + 1 ELSE 1, Len(w))
  BY DEF RingWith
<1> HIDE DEF w
<1>6. CASE Len(s) < RingCap
  <2>1. r = SubSeq(w, 1, Len(s) + 1)
    <3>1. ~(Len(w) > RingCap)
      BY <1>1, <1>2, <1>6
    <3> QED  BY <1>2, <1>5, <3>1
  <2>2. /\ r \in Seq(Digests) /\ Len(r) = Len(s) + 1
        /\ \A x \in 1 .. Len(s) + 1 : r[x] = w[x]
    <3> HIDE DEF Digests
    <3> QED  BY <1>1, <1>2, <2>1
  <2>3. IsRing(r)
    BY <1>1, <1>2, <1>4, <1>6, <2>2 DEF IsRing
  <2> QED  BY <1>1, <1>2, <1>3, <2>2, <2>3
<1>7. CASE Len(s) = RingCap
  <2>1. r = SubSeq(w, 2, RingCap + 1)
    <3>1. Len(w) > RingCap /\ Len(w) = RingCap + 1 /\ Len(w) - RingCap + 1 = 2
      BY <1>1, <1>2, <1>7
    <3> QED  BY <1>5, <3>1
  <2>2. /\ r \in Seq(Digests) /\ Len(r) = RingCap
        /\ \A x \in 1 .. RingCap : r[x] = w[x + 1]
    <3> HIDE DEF Digests
    <3> QED  BY <1>1, <1>2, <1>7, <2>1
  <2>3. IsRing(r)
    <3>1. ASSUME NEW x \in 1 .. Len(r), NEW y \in 1 .. Len(r), r[x] = r[y] PROVE x = y
      <4>1. x + 1 \in 1 .. Len(w) /\ y + 1 \in 1 .. Len(w) /\ w[x + 1] = w[y + 1]
        BY <1>1, <1>2, <1>7, <2>2, <3>1
      <4>2. x + 1 = y + 1
        BY <1>4, <4>1
      <4> QED  BY <1>1, <2>2, <4>2
    <3> QED  BY <1>1, <2>2, <3>1 DEF IsRing
  <2>4. \A x \in 1 .. RingCap - 1 : r[x] = s[x + 1]
    BY <1>1, <1>2, <1>7, <2>2
  <2>5. r[RingCap] = d
    BY <1>1, <1>2, <1>7, <2>2
  <2>6. ASSUME NEW x \in 1 .. RingCap PROVE r[x] \in ToSet(s) \cup {d}
    <3>1. CASE x = RingCap
      BY <2>5, <3>1
    <3>2. CASE x # RingCap
      <4>1. x \in 1 .. RingCap - 1 /\ x + 1 \in 1 .. Len(s)
        BY <1>1, <1>7, <3>2
      <4> QED  BY <1>3, <2>4, <4>1
    <3> QED  BY <3>1, <3>2
  <2> QED  BY <1>1, <1>7, <2>2, <2>3, <2>4, <2>5, <2>6
<1> QED  BY <1>1, <1>6, <1>7

(* A ring full of other failures: as many as the ring holds were seen.     *)
LEMMA FullRing ==
  ASSUME NEW r, IsRing(r), Len(r) = RingCap, NEW T, IsFiniteSet(T), \A x \in 1 .. RingCap : r[x] \in T
  PROVE  ~(Cardinality(T) < RingCap)
<1>1. RingCap \in Nat
  BY RingAssumption
<1> DEFINE g == [x \in 1 .. RingCap |-> r[x]]
<1>2. g \in Injection(1 .. RingCap, T)
  BY DEF Injection, IsInjective, IsRing
<1>3. IsFiniteSet(1 .. RingCap) /\ Cardinality(1 .. RingCap) = RingCap
  BY <1>1, FS_Interval
<1>4. Cardinality(1 .. RingCap) <= Cardinality(T)
  <2> HIDE DEF g
  <2> QED  BY <1>2, FS_Injection
<1>5. Cardinality(T) \in Nat
  BY FS_CardinalityType
<1> QED  BY <1>1, <1>3, <1>4, <1>5

(* What a run that was not overtaken and wrote the feed makes of it.       *)
LEMMA RememberedByPersist ==
  ASSUME BreakInv, NEW p \in Procs, stage[p] = "persist", p \notin overtaken,
         NEW d, d = DigestOf(cur[p].report), NEW rec, rec = (d \in ToSet(ring[p])),
         NEW e \in Entries, e.outcome = "failed", e.m = cur[p].m, e.report = cur[p].report, e.recurred = rec,
         log' = Append(log, e),
         feed' = [msn |-> {cur[p].m}, ring |-> IF rec THEN ring[p] ELSE RingWith(ring[p], d)]
  PROVE  RememberedInv'
<1>1. PICK n : n = Len(log) + 1
  OBVIOUS
<1>2. /\ n \in Nat /\ n > 0 /\ DOMAIN log' = 1 .. n /\ DOMAIN log = 1 .. n - 1 /\ Len(log') = n
      /\ log'[n] = e /\ \A k \in 1 .. n - 1 : log'[k] = log[k]
  BY <1>1, Appended DEF BreakInv
<1>3. cur[p] \in Failed /\ d \in Digests
  BY DEF BreakInv, OutcomeType, Failed, Digests
<1>4. IsRing(ring[p]) /\ ring[p] = RingOf(cur[p].m)
  BY DEF BreakInv, ReadInv
<1>5. KeysOf(n)' = d
  BY <1>2 DEF KeysOf, DigestOf
<1>6. RingCap \in Nat \ {0}
  BY RingAssumption
<1> SUFFICES ASSUME NEW i \in 1 .. n, Counts(i)' PROVE Remembered(i)'
  BY <1>2 DEF RememberedInv
<1>7. CASE i = n
  <2>1. ~rec
    BY <1>2, <1>7 DEF Counts
  <2>2. PICK r : r = RingWith(ring[p], d)
    OBVIOUS
  <2>3. Len(r) \in Nat /\ Len(r) > 0 /\ r[Len(r)] = d
    <3>1. d \notin ToSet(ring[p])
      BY <2>1
    <3>2. IsRing(r) /\ Len(r) > 0 /\ r[Len(r)] = d
      BY <1>3, <1>4, <2>2, <3>1, RingWithNew
    <3> QED  BY <3>2, LenProperties DEF IsRing
  <2>4. feed'.msn = {log'[i].m} /\ feed'.ring = r
    BY <1>2, <1>7, <2>1, <2>2
  <2>5. Len(r) \in 1 .. Len(r) /\ Len(r) + 1 .. Len(r) = {}
    BY <2>3
  <2> QED  BY <1>5, <1>7, <2>3, <2>4, <2>5 DEF Remembered
<1>8. CASE i # n
  <2>1. i \in 1 .. n - 1
    BY <1>2, <1>8
  <2>2. log[i].outcome = "failed" /\ ~log[i].recurred /\ log'[i] = log[i]
    BY <1>2, <2>1 DEF Counts
  <2>3. e.m = log[i].m
    BY <1>2, <2>1, <2>2 DEF Counts, OnlyOf
  <2>4. CleanFrom(i) /\ OnlyOf(i, log[i].m)
    BY <1>2, <2>1, <2>2 DEF Counts, CleanFrom, OnlyOf
  <2> DEFINE T == OtherFailures(i, n) \cup (IF SameFailure(i, n)' THEN {} ELSE {d})
  <2>5. OtherFailures(i, Now)' = T
    <3>1. OtherFailures(i, n + 1)' = T
      BY <1>1, <1>5, <2>1, OthersGrow DEF BreakInv
    <3>2. Now' = n + 1
      BY <1>2 DEF Now
    <3> QED  BY <3>1, <3>2 DEF OtherFailures, Between
  <2>6. Cardinality(T) < RingCap
    BY <2>5 DEF Counts
  <2>7. IsFiniteSet(OtherFailures(i, n)) /\ IsFiniteSet(T)
    <3>1. IsFiniteSet(OtherFailures(i, n))
      BY OthersAreFinite DEF BreakInv
    <3>2. IsFiniteSet(OtherFailures(i, n) \cup {d})
      BY <3>1, FS_AddElement
    <3> QED  BY <3>1, <3>2
  <2>8. Cardinality(OtherFailures(i, n)) < RingCap
    <3>1. OtherFailures(i, n) \in SUBSET T
      OBVIOUS
    <3> HIDE DEF T
    <3>2. Cardinality(OtherFailures(i, n)) <= Cardinality(T)
      BY <2>7, <3>1, FS_Subset
    <3>3. Cardinality(OtherFailures(i, n)) \in Nat /\ Cardinality(T) \in Nat
      BY <2>7, FS_CardinalityType
    <3> QED  BY <1>6, <2>6, <3>2, <3>3
  <2>9. Counts(i)
    BY <1>1, <2>2, <2>4, <2>8 DEF Counts, Now
  <2>10. /\ feed.msn = {log[i].m}
         /\ \E y \in 1 .. Len(feed.ring) :
              feed.ring[y] = KeysOf(i) /\ \A x \in y + 1 .. Len(feed.ring) : feed.ring[x] \in OtherFailures(i, n)
    BY <1>1, <1>2, <2>1, <2>9 DEF BreakInv, RememberedInv, Remembered, Now
  <2>11. ring[p] = feed.ring
    BY <1>4, <2>3, <2>10 DEF RingOf
  <2>12. PICK s : s = ring[p]
    OBVIOUS
  <2>13. PICK y \in 1 .. Len(s) : s[y] = KeysOf(i) /\ \A x \in y + 1 .. Len(s) : s[x] \in OtherFailures(i, n)
    BY <2>10, <2>11, <2>12
  <2>14. IsRing(s) /\ Len(s) \in Nat /\ DOMAIN s = 1 .. Len(s)
    BY <1>4, <2>12, LenProperties DEF IsRing
  <2>15. KeysOf(i)' = KeysOf(i) /\ feed'.msn = {log'[i].m}
    BY <2>2, <2>3 DEF KeysOf
  <2> HIDE DEF T
  <2>16. PICK r : r = feed'.ring
    OBVIOUS
  <2>17. SUFFICES \E z \in 1 .. Len(r) : r[z] = KeysOf(i) /\ \A x \in z + 1 .. Len(r) : r[x] \in T
    <3>1. Remembered(i)' <=>
            /\ feed'.msn = {log'[i].m}
            /\ \E z \in 1 .. Len(feed'.ring) :
                 /\ feed'.ring[z] = KeysOf(i)'
                 /\ \A x \in z + 1 .. Len(feed'.ring) : feed'.ring[x] \in OtherFailures(i, Now)'
      BY DEF Remembered
    <3>2. PICK z \in 1 .. Len(r) : r[z] = KeysOf(i) /\ \A x \in z + 1 .. Len(r) : r[x] \in T
      BY <2>17
    <3>3. z \in 1 .. Len(feed'.ring) /\ feed'.ring[z] = KeysOf(i)'
      BY <2>15, <2>16, <3>2
    <3>4. PICK others : others = OtherFailures(i, Now)'
      OBVIOUS
    <3>5. \A x \in z + 1 .. Len(feed'.ring) : feed'.ring[x] \in others
      BY <2>5, <2>16, <3>2, <3>4
    <3>6. \A x \in z + 1 .. Len(feed'.ring) : feed'.ring[x] \in OtherFailures(i, Now)'
      BY <3>4, <3>5
    <3> QED  BY <2>15, <3>1, <3>3, <3>6
  <2>18. CASE rec
    <3>1. r = s
      BY <2>12, <2>16, <2>18
    <3> QED  BY <2>13, <3>1 DEF T
  <2>19. CASE ~rec
    <3>1. r = RingWith(s, d) /\ d \notin ToSet(s)
      BY <2>12, <2>16, <2>19
    <3>2. ~SameFailure(i, n)'
      <4>1. KeysOf(i) # d
        BY <2>13, <2>14, <3>1 DEF ToSet
      <4> QED  BY <1>5, <2>15, <4>1 DEF SameFailure, KeysOf
    <3>3. T = OtherFailures(i, n) \cup {d}
      BY <3>2 DEF T
    <3>4. /\ IsRing(r) /\ Len(r) > 0 /\ r[Len(r)] = d
          /\ \/ Len(r) = Len(s) + 1 /\ \A x \in 1 .. Len(s) : r[x] = s[x]
             \/ Len(r) = RingCap /\ Len(s) = RingCap /\ \A x \in 1 .. RingCap - 1 : r[x] = s[x + 1]
      BY <1>3, <2>14, <3>1, RingWithNew
    <3>5. CASE Len(r) = Len(s) + 1 /\ \A x \in 1 .. Len(s) : r[x] = s[x]
      <4>1. y \in 1 .. Len(r) /\ r[y] = KeysOf(i)
        BY <2>13, <2>14, <3>5
      <4>2. \A x \in y + 1 .. Len(r) : r[x] \in T
        <5> SUFFICES ASSUME NEW x \in y + 1 .. Len(r) PROVE r[x] \in T
          OBVIOUS
        <5>1. x = Len(r) \/ (x \in 1 .. Len(s) /\ x \in y + 1 .. Len(s))
          BY <2>13, <2>14, <3>5
        <5> QED  BY <2>13, <3>3, <3>4, <3>5, <5>1
      <4> QED  BY <4>1, <4>2
    <3>6. CASE Len(r) = RingCap /\ Len(s) = RingCap /\ \A x \in 1 .. RingCap - 1 : r[x] = s[x + 1]
      <4>1. ASSUME NEW x \in y .. RingCap PROVE r[x] \in T
        <5>1. x = RingCap \/ (x \in 1 .. RingCap - 1 /\ x + 1 \in y + 1 .. Len(s))
          BY <1>6, <2>13, <2>14, <3>6
        <5> QED  BY <2>13, <3>3, <3>4, <3>6, <5>1
      <4>2. y # 1
        <5> SUFFICES ASSUME y = 1 PROVE FALSE
          OBVIOUS
        <5>1. \A x \in 1 .. RingCap : r[x] \in T
          BY <4>1
        <5> QED  BY <2>6, <2>7, <3>4, <3>6, <5>1, FullRing
      <4>3. y - 1 \in 1 .. RingCap - 1 /\ y - 1 \in 1 .. Len(r) /\ (y - 1) + 1 = y
        BY <1>6, <2>13, <2>14, <3>6, <4>2
      <4>4. r[y - 1] = KeysOf(i)
        BY <2>13, <3>6, <4>3
      <4> QED  BY <3>6, <4>1, <4>3, <4>4
    <3> QED  BY <3>4, <3>5, <3>6
  <2> QED  BY <2>18, <2>19
<1> QED  BY <1>7, <1>8

LEMMA PersistStep == ASSUME BreakInv, NEW p \in Procs, Persist(p) PROVE BreakInv'
<1> DEFINE d == DigestOf(cur[p].report)
           rec == d \in ToSet(ring[p])
           to == [msn |-> {cur[p].m}, ring |-> IF rec THEN ring[p] ELSE RingWith(ring[p], d)]
<1>1. /\ stage[p] = "persist" /\ SwapFeed(p, to, Failure(p, rec))
      /\ ring' = [ring EXCEPT ![p] = << >>] /\ stage' = [stage EXCEPT ![p] = "ledger"] /\ UNCHANGED cur
  BY DEF Persist, AtStage
<1>2. PICK ok \in BOOLEAN :
        /\ feed' = IF ok THEN to ELSE feed
        /\ overtaken' = (IF ok THEN overtaken \cup {q \in Procs : stage[q] = "persist"} ELSE overtaken) \ {p}
        /\ log' = Append(log, [Failure(p, rec) EXCEPT !.clean = ok /\ p \notin overtaken])
  BY <1>1 DEF SwapFeed
<1>3. cur[p] \in Failed /\ d \in Digests /\ rec \in BOOLEAN
  BY <1>1 DEF BreakInv, OutcomeType, Failed, Digests
<1>4. PICK clean \in BOOLEAN : clean = (ok /\ p \notin overtaken)
  OBVIOUS
<1> DEFINE e == [outcome |-> "failed", m |-> cur[p].m, report |-> cur[p].report, recurred |-> rec, clean |-> clean]
<1>5. log' = Append(log, e)
  <2> HIDE DEF rec
  <2> QED  BY <1>2, <1>4, FailureWritten
<1>6. /\ e.outcome = "failed" /\ e.m = cur[p].m /\ e.report = cur[p].report
      /\ e.recurred = rec /\ e.clean = clean /\ e \in Entries
  <2> HIDE DEF rec
  <2>1. cur[p].m \in Missions /\ cur[p].report \in Reports
    BY <1>3 DEF Failed
  <2> QED  BY <1>3, <2>1 DEF Entries
<1>7. to.msn = {cur[p].m} /\ to.ring = IF rec THEN ring[p] ELSE RingWith(ring[p], d)
  OBVIOUS
<1>8. rec <=> d \in ToSet(ring[p])
  OBVIOUS
<1>9. d = {x.key : x \in cur[p].report}
  BY DEF DigestOf
<1> HIDE DEF d, rec, e, to
<1>10. PICK n : n = Len(log) + 1
  OBVIOUS
<1>11. /\ n \in Nat /\ n > 0 /\ DOMAIN log' = 1 .. n /\ DOMAIN log = 1 .. n - 1
       /\ log' \in Seq(Entries) /\ log'[n] = e /\ \A k \in 1 .. n - 1 : log'[k] = log[k]
  BY <1>5, <1>6, <1>10, Appended DEF BreakInv
<1>12. OutcomeType'
  BY <1>1, <1>11 DEF BreakInv, OutcomeType
<1>13. /\ IsRing(ring[p])
       /\ \A x \in ToSet(ring[p]) : \E i \in 1 .. n - 1 : IsFailure(i, cur[p].m, x)
       /\ clean => ring[p] = RingOf(cur[p].m)
  BY <1>1, <1>4, <1>11 DEF BreakInv, ReadInv
<1>14. IsRing(to.ring) /\ \A x \in ToSet(to.ring) : x = d \/ x \in ToSet(ring[p])
  <2>1. CASE rec
    BY <1>7, <1>13, <2>1
  <2>2. CASE ~rec
    <3>1. /\ IsRing(to.ring)
          /\ \A x \in 1 .. Len(to.ring) : to.ring[x] \in ToSet(ring[p]) \cup {d}
      BY <1>3, <1>7, <1>8, <1>13, <2>2, RingWithNew
    <3>2. DOMAIN to.ring = 1 .. Len(to.ring)
      BY <3>1, LenProperties DEF IsRing
    <3> QED  BY <3>1, <3>2 DEF ToSet
  <2> QED  BY <2>1, <2>2
<1>15. IsRing(feed'.ring)
  BY <1>2, <1>14 DEF BreakInv
<1>16. ASSUME NEW q \in Procs PROVE ReadInv(q)'
  <2>1. CASE q = p
    BY <1>1, <2>1 DEF ReadInv, BreakInv, OutcomeType
  <2>2. CASE q # p
    <3>1. stage'[q] = stage[q] /\ cur'[q] = cur[q] /\ ring'[q] = ring[q] /\ q \in Procs \ {p}
      BY <1>1, <2>2 DEF BreakInv, OutcomeType
    <3> QED  BY <1>2, <1>5, <1>6, <3>1, ReadAfterSwap
  <2> QED  BY <2>1, <2>2
(* A digest in what was read: of a failure since which, unless there was a *)
(* swap that was not clean, nothing else happened.                         *)
<1>17. ASSUME NEW x \in ToSet(ring[p])
       PROVE  \E i \in 1 .. n - 1 : IsFailure(i, cur[p].m, x) /\ (CleanFrom(1) /\ clean => OnlyOf(i, cur[p].m))
  <2>1. CASE clean
    <3>1. feed.msn = {cur[p].m} /\ ring[p] = feed.ring
      <4>1. ring[p] # << >>
        BY DEF ToSet
      <4> QED  BY <1>13, <2>1, <4>1 DEF RingOf
    <3>2. cur[p].m \in Missions
      BY <1>3 DEF Failed
    <3> QED  BY <1>11, <3>1, <3>2 DEF BreakInv, BackedInv
  <2>2. CASE ~clean
    BY <1>13, <2>2
  <2> QED  BY <2>1, <2>2
<1>18. BreakerIsExact'
  <2>1. ASSUME NEW i \in 1 .. n - 1, SameFailure(i, n)', Counts(i), e.clean PROVE e.recurred
    <3>1. feed.msn = {log[i].m} /\ \E y \in 1 .. Len(feed.ring) : feed.ring[y] = KeysOf(i)
      BY <1>11, <2>1 DEF BreakInv, RememberedInv, Remembered
    <3>2. log[i].m = cur[p].m /\ KeysOf(i) = d
      <4>1. log'[i].m = log'[n].m /\ {x.key : x \in log'[i].report} = {x.key : x \in log'[n].report}
        BY <2>1 DEF SameFailure
      <4> QED  BY <1>6, <1>9, <1>11, <4>1 DEF KeysOf
    <3>3. ring[p] = feed.ring
      BY <1>6, <1>13, <2>1, <3>1, <3>2 DEF RingOf
    <3>4. DOMAIN ring[p] = 1 .. Len(ring[p])
      BY <1>13, LenProperties DEF IsRing
    <3>5. d \in ToSet(ring[p])
      BY <3>1, <3>2, <3>3, <3>4 DEF ToSet
    <3> QED  BY <1>6, <1>8, <3>5
  <2>2. ASSUME e.recurred
        PROVE  \E i \in 1 .. n - 1 : SameFailure(i, n)' /\ (CleanFrom(1) /\ e.clean => OnlyOf(i, log[i].m))
    <3>1. d \in ToSet(ring[p])
      BY <1>6, <1>8, <2>2
    <3>2. PICK i \in 1 .. n - 1 : IsFailure(i, cur[p].m, d) /\ (CleanFrom(1) /\ clean => OnlyOf(i, cur[p].m))
      BY <1>17, <3>1
    <3>3. SameFailure(i, n)'
      <4>1. log'[i] = log[i]
        BY <1>11
      <4> QED  BY <1>6, <1>9, <1>11, <3>2, <4>1 DEF SameFailure, IsFailure, KeysOf
    <3>4. log[i].m = cur[p].m
      BY <3>2 DEF IsFailure
    <3> QED  BY <1>6, <3>2, <3>3, <3>4
  <2> QED  BY <1>5, <1>6, <1>10, <2>1, <2>2, ExactStep
<1>19. BackedInv'
  <2>1. CASE ~ok
    BY <1>2, <1>4, <1>5, <1>6, <2>1, NothingForgotten
  <2>2. CASE ok
    <3>1. feed' = to
      BY <1>2, <2>2
    <3>2. ASSUME NEW m \in Missions, feed'.msn = {m}, NEW x \in ToSet(feed'.ring)
          PROVE  \E i \in 1 .. n : IsFailure(i, m, x)' /\ (CleanFrom(1)' => OnlyOf(i, m)')
      <4>1. m = cur[p].m
        BY <1>7, <3>1, <3>2
      <4>2. CASE x = d
        <5>1. IsFailure(n, m, x)'
          BY <1>6, <1>9, <1>11, <4>1, <4>2 DEF IsFailure, KeysOf
        <5>2. OnlyOf(n, m)'
          BY <1>11 DEF OnlyOf
        <5> QED  BY <1>11, <5>1, <5>2
      <4>3. CASE x \in ToSet(ring[p])
        <5>1. PICK i \in 1 .. n - 1 : IsFailure(i, m, x) /\ (CleanFrom(1) /\ clean => OnlyOf(i, m))
          BY <1>17, <4>1, <4>3
        <5>2. i \in 1 .. n /\ log'[i] = log[i]
          BY <1>11
        <5>3. IsFailure(i, m, x)'
          BY <5>1, <5>2 DEF IsFailure, KeysOf
        <5>4. ASSUME CleanFrom(1)' PROVE OnlyOf(i, m)'
          <6>1. CleanFrom(1) /\ clean
            BY <1>6, <1>11, <5>4 DEF CleanFrom
          <6>2. OnlyOf(i, m)
            BY <5>1, <6>1
          <6> QED  BY <1>6, <1>11, <4>1, <6>2 DEF OnlyOf
        <5> QED  BY <5>2, <5>3, <5>4
      <4> QED  BY <1>14, <3>1, <3>2, <4>2, <4>3
    <3> QED  BY <1>11, <3>2 DEF BackedInv
  <2> QED  BY <2>1, <2>2
<1>20. RememberedInv'
  <2>1. CASE clean
    <3>1. p \notin overtaken /\ feed' = to /\ to = [msn |-> {cur[p].m}, ring |-> IF rec THEN ring[p] ELSE RingWith(ring[p], d)]
      BY <1>2, <1>4, <2>1 DEF to
    <3>2. rec = (d \in ToSet(ring[p])) /\ d = DigestOf(cur[p].report)
      BY DEF rec, d
    <3> QED  BY <1>1, <1>5, <1>6, <3>1, <3>2, RememberedByPersist
  <2>2. CASE ~clean
    BY <1>5, <1>6, <2>2, NothingRemembered
  <2> QED  BY <2>1, <2>2
<1> QED  BY <1>12, <1>15, <1>16, <1>18, <1>19, <1>20 DEF BreakInv

LEMMA BreakInvStep == BreakInv /\ [OutcomeNext]_outcomeVars => BreakInv'
<1> SUFFICES ASSUME BreakInv, [OutcomeNext]_outcomeVars PROVE BreakInv'
  OBVIOUS
<1>1. DOMAIN stage = Procs /\ DOMAIN cur = Procs /\ DOMAIN ring = Procs
  BY DEF BreakInv, OutcomeType
<1>2. ASSUME NEW p \in Procs, Evaluate(p) PROVE BreakInv'
  <2>1. PICK ev \in Evaluations :
          /\ cur' = [cur EXCEPT ![p] = ev]
          /\ AtStage(p, CASE ev.outcome = "failed" -> "read"
                          [] ev.outcome = "passed" -> "ledger"
                          [] ev.outcome = "init"   -> "initFailure"
                          [] ev.outcome = "bypass" -> "audit")
    BY <1>2 DEF Evaluate
  <2>2. PICK st : /\ st = (CASE ev.outcome = "failed" -> "read"
                          [] ev.outcome = "passed" -> "ledger"
                          [] ev.outcome = "init"   -> "initFailure"
                          [] ev.outcome = "bypass" -> "audit")
    OBVIOUS
  <2>3. ev.outcome \in {"failed", "passed", "init", "bypass"} /\ (ev.outcome = "failed" => ev \in Failed)
    BY DEF Evaluations, Failed
  <2>4. st # "persist" /\ (st = "read" => ev \in Failed)
    BY <2>2, <2>3
  <2>5. stage' = [stage EXCEPT ![p] = st] /\ UNCHANGED <<feed, log, ring, overtaken>>
    BY <1>2, <2>1, <2>2 DEF Evaluate, AtStage
  <2> QED  BY <1>1, <2>1, <2>4, <2>5, QuietStep
<1>3. ASSUME NEW p \in Procs, ReadFeed(p) PROVE BreakInv'
  <2>1. /\ stage[p] = "read" /\ stage' = [stage EXCEPT ![p] = "persist"]
        /\ ring' = [ring EXCEPT ![p] = RingOf(cur[p].m)] /\ UNCHANGED <<feed, log, cur, overtaken>>
    BY <1>3 DEF ReadFeed, AtStage
  <2>2. cur[p] \in Failed
    BY <2>1 DEF BreakInv, OutcomeType
  <2>3. DOMAIN ring' = Procs /\ ring'[p] = RingOf(cur'[p].m) /\ \A q \in Procs \ {p} : ring'[q] = ring[q]
    <3>1. cur'[p].m = cur[p].m
      BY <2>1
    <3> QED  BY <1>1, <2>1, <3>1
  <2> QED  BY <1>1, <2>1, <2>2, <2>3, QuietStep
<1>4. ASSUME NEW p \in Procs, Persist(p) PROVE BreakInv'
  BY <1>4, PersistStep
<1>5. ASSUME NEW p \in Procs, NEW st, st \notin {"read", "persist"}, stage' = [stage EXCEPT ![p] = st],
             UNCHANGED <<feed, log, ring, overtaken>>,
             UNCHANGED cur \/ cur' = [cur EXCEPT ![p] = NoRun]
      PROVE  BreakInv'
  <2>1. DOMAIN cur' = Procs /\ \A q \in Procs \ {p} : cur'[q] = cur[q]
    BY <1>1, <1>5
  <2> QED  BY <1>1, <1>5, <2>1, QuietStep
<1>6. ASSUME NEW p \in Procs, Ledger(p) PROVE BreakInv'
  <2>1. \/ EndRun(p)
        \/ AtStage(p, "export") /\ UNCHANGED cur
    BY <1>6 DEF Ledger
  <2>2. UNCHANGED <<feed, log, ring, overtaken>>
    BY <1>6 DEF Ledger
  <2> QED  BY <1>5, <2>1, <2>2 DEF EndRun, AtStage
<1>7. ASSUME NEW p \in Procs, Export(p) PROVE BreakInv'
  <2>1. PICK next \in {"clear", "initFailure"} : AtStage(p, next)
    BY <1>7 DEF Export
  <2> QED  BY <1>5, <1>7, <2>1 DEF Export, AtStage
<1>8. ASSUME NEW p \in Procs, ClearFeed(p) PROVE BreakInv'
  <2>1. Cleared.msn = {} /\ IsRing(Cleared.ring)
    BY RingAssumption DEF Cleared, IsRing
  <2> QED  BY <1>8, <2>1, OtherSwap DEF ClearFeed
<1>9. ASSUME NEW p \in Procs, InitFailure(p) PROVE BreakInv'
  <2> DEFINE to == [msn |-> {}, ring |-> <<{"init"}>>]
  <2>1. to.msn = {} /\ IsRing(to.ring)
    <3>1. {"init"} \in Digests
      BY DEF Digests
    <3>2. <<{"init"}>> \in Seq(Digests) /\ Len(<<{"init"}>>) = 1
      BY <3>1
    <3> QED  BY <3>2, RingAssumption DEF IsRing
  <2>2. SwapFeed(p, to, NoFailure("init")) /\ EndRun(p) /\ UNCHANGED ring
    BY <1>9 DEF InitFailure
  <2> HIDE DEF to
  <2> QED  BY <2>1, <2>2, OtherSwap
<1>10. ASSUME NEW p \in Procs, RunCrash(p) PROVE BreakInv'
  <2>1. /\ stage' = [stage EXCEPT ![p] = "idle"] /\ cur' = [cur EXCEPT ![p] = NoRun]
        /\ ring' = [ring EXCEPT ![p] = << >>] /\ overtaken' = overtaken \ {p} /\ UNCHANGED <<feed, log>>
    BY <1>10 DEF RunCrash, EndRun, AtStage
  <2>2. /\ DOMAIN cur' = Procs /\ DOMAIN ring' = Procs
        /\ \A q \in Procs \ {p} : cur'[q] = cur[q] /\ ring'[q] = ring[q] /\ (q \in overtaken <=> q \in overtaken')
    BY <1>1, <2>1
  <2> QED  BY <1>1, <2>1, <2>2, QuietStep
<1>11. ASSUME NEW p \in Procs, AuditFails(p) PROVE BreakInv'
  BY <1>5, <1>11 DEF AuditFails, EndRun, AtStage
<1>12. ASSUME NEW p \in Procs, Audit(p) PROVE BreakInv'
  BY <1>5, <1>12 DEF Audit, AtStage
<1>13. ASSUME NEW p \in Procs, BypassRow(p) PROVE BreakInv'
  BY <1>5, <1>13 DEF BypassRow, EndRun, AtStage
<1>14. CASE UNCHANGED outcomeVars
  <2>1. UNCHANGED <<feed, stage, cur, ring, overtaken, log>>
    BY <1>14 DEF outcomeVars
  <2>2. OutcomeType' /\ IsRing(feed'.ring)
    BY <2>1 DEF BreakInv, OutcomeType
  <2>3. \A q \in Procs : ReadInv(q)'
    BY <2>1 DEF BreakInv, ReadInv, IsFailure, KeysOf, RingOf
  <2> QED  BY <2>1, <2>2, <2>3, SameHistory DEF BreakInv
<1> QED  BY <1>2, <1>3, <1>4, <1>6, <1>7, <1>8, <1>9, <1>10, <1>11, <1>12, <1>13, <1>14 DEF OutcomeNext

(* The circuit breaker stops a loop - a failure that comes back while only *)
(* its mission is verified and fewer other failures were seen than the     *)
(* ring holds - and nothing but a failure that was seen before, for every  *)
(* number of processes, missions and findings (BreakerIsExact).             *)
THEOREM BreakerStopsLoops == OutcomeSpec => []BreakerIsExact
<1>1. BreakInv => BreakerIsExact
  BY DEF BreakInv
<1> QED  BY <1>1, BreakInvInit, BreakInvStep, PTL DEF OutcomeSpec
-----------------------------------------------------------------------------
(* The scaffold.                                                           *)

FileContents == {"absent", "template", "mine", "half"}
InitRuns == [pc : {"none", "plan", "ask", "write", "list", "fragments", "append"},
             assets : SUBSET (Strict \cup Starters), force : BOOLEAN, tty : BOOLEAN, dry : BOOLEAN,
             left : SUBSET (Scaffolded \cup IgnoreFiles), shown : SUBSET Scaffolded,
             at : SUBSET IgnoreFiles, seen : SUBSET Lines]

ScaffoldType == /\ disk \in [Scaffolded -> FileContents]
                /\ ignored \in [IgnoreFiles -> SUBSET Lines]
                /\ inits \in [Inits -> InitRuns]
                /\ since \in [Inits -> SUBSET (Scaffolded \cup IgnoreFiles)]

(* A run's plan is as old as its first look at the tree.  What the plan     *)
(* still has to write is the user's only where init may write over it, or   *)
(* somebody put it there since; while the question is open the same holds   *)
(* of all that a yes would add, for what was not shown was no conflict when *)
(* the run looked.  The rest of the profile is in place.                    *)
MayWriteOver(i, f) == \/ f \in since[i]
                      \/ f \in Strict /\ (inits[i].force \/ f \in inits[i].shown)
Scaffolds(f) == IF f \in Strict THEN disk[f] = "template" ELSE disk[f] # "absent"

InitHolds(i) ==
  /\ inits[i].pc = "ask" =>
       \A f \in inits[i].assets \cap Strict : disk[f] = "mine" => MayWriteOver(i, f)
  /\ inits[i].pc = "write" =>
       /\ inits[i].left \subseteq inits[i].assets \cup Composed
       /\ \A f \in inits[i].left : disk[f] = "mine" => MayWriteOver(i, f)
       /\ \A f \in (inits[i].assets \cup Composed) \ inits[i].left : f \in since[i] \/ Scaffolds(f)
  /\ inits[i].pc # "append" => inits[i].at = {}
  /\ \A g \in inits[i].at : g \in since[i] \/ ignored[g] = inits[i].seen
  /\ inits[i].pc \in {"plan", "ask", "write", "list"} => inits[i].left \subseteq Scaffolded
  /\ inits[i].pc \in {"fragments", "append"} => inits[i].left \subseteq IgnoreFiles

ScaffoldInv == ScaffoldType /\ \A i \in Inits : InitHolds(i)

(* What a run knows stays so while others work: what they change, it is     *)
(* said to know nothing of.                                                 *)
LEMMA PlansStay ==
  ASSUME ScaffoldInv, NEW j \in Inits, inits'[j] = inits[j],
         \A f \in Scaffolded : disk'[f] # disk[f] => f \in since'[j],
         \A g \in IgnoreFiles : ignored'[g] # ignored[g] => g \in since'[j],
         since[j] \subseteq since'[j]
  PROVE  InitHolds(j)'
<1>1. inits[j].assets \subseteq Scaffolded /\ inits[j].at \subseteq IgnoreFiles /\ Composed \subseteq Scaffolded
  BY DEF ScaffoldInv, ScaffoldType, InitRuns, Scaffolded
<1>2. InitHolds(j)
  BY DEF ScaffoldInv
<1> QED  BY <1>1, <1>2 DEF InitHolds, MayWriteOver, Scaffolds

LEMMA ScaffoldStart == ScaffoldInit => ScaffoldInv
BY DEF ScaffoldInit, ScaffoldInv, ScaffoldType, FileContents, InitRuns, NoInit, InitHolds

(* A run's own steps: its options and its answer bound what it plans.       *)
LEMMA InitStartKeeps == ASSUME ScaffoldInv, NEW i \in Inits, InitStart(i) PROVE ScaffoldInv'
<1>1. PICK assets \in Profiles, force \in BOOLEAN, tty \in BOOLEAN, dry \in BOOLEAN :
        Go(i, [NoInit EXCEPT !.pc = "plan", !.assets = assets, !.force = force, !.tty = tty, !.dry = dry])
  BY DEF InitStart
<1>2. ScaffoldType'
  BY <1>1 DEF ScaffoldInv, ScaffoldType, InitStart, Go, NoInit, InitRuns, Profiles
<1>3. InitHolds(i)'
  BY <1>1 DEF ScaffoldInv, ScaffoldType, InitStart, Go, NoInit, InitHolds
<1>4. ASSUME NEW j \in Inits \ {i} PROVE InitHolds(j)'
  BY <1>1, <1>4, PlansStay DEF ScaffoldInv, ScaffoldType, InitStart, Go
<1> QED  BY <1>2, <1>3, <1>4 DEF ScaffoldInv

(* A run that ends, or comes to the ignore files, holds on to nothing.      *)
LEMMA EndedPlans ==
  ASSUME ScaffoldType, NEW i \in Inits, NEW run \in {NoInit, Merging}, Go(i, run)
  PROVE  InitHolds(i)' /\ run \in InitRuns
<1>1. inits'[i] = run
  BY DEF ScaffoldType, Go
<1>2. NoInit \in InitRuns /\ NoInit.pc = "none" /\ NoInit.at = {}
  BY DEF NoInit, InitRuns
<1>3. Merging \in InitRuns /\ Merging.pc = "fragments" /\ Merging.at = {} /\ Merging.left = IgnoreFiles
  BY <1>2 DEF Merging, InitRuns
<1> QED  BY <1>1, <1>2, <1>3 DEF InitHolds

LEMMA InitEndsKeep ==
  ASSUME ScaffoldInv, NEW i \in Inits, TutorialOnly(i) \/ InitRefused(i) \/ InitEnd(i)
  PROVE  ScaffoldInv'
<1>1. PICK run \in {NoInit, Merging} : Go(i, run)
  BY DEF TutorialOnly, InitRefused, InitEnd
<1>2. UNCHANGED <<disk, ignored, since>>
  BY DEF TutorialOnly, InitRefused, InitEnd
<1>3. InitHolds(i)' /\ run \in InitRuns
  BY <1>1, EndedPlans DEF ScaffoldInv
<1>4. ScaffoldType'
  BY <1>1, <1>2, <1>3 DEF ScaffoldInv, ScaffoldType, Go
<1>5. ASSUME NEW j \in Inits \ {i} PROVE InitHolds(j)'
  BY <1>1, <1>2, <1>5, PlansStay DEF ScaffoldInv, ScaffoldType, Go
<1> QED  BY <1>3, <1>4, <1>5 DEF ScaffoldInv

(* The plan that is carried out has, of the files that hold the user's      *)
(* work, the conflicts at most.                                             *)
LEMMA WritesAreMeant ==
  ASSUME ScaffoldType, NEW assets \in SUBSET (Strict \cup Starters), NEW force \in BOOLEAN
  PROVE  LET left == Writes(assets, force) \cup ComposedWrites IN
         /\ left \subseteq assets \cup Composed /\ left \subseteq Scaffolded
         /\ \A f \in left : disk[f] = "mine" => force /\ f \in assets \cap Strict
         /\ force \/ Conflicts(assets) = {} => \A f \in (assets \cup Composed) \ left : Scaffolds(f)
<1>1. Writes(assets, force) \subseteq assets /\ ComposedWrites \subseteq Composed
  BY DEF Writes, ComposedWrites
<1>2. \A f \in ComposedWrites : disk[f] = "absent"
  BY DEF ComposedWrites
<1>3. \A f \in Writes(assets, force) : disk[f] = "mine" => force /\ f \in assets \cap Strict
  BY DEF Writes
<1>4. ASSUME force \/ Conflicts(assets) = {},
             NEW f \in (assets \cup Composed) \ (Writes(assets, force) \cup ComposedWrites)
      PROVE  Scaffolds(f)
  BY <1>4, ScaffoldAssumption DEF Writes, ComposedWrites, Conflicts, Scaffolds
<1> QED  BY <1>1, <1>2, <1>3, <1>4 DEF Scaffolded

LEMMA InitPlanKeeps == ASSUME ScaffoldInv, NEW i \in Inits, InitPlan(i) PROVE ScaffoldInv'
<1> DEFINE run == inits[i]
           left == Writes(run.assets, run.force) \cup ComposedWrites
<1>1. run \in InitRuns /\ run.assets \in SUBSET (Strict \cup Starters) /\ run.force \in BOOLEAN /\ run.at = {}
      /\ run.left \subseteq Scaffolded
  BY DEF ScaffoldInv, ScaffoldType, InitRuns, InitPlan, InitHolds
<1>2. /\ left \subseteq run.assets \cup Composed /\ left \subseteq Scaffolded
      /\ \A f \in left : disk[f] = "mine" => run.force /\ f \in run.assets \cap Strict
      /\ run.force \/ Conflicts(run.assets) = {} => \A f \in (run.assets \cup Composed) \ left : Scaffolds(f)
  BY <1>1, WritesAreMeant DEF ScaffoldInv
<1>3. Conflicts(run.assets) \subseteq Scaffolded
  BY DEF Conflicts, Scaffolded
<1>4. UNCHANGED <<disk, ignored>> /\ since' = [since EXCEPT ![i] = {}]
  BY DEF InitPlan
<1>5. ASSUME NEW j \in Inits \ {i}, inits'[j] = inits[j] PROVE InitHolds(j)'
  BY <1>4, <1>5, PlansStay DEF ScaffoldInv, ScaffoldType
<1>6. CASE Go(i, NoInit)
  BY <1>4, <1>5, <1>6, EndedPlans DEF ScaffoldInv, ScaffoldType, Go
<1>7. CASE (run.force \/ Conflicts(run.assets) = {}) /\ Go(i, Planned(run, run.force))
  <2>1. inits'[i] = [run EXCEPT !.pc = "write", !.left = left] /\ \A j \in Inits \ {i} : inits'[j] = inits[j]
    BY <1>7 DEF Planned, Go, ScaffoldInv, ScaffoldType
  <2>2. ScaffoldType'
    BY <1>1, <1>2, <1>4, <1>7 DEF ScaffoldInv, ScaffoldType, Planned, Go, InitRuns
  <2>3. /\ inits'[i].pc = "write" /\ inits'[i].left = left /\ inits'[i].assets = run.assets
        /\ inits'[i].force = run.force /\ inits'[i].at = {}
    BY <1>1, <2>1 DEF InitRuns
  <2>4. InitHolds(i)'
    BY <1>2, <1>4, <1>7, <2>3 DEF InitHolds, MayWriteOver, Scaffolds
  <2> QED  BY <1>5, <2>1, <2>2, <2>4 DEF ScaffoldInv
<1>8. CASE Go(i, [run EXCEPT !.pc = "ask", !.shown = Conflicts(run.assets)])
  <2>1. inits'[i] = [run EXCEPT !.pc = "ask", !.shown = Conflicts(run.assets)] /\ \A j \in Inits \ {i} : inits'[j] = inits[j]
    BY <1>8 DEF Go, ScaffoldInv, ScaffoldType
  <2>2. ScaffoldType'
    BY <1>1, <1>3, <1>4, <1>8 DEF ScaffoldInv, ScaffoldType, Go, InitRuns
  <2>3. /\ inits'[i].pc = "ask" /\ inits'[i].shown = Conflicts(run.assets) /\ inits'[i].assets = run.assets
        /\ inits'[i].left = run.left /\ inits'[i].at = {}
    BY <1>1, <2>1 DEF InitRuns
  <2>4. InitHolds(i)'
    BY <1>1, <1>4, <2>3 DEF InitHolds, MayWriteOver, Conflicts
  <2> QED  BY <1>5, <2>1, <2>2, <2>4 DEF ScaffoldInv
<1> QED  BY <1>6, <1>7, <1>8 DEF InitPlan

LEMMA InitAnswerKeeps == ASSUME ScaffoldInv, NEW i \in Inits, InitAnswer(i) PROVE ScaffoldInv'
<1> DEFINE run == inits[i]
           left == Writes(run.assets, TRUE) \cup ComposedWrites
<1>1. /\ run \in InitRuns /\ run.assets \in SUBSET (Strict \cup Starters) /\ run.at = {}
      /\ \A f \in run.assets \cap Strict : disk[f] = "mine" => MayWriteOver(i, f)
  BY DEF ScaffoldInv, ScaffoldType, InitRuns, InitAnswer, InitHolds
<1>2. /\ left \subseteq run.assets \cup Composed /\ left \subseteq Scaffolded
      /\ \A f \in left : disk[f] = "mine" => f \in run.assets \cap Strict
      /\ \A f \in (run.assets \cup Composed) \ left : Scaffolds(f)
  BY <1>1, WritesAreMeant DEF ScaffoldInv
<1>3. UNCHANGED <<disk, ignored, since>>
  BY DEF InitAnswer
<1>4. ASSUME NEW j \in Inits \ {i}, inits'[j] = inits[j] PROVE InitHolds(j)'
  BY <1>3, <1>4, PlansStay DEF ScaffoldInv, ScaffoldType
<1>5. CASE Go(i, NoInit)
  BY <1>3, <1>4, <1>5, EndedPlans DEF ScaffoldInv, ScaffoldType, Go
<1>6. CASE Go(i, Planned(run, TRUE))
  <2>1. inits'[i] = [run EXCEPT !.pc = "write", !.left = left] /\ \A j \in Inits \ {i} : inits'[j] = inits[j]
    BY <1>6 DEF Planned, Go, ScaffoldInv, ScaffoldType
  <2>2. ScaffoldType'
    BY <1>1, <1>2, <1>3, <1>6 DEF ScaffoldInv, ScaffoldType, Planned, Go, InitRuns
  <2>3. /\ inits'[i].pc = "write" /\ inits'[i].left = left /\ inits'[i].assets = run.assets
        /\ inits'[i].force = run.force /\ inits'[i].shown = run.shown /\ inits'[i].at = {}
    BY <1>1, <2>1 DEF InitRuns
  <2>4. InitHolds(i)'
    BY <1>1, <1>2, <1>3, <2>3 DEF InitHolds, MayWriteOver, Scaffolds
  <2> QED  BY <1>4, <2>1, <2>2, <2>4 DEF ScaffoldInv
<1> QED  BY <1>5, <1>6 DEF InitAnswer, Overwrite

(* A file that a run writes is off its list, and in place; the other runs   *)
(* are said not to know of it.                                              *)
LEMMA InitWriteKeeps == ASSUME ScaffoldInv, NEW i \in Inits, InitWrite(i) PROVE ScaffoldInv'
<1> DEFINE run == inits[i]
<1>1. PICK f \in run.left : Put1(f, "template") /\ Go(i, [run EXCEPT !.left = @ \ {f}]) /\ Touch({i}, {f})
  BY DEF InitWrite
<1>2. /\ run \in InitRuns /\ run.pc = "write" /\ run.at = {} /\ run.left \subseteq Scaffolded /\ f \in Scaffolded
      /\ InitHolds(i) /\ UNCHANGED ignored
  BY DEF ScaffoldInv, ScaffoldType, InitWrite, InitHolds
<1>3. /\ disk' = [disk EXCEPT ![f] = "template"] /\ inits'[i] = [run EXCEPT !.left = @ \ {f}]
      /\ \A j \in Inits \ {i} : inits'[j] = inits[j] /\ since'[j] = since[j] \cup {f}
      /\ since'[i] = since[i]
  BY <1>1 DEF Put1, Go, Touch, ScaffoldInv, ScaffoldType
<1>4. ScaffoldType'
  BY <1>1, <1>2 DEF ScaffoldInv, ScaffoldType, FileContents, Put1, Go, Touch, InitRuns
<1>5. /\ inits'[i].pc = "write" /\ inits'[i].left = run.left \ {f} /\ inits'[i].assets = run.assets
      /\ inits'[i].force = run.force /\ inits'[i].shown = run.shown /\ inits'[i].at = {}
  BY <1>2, <1>3 DEF InitRuns
<1>6. InitHolds(i)'
  <2>1. \A h \in Scaffolded : disk'[h] = IF h = f THEN "template" ELSE disk[h]
    BY <1>3 DEF ScaffoldInv, ScaffoldType
  <2>2. run.assets \cup Composed \subseteq Scaffolded
    BY <1>2 DEF InitRuns, Scaffolded
  <2> QED  BY <1>2, <1>3, <1>5, <2>1, <2>2 DEF InitHolds, MayWriteOver, Scaffolds
<1>7. ASSUME NEW j \in Inits \ {i} PROVE InitHolds(j)'
  BY <1>2, <1>3, <1>7, PlansStay DEF ScaffoldInv, ScaffoldType
<1> QED  BY <1>4, <1>6, <1>7 DEF ScaffoldInv

(* The steps after the writes, and a crash: one file at most, which the     *)
(* other runs are said not to know of.                                      *)
LEMMA LateStepsKeep ==
  ASSUME ScaffoldInv, NEW i \in Inits, NEW run \in InitRuns, Go(i, run), InitHolds(i)',
         NEW f \in Scaffolded \cup IgnoreFiles,
         disk' \in [Scaffolded -> FileContents], ignored' \in [IgnoreFiles -> SUBSET Lines],
         \A h \in Scaffolded : disk'[h] # disk[h] => h = f,
         \A h \in IgnoreFiles : ignored'[h] # ignored[h] => h = f,
         Touch({i}, {f}) \/ UNCHANGED <<disk, ignored, since>>
  PROVE  ScaffoldInv'
<1>1. since' \in [Inits -> SUBSET (Scaffolded \cup IgnoreFiles)]
  BY DEF ScaffoldInv, ScaffoldType, Touch
<1>2. ScaffoldType'
  BY <1>1 DEF ScaffoldInv, ScaffoldType, Go
<1>3. ASSUME NEW j \in Inits \ {i} PROVE InitHolds(j)'
  <2>1. inits'[j] = inits[j]
    BY <1>3 DEF ScaffoldInv, ScaffoldType, Go
  <2>2. \/ since'[j] = since[j] \cup {f}
        \/ since'[j] = since[j] /\ disk' = disk /\ ignored' = ignored
    BY <1>3 DEF ScaffoldInv, ScaffoldType, Touch
  <2>3. /\ \A h \in Scaffolded : disk'[h] # disk[h] => h \in since'[j]
        /\ \A h \in IgnoreFiles : ignored'[h] # ignored[h] => h \in since'[j]
        /\ since[j] \subseteq since'[j]
    BY <2>2
  <2> QED  BY <2>1, <2>3, PlansStay
<1> QED  BY <1>2, <1>3 DEF ScaffoldInv

LEMMA InitVersionKeeps == ASSUME ScaffoldInv, NEW i \in Inits, InitVersion(i) PROVE ScaffoldInv'
<1> DEFINE run == [inits[i] EXCEPT !.pc = "list"]
<1>1. inits[i] \in InitRuns /\ inits[i].at = {} /\ inits[i].left \subseteq Scaffolded /\ VersionFile \in Scaffolded
  BY ScaffoldAssumption DEF ScaffoldInv, ScaffoldType, InitVersion, InitHolds, Scaffolded
<1>2. run \in InitRuns /\ run.pc = "list" /\ run.at = {} /\ run.left = inits[i].left
  BY <1>1 DEF InitRuns
<1>3. Go(i, run) /\ inits'[i] = run /\ UNCHANGED ignored
  BY DEF InitVersion, Go, ScaffoldInv, ScaffoldType
<1>4. InitHolds(i)'
  BY <1>1, <1>2, <1>3 DEF InitHolds
<1>5. CASE Put1(VersionFile, "template") /\ Touch({i}, {VersionFile})
  <2>1. disk' \in [Scaffolded -> FileContents] /\ \A h \in Scaffolded : disk'[h] # disk[h] => h = VersionFile
    BY <1>1, <1>5 DEF Put1, ScaffoldInv, ScaffoldType, FileContents
  <2> QED  BY <1>1, <1>2, <1>3, <1>4, <1>5, <2>1, LateStepsKeep DEF ScaffoldInv, ScaffoldType
<1>6. CASE UNCHANGED <<disk, since>>
  BY <1>1, <1>2, <1>3, <1>4, <1>6, LateStepsKeep DEF ScaffoldInv, ScaffoldType
<1> QED  BY <1>5, <1>6 DEF InitVersion

LEMMA InitListKeeps == ASSUME ScaffoldInv, NEW i \in Inits, InitList(i) PROVE ScaffoldInv'
<1>1. LocalList \in Scaffolded /\ Go(i, Merging) /\ UNCHANGED ignored
  BY DEF Scaffolded, InitList
<1>2. InitHolds(i)' /\ Merging \in InitRuns
  BY <1>1, EndedPlans DEF ScaffoldInv
<1>3. CASE Put1(LocalList, "template") /\ Touch({i}, {LocalList})
  <2>1. disk' \in [Scaffolded -> FileContents] /\ \A h \in Scaffolded : disk'[h] # disk[h] => h = LocalList
    BY <1>1, <1>3 DEF Put1, ScaffoldInv, ScaffoldType, FileContents
  <2> QED  BY <1>1, <1>2, <1>3, <2>1, LateStepsKeep DEF ScaffoldInv, ScaffoldType
<1>4. CASE UNCHANGED <<disk, since>>
  BY <1>1, <1>2, <1>4, LateStepsKeep DEF ScaffoldInv, ScaffoldType
<1> QED  BY <1>3, <1>4 DEF InitList

(* A run that read an ignore file knows its lines, until somebody else      *)
(* changes them.                                                            *)
LEMMA MergeReadKeeps == ASSUME ScaffoldInv, NEW i \in Inits, MergeRead(i) PROVE ScaffoldInv'
<1> DEFINE run == inits[i]
<1>1. run \in InitRuns /\ run.pc = "fragments" /\ run.at = {} /\ run.left \subseteq IgnoreFiles /\ UNCHANGED <<disk, ignored>>
  BY DEF ScaffoldInv, ScaffoldType, MergeRead, InitHolds
<1>2. PICK g \in run.left :
        /\ Go(i, IF Fragment[g] \subseteq ignored[g] THEN [run EXCEPT !.left = @ \ {g}]
                 ELSE [run EXCEPT !.pc = "append", !.left = @ \ {g}, !.at = {g}, !.seen = ignored[g]])
        /\ since' = [since EXCEPT ![i] = @ \ {g}]
        /\ g \in IgnoreFiles
  BY DEF MergeRead, ScaffoldInv, InitHolds
<1>3. ASSUME NEW j \in Inits \ {i}, inits'[j] = inits[j] PROVE InitHolds(j)'
  BY <1>1, <1>2, <1>3, PlansStay DEF ScaffoldInv, ScaffoldType
<1>4. CASE Go(i, [run EXCEPT !.left = @ \ {g}])
  <2>1. inits'[i] = [run EXCEPT !.left = @ \ {g}]
    BY <1>4 DEF Go, ScaffoldInv, ScaffoldType
  <2>2. inits'[i] \in InitRuns /\ inits'[i].pc = "fragments" /\ inits'[i].at = {} /\ inits'[i].left \subseteq IgnoreFiles
    BY <1>1, <2>1 DEF InitRuns
  <2>3. ScaffoldType' /\ \A j \in Inits \ {i} : inits'[j] = inits[j]
    BY <1>1, <1>2, <1>4, <2>1, <2>2 DEF ScaffoldInv, ScaffoldType, Go
  <2> QED  BY <1>3, <2>2, <2>3 DEF ScaffoldInv, InitHolds
<1>5. CASE Go(i, [run EXCEPT !.pc = "append", !.left = @ \ {g}, !.at = {g}, !.seen = ignored[g]])
  <2>1. inits'[i] = [run EXCEPT !.pc = "append", !.left = @ \ {g}, !.at = {g}, !.seen = ignored[g]]
    BY <1>5 DEF Go, ScaffoldInv, ScaffoldType
  <2>4. ignored[g] \subseteq Lines
    BY <1>2 DEF ScaffoldInv, ScaffoldType
  <2>2. /\ inits'[i] \in InitRuns /\ inits'[i].pc = "append" /\ inits'[i].at = {g} /\ inits'[i].seen = ignored[g]
        /\ inits'[i].left = run.left \ {g}
    <3> DEFINE half == [run EXCEPT !.pc = "append", !.left = @ \ {g}]
    <3>1. half \in InitRuns /\ half.pc = "append" /\ half.left = run.left \ {g}
      BY <1>1 DEF InitRuns
    <3>2. inits'[i] = [half EXCEPT !.at = {g}, !.seen = ignored[g]]
      BY <2>1
    <3> HIDE DEF half
    <3>4. {g} \in SUBSET IgnoreFiles /\ ignored[g] \in SUBSET Lines
      BY <1>2, <2>4
    <3>5. PICK lines \in SUBSET Lines : lines = ignored[g]
      BY <3>4
    <3>6. inits'[i] = [half EXCEPT !.at = {g}, !.seen = lines]
      BY <3>2, <3>5
    <3>7. inits'[i] \in InitRuns
      BY <3>1, <3>4, <3>6 DEF InitRuns
    <3>8. inits'[i].pc = "append" /\ inits'[i].left = run.left \ {g}
      BY <3>1, <3>4, <3>6 DEF InitRuns
    <3>9. inits'[i].at = {g} /\ inits'[i].seen = lines
      BY <3>1, <3>4, <3>6 DEF InitRuns
    <3> QED  BY <3>5, <3>7, <3>8, <3>9
  <2>3. ScaffoldType' /\ \A j \in Inits \ {i} : inits'[j] = inits[j]
    BY <1>1, <1>2, <1>5, <2>1, <2>2 DEF ScaffoldInv, ScaffoldType, Go
  <2>5. InitHolds(i)'
    BY <1>1, <2>2 DEF InitHolds
  <2> QED  BY <1>3, <2>3, <2>5 DEF ScaffoldInv
<1> QED  BY <1>2, <1>4, <1>5

LEMMA MergeWriteKeeps == ASSUME ScaffoldInv, NEW i \in Inits, MergeWrite(i) PROVE ScaffoldInv'
<1> DEFINE run == inits[i]
           after == [run EXCEPT !.pc = "fragments", !.at = {}, !.seen = {}]
<1>1. run \in InitRuns /\ UNCHANGED disk /\ run.left \subseteq IgnoreFiles
  BY DEF ScaffoldInv, ScaffoldType, MergeWrite, InitHolds
<1>2. PICK g \in run.at : ignored' = [ignored EXCEPT ![g] = Merged(run, g)] /\ Touch({i}, {g})
  BY DEF MergeWrite
<1>3. g \in IgnoreFiles /\ Merged(run, g) \subseteq Lines
  BY <1>1, ScaffoldAssumption DEF InitRuns, Merged
<1>4. ignored' \in [IgnoreFiles -> SUBSET Lines] /\ \A h \in IgnoreFiles : ignored'[h] # ignored[h] => h = g
  BY <1>2, <1>3 DEF ScaffoldInv, ScaffoldType
<1>5. after \in InitRuns /\ after.pc = "fragments" /\ after.at = {} /\ after.left = run.left
  BY <1>1 DEF InitRuns
<1>6. Go(i, after) /\ inits'[i] = after
  BY DEF MergeWrite, Go, ScaffoldInv, ScaffoldType
<1>7. InitHolds(i)'
  BY <1>1, <1>5, <1>6 DEF InitHolds
<1> QED  BY <1>1, <1>2, <1>3, <1>4, <1>5, <1>6, <1>7, LateStepsKeep DEF ScaffoldInv, ScaffoldType

LEMMA InitCrashKeeps == ASSUME ScaffoldInv, NEW i \in Inits, InitCrash(i) PROVE ScaffoldInv'
<1>1. Go(i, NoInit) /\ LocalList \in Scaffolded
  BY DEF InitCrash, Scaffolded
<1>2. InitHolds(i)' /\ NoInit \in InitRuns
  BY <1>1, EndedPlans DEF ScaffoldInv
<1>3. CASE UNCHANGED <<disk, ignored, since>>
  BY <1>1, <1>2, <1>3, LateStepsKeep DEF ScaffoldInv, ScaffoldType
<1>4. ASSUME NEW f \in Open(inits[i]), Put1(f, "half"), Touch({i}, {f}), UNCHANGED ignored
      PROVE  ScaffoldInv'
  <2>1. f \in Scaffolded
    BY <1>1, <1>4, ScaffoldAssumption DEF ScaffoldInv, ScaffoldType, InitHolds, Open, Scaffolded
  <2>2. disk' \in [Scaffolded -> FileContents] /\ \A h \in Scaffolded : disk'[h] # disk[h] => h = f
    BY <1>4, <2>1 DEF Put1, ScaffoldInv, ScaffoldType, FileContents
  <2> QED  BY <1>1, <1>2, <1>4, <2>1, <2>2, LateStepsKeep DEF ScaffoldInv, ScaffoldType
<1>5. ASSUME NEW g \in inits[i].at, NEW part \in SUBSET inits[i].seen, ignored' = [ignored EXCEPT ![g] = part],
             Touch({i}, {g}), UNCHANGED disk
      PROVE  ScaffoldInv'
  <2>1. g \in IgnoreFiles /\ part \subseteq Lines
    BY <1>5 DEF ScaffoldInv, ScaffoldType, InitRuns
  <2>2. ignored' \in [IgnoreFiles -> SUBSET Lines] /\ \A h \in IgnoreFiles : ignored'[h] # ignored[h] => h = g
    BY <1>5, <2>1 DEF ScaffoldInv, ScaffoldType
  <2> QED  BY <1>1, <1>2, <1>5, <2>1, <2>2, LateStepsKeep DEF ScaffoldInv, ScaffoldType
<1> QED  BY <1>3, <1>4, <1>5 DEF InitCrash

LEMMA EditsKeep == ASSUME ScaffoldInv, EditFile \/ EditIgnored PROVE ScaffoldInv'
<1>1. PICK f \in Scaffolded \cup IgnoreFiles :
        /\ disk' \in [Scaffolded -> FileContents] /\ ignored' \in [IgnoreFiles -> SUBSET Lines]
        /\ \A h \in Scaffolded : disk'[h] # disk[h] => h = f
        /\ \A h \in IgnoreFiles : ignored'[h] # ignored[h] => h = f
        /\ Touch({}, {f}) /\ UNCHANGED inits
  BY DEF EditFile, EditIgnored, Put1, ScaffoldInv, ScaffoldType, FileContents
<1>2. ScaffoldType'
  BY <1>1 DEF ScaffoldInv, ScaffoldType, Touch
<1>3. ASSUME NEW j \in Inits PROVE InitHolds(j)'
  BY <1>1, <1>3, PlansStay DEF Touch
<1> QED  BY <1>2, <1>3 DEF ScaffoldInv

LEMMA ScaffoldStep == ScaffoldInv /\ [ScaffoldNext]_scaffoldVars => ScaffoldInv'
<1> SUFFICES ASSUME ScaffoldInv, [ScaffoldNext]_scaffoldVars PROVE ScaffoldInv'
  OBVIOUS
<1>1. CASE EditFile \/ EditIgnored
  BY <1>1, EditsKeep
<1>2. ASSUME NEW i \in Inits, InitStep(i) PROVE ScaffoldInv'
  BY <1>2, InitStartKeeps, InitEndsKeep, InitPlanKeeps, InitAnswerKeeps, InitWriteKeeps, InitVersionKeeps,
     InitListKeeps, MergeReadKeeps, MergeWriteKeeps, InitCrashKeeps DEF InitStep
<1>3. CASE UNCHANGED scaffoldVars
  <2>1. ScaffoldType'
    BY <1>3 DEF scaffoldVars, ScaffoldInv, ScaffoldType
  <2>2. ASSUME NEW j \in Inits PROVE InitHolds(j)'
    BY <1>3, <2>2, PlansStay DEF scaffoldVars
  <2> QED  BY <2>1, <2>2 DEF ScaffoldInv
<1> QED  BY <1>1, <1>2, <1>3 DEF ScaffoldNext

(* A step changes the files that the user has only as the run's plan says,  *)
(* and an ignore file only by what it lacks.                                *)
LEMMA RunIsSafe ==
  ASSUME ScaffoldInv, NEW i \in Inits, InitStep(i)
  PROVE  /\ \A f \in Scaffolded : disk[f] = "mine" /\ disk'[f] # "mine" => MayWriteOver(i, f)
         /\ \A g \in IgnoreFiles : ~(ignored[g] \subseteq ignored'[g]) => g \in since[i] \/ inits'[i] = NoInit
         /\ \A j \in Inits \ {i} : inits'[j] = inits[j]
<1>1. InitHolds(i) /\ inits[i] \in InitRuns
  BY DEF ScaffoldInv, ScaffoldType
<1>2. \A run : Go(i, run) => inits'[i] = run /\ \A j \in Inits \ {i} : inits'[j] = inits[j]
  BY DEF Go, ScaffoldInv, ScaffoldType
<1>3. \A f, c : Put1(f, c) => \A h \in Scaffolded : h # f => disk'[h] = disk[h]
  BY DEF Put1, ScaffoldInv, ScaffoldType
<1>4. CASE InitStart(i) \/ TutorialOnly(i) \/ InitRefused(i) \/ InitPlan(i) \/ InitAnswer(i) \/ MergeRead(i) \/ InitEnd(i)
  BY <1>2, <1>4 DEF InitStart, TutorialOnly, InitRefused, InitPlan, InitAnswer, MergeRead, InitEnd
<1>5. CASE InitWrite(i)
  BY <1>1, <1>2, <1>3, <1>5 DEF InitWrite, InitHolds
<1>6. CASE InitVersion(i) \/ InitList(i)
  BY <1>2, <1>3, <1>6 DEF InitVersion, InitList
<1>7. CASE MergeWrite(i)
  <2>1. PICK g \in inits[i].at : ignored' = [ignored EXCEPT ![g] = inits[i].seen \cup Fragment[g]]
    BY <1>7 DEF MergeWrite, Merged
  <2>2. \A h \in IgnoreFiles : h # g => ignored'[h] = ignored[h]
    BY <2>1 DEF ScaffoldInv, ScaffoldType
  <2>3. g \in IgnoreFiles /\ ignored'[g] = inits[i].seen \cup Fragment[g]
    BY <1>1, <2>1 DEF ScaffoldInv, ScaffoldType, InitRuns
  <2>4. g \in since[i] \/ ignored[g] = inits[i].seen
    BY <1>1, <2>1 DEF InitHolds
  <2> QED  BY <1>2, <1>7, <2>2, <2>3, <2>4 DEF MergeWrite
<1>8. CASE InitCrash(i)
  <2>1. inits'[i] = NoInit /\ \A j \in Inits \ {i} : inits'[j] = inits[j]
    BY <1>2, <1>8 DEF InitCrash
  <2>2. ASSUME NEW f \in Open(inits[i]), Put1(f, "half"), NEW h \in Scaffolded, disk[h] = "mine", disk'[h] # "mine"
        PROVE  MayWriteOver(i, h)
    BY <1>1, <1>3, <2>2 DEF Open, InitHolds
  <2> QED  BY <1>8, <2>1, <2>2 DEF InitCrash
<1> QED  BY <1>4, <1>5, <1>6, <1>7, <1>8 DEF InitStep

(* Any number of runs, with any profiles, beside edits and crashes: init    *)
(* writes over the user's work, and drops lines of an ignore file, only as  *)
(* InitIsSafe says, and a run that comes to its end has completed the       *)
(* scaffold.                                                                *)
THEOREM InitIsSafeForAll == ScaffoldSpec => InitIsSafe
<1>1. ScaffoldInv /\ [ScaffoldNext]_scaffoldVars => [WorkIsKept /\ LinesAreKept /\ ScaffoldIsComplete]_scaffoldVars
  <2> SUFFICES ASSUME ScaffoldInv, ScaffoldNext PROVE WorkIsKept /\ LinesAreKept /\ ScaffoldIsComplete
    OBVIOUS
  <2>1. CASE EditFile \/ EditIgnored
    BY <2>1 DEF EditFile, EditIgnored, WorkIsKept, LinesAreKept, ScaffoldIsComplete, Steps
  <2>2. ASSUME NEW i \in Inits, InitStep(i) PROVE WorkIsKept /\ LinesAreKept /\ ScaffoldIsComplete
    <3>1. WorkIsKept /\ LinesAreKept
      BY <2>2, RunIsSafe DEF WorkIsKept, LinesAreKept, Steps, MayWriteOver
    <3>2. ASSUME NEW j \in Inits, inits[j].pc = "write", inits'[j].pc = "list"
          PROVE  inits[j].left = {}
      <4>1. j = i
        BY <2>2, <3>2, RunIsSafe
      <4>2. inits[i] \in InitRuns /\ inits'[i] # NoInit
        BY <3>2, <4>1 DEF ScaffoldInv, ScaffoldType, NoInit
      <4>3. \A run : Go(i, run) => inits'[i] = run
        BY DEF Go, ScaffoldInv, ScaffoldType
      <4>4. ~InitWrite(i)
        BY <3>2, <4>1, <4>2, <4>3 DEF InitWrite, InitRuns
      <4>5. inits[i] # NoInit
        BY <3>2, <4>1 DEF NoInit
      <4> QED  BY <2>2, <3>2, <4>1, <4>2, <4>3, <4>4, <4>5
               DEF InitStep, InitStart, TutorialOnly, InitRefused, InitPlan, InitAnswer, InitVersion, InitList, MergeRead, MergeWrite,
                   InitEnd, InitCrash
    <3>3. ScaffoldIsComplete
      BY <3>2 DEF ScaffoldIsComplete, ScaffoldInv, InitHolds, Scaffolds
    <3> QED  BY <3>1, <3>3
  <2> QED  BY <2>1, <2>2 DEF ScaffoldNext
<1> QED  BY <1>1, ScaffoldStart, ScaffoldStep, PTL DEF ScaffoldSpec, InitIsSafe

-----------------------------------------------------------------------------
(* The audit of a bypass.                                                  *)

Traced == auditCommit \/ \E c \in Audited : notes[c] # NoNote

(* A run that may write the row of a bypass is behind its audit, and the   *)
(* audit never goes away: a note gives way only to another note.           *)
AuditInv ==
  /\ DOMAIN stage = Procs /\ DOMAIN cur = Procs /\ DOMAIN notes = Audited
  /\ \A p \in Procs : stage[p] = "audit" => cur[p].m \in Missions
  /\ \A p \in Procs : stage[p] = "row" => Traced
  /\ RowsAreAudited

LEMMA AuditStep == AuditInv /\ [OutcomeNext]_outcomeVars => AuditInv'
<1> SUFFICES ASSUME AuditInv, [OutcomeNext]_outcomeVars PROVE AuditInv'
  OBVIOUS
<1> USE DEF AuditInv, AtStage, EndRun
<1>1. CASE UNCHANGED outcomeVars
  BY <1>1 DEF outcomeVars, Traced, RowsAreAudited
<1>2. ASSUME NEW p \in Procs, Evaluate(p) PROVE AuditInv'
  <2>1. PICK e \in Evaluations :
          /\ cur' = [cur EXCEPT ![p] = e]
          /\ stage' = [stage EXCEPT ![p] = CASE e.outcome = "failed" -> "read"
                                             [] e.outcome = "passed" -> "ledger"
                                             [] e.outcome = "init"   -> "initFailure"
                                             [] e.outcome = "bypass" -> "audit"]
    BY <1>2 DEF Evaluate
  <2>2. e.outcome \in {"failed", "passed", "init", "bypass"} /\ (e.outcome = "bypass" => e.m \in Missions)
    BY DEF Evaluations
  <2>3. stage'[p] # "row" /\ (stage'[p] = "audit" => cur'[p].m \in Missions)
    BY <2>1, <2>2
  <2>4. \A q \in Procs \ {p} : stage'[q] = stage[q] /\ cur'[q] = cur[q]
    BY <2>1
  <2> QED  BY <1>2, <2>1, <2>3, <2>4 DEF Evaluate, Traced, RowsAreAudited
<1>3. ASSUME NEW p \in Procs, Audit(p) PROVE AuditInv'
  <2>1. Traced' /\ DOMAIN notes' = Audited
    BY <1>3, NoteAssumption DEF Audit, Note, CommitAudit, Traced
  <2>2. UNCHANGED cur /\ \A q \in Procs \ {p} : stage'[q] = stage[q]
    BY <1>3 DEF Audit
  <2>3. stage'[p] = "row" /\ DOMAIN stage' = Procs
    BY <1>3 DEF Audit
  <2> QED  BY <2>1, <2>2, <2>3 DEF Traced, RowsAreAudited
<1>4. ASSUME NEW p \in Procs,
             \/ ReadFeed(p) \/ Persist(p) \/ Ledger(p) \/ Export(p) \/ ClearFeed(p)
             \/ InitFailure(p) \/ RunCrash(p) \/ AuditFails(p) \/ BypassRow(p)
      PROVE  AuditInv'
  <2>1. UNCHANGED <<notes, auditCommit>> /\ (Traced <=> Traced')
    BY <1>4 DEF ReadFeed, Persist, Ledger, Export, ClearFeed, InitFailure, RunCrash, AuditFails, BypassRow, Traced
  <2>2. cur' \in {cur, [cur EXCEPT ![p] = NoRun]}
    BY <1>4 DEF ReadFeed, Persist, Ledger, Export, ClearFeed, InitFailure, RunCrash, AuditFails, BypassRow
  <2>3. \E s \in {"persist", "idle", "export", "clear", "initFailure", "ledger"} : stage' = [stage EXCEPT ![p] = s]
    BY <1>4 DEF ReadFeed, Persist, Ledger, Export, ClearFeed, InitFailure, RunCrash, AuditFails, BypassRow
  <2>4. "break_glass" \in rows' => "break_glass" \in rows \/ stage[p] = "row"
    BY <1>4 DEF ReadFeed, Persist, Ledger, Export, ClearFeed, InitFailure, RunCrash, AuditFails, BypassRow, Row
  <2> QED  BY <2>1, <2>2, <2>3, <2>4 DEF Traced, RowsAreAudited
<1> QED  BY <1>1, <1>2, <1>3, <1>4 DEF OutcomeNext

(* A break_glass row in the ledger is never the only trace of a bypass,    *)
(* whatever runs, fails or dies beside it (runBreakGlassAudit, then        *)
(* appendLedgerIfEnabled).                                                 *)
THEOREM BypassesAreAudited == OutcomeSpec => []RowsAreAudited
<1>1. OutcomeInit => AuditInv
  BY DEF OutcomeInit, AuditInv, RowsAreAudited
<1>2. AuditInv => RowsAreAudited
  BY DEF AuditInv
<1> QED  BY <1>1, <1>2, AuditStep, PTL DEF OutcomeSpec
=============================================================================
