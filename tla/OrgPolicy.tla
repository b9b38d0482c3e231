----------------------------- MODULE OrgPolicy -----------------------------
(***************************************************************************)
(* The org policy floor and the cross-repository dependencies              *)
(* (packages/plane: policy-*.ts, deps-*.ts; core/law-file.ts; the verify   *)
(* phases of org-phases.ts; gantry migrate).  A tracked pointer, in YAML or*)
(* in its 3.x JSON form, pins a commit of the policy repository and the    *)
(* hash of its bundle.  `policy pull` fetches the bundle into a cache and  *)
(* rewrites the pointer; verify reads the pointer and the cache, in that   *)
(* order and file by file, and never the network.                          *)
(*                                                                         *)
(* A bundle is named by the commit it was fetched from; so is its hash.    *)
(***************************************************************************)
EXTENDS Integers, FiniteSets, Sequences, SequencesExt

CONSTANTS Pulls, Verifies,   \* the processes: gantry policy pull, gantry verify
          FloorOf,           \* what the bundle of each commit asks of the local settings
          Unparsed,          \* commits whose bundle is missing, has a removed key or breaks the schema
          Unsigned,          \* commits that list signers and fail git verify-commit
          MaxEdits, MaxSent, MaxCrashes, MaxPulled   \* bounds: edits, receipts, crashes, pulls

ASSUME OrgAssumption == {MaxEdits, MaxSent, MaxCrashes, MaxPulled} \subseteq Nat
ASSUME CommitsAssumption == DOMAIN FloorOf \subseteq Nat \ {0} /\ Unparsed \cup Unsigned \subseteq DOMAIN FloorOf
ASSUME FloorsAssumption == \A c \in DOMAIN FloorOf : FloorOf[c] \in [DOMAIN FloorOf[1] -> Nat]

VARIABLES yaml, json,    \* the two forms of the pointer
          cache,         \* the cached bundles, by what the pointer calls the commit
          tip,           \* the commit the policy repository's ref is at
          local,         \* the local settings, by their rank
          receipts,      \* the receipts in the other repository's ledger, oldest first
          fetched,       \* how many of them refs/gxt/deps/<slug> holds
          pull, verify,  \* the processes
          pulled,        \* history: the pull whose answer still stands
          counts         \* counters for the bounds

orgVars == <<yaml, json, cache, tip, local, receipts, fetched, pull, verify, pulled, counts>>
pointer == <<yaml, json>>
outside == <<tip, local, receipts, fetched>>

Absent == [form |-> "absent"]
Nothing == -4     \* no file
NoPull == [bundle |-> Nothing]
Idle == [pc |-> "idle", doc |-> Absent, yaml |-> FALSE, commit |-> Nothing, name |-> Nothing, sha |-> Nothing]
Commits == DOMAIN FloorOf
Half == 0        \* a bundle file that is truncated and not yet written: it parses to nothing
Foreign == -1    \* a bundle that was changed in the cache
Branch == -2      \* a pin that is no commit hash: a branch, a tag, a short hash
NoPin == -3
Started(pc) == [pc |-> pc, doc |-> Absent, bundle |-> Nothing, under |-> NoPull, steady |-> TRUE,
                settings |-> << >>]
Bounded(what, max) == counts[what] < max /\ counts' = [counts EXCEPT ![what] = @ + 1]

Doc(url, pin, sha) == [form |-> "doc", url |-> url, pin |-> pin, sha |-> sha]
Docs == {Doc(u, p, NoPin) : u \in BOOLEAN, p \in Commits \cup {NoPin, Branch}}

OrgInit == /\ yaml \in {Absent, Doc(TRUE, NoPin, NoPin)} /\ json = Absent
           /\ cache = [p \in Commits \cup {Branch} |-> Nothing]
           /\ tip = 1 /\ tip \in Commits
           /\ local \in {[k \in DOMAIN FloorOf[tip] |-> r] : r \in {0, 2}}
           /\ receipts = << >> /\ fetched = 0
           /\ pull = [p \in Pulls |-> Idle] /\ verify = [v \in Verifies |-> Started("idle")]
           /\ pulled = NoPull
           /\ counts = [edits |-> 0, crashes |-> 0, pulls |-> 0]

\* As below, but the YAML form wins without a look at the JSON form.
Selected_First == IF yaml # Absent THEN yaml ELSE json

\* The form that is read: YAML before JSON, and both only when they are one document.
Selected == IF yaml # Absent /\ json # Absent /\ yaml # json THEN [form |-> "ambiguous"]
            ELSE IF yaml # Absent THEN yaml ELSE json
IsPinned(doc) == doc.url /\ doc.pin \in Commits

(***************************************************************************)
(* The two repositories, the Planner's edits and what else can happen      *)
(***************************************************************************)
Publish == tip + 1 \in Commits /\ tip' = tip + 1
           /\ UNCHANGED <<pointer, cache, local, receipts, fetched, pull, verify, pulled, counts>>

\* An edit of the pointer, or its removal: what an earlier pull answered no longer stands.
Edit == /\ Bounded("edits", MaxEdits)
        /\ \E doc \in Docs \cup {Absent} : \/ yaml' = doc /\ json' = json
                                           \/ json' = doc /\ yaml' = yaml
        /\ pulled' = NoPull
        /\ UNCHANGED <<cache, outside, pull, verify>>

EditSettings == /\ Bounded("edits", MaxEdits)
                /\ \E k \in DOMAIN local, r \in 0 .. 2 : local' = [local EXCEPT ![k] = r]
                /\ UNCHANGED <<pointer, cache, tip, receipts, fetched, pull, verify, pulled>>

\* The cache is untracked: anything may write to it.
EditCache == /\ Bounded("edits", MaxEdits)
             /\ \E p \in {q \in DOMAIN cache : cache[q] # Nothing}, to \in {Nothing, Foreign} :
                  cache' = [cache EXCEPT ![p] = to]
             /\ verify' = [v \in Verifies |-> [verify[v] EXCEPT !.steady = @ /\ verify[v].pc # "load"]]
             /\ UNCHANGED <<pointer, outside, pull, pulled>>

\* The other repository's verify appends a receipt for the mission: a good one says that it
\* passed, and is of a commit with a good signature.
Receive == /\ Len(receipts) < MaxSent
           /\ \E good \in BOOLEAN : receipts' = Append(receipts, good)
           /\ UNCHANGED <<pointer, cache, tip, local, fetched, pull, verify, pulled, counts>>

\* gantry deps fetch.
FetchDependency == /\ fetched # Len(receipts) /\ fetched' = Len(receipts)
                   /\ UNCHANGED <<pointer, cache, tip, local, receipts, pull, verify, pulled, counts>>

\* gantry migrate policy-pointer: the YAML form is written, then the JSON form removed; a
\* process that is killed in between leaves both, which are one document.
Migrate == /\ Selected.form = "doc" /\ yaml = Absent
           /\ yaml' = json /\ json' \in {json, Absent}
           /\ UNCHANGED <<cache, outside, pull, verify, pulled, counts>>

(***************************************************************************)
(* gantry policy pull                                                      *)
(***************************************************************************)
Set(p, state) == pull' = [pull EXCEPT ![p] = state]

\* The pointer is read, in the form found, and refused without a url.
PullStart(p) == /\ pull[p] = Idle /\ Bounded("pulls", MaxPulled)
                /\ Selected.form = "doc" /\ Selected.url
                /\ Set(p, [Idle EXCEPT !.pc = "fetch", !.doc = Selected, !.yaml = yaml # Absent])
                /\ UNCHANGED <<pointer, cache, outside, verify, pulled>>

\* The commit fetched and the name the cache and the pointer will give it.
Fetched(doc) == IF doc.pin \in Commits THEN doc.pin ELSE tip
NameOf(doc) == IF doc.pin # NoPin THEN doc.pin ELSE tip

\* The bundle does not parse, or lists signers and its commit fails git verify-commit.
Refused(commit) == commit \in Unparsed \cup Unsigned

\* fetch --depth 1, then the bundle at FETCH_HEAD is parsed and the commit's signature checked.
Fetch(p) == LET commit == Fetched(pull[p].doc) IN
            /\ pull[p].pc = "fetch" /\ commit <= tip
            /\ IF Refused(commit) THEN Set(p, Idle)
               ELSE Set(p, [pull[p] EXCEPT !.pc = "write", !.commit = commit, !.name = NameOf(pull[p].doc)])
            /\ UNCHANGED <<pointer, cache, outside, verify, pulled, counts>>

\* The bundle is written in place: first part of it, then the rest.
WriteHalf(p) == /\ pull[p].pc = "write" /\ Set(p, [pull[p] EXCEPT !.pc = "rest"])
                /\ cache' = [cache EXCEPT ![pull[p].name] = Half]
                /\ UNCHANGED <<pointer, outside, verify, pulled, counts>>
WriteRest(p) == /\ pull[p].pc = "rest" /\ Set(p, [pull[p] EXCEPT !.pc = "hash"])
                /\ cache' = [cache EXCEPT ![pull[p].name] = pull[p].commit]
                /\ UNCHANGED <<pointer, outside, verify, pulled, counts>>

\* The hash is of the file read back, whatever it holds by now.
Hash(p) == LET file == cache[pull[p].name] IN
           /\ pull[p].pc = "hash"
           /\ Set(p, IF file = Nothing THEN Idle ELSE [pull[p] EXCEPT !.pc = "pin", !.sha = file])
           /\ UNCHANGED <<pointer, cache, outside, verify, pulled, counts>>

\* The pointer as it was read, with the commit and the hash, in the form that was read.
Pinned(p) == Doc(pull[p].doc.url, pull[p].name, pull[p].sha)
Pin(p) == /\ pull[p].pc = "pin" /\ Set(p, Idle)
          /\ IF pull[p].yaml THEN yaml' = Pinned(p) /\ UNCHANGED json ELSE json' = Pinned(p) /\ UNCHANGED yaml
          /\ pulled' = [bundle |-> pull[p].sha, from |-> pull[p].commit, name |-> pull[p].name]
          /\ UNCHANGED <<cache, outside, verify, counts>>

PullCrash(p) == /\ pull[p] # Idle /\ Set(p, Idle) /\ Bounded("crashes", MaxCrashes)
                /\ UNCHANGED <<pointer, cache, outside, verify, pulled>>

(***************************************************************************)
(* The policy and dependencies phases of gantry verify                     *)
(***************************************************************************)
Answer(v, state) == /\ verify' = [verify EXCEPT ![v] = state]
                    /\ UNCHANGED <<pointer, cache, outside, pull, pulled, counts>>

\* No pointer and a pointer that pins no commit mean no policy; an ambiguous one fails.
ReadPointer(v) ==
    /\ verify[v].pc \in {"idle", "passed", "failed"}
    /\ Answer(v, [Started(IF Selected.form = "ambiguous" THEN "failed"
                          ELSE IF Selected # Absent /\ IsPinned(Selected) THEN "hash"
                          ELSE "depends") EXCEPT !.doc = Selected, !.under = pulled])

\* As below, but any cached bundle will do.
HashHolds_Exists(doc) == doc.sha # NoPin /\ cache[doc.pin] # Nothing

\* The hash of the cached bundle must be the pointer's.
HashHolds(doc) == doc.sha # NoPin /\ cache[doc.pin] # Nothing /\ cache[doc.pin] = doc.sha
CheckHash(v) == verify[v].pc = "hash"
                /\ Answer(v, [verify[v] EXCEPT !.pc = IF HashHolds(verify[v].doc) THEN "load" ELSE "failed"])

\* The settings the floor of a bundle asks more of.
FloorViolations(bundle) == {k \in DOMAIN local : bundle \in Commits /\ FloorOf[bundle][k] > local[k]}

\* The file is read a second time, parsed, and its floor compared with the local settings.
Load(v) == LET file == cache[verify[v].doc.pin] IN
           /\ verify[v].pc = "load"
           /\ Answer(v, [verify[v] EXCEPT
                           !.pc = IF file \in {Nothing, Half} \/ FloorViolations(file) # {}
                                  THEN "failed" ELSE "depends",
                           !.bundle = file, !.settings = local])

\* checkMissionDependency: the newest receipt fetched passed, on a commit with a good signature.
Newest == Last(SubSeq(receipts, 1, fetched))
DependencyHolds == fetched > 0 /\ Newest
Depends(v) == verify[v].pc = "depends"
              /\ Answer(v, [verify[v] EXCEPT !.pc = IF DependencyHolds THEN "passed" ELSE "failed"])

OrgNext == \/ Publish \/ Edit \/ EditSettings \/ EditCache \/ Receive \/ FetchDependency \/ Migrate
           \/ \E p \in Pulls : \/ PullStart(p) \/ Fetch(p) \/ WriteHalf(p) \/ WriteRest(p)
                               \/ Hash(p) \/ Pin(p) \/ PullCrash(p)
           \/ \E v \in Verifies : ReadPointer(v) \/ CheckHash(v) \/ Load(v) \/ Depends(v)
OrgSpec == OrgInit /\ [][OrgNext]_orgVars

\* The verifies that passed after a pull pinned a commit, the cache not changed by hand between
\* the pull's write and its hash, nor between the two reads of the verify.
UnderCommit == {v \in Verifies : /\ verify[v].pc = "passed" /\ verify[v].steady
                                 /\ verify[v].under # NoPull /\ verify[v].under.name \in Commits
                                 /\ verify[v].under.bundle # Foreign}

(***************************************************************************)
(* A verify that passes after a pull pinned a commit, with no edit of the  *)
(* pointer since, was held to the bundle of that commit and to its whole   *)
(* floor: whatever form the pointer had, other pulls, migrations and       *)
(* crashes in between, the cache emptied, rewritten or changed.            *)
(***************************************************************************)
PassMeetsTheFloor ==
    \A v \in UnderCommit :
        /\ verify[v].bundle = verify[v].under.from
        /\ \A k \in DOMAIN local : FloorOf[verify[v].under.from][k] <= verify[v].settings[k]

\* docs/guides/org-control-plane.md:44: "A present pointer with a missing cache, a hash mismatch
\* or an invalid signer fails closed": what a pull pinned is in force, or verify fails.
PullsAreInForce ==
    \A v \in Verifies : verify[v].pc = "passed" /\ verify[v].under # NoPull => verify[v].bundle # Nothing
=============================================================================
