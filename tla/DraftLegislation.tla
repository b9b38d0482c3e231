-------------------------- MODULE DraftLegislation --------------------------
(***************************************************************************)
(* Legislation in two calls of an MCP server: gxt_draft_legislation signs a*)
(* mission into a token, a human reads it, gxt_execute_legislation accepts *)
(* the token once and writes the mission file (packages/missions:          *)
(* draft-token.ts; src/cli/mcp: mcp-draft-legislation.ts,                  *)
(* mcp-execute-legislation.ts; src/cli/flows/legislate.ts).                *)
(*                                                                         *)
(* A server answers one call at a time, but every editor window has its own*)
(* and gantry legislate is a process too: they share the signing key, the  *)
(* list of used tokens and the mission directory, and lock none of them.   *)
(***************************************************************************)
EXTENDS Naturals, Sequences, SequencesExt, FiniteSets, TLC

CONSTANTS Servers,
          Proposals,  \* the missions one can draft: a mission number and a title
          NoKey,      \* DRAFT_TOKEN.key does not exist
          Torn,       \* the list of used tokens while it is being written: it does not parse
          ReplayCap,  \* how many used tokens the list keeps
          TTL,        \* how long a token is valid
          MaxTokens, MaxOutside, MaxCalls, MaxPlain   \* bounds

ASSUME DraftAssumption ==
    ReplayCap \in Nat /\ TTL \in Nat /\ MaxTokens \in Nat /\ Torn \notin Seq(Nat)

VARIABLES key, used, missionFiles,   \* on disk: the key, the list, and the author of each mission file
          head, now,          \* HEAD and the clock
          tokens,             \* tokens[i]: the i-th token signed
          pc, tok,            \* tok[s]: the token server s works on
          old, path,          \* the used tokens a server will write back, the file it will write
          beside,             \* history: calls during which another server wrote a mission
          accepted,           \* history: the tokens accepted, in order
          answered,           \* history: the files answered "pending_signature", and for which token
          lost                \* history: two servers were at the list at once, or one died while it was empty

draftVars == <<key, used, missionFiles, head, now, tokens, pc, tok, old, path, beside, accepted, answered, lost>>
world == <<head, now, lost>>
work == <<old, path>>

NotThere == 0
DraftInit == /\ key = NoKey /\ used = << >>
             /\ missionFiles = [f \in Proposals |-> NotThere]
             /\ head = 1 /\ now = 0
             /\ tokens = << >>
             /\ pc = [s \in Servers |-> "idle"] /\ tok = [s \in Servers |-> 0]
             /\ old = [s \in Servers |-> << >>] /\ path = [s \in Servers |-> {}]
             /\ beside = {} /\ accepted = << >> /\ answered = {} /\ lost = FALSE

Goto(s, step) == pc' = [pc EXCEPT ![s] = step]
Busy == {s \in Servers : pc[s] # "idle"}
End(s) == /\ Goto(s, "idle")
          /\ tok' = [tok EXCEPT ![s] = 0]
          /\ old' = [old EXCEPT ![s] = << >>]
          /\ path' = [path EXCEPT ![s] = {}]
-----------------------------------------------------------------------------
(* gxt_draft_legislation.                                                  *)

\* ensureDraftTokenKey looks for a key.  The checks of the input may refuse the draft before.
DraftMission(s) == /\ pc[s] = "idle" /\ Len(tokens) < MaxTokens
                   /\ \E p \in Proposals :
                         tokens' = Append(tokens, [p |-> p, head |-> head, exp |-> now + TTL, key |-> key])
                   /\ IF key # NoKey THEN End(s)
                      ELSE /\ tok' = [tok EXCEPT ![s] = Len(tokens')]
                           /\ Goto(s, "newKey") /\ UNCHANGED work
                   /\ UNCHANGED <<key, used, missionFiles, world, beside, accepted, answered>>

\* It makes one when there was none.
NewKey(s) == /\ pc[s] = "newKey"
             /\ key' = tok[s]
             /\ tokens' = [tokens EXCEPT ![tok[s]].key = key']
             /\ End(s)
             /\ beside' = beside \ {s}
             /\ UNCHANGED <<used, missionFiles, world, accepted, answered>>
-----------------------------------------------------------------------------
(* gxt_execute_legislation.                                                *)

UsedNow == IF used = Torn THEN << >> ELSE used

\* Faulty variant: the list of used tokens is not looked at.
ValidToken_NoReplayCheck(t) ==
         key # NoKey /\ tokens[t].key = key /\ now <= tokens[t].exp /\ tokens[t].head = head

\* verifyDraftToken: signed here, not expired, of this commit and not in the list.
ValidToken(t) == /\ key # NoKey /\ tokens[t].key = key
                 /\ now <= tokens[t].exp
                 /\ tokens[t].head = head
                 /\ t \notin ToSet(UsedNow)

VerifyToken(s) == /\ pc[s] = "idle" /\ Len(accepted) + Cardinality(Busy) < MaxCalls
                  /\ \E t \in DOMAIN tokens : ValidToken(t) /\ tok' = [tok EXCEPT ![s] = t]
                  /\ Goto(s, "mark")
                  /\ lost' = (lost \/ \E q \in Servers : pc[q] \in {"mark", "open", "fill"})
                  /\ UNCHANGED <<key, used, missionFiles, head, now, tokens, work, beside, accepted, answered>>

\* markDraftUsed reads the list again,
Mark(s) == /\ pc[s] = "mark"
           /\ old' = [old EXCEPT ![s] = UsedNow]
           /\ Goto(s, "open")
           /\ UNCHANGED <<key, used, missionFiles, world, tokens, tok, path, beside, accepted, answered>>

\* empties the file
OpenList(s) == /\ pc[s] = "open"
               /\ used' = Torn
               /\ Goto(s, "fill")
               /\ UNCHANGED <<key, missionFiles, world, tokens, tok, work, beside, accepted, answered>>

Trimmed(list) == SubSeq(list, IF Len(list) > ReplayCap THEN Len(list) - ReplayCap + 1 ELSE 1,
                        Len(list))

\* and writes the newest entries back.  The token is spent, whatever comes of the mission.
FillList(s) == /\ pc[s] = "fill"
               /\ used' = Trimmed(IF tok[s] \in ToSet(old[s]) THEN old[s] ELSE Append(old[s], tok[s]))
               /\ old' = [old EXCEPT ![s] = << >>]
               /\ accepted' = Append(accepted, tok[s])
               /\ Goto(s, "legislate")
               /\ UNCHANGED <<key, missionFiles, world, tokens, tok, path, beside, answered>>

\* gantry legislate, which needs no token, without and with --allow-duplicate: as authors they
\* have numbers beyond the tokens'.
Plain == MaxTokens + 1
AllowDuplicate == MaxTokens + 2
LegislateDirectly(s) == /\ pc[s] = "idle" /\ Len(accepted) + Cardinality(Busy) < MaxCalls
                        /\ Cardinality({a \in answered : a.by >= Plain})
                             + Cardinality({q \in Servers : tok[q] >= Plain}) < MaxPlain
                        /\ \E by \in {Plain, AllowDuplicate} : tok' = [tok EXCEPT ![s] = by]
                        /\ Goto(s, "legislate")
                        /\ UNCHANGED <<key, used, missionFiles, world, tokens, work, beside, accepted, answered>>

Mission(s) == IF tok[s] \in DOMAIN tokens THEN {tokens[tok[s]].p} ELSE Proposals

\* Faulty variant: nothing is looked for.
Clear_Any(s, f) == TRUE

\* Faulty variant: only the path is looked for.
Clear_PathOnly(s, f) == missionFiles[f] = NotThere

\* resolveLegislateOutputPath and assertLegislateDuplicatePolicy: there is no such file, and none
\* of that mission number unless a duplicate is asked for.
Clear(s, f) == /\ missionFiles[f] = NotThere
               /\ tok[s] = AllowDuplicate \/ \A g \in Proposals : missionFiles[g] # NotThere => g.msn # f.msn

\* runLegislate looks, asks the interrogation again, and refuses or goes on.
Look(s) == /\ pc[s] = "legislate"
           /\ \/ /\ \E f \in Mission(s) : Clear(s, f) /\ path' = [path EXCEPT ![s] = {f}]
                 /\ Goto(s, "write")
                 /\ UNCHANGED <<tok, old, beside>>
              \/ End(s) /\ beside' = beside \ {s}
           /\ UNCHANGED <<key, used, missionFiles, world, tokens, accepted, answered>>

Write(s) == /\ pc[s] = "write"
            /\ \E f \in path[s] :
                 /\ missionFiles' = [missionFiles EXCEPT ![f] = tok[s]]
                 /\ answered' = answered \cup {[f |-> f, by |-> tok[s], beside |-> s \in beside]}
            /\ End(s)
            /\ beside' = (beside \cup Busy) \ {s}
            /\ UNCHANGED <<key, used, world, tokens, accepted>>

\* The process ends: a list it was writing stays torn.
ServerCrash(s) == /\ pc[s] # "idle"
                  /\ End(s)
                  /\ beside' = beside \ {s}
                  /\ lost' = (lost \/ pc[s] = "fill")
                  /\ UNCHANGED <<key, used, missionFiles, head, now, tokens, accepted, answered>>
-----------------------------------------------------------------------------
\* The clock, a commit, and somebody who removes a mission file.
Tick == /\ now + head < MaxOutside
        /\ now' = now + 1
        /\ UNCHANGED <<key, used, missionFiles, head, lost, tokens, pc, tok, work, beside, accepted, answered>>

CommitAny == /\ now + head < MaxOutside
             /\ head' = head + 1
             /\ UNCHANGED <<key, used, missionFiles, now, lost, tokens, pc, tok, work, beside, accepted, answered>>

RemoveFile == \E f \in Proposals :
             /\ missionFiles[f] # NotThere
             /\ missionFiles' = [missionFiles EXCEPT ![f] = NotThere]
             /\ answered' = {a \in answered : a.f # f}
             /\ UNCHANGED <<key, used, world, tokens, pc, tok, work, beside, accepted>>

ServerStep(s) == \/ DraftMission(s) \/ NewKey(s) \/ VerifyToken(s) \/ Mark(s) \/ OpenList(s) \/ FillList(s)
                 \/ LegislateDirectly(s) \/ Look(s) \/ Write(s) \/ ServerCrash(s)
DraftNext == (\E s \in Servers : ServerStep(s)) \/ Tick \/ CommitAny \/ RemoveFile
DraftSpec == DraftInit /\ [][DraftNext]_draftVars
-----------------------------------------------------------------------------
(* Properties.                                                             *)

\* A token is accepted once.  The three ways round that are the code's: the list keeps only its
\* newest entries, two servers are at it at once, or one dies while it is empty.
SpentOnce ==
    \A j \in DOMAIN accepted : \A i \in 1 .. j - 1 :
        accepted[i] = accepted[j] =>
            lost \/ Cardinality({accepted[k] : k \in i + 1 .. j - 1}) >= ReplayCap

\* What a human was told to commit is what the token said: until somebody removes it, the file
\* named in an answer is the one its call wrote, unless a call that ran beside another wrote it too.
AnswerStands ==
    \A a \in answered : missionFiles[a.f] # a.by => \E b \in answered : b.f = a.f /\ b # a /\ b.beside

\* A mission number has one file, unless two calls overlapped or the second was asked for.
OneFilePerNumber ==
    \A a, b \in answered : a.f # b.f /\ a.f.msn = b.f.msn =>
        a.beside \/ b.beside \/ AllowDuplicate \in {a.by, b.by}

\* What gxt_execute_legislation and gantry legislate answered holds of the mission directory.
AnswersStand == AnswerStands /\ OneFilePerNumber
=============================================================================
