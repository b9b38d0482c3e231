----------------------------- MODULE ArchAccess -----------------------------
(***************************************************************************)
(* Architecture documents kept elsewhere (packages/missions:               *)
(* arch/external/*; gantry arch pointer, cred and fetch).  A tracked       *)
(* pointer says where the document is and which credential slot opens it;  *)
(* the credentials are files of the working tree, one per slot, with "/"   *)
(* written as "__" in the file name.  A fetch reads both, then waits for   *)
(* the network.                                                            *)
(***************************************************************************)
EXTENDS Naturals, FiniteSets

CONSTANTS Slots,      \* slot names
          FileOf,     \* the file of each slot: two slots may have the same
          CredentialKinds,  \* kinds of credential: "basic" and "custom" are read as JSON
          MaxChanges  \* bound on the changes of the pointer and the credentials

ASSUME SlotsAssumption == DOMAIN FileOf = Slots
ASSUME ChangesAssumption == MaxChanges \in Nat

VARIABLES pointer,  \* the architecture pointer as it is written
          files,    \* the credential files
          fetch,    \* gantry arch fetch: its state and what it sent
          stored,   \* history: the secrets that were stored, with their slot
          changes   \* counter for the bound

accessVars == <<pointer, files, fetch, stored, changes>>

NoFile == [slot |-> "no file"]
NoSlot == "no slot"
SlotFiles == {FileOf[s] : s \in Slots}

Pointers == [kind : {"unset", "file", "directory", "external"},
             location : {"empty", "relative", "dotdot", "absolute", "url"},
             required : BOOLEAN, slot : Slots \cup {NoSlot}]

\* validateArchitecturePointer: what loadArchitecturePointer answers and what it refuses.
Valid(p) == /\ p.kind # "unset" => p.location # "empty"
            /\ p.location # "dotdot"
            /\ p.location = "absolute" => p.kind = "unset"

Idle == [pc |-> "idle", pointer |-> [kind |-> "none"], secret |-> NoFile, answer |-> "none"]

AccessInit == /\ pointer \in {p \in Pointers : p.kind = "unset" /\ p.location = "empty" /\ p.slot = NoSlot /\ ~p.required}
              /\ files = [n \in SlotFiles |-> NoFile] /\ fetch = Idle /\ stored = {} /\ changes = 0

Change == changes < MaxChanges /\ changes' = changes + 1

EditPointer == /\ Change /\ pointer' \in Pointers
               /\ UNCHANGED <<files, fetch, stored>>

\* parseCredentialValuesFromStdin: what is read, or nothing when it is not what the kind asks for.
Parsed(kind, input) == IF kind \in {"basic", "custom"} THEN input = "json" ELSE input # "empty"

\* gantry arch cred set: the slot's file is overwritten, whichever slot it was written for.
CredSet(s, kind) ==
    /\ Change
    /\ \E input \in {"empty", "text", "json"} :
         /\ Parsed(kind, input)
         /\ files' = [files EXCEPT ![FileOf[s]] = [slot |-> s, kind |-> kind, secret |-> changes]]
         /\ stored' = stored \cup {<<s, changes>>}
    /\ UNCHANGED <<pointer, fetch>>

\* gantry arch cred unset: the slot's file is removed, whichever slot it was written for.
CredUnset(s) == /\ Change /\ files[FileOf[s]] # NoFile
                /\ files' = [files EXCEPT ![FileOf[s]] = NoFile]
                /\ UNCHANGED <<pointer, fetch, stored>>

\* As below, but a file is taken for the slot whose name it has.
Loaded_AnySlot(s) == IF files[FileOf[s]] = NoFile THEN "missing" ELSE "found"

\* loadArchitectureCredential: a file that names another slot is refused.
Loaded(s) == IF files[FileOf[s]] = NoFile THEN "missing"
             ELSE IF files[FileOf[s]].slot # s THEN "mismatch" ELSE "found"

\* What stops a fetch before the request: an error, or the fallback to the discovery skill.
Stopped == IF ~Valid(pointer) THEN "error"
           ELSE IF pointer.kind # "external" \/ pointer.location # "url" THEN "fallback"
           ELSE IF pointer.slot # NoSlot
                THEN CASE Loaded(pointer.slot) = "missing" -> "fallback"
                       [] Loaded(pointer.slot) = "mismatch" -> "error"
                       [] OTHER -> "none"
           ELSE IF pointer.required THEN "fallback" ELSE "none"

\* fetchExternalArchitecture up to the request, which carries the slot's credential.
FetchStart ==
    /\ fetch.pc = "idle"
    /\ fetch' = IF Stopped # "none" THEN [Idle EXCEPT !.answer = Stopped]
                ELSE [pc |-> "sent", pointer |-> pointer, answer |-> "none",
                      secret |-> IF pointer.slot = NoSlot THEN NoFile ELSE files[FileOf[pointer.slot]]]
    /\ UNCHANGED <<pointer, files, stored, changes>>

\* The response: any status but 2xx, a body over the limit and a failure mean the fallback.
FetchEnd == /\ fetch.pc = "sent"
            /\ \E answer \in {"fetched", "fallback"} : fetch' = [fetch EXCEPT !.pc = "idle", !.answer = answer]
            /\ UNCHANGED <<pointer, files, stored, changes>>

AccessNext == \/ EditPointer \/ FetchStart \/ FetchEnd
              \/ \E s \in Slots : CredUnset(s) \/ \E kind \in CredentialKinds : CredSet(s, kind)
AccessSpec == AccessInit /\ [][AccessNext]_accessVars

(***************************************************************************)
(* A request carries no secret but one stored for the very slot the pointer*)
(* named when it was read, and none goes out without one when the pointer  *)
(* requires access: also when two slots share a file and are set and       *)
(* removed in turns.                                                       *)
(***************************************************************************)
SecretsStayInTheirSlot ==
    fetch.pointer.kind # "none" =>
        /\ fetch.secret # NoFile => <<fetch.pointer.slot, fetch.secret.secret>> \in stored
        /\ fetch.secret = NoFile => ~fetch.pointer.required /\ fetch.pointer.slot = NoSlot

=============================================================================
