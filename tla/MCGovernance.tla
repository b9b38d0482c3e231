------------------------------ MODULE MCGovernance -----------------------------
(***************************************************************************)
(* Four parts that share no state, in one run: what verify leaves behind   *)
(* (VerifyOutcome), upgrades (Upgrade), the policy floor (OrgPolicy) and   *)
(* the scaffold (Scaffold).  A behaviour is one of the part that its start *)
(* chose; the other parts do nothing.                                      *)
(***************************************************************************)
EXTENDS VerifyOutcome, Upgrade, OrgPolicy, Scaffold, TLC

CONSTANTS p1, p2, n1, n2, k1, k2, k3, v1, script, doc, local1, ignore, own, wanted

\* The processes of every part; missions and managed files.
MCProcs == {p1, p2}
MCNames == {n1, n2}
Alike == {f @@ g : f \in Permutations(MCProcs), g \in Permutations(MCNames)}

\* One finding, the same at another line, and two others.
MCReports == {{[key |-> k1, line |-> 1]}, {[key |-> k1, line |-> 2]},
              {[key |-> k2, line |-> 1]}, {[key |-> k3, line |-> 1]}}

\* The upgrade band.
MCNumbers == {9000}

\* Commit 2's bundle asks for more than commit 1's.
MCFloors == << [ledger |-> 1], [ledger |-> 2] >>

\* An ignore file that init wants a line in.
MCFragment == [g \in IgnoreFiles |-> {wanted}]
-----------------------------------------------------------------------------
VARIABLE part

vars == <<outcomeVars, upgradeVars, orgVars, scaffoldVars, part>>

\* A part that does nothing starts in one of its states.
GovernanceInit == /\ part \in {"outcome", "upgrade", "org", "scaffold"}
                  /\ OutcomeInit /\ UpgradeInit /\ OrgInit /\ ScaffoldInit
                  /\ part # "upgrade" => \A f \in Assets : files[f] = 0
                  /\ part # "org" => yaml = Absent /\ \A k \in DOMAIN local : local[k] = 0
                  /\ part # "scaffold" => /\ \A f \in Scaffolded : disk[f] = "absent"
                                          /\ \A g \in IgnoreFiles : ignored[g] = {}

GovernanceNext ==
    \/ part = "outcome" /\ UNCHANGED <<upgradeVars, orgVars, scaffoldVars, part>> /\ OutcomeNext
    \/ part = "upgrade" /\ UNCHANGED <<outcomeVars, orgVars, scaffoldVars, part>> /\ UpgradeNext
    \/ part = "org" /\ UNCHANGED <<outcomeVars, upgradeVars, scaffoldVars, part>> /\ OrgNext
    \/ part = "scaffold" /\ UNCHANGED <<outcomeVars, upgradeVars, orgVars, part>> /\ ScaffoldNext

GovernanceSpec == GovernanceInit /\ [][GovernanceNext]_vars
=============================================================================
