---------------------------- MODULE MCSupervision ----------------------------
(***************************************************************************)
(* Two parts that run a command and supervise it, and share no state, in   *)
(* one run: the session cage (CageSession) and the flights of runtime exec *)
(* (RuntimeExec).  A behaviour is one of the part that its start chose; the*)
(* other part does nothing.                                                *)
(***************************************************************************)
EXTENDS CageSession, RuntimeExec, TLC

CONSTANTS p1, p2, s0, plain

OnePath    == {p1}
TwoPaths   == {p1, p2}
NoPaths    == {}
StartAll   == [p \in Paths |-> [sha |-> s0, mode |-> plain]]
-----------------------------------------------------------------------------
VARIABLE part

all == <<vars, flightVars, part>>

\* A part that does nothing starts in one of its states.
SupervisionInit == /\ part \in {"session", "flights"}
                   /\ Init /\ FlightInit
                   /\ part # "session" => haltOn

SupervisionNext == \/ part = "session" /\ UNCHANGED <<flightVars, part>> /\ Next
                   \/ part = "flights" /\ UNCHANGED <<vars, part>> /\ FlightNext

\* The fairness of CageSession and of RuntimeExec.
SupervisionFairness ==
    /\ WF_vars(part = "session" /\ TickStep) /\ WF_vars(part = "session" /\ Finish)
    /\ WF_vars(part = "session" /\ TerminateSkip) /\ WF_vars(part = "session" /\ Terminate)
    /\ SF_vars(part = "session" /\ FinalScan) /\ SF_vars(part = "session" /\ ExitEvent)
    /\ SF_vars(part = "session" /\ Kill)
    /\ \A f \in Flights : WF_flightVars(part = "flights" /\ ExecStep(f))
    /\ \A f \in Timed : /\ WF_flightVars(part = "flights" /\ Timer(f))
                         /\ WF_flightVars(part = "flights" /\ Obeys(f))

SupervisionSpec == SupervisionInit /\ [][SupervisionNext]_all /\ SupervisionFairness
=============================================================================
