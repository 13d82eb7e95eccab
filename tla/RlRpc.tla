-------------------------------- MODULE RlRpc --------------------------------
(***************************************************************************)
(* What the RL bridge promises the simulator (spec.md section 6), with the *)
(* files abstracted away: a remote call per request.  The simulator asks   *)
(* request n when its previous call has returned; the bridge answers the   *)
(* outstanding request once, with the action computed for it; the         *)
(* simulator takes that answer.  The bridge may die while a request is    *)
(* outstanding (nothing in client.py catches an exception), and leaves    *)
(* once the simulator has withdrawn the listening marker.                  *)
(***************************************************************************)
EXTENDS Integers

CONSTANTS
    MaxRequests,  \* requests the simulator sends in a session
    NoAction      \* what the simulator holds before its first answer

VARIABLES
    asked,      \* number of requests the simulator has issued
    answered,   \* number of requests the bridge has answered
    got,        \* the action the simulator took last
    alive,      \* the bridge process is running
    listening,  \* the simulator still wants answers
    closed      \* the bridge has left its loop
vars == <<asked, answered, got, alive, listening, closed>>

Init ==
    /\ asked = 0 /\ answered = 0 /\ got = NoAction
    /\ alive = TRUE /\ listening = TRUE /\ closed = FALSE

\* The previous call has returned to the simulator.
CallReturned == answered = asked /\ (asked = 0 \/ got = asked)

Request ==
    /\ listening /\ CallReturned /\ asked < MaxRequests
    /\ asked' = asked + 1
    /\ UNCHANGED <<answered, got, alive, listening, closed>>

\* The answer to request n is the action computed for n.
Answer ==
    /\ alive /\ answered < asked
    /\ answered' = answered + 1
    /\ UNCHANGED <<asked, got, alive, listening, closed>>

Take ==
    /\ answered = asked /\ asked > 0 /\ got # asked
    /\ got' = answered
    /\ UNCHANGED <<asked, answered, alive, listening, closed>>

Crash ==
    /\ alive /\ answered < asked
    /\ alive' = FALSE
    /\ UNCHANGED <<asked, answered, got, listening, closed>>

Stop ==
    /\ listening /\ CallReturned
    /\ listening' = FALSE
    /\ UNCHANGED <<asked, answered, got, alive, closed>>

Close ==
    /\ ~listening /\ alive /\ ~closed
    /\ closed' = TRUE
    /\ UNCHANGED <<asked, answered, got, alive, listening>>

Next == Request \/ Answer \/ Take \/ Crash \/ Stop \/ Close

\* A live bridge answers, the simulator takes an answer that is there, and
\* the bridge leaves once the marker is gone; whether the simulator asks
\* again or stops, and whether the bridge dies, is not forced.
Spec == Init /\ [][Next]_vars
        /\ WF_vars(Answer) /\ WF_vars(Take) /\ WF_vars(Close)
=============================================================================
