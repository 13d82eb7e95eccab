\* The request/response file protocol between simulator and bridge, clean
\* start, an evaluation that may raise: every request is read whole and
\* answered with its own action unless the bridge died, and the
\* bridge exits when the marker goes.
CONSTANTS
    MaxRequests = 3
    StaleFiles = FALSE
    EvalMayFail = TRUE
SPECIFICATION Spec

 
INVARIANT ResponseMatchesRequest
PROPERTY EveryRequestAnswered
PROPERTY BridgeCloses
PROPERTY ImplementsRpc
\* Both processes exit, or the bridge died and the simulator waits for ever.
CHECK_DEADLOCK FALSE
