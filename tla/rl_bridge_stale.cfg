\* Response files left by a crashed earlier session: the first request is
\* answered with the stale action.
CONSTANTS
    MaxRequests = 1
    StaleFiles = TRUE
    EvalMayFail = FALSE
SPECIFICATION Spec
INVARIANT ResponseMatchesRequest
\* Both processes exit: the simulator stops, the bridge closes.
CHECK_DEADLOCK FALSE
