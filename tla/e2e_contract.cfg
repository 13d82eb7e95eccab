\* The ue throughput and both latency aggregators refine their contract.
CONSTANTS
    NumRuns = 2
    Clients <- MCClients
    Sizes <- MCSizes
    RxOffsets = {0, 1}
    Delays = {0, 1}
    MaxRows = 2
    ParseOutcomes = {TRUE, FALSE}
    LatencyStride = 2
    Aggregators <- MCAllAggregators
SPECIFICATION Spec
INVARIANT TypeOK
INVARIANT ErroredRunNeverRead
INVARIANT EmptyTraceCount
PROPERTY ImplementsContract
\* The aggregation function returns; the script goes on with its caller.
CHECK_DEADLOCK FALSE
