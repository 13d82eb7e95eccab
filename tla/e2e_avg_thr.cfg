\* get_e2e_avg_throughput refines its contract on traces whose delays are
\* all positive, as the simulator writes them.
CONSTANTS
    NumRuns = 2
    Clients <- MCClients
    Sizes <- MCTwoSizes
    RxOffsets = {1, 2}
    Delays = {1}
    MaxRows = 2
    ParseOutcomes = {TRUE}
    LatencyStride = 2
    Aggregators <- MCAvgThroughput
SPECIFICATION Spec
 
INVARIANT ErroredRunNeverRead
INVARIANT EmptyTraceCount
PROPERTY ImplementsContract
\* The aggregation function returns; the script goes on with its caller.
CHECK_DEADLOCK FALSE
