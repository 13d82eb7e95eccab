\* get_e2e_avg_throughput on a trace whose last packet is received at the
\* warm-up boundary: the code appends inf where spec 4.4 skips the run.
CONSTANTS
    NumRuns = 1
    Clients <- MCClients
    Sizes <- MCSizes
    RxOffsets = {0, 1}
    Delays = {0, 1}
    MaxRows = 2
    ParseOutcomes = {TRUE}
    LatencyStride = 2
    Aggregators <- MCAvgThroughput
SPECIFICATION Spec
PROPERTY ImplementsContract
\* The aggregation function returns; the script goes on with its caller.
CHECK_DEADLOCK FALSE
