\* get_e2e_ue_throughput on realistic traces (every packet received after
\* the warm-up boundary): a client with a single packet still contributes
\* its throughput, although the comment above the span says it is skipped.
CONSTANTS
    NumRuns = 1
    Clients <- MCClients
    Sizes <- MCSizes
    RxOffsets = {1}
    Delays = {1}
    MaxRows = 2
    ParseOutcomes = {TRUE}
    LatencyStride = 2
    Aggregators <- MCUeThroughput
SPECIFICATION Spec
INVARIANT OnePacketClientSkipped
\* The aggregation function returns; the script goes on with its caller.
CHECK_DEADLOCK FALSE
