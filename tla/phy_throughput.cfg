\* get_throughput on traces with and without an unparsable row, frames on
\* both sides of both window edges.
CONSTANTS
    NumRuns = 2
    FrameOffsets <- MCAroundEdges
    Tbs = {1}
    ParseOutcomes = {TRUE, FALSE}
    MaxRows = 2
    app_run_time = 3000
SPECIFICATION Spec
INVARIANT TypeOK
INVARIANT ThroughputAsSpecified
PROPERTY EndsAsCastDecides
\* The function returns or raises; the script goes on or stops.
CHECK_DEADLOCK FALSE
