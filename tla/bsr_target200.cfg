\* get_bsr_stats drops a report on a link whose target id is exactly 200:
\* it is neither "> 200" nor "< 200".
CONSTANTS
    NumRuns = 1
    TimeOffsets <- MCAround
    Targets = {199, 200, 201}
    Depths = {1}
    BsrValues = {1, 2}
    MaxRows = 1
    BsrStride = 2
    Quartile = 75
    Aggregators <- MCStats
SPECIFICATION Spec
INVARIANT BsrStatsAsSpecified
\* The aggregation function returns; the script goes on with its caller.
CHECK_DEADLOCK FALSE
