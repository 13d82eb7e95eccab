\* get_bsr_stats pools the downsampled UE-link and IAB-link samples as the
\* spec defines them, when no sample lies at the boundary or targets id 200;
\* get_bsr_quartile_vs_depth reports one (percentile, depth) pair per
\* non-empty depth bucket (depths 1 and 3 as in spec 8.6, and depth 4, which
\* is no key of bsr_map) or stops at the KeyError.
CONSTANTS
    NumRuns = 2
    TimeOffsets <- MCAround
    Targets = {199, 201}
    Depths = {1, 3, 4}
    BsrValues = {1, 2}
    MaxRows = 2
    BsrStride = 2
    Quartile = 75
    Aggregators <- MCBoth
SPECIFICATION Spec
INVARIANT TypeOK
INVARIANT BsrStatsAsSpecified
INVARIANT DepthPairsAsSpecified
PROPERTY DepthOutcome
\* The function returns, or the script stops at the KeyError.
CHECK_DEADLOCK FALSE
