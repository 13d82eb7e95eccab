\* One run whose trace has a row that does not cast to int.
CONSTANTS
    NumRuns = 2
    FrameOffsets = {1}
    Tbs = {1}
    ParseOutcomes = {TRUE, FALSE}
    MaxRows = 1
    app_run_time = 3000
SPECIFICATION Spec
PROPERTY AlwaysReturns
\* The script stops at the uncaught ValueError.
CHECK_DEADLOCK FALSE
