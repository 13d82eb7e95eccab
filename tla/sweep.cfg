\* The allocation-period sweep picks each point's runs by the swept values
\* and the caller's grid, and every point includes the run this script
\* simulated for it; runs may fail.
CONSTANTS
    Policies <- MCPolicies
    Periods <- MCPeriods
    SimOutcomes <- MCOkOrError
SPECIFICATION Spec
INVARIANT SweepPointIsolation
 
\* The script ends after the sweep.
CHECK_DEADLOCK FALSE
