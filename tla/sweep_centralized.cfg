\* With non-centralized runs of earlier campaigns in the database, the sweep
\* commented "Centralized scheduler results" aggregates them too.
CONSTANTS
    Policies <- MCPolicies
    Periods <- MCPeriods
    SimOutcomes <- MCOkOrError
SPECIFICATION Spec
INVARIANT CentralizedOnly
\* The script ends after the sweep.
CHECK_DEADLOCK FALSE
