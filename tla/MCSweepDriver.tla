----------------------------- MODULE MCSweepDriver -----------------------------
(***************************************************************************)
(* The sweep with the script's own axes, weightPolicy [1, 2, 3] and        *)
(* allocationPeriod [2, 4].                                                *)
(***************************************************************************)
EXTENDS SweepDriver

MCPolicies == <<1, 2, 3>>
MCPeriods == <<2, 4>>
MCOkOrError == {"ok", "error"}
=============================================================================
