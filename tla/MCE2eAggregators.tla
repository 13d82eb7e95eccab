--------------------------- MODULE MCE2eAggregators ---------------------------
(***************************************************************************)
(* Bounds for checking E2eAggregators.  Two results, so that a skipped     *)
(* run can precede or follow a used one; two clients, so that one client   *)
(* of a run can be skipped while the other is kept; traces of up to two    *)
(* rows, receive times at or one ns after the boundary, delays of 0 or 1.  *)
(***************************************************************************)
EXTENDS E2eAggregators

MCClients == {1, 2}
MCSizes == {1}
\* Two packet sizes, where a single aggregator is checked.
MCTwoSizes == {1, 2}
\* Three aggregators, on traces where a zero span after the boundary
\* can occur (a packet sent at the boundary with a zero delay).
MCAllAggregators == {"ue_thr", "avg_lat", "ue_lat"}
\* get_e2e_avg_throughput on realistic traces: every delay is positive.
MCAvgThroughput == {"avg_thr"}
\* get_e2e_ue_throughput alone, for the run about its one-packet comment.
MCUeThroughput == {"ue_thr"}
=============================================================================
