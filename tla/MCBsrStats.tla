------------------------------ MODULE MCBsrStats ------------------------------
(***************************************************************************)
(* Bounds for checking BsrStats.  Two results so that samples of two runs  *)
(* are pooled; two rows per trace so that downsampling with stride 2 keeps *)
(* the first and drops the second; receive times one ns before and after  *)
(* the warm-up boundary.                                                   *)
(***************************************************************************)
EXTENDS BsrStats

\* Reports one ns before and one ns after the warm-up boundary.
MCAround == {-1, 1}
MCStats == {"bsr_stats"}
\* Both aggregators, each called on its own result list.
MCBoth == {"bsr_stats", "bsr_depth"}
=============================================================================
