---------------------------- MODULE MCPhyThroughput ----------------------------
EXTENDS PhyThroughput

\* Frames just before and after APP_START and around app_run_time + APP_START.
MCAroundEdges == {-1, 1, 2999, 3000}
=============================================================================
