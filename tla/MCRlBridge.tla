------------------------------ MODULE MCRlBridge ------------------------------
(***************************************************************************)
(* Three requests: enough for the files of one exchange to be reused by    *)
(* the next two while the bridge is at any point of its loop.              *)
(***************************************************************************)
EXTENDS RlBridge
=============================================================================
