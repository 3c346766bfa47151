--------------------------- MODULE MCPvrSyncIoctl ---------------------------
(* Model values for the threads of PvrSyncIoctl.                           *)
EXTENDS PvrSyncIoctl
=============================================================================
