----------------------- MODULE MCPvrCountingTimeline ------------------------
(* PvrCountingTimeline on a small instance.                                *)
EXTENDS PvrCountingTimeline, TLC
=============================================================================
