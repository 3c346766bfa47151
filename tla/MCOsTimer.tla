----------------------------- MODULE MCOsTimer -----------------------------
(* Two slots and three users: the table fills up, a slot passes from one    *)
(* user to another, and two timers share the work queue.                   *)
EXTENDS OsTimer
=============================================================================
