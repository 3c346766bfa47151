--------------------------- MODULE TimelinePhases ---------------------------
(***************************************************************************)
(* The contract of a sync timeline's configuration, as the comment at the  *)
(* head of pvr_sync_ioctl_common.c states it.  A timeline is open to       *)
(* configuration at first; one operation at a time configures it.  It is   *)
(* closed to configuration once and for all, and is used only when closed  *)
(* and when no configuration is still running.  Closing it while one runs  *)
(* is allowed: the user that does it is refused.                           *)
(***************************************************************************)
CONSTANT Threads

VARIABLES
  closed,        \* no configuration may start any more
  configuring,   \* the threads inside a configuration ioctl
  using          \* the threads inside any other operation

vars == <<closed, configuring, using>>

Init ==
  /\ closed = FALSE
  /\ configuring = {}
  /\ using = {}

StartConfig(t) ==
  /\ ~closed
  /\ configuring = {}
  /\ using = {}
  /\ configuring' = {t}
  /\ UNCHANGED <<closed, using>>

EndConfig(t) ==
  /\ t \in configuring
  /\ configuring' = configuring \ {t}
  /\ UNCHANGED <<closed, using>>

Close ==
  /\ closed' = TRUE
  /\ UNCHANGED <<configuring, using>>

StartUse(t) ==
  /\ closed
  /\ configuring = {}
  /\ t \notin using
  /\ using' = using \cup {t}
  /\ UNCHANGED <<closed, configuring>>

EndUse(t) ==
  /\ t \in using
  /\ using' = using \ {t}
  /\ UNCHANGED <<closed, configuring>>

Next ==
  \/ Close
  \/ \E t \in Threads :
        StartConfig(t) \/ EndConfig(t) \/ StartUse(t) \/ EndUse(t)

Spec == Init /\ [][Next]_vars
=============================================================================
