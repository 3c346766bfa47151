----------------------------- MODULE SwTimeline -----------------------------
(***************************************************************************)
(* What a software timeline promises to those who wait on its points.      *)
(* Points are numbered from 1 in the order they are defined.  Advancing    *)
(* reaches the next one, which is thereby signalled, and never goes beyond *)
(* the last point defined.  When the timeline is given up every point that *)
(* was defined is signalled, so that nobody waits for ever.                *)
(***************************************************************************)
EXTENDS Naturals

VARIABLES defined,    \* the last point
          reached,    \* the point the timeline is at
          signalled,  \* the points whose fences have signalled
          given_up

vars == <<defined, reached, signalled, given_up>>

Init == defined = 0 /\ reached = 0 /\ signalled = {} /\ given_up = FALSE

Define ==
  /\ ~given_up
  /\ defined' = defined + 1
  /\ UNCHANGED <<reached, signalled, given_up>>

Advance ==
  /\ reached < defined
  /\ reached' = reached + 1
  /\ signalled' = signalled \cup {reached'}
  /\ UNCHANGED <<defined, given_up>>

GiveUp ==
  /\ ~given_up /\ given_up' = TRUE
  /\ signalled' = 1..defined
  /\ UNCHANGED <<defined, reached>>

Next == Define \/ Advance \/ GiveUp
Spec == Init /\ [][Next]_vars
=============================================================================
