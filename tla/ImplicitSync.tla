---------------------------- MODULE ImplicitSync ----------------------------
(***************************************************************************)
(* What buffer synchronisation promises: work on shared buffers runs as if *)
(* in the order it was published, readers of a buffer beside each other.   *)
(***************************************************************************)
CONSTANTS Works,    \* kicks of this driver and work of other drivers
          Buffers

VARIABLES
  uses,     \* the buffers a work reads, and those it writes, once published
  before,   \* the works published before it
  stage     \* where the work is

absVars == <<uses, before, stage>>

NoUse == [read |-> {}, write |-> {}]
Uses == [read : SUBSET Buffers, write : SUBSET Buffers]

\* Do v and w touch a buffer that one of them writes?
Conflict(v, w) ==
  \/ uses[v].write \cap (uses[w].read \cup uses[w].write) # {}
  \/ uses[w].write \cap (uses[v].read \cup uses[v].write) # {}

AbsInit ==
  /\ uses = [w \in Works |-> NoUse]
  /\ before = [w \in Works |-> {}]
  /\ stage = [w \in Works |-> "none"]

AbsPublish(w) ==
  /\ stage[w] = "none"
  /\ \E u \in Uses : uses' = [uses EXCEPT ![w] = u]
  /\ before' = [before EXCEPT ![w] = {v \in Works : stage[v] # "none"}]
  /\ stage' = [stage EXCEPT ![w] = "queued"]

AbsStart(w) ==
  /\ stage[w] = "queued"
  /\ \A v \in before[w] : Conflict(v, w) => stage[v] = "done"
  /\ stage' = [stage EXCEPT ![w] = "running"]
  /\ UNCHANGED <<uses, before>>

AbsFinish(w) ==
  /\ stage[w] = "running"
  /\ stage' = [stage EXCEPT ![w] = "done"]
  /\ UNCHANGED <<uses, before>>

AbsNext == \E w \in Works : AbsPublish(w) \/ AbsStart(w) \/ AbsFinish(w)

AbsSpec == AbsInit /\ [][AbsNext]_absVars

\* Two works that run at the same time do not disturb each other.  Proved in
\* PvrBufferSyncProofs of what kicks and other drivers promise.
NoConflictRuns ==
  \A v, w \in Works :
    v # w /\ stage[v] = "running" /\ stage[w] = "running" => ~Conflict(v, w)
=============================================================================
