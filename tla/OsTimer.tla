------------------------------ MODULE OsTimer ------------------------------
(***************************************************************************)
(* The periodic timers of the OS layer (osfunc.c:1461-1656): a table of     *)
(* slots, each with a kernel timer and a work item.  The timer expires in   *)
(* soft interrupt context and only queues the work; the work calls back    *)
(* and arms the timer again.  Users add, enable, disable and remove timers *)
(* while both run.                                                         *)
(*                                                                         *)
(* A user keeps the order the assertions of the code ask for (add, enable, *)
(* disable, ..., remove), and does not disable a timer from a callback.    *)
(***************************************************************************)
EXTENDS Integers, FiniteSets

CONSTANTS
  NumTimers,  \* OS_MAX_TIMERS
  Users,      \* threads that own at most one timer at a time
  None        \* no timer, no user

ASSUME TimerAssumption ==
  /\ NumTimers \in Nat \ {0}
  /\ None \notin Users /\ None \notin Nat

Timers == 0 .. NumTimers - 1

VARIABLES
  user_pc,  \* where a user is
  handle,   \* the timer a user holds
  bInUse, bActive,
  pvData,   \* the user a timer calls back for
  pending,  \* sTimer waits to expire
  firing,   \* OSTimerCallbackWrapper has begun and has not queued the work
  queued,   \* sWork is in psTimerWorkQueue
  running,  \* where the work function is: no, test, call, arm, out
  awaited   \* executions of each work a flush_workqueue still waits for

timerVars ==
  <<user_pc, handle, bInUse, bActive, pvData, pending, firing, queued,
    running, awaited>>
userVars == <<user_pc, handle>>
slotVars == <<bInUse, bActive, pvData>>
kernelVars == <<pending, firing, queued, running>>

Idle == "idle"    \* holds no timer
Off == "off"      \* holds a timer that is not enabled
On == "on"        \* holds an enabled timer
Enabling == {"setup", "arm"}
Disabling == {"flush1", "delete", "flush2", "wait1", "wait2"}

TimerTypeOK ==
  /\ user_pc \in [Users -> {Idle, Off, On} \cup Enabling \cup Disabling]
  /\ handle \in [Users -> Timers \cup {None}]
  /\ bInUse \in [Timers -> BOOLEAN] /\ bActive \in [Timers -> BOOLEAN]
  /\ pvData \in [Timers -> Users \cup {None}]
  /\ pending \in [Timers -> BOOLEAN] /\ firing \in [Timers -> BOOLEAN]
  /\ queued \in [Timers -> BOOLEAN]
  /\ running \in [Timers -> {"no", "test", "call", "arm", "out"}]
  /\ awaited \in [Users -> [Timers -> 0 .. 2]]

(* PVROSFuncInit makes the queue and the works; the table is static. *)
TimerInit ==
  /\ user_pc = [u \in Users |-> Idle]
  /\ handle = [u \in Users |-> None]
  /\ bInUse = [t \in Timers |-> FALSE]
  /\ bActive = [t \in Timers |-> FALSE]
  /\ pvData = [t \in Timers |-> None]
  /\ pending = [t \in Timers |-> FALSE]
  /\ firing = [t \in Timers |-> FALSE]
  /\ queued = [t \in Timers |-> FALSE]
  /\ running = [t \in Timers |-> "no"]
  /\ awaited = [u \in Users |-> [t \in Timers |-> 0]]

-----------------------------------------------------------------------------
(* OSAddTimer takes the first free slot under sTimerStructLock ... *)
IsFirstFree(t) == ~bInUse[t] /\ \A s \in 0 .. t - 1 : bInUse[s]

(* With every slot in use it returns NULL and changes nothing: no step. *)
AddTimer(u) ==
  /\ user_pc[u] = Idle
  /\ \E t \in Timers :
       /\ IsFirstFree(t)
       /\ bInUse' = [bInUse EXCEPT ![t] = TRUE]
       /\ handle' = [handle EXCEPT ![u] = t]
  /\ user_pc' = [user_pc EXCEPT ![u] = "setup"]
  /\ UNCHANGED <<bActive, pvData, kernelVars, awaited>>

(* ... and sets it up outside the lock.  timer_setup leaves no timer       *)
(* pending, whatever it finds.                                             *)
SetUpTimer(u) ==
  LET t == handle[u] IN
  /\ user_pc[u] = "setup"
  /\ pvData' = [pvData EXCEPT ![t] = u]
  /\ bActive' = [bActive EXCEPT ![t] = FALSE]
  /\ pending' = [pending EXCEPT ![t] = FALSE]
  /\ user_pc' = [user_pc EXCEPT ![u] = Off]
  /\ UNCHANGED <<handle, bInUse, firing, queued, running, awaited>>

OSRemoveTimer(u) ==
  /\ user_pc[u] = Off
  /\ bInUse' = [bInUse EXCEPT ![handle[u]] = FALSE]
  /\ handle' = [handle EXCEPT ![u] = None]
  /\ user_pc' = [user_pc EXCEPT ![u] = Idle]
  /\ UNCHANGED <<bActive, pvData, kernelVars, awaited>>

-----------------------------------------------------------------------------
(* OSEnableTimer. *)
EnableTimer(u) ==
  /\ user_pc[u] = Off
  /\ bActive' = [bActive EXCEPT ![handle[u]] = TRUE]
  /\ user_pc' = [user_pc EXCEPT ![u] = "arm"]
  /\ UNCHANGED <<handle, bInUse, pvData, kernelVars, awaited>>

AddKernelTimer(u) ==
  /\ user_pc[u] = "arm"
  /\ pending' = [pending EXCEPT ![handle[u]] = TRUE]
  /\ user_pc' = [user_pc EXCEPT ![u] = On]
  /\ UNCHANGED <<handle, slotVars, firing, queued, running, awaited>>

-----------------------------------------------------------------------------
(* OSDisableTimer. *)
DisableTimer(u) ==
  /\ user_pc[u] = On
  /\ bActive' = [bActive EXCEPT ![handle[u]] = FALSE]
  /\ user_pc' = [user_pc EXCEPT ![u] = "flush1"]
  /\ UNCHANGED <<handle, bInUse, pvData, kernelVars, awaited>>

(* The executions flush_workqueue waits for: the running and the queued    *)
(* one of every timer, for the timers share the queue.                     *)
Executions(t) ==
  (IF queued[t] THEN 1 ELSE 0) + (IF running[t] # "no" THEN 1 ELSE 0)

FlushStart(u, from, to) ==
  /\ user_pc[u] = from
  /\ awaited' = [awaited EXCEPT ![u] = [t \in Timers |-> Executions(t)]]
  /\ user_pc' = [user_pc EXCEPT ![u] = to]
  /\ UNCHANGED <<handle, slotVars, kernelVars>>

Flushed(u) == \A t \in Timers : awaited[u][t] = 0

FlushReturns(u, from, to) ==
  /\ user_pc[u] = from
  /\ Flushed(u)
  /\ user_pc' = [user_pc EXCEPT ![u] = to]
  /\ UNCHANGED <<handle, slotVars, kernelVars, awaited>>

(* The mutants of the two flushes: a flush that is not there. *)
NoFlush(u, from, to) ==
  /\ user_pc[u] = from
  /\ user_pc' = [user_pc EXCEPT ![u] = to]
  /\ UNCHANGED <<handle, slotVars, kernelVars, awaited>>

FirstFlushLeftOut(u) == NoFlush(u, "flush1", "delete")
SecondFlushLeftOut(u) == NoFlush(u, "flush2", "wait2")

FirstFlush(u) ==
  FlushStart(u, "flush1", "wait1") \/ FlushReturns(u, "wait1", "delete")

(* del_timer_sync returns when the timer is not pending and its function   *)
(* does not run.                                                           *)
DeleteTimer(u) ==
  /\ user_pc[u] = "delete"
  /\ ~firing[handle[u]]
  /\ pending' = [pending EXCEPT ![handle[u]] = FALSE]
  /\ user_pc' = [user_pc EXCEPT ![u] = "flush2"]
  /\ UNCHANGED <<handle, slotVars, firing, queued, running, awaited>>

SecondFlush(u) == FlushStart(u, "flush2", "wait2")

DisableReturns(u) == FlushReturns(u, "wait2", Off)

-----------------------------------------------------------------------------
(* The kernel timer expires ... *)
Expire(t) ==
  /\ pending[t] /\ ~firing[t]
  /\ pending' = [pending EXCEPT ![t] = FALSE]
  /\ firing' = [firing EXCEPT ![t] = TRUE]
  /\ UNCHANGED <<userVars, slotVars, queued, running, awaited>>

(* ... and queue_work leaves a work that is already queued alone. *)
OSTimerCallbackWrapper(t) ==
  /\ firing[t]
  /\ queued' = [queued EXCEPT ![t] = TRUE]
  /\ firing' = [firing EXCEPT ![t] = FALSE]
  /\ UNCHANGED <<userVars, slotVars, pending, running, awaited>>

(* A worker takes a work: it may be queued again while it runs, and never  *)
(* runs twice at a time.                                                   *)
WorkStart(t) ==
  /\ queued[t] /\ running[t] = "no"
  /\ queued' = [queued EXCEPT ![t] = FALSE]
  /\ running' = [running EXCEPT ![t] = "test"]
  /\ UNCHANGED <<userVars, slotVars, pending, firing, awaited>>

(* OSTimerCallbackBody. *)
TestActive(t) ==
  /\ running[t] = "test"
  /\ running' = [running EXCEPT ![t] = IF bActive[t] THEN "call" ELSE "out"]
  /\ UNCHANGED <<userVars, slotVars, pending, firing, queued, awaited>>

(* pfnTimerFunc(pvData): what it does is the user's. *)
CallBack(t) ==
  /\ running[t] = "call"
  /\ running' = [running EXCEPT ![t] = "arm"]
  /\ UNCHANGED <<userVars, slotVars, pending, firing, queued, awaited>>

(* A mutant: the timer is not armed again. *)
CallOnce(t) ==
  /\ running[t] = "arm"
  /\ running' = [running EXCEPT ![t] = "out"]
  /\ UNCHANGED <<userVars, slotVars, pending, firing, queued, awaited>>

(* mod_timer, whether the timer was disabled meanwhile or not. *)
ArmAgain(t) ==
  /\ running[t] = "arm"
  /\ pending' = [pending EXCEPT ![t] = TRUE]
  /\ running' = [running EXCEPT ![t] = "out"]
  /\ UNCHANGED <<userVars, slotVars, firing, queued, awaited>>

(* The end of an execution, which the flushes that wait for it count. *)
WorkEnds(t) ==
  /\ running[t] = "out"
  /\ running' = [running EXCEPT ![t] = "no"]
  /\ awaited' = [u \in Users |->
       [awaited[u] EXCEPT ![t] = IF @ = 0 THEN 0 ELSE @ - 1]]
  /\ UNCHANGED <<userVars, slotVars, pending, firing, queued>>

-----------------------------------------------------------------------------
UserStep(u) ==
  \/ AddTimer(u) \/ SetUpTimer(u) \/ OSRemoveTimer(u)
  \/ EnableTimer(u) \/ AddKernelTimer(u)
  \/ DisableTimer(u) \/ FirstFlush(u) \/ DeleteTimer(u) \/ SecondFlush(u)
  \/ DisableReturns(u)

WorkStep(t) ==
  WorkStart(t) \/ TestActive(t) \/ CallBack(t) \/ ArmAgain(t) \/ WorkEnds(t)

TimerStep(t) == Expire(t) \/ OSTimerCallbackWrapper(t) \/ WorkStep(t)

TimerNext == (\E u \in Users : UserStep(u)) \/ (\E t \in Timers : TimerStep(t))

(* The steps of a call that has begun; a user need not begin one. *)
CallStep(u) ==
  \/ SetUpTimer(u) \/ AddKernelTimer(u)
  \/ FirstFlush(u) \/ DeleteTimer(u) \/ SecondFlush(u) \/ DisableReturns(u)

(* Timers expire, soft interrupts end, workers run, callbacks return, and  *)
(* a thread inside a call is scheduled.                                    *)
Fairness ==
  /\ \A u \in Users : WF_timerVars(CallStep(u))
  /\ \A t \in Timers : WF_timerVars(Expire(t))
                       /\ WF_timerVars(OSTimerCallbackWrapper(t))
                       /\ WF_timerVars(WorkStep(t))

TimerSpec == TimerInit /\ [][TimerNext]_timerVars
TimerFairSpec == TimerSpec /\ Fairness

-----------------------------------------------------------------------------
Works(t) == queued[t] \/ running[t] # "no"
Quiet(t) == ~pending[t] /\ ~firing[t] /\ ~Works(t)

(* The user a callback runs for. *)
CalledFor(t) == pvData[t]

(* When OSDisableTimer has returned, and from then on until the timer is   *)
(* enabled again by whoever holds the slot then, neither its kernel timer  *)
(* nor its work is pending or runs: the caller may free what the callback  *)
(* uses, the slot may be given to another user, timer_setup initialises an *)
(* idle timer and add_timer adds one.  A callback runs only for a user who *)
(* holds the timer and has not come back from disabling it.  The two       *)
(* flushes around del_timer_sync are there for this (osfunc.c:1641-1653).  *)
QuietAfterDisable ==
  /\ \A t \in Timers : ~bInUse[t] => Quiet(t)
  /\ \A u \in Users : user_pc[u] \in {"setup", Off, "arm"} => Quiet(handle[u])
  /\ \A t \in Timers : running[t] = "call" =>
       /\ handle[CalledFor(t)] = t
       /\ user_pc[CalledFor(t)] \in {On} \cup Disabling

(* A timer has at most one expiry in the making: armed, in its soft        *)
(* interrupt, queued, or on the way to be armed again; and an enabled one  *)
(* has exactly one.  So no period is lost, queue_work never finds the work *)
(* queued (the warning of osfunc.c:1518), and a disable has one chain to   *)
(* cut.                                                                    *)
Stages(t) ==
  {s \in {"pending", "firing", "queued", "running"} :
     CASE s = "pending" -> pending[t]
       [] s = "firing" -> firing[t]
       [] s = "queued" -> queued[t]
       [] s = "running" -> running[t] \in {"test", "call", "arm"}}

OneChain ==
  /\ \A t \in Timers : Cardinality(Stages(t)) \leq 1
  /\ \A u \in Users : user_pc[u] = On => Stages(handle[u]) # {}

(* An enabled timer keeps calling its user back until it is disabled, and  *)
(* a disable returns however often the timers of other users are queued    *)
(* while it flushes.                                                       *)
TimersServed ==
  \A u \in Users :
    /\ [](user_pc[u] = On => <>(user_pc[u] # On \/ running[handle[u]] = "call"))
    /\ (user_pc[u] \in Disabling) ~> (user_pc[u] = Off)

=============================================================================
