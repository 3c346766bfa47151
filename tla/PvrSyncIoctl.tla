---------------------------- MODULE PvrSyncIoctl ----------------------------
(***************************************************************************)
(* The sync timeline file of the driver: the two atomics by which          *)
(* pvr_sync_ioctl_common.c separates the ioctls that configure a timeline  *)
(* (rename, force-software-only) from all its other users, and the part of *)
(* struct pvr_sync_timeline those users share (pvr_sync_file.c).           *)
(*                                                                         *)
(* Each thread loops: it enters one operation on the open file, passes or  *)
(* fails the gate, runs the operation's body and returns.  A step is one   *)
(* access to a shared variable, in the program's order.  The barriers of   *)
(* the code (smp_mb, the full ordering of atomic_inc_return) are what make *)
(* the interleaving of such steps a sound picture of it.                   *)
(***************************************************************************)
EXTENDS Naturals, FiniteSets

CONSTANT Threads

ASSUME ThreadsFinite == IsFiniteSet(Threads)

VARIABLES
  in_setup,      \* fdata->in_setup
  in_use,        \* fdata->in_use
  is_sw,         \* fdata->is_sw
  timeline,      \* fdata->api_private: the struct pvr_sync_timeline
  hw_created,    \* how many hardware fence contexts were created for it
  op,            \* op[t]: the operation thread t is in
  pc             \* pc[t]: its next step

vars == <<in_setup, in_use, is_sw, timeline, hw_created, op, pc>>

(* DRM_PVR_SYNC_RENAME_CMD and DRM_PVR_SYNC_FORCE_SW_ONLY_CMD. *)
ConfigOps == {"rename", "force_sw_only"}

(* The software sync ioctls, the kick code's fence creation on a hardware  *)
(* timeline and the in-kernel creation of a software fence.                *)
UseOps == {"sw_create_fence", "sw_inc", "create_fence", "sw_timeline_fence_create"}

ConfigBody == {"config", "rename_hw", "force_sw", "force_is_sw", "set_is_sw", "reset_in_setup"}
UseBody == {"use", "sw_point", "check_hw", "create_hw", "hw_fence"}
GatePcs == {"inc_in_setup", "read_in_use", "dec_in_setup",
            "test_in_use", "set_in_use_1", "read_in_setup", "set_in_use_2"}

(* A bound: more contexts than this are not created for one timeline.      *)
MaxHwContexts == Cardinality(Threads)

Configuring(t) == pc[t] \in ConfigBody
Using(t) == pc[t] \in UseBody

Goto(t, label) == pc' = [pc EXCEPT ![t] = label]
Return(t) == pc' = [pc EXCEPT ![t] = "idle"] /\ op' = [op EXCEPT ![t] = "none"]

(* pvr_sync_open_common and pvr_sync_api_init: a zeroed file record with a *)
(* hardware timeline that has no context yet.                              *)
Init ==
  /\ in_setup = 0
  /\ in_use = 0
  /\ is_sw = FALSE
  /\ timeline = [is_sw |-> FALSE, sw |-> FALSE, hw |-> FALSE, renamed |-> FALSE]
  /\ hw_created = 0
  /\ op = [t \in Threads |-> "none"]
  /\ pc = [t \in Threads |-> "idle"]

(* pvr_sync_ioctl_common dispatches on cmd; the in-kernel users come in    *)
(* through pvr_sync_get_api_priv_common.                                   *)
Call(t) ==
  /\ pc[t] = "idle"
  /\ \E o \in ConfigOps \cup UseOps :
        /\ op' = [op EXCEPT ![t] = o]
        /\ Goto(t, IF o \in ConfigOps THEN "inc_in_setup" ELSE "test_in_use")
  /\ UNCHANGED <<in_setup, in_use, is_sw, timeline, hw_created>>

-----------------------------------------------------------------------------
(* pvr_sync_set_in_setup *)

(* Mutant: one configuration too many is let through.                      *)
IncInSetupOffByOne(t) ==
  /\ pc[t] = "inc_in_setup"
  /\ in_setup' = in_setup + 1
  /\ Goto(t, IF in_setup' > 2 THEN "dec_in_setup" ELSE "read_in_use")
  /\ UNCHANGED <<in_use, is_sw, timeline, hw_created, op>>

IncInSetup(t) ==
  /\ pc[t] = "inc_in_setup"
  /\ in_setup' = in_setup + 1
  /\ Goto(t, IF in_setup' > 1 THEN "dec_in_setup" ELSE "read_in_use")
  /\ UNCHANGED <<in_use, is_sw, timeline, hw_created, op>>

(* Mutant: in_use is not looked at.                                        *)
ReadInUseDropped(t) ==
  /\ pc[t] = "read_in_use"
  /\ Goto(t, "config")
  /\ UNCHANGED <<in_setup, in_use, is_sw, timeline, hw_created, op>>

ReadInUse(t) ==
  /\ pc[t] = "read_in_use"
  /\ Goto(t, IF in_use # 0 THEN "dec_in_setup" ELSE "config")
  /\ UNCHANGED <<in_setup, in_use, is_sw, timeline, hw_created, op>>

(* The failing exit: -EBUSY. *)
DecInSetup(t) ==
  /\ pc[t] = "dec_in_setup"
  /\ in_setup' = in_setup - 1
  /\ Return(t)
  /\ UNCHANGED <<in_use, is_sw, timeline, hw_created>>

(* pvr_sync_reset_in_setup *)
ResetInSetup(t) ==
  /\ pc[t] = "reset_in_setup"
  /\ in_setup' = in_setup - 1
  /\ Return(t)
  /\ UNCHANGED <<in_use, is_sw, timeline, hw_created>>

(* pvr_sync_set_in_use *)

TestInUse(t) ==
  /\ pc[t] = "test_in_use"
  /\ Goto(t, IF in_use < 2 THEN "set_in_use_1" ELSE "use")
  /\ UNCHANGED <<in_setup, in_use, is_sw, timeline, hw_created, op>>

SetInUse1(t) ==
  /\ pc[t] = "set_in_use_1"
  /\ in_use' = 1
  /\ Goto(t, "read_in_setup")
  /\ UNCHANGED <<in_setup, is_sw, timeline, hw_created, op>>

(* Mutant: the user does not look for a configuration in progress.         *)
ReadInSetupDropped(t) ==
  /\ pc[t] = "read_in_setup"
  /\ Goto(t, "set_in_use_2")
  /\ UNCHANGED <<in_setup, in_use, is_sw, timeline, hw_created, op>>

ReadInSetup(t) ==
  /\ pc[t] = "read_in_setup"
  /\ \/ /\ in_setup # 0            \* -EBUSY
        /\ Return(t)
     \/ /\ in_setup = 0
        /\ Goto(t, "set_in_use_2")
        /\ UNCHANGED op
  /\ UNCHANGED <<in_setup, in_use, is_sw, timeline, hw_created>>

SetInUse2(t) ==
  /\ pc[t] = "set_in_use_2"
  /\ in_use' = 2
  /\ Goto(t, "use")
  /\ UNCHANGED <<in_setup, is_sw, timeline, hw_created, op>>

-----------------------------------------------------------------------------
(* The bodies of the configuration ioctls.                                 *)

(* A software timeline takes no further configuration (-ENOTTY).  Rename   *)
(* writes the timeline's name first.                                       *)
Config(t) ==
  /\ pc[t] = "config"
  /\ \/ /\ is_sw
        /\ Goto(t, "reset_in_setup")
        /\ UNCHANGED timeline
     \/ /\ ~is_sw
        /\ op[t] = "rename"
        /\ timeline' = [timeline EXCEPT !.renamed = TRUE]
        /\ Goto(t, "rename_hw")
     \/ /\ ~is_sw
        /\ op[t] = "force_sw_only"
        /\ Goto(t, "force_sw")
        /\ UNCHANGED timeline
  /\ UNCHANGED <<in_setup, in_use, is_sw, hw_created, op>>

(* pvr_sync_api_rename also rewrites the name of a hardware context, under *)
(* no lock.                                                                *)
RenameHw(t) ==
  /\ pc[t] = "rename_hw"
  /\ Goto(t, "reset_in_setup")
  /\ UNCHANGED <<in_setup, in_use, is_sw, timeline, hw_created, op>>

(* pvr_sync_api_force_sw_only: nothing to create for a timeline that has a *)
(* software timeline; the creation may fail with -ENOMEM.                  *)
ForceSw(t) ==
  /\ pc[t] = "force_sw"
  /\ \/ /\ timeline.sw
        /\ Goto(t, "set_is_sw")
        /\ UNCHANGED timeline
     \/ /\ ~timeline.sw
        /\ timeline' = [timeline EXCEPT !.sw = TRUE]
        /\ Goto(t, "force_is_sw")
     \/ /\ ~timeline.sw
        /\ Goto(t, "reset_in_setup")
        /\ UNCHANGED timeline
  /\ UNCHANGED <<in_setup, in_use, is_sw, hw_created, op>>

ForceIsSw(t) ==
  /\ pc[t] = "force_is_sw"
  /\ timeline' = [timeline EXCEPT !.is_sw = TRUE]
  /\ Goto(t, "set_is_sw")
  /\ UNCHANGED <<in_setup, in_use, is_sw, hw_created, op>>

(* pvr_sync_ioctl_force_sw_only, on success. *)
SetIsSw(t) ==
  /\ pc[t] = "set_is_sw"
  /\ is_sw' = TRUE
  /\ Goto(t, "reset_in_setup")
  /\ UNCHANGED <<in_setup, in_use, timeline, hw_created, op>>

-----------------------------------------------------------------------------
(* The bodies of the other operations.                                     *)

(* What each operation looks at first: the ioctls at fdata->is_sw, the     *)
(* in-kernel software fence at timeline->is_sw, the kick's fence creation  *)
(* at timeline->is_sw, which must be clear.                                *)
Use(t) ==
  /\ pc[t] = "use"
  /\ \/ /\ \/ op[t] \in {"sw_create_fence", "sw_inc"} /\ is_sw
           \/ op[t] = "sw_timeline_fence_create" /\ timeline.is_sw
        /\ Goto(t, "sw_point")
        /\ UNCHANGED op
     \/ /\ op[t] = "create_fence"
        /\ ~timeline.is_sw
        /\ Goto(t, "check_hw")
        /\ UNCHANGED op
     \/ /\ \/ op[t] \in {"sw_create_fence", "sw_inc"} /\ ~is_sw
           \/ op[t] = "sw_timeline_fence_create" /\ ~timeline.is_sw
           \/ op[t] = "create_fence" /\ timeline.is_sw
        /\ Return(t)
  /\ UNCHANGED <<in_setup, in_use, is_sw, timeline, hw_created>>

(* The use of timeline->sw_fence_timeline (the counting timeline has a     *)
(* module of its own).                                                     *)
SwPoint(t) ==
  /\ pc[t] = "sw_point"
  /\ Return(t)
  /\ UNCHANGED <<in_setup, in_use, is_sw, timeline, hw_created>>

(* pvr_sync_create_fence: is there a hardware context already?             *)
CheckHw(t) ==
  /\ pc[t] = "check_hw"
  /\ Goto(t, IF timeline.hw THEN "hw_fence" ELSE "create_hw")
  /\ UNCHANGED <<in_setup, in_use, is_sw, timeline, hw_created, op>>

(* It is created and stored with no lock held since the check; the         *)
(* creation may fail.                                                      *)
CreateHw(t) ==
  /\ pc[t] = "create_hw"
  /\ \/ /\ hw_created < MaxHwContexts
        /\ timeline' = [timeline EXCEPT !.hw = TRUE]
        /\ hw_created' = hw_created + 1
        /\ Goto(t, "hw_fence")
        /\ UNCHANGED op
     \/ /\ timeline' = [timeline EXCEPT !.hw = FALSE]
        /\ Return(t)
        /\ UNCHANGED hw_created
  /\ UNCHANGED <<in_setup, in_use, is_sw>>

(* pvr_fence_create on timeline->hw_fence_context. *)
HwFence(t) ==
  /\ pc[t] = "hw_fence"
  /\ Return(t)
  /\ UNCHANGED <<in_setup, in_use, is_sw, timeline, hw_created>>

-----------------------------------------------------------------------------
Gate(t) ==
  \/ IncInSetup(t) \/ ReadInUse(t) \/ DecInSetup(t) \/ ResetInSetup(t)
  \/ TestInUse(t) \/ SetInUse1(t) \/ ReadInSetup(t) \/ SetInUse2(t)

Body(t) ==
  \/ Config(t) \/ RenameHw(t) \/ ForceSw(t) \/ ForceIsSw(t) \/ SetIsSw(t)
  \/ Use(t) \/ SwPoint(t) \/ CheckHw(t) \/ CreateHw(t) \/ HwFence(t)

Next == \E t \in Threads : Call(t) \/ Gate(t) \/ Body(t)

Spec == Init /\ [][Next]_vars

-----------------------------------------------------------------------------
(* The types of the variables. *)
TypeOK ==
  /\ in_setup \in 0 .. Cardinality(Threads)
  /\ in_use \in 0 .. 2
  /\ is_sw \in BOOLEAN
  /\ timeline \in [is_sw : BOOLEAN, sw : BOOLEAN, hw : BOOLEAN, renamed : BOOLEAN]
  /\ hw_created \in 0 .. MaxHwContexts
  /\ op \in [Threads -> ConfigOps \cup UseOps \cup {"none"}]
  /\ pc \in [Threads -> {"idle"} \cup GatePcs \cup ConfigBody \cup UseBody]

(* "At most one of these two configuration ioctls can be in progress at any *)
(* one time, and they can't overlap with any other Sync ioctl"              *)
(* (pvr_sync_ioctl_common.c:62).                                            *)
ConfigExclusive ==
  \A t, u \in Threads :
    (t # u /\ Configuring(t)) => ~Configuring(u) /\ ~Using(u)

(* No timeline is ever both a hardware and a software one: the kick's check *)
(* of timeline->is_sw (pvr_sync_file.c:332) and force_sw_only, which checks *)
(* for no hardware context at all, are kept apart by the gate alone.        *)
HwOrSw == ~(timeline.hw /\ timeline.sw)

(* A rename never finds a hardware context whose name it would overwrite    *)
(* while other threads read it (pvr_sync_file.c:767): the timeline that has *)
(* one has been used, and is past configuration.                            *)
RenameFindsNoContext ==
  \A t \in Threads : pc[t] = "rename_hw" => ~timeline.hw

(* An operation that goes on to use timeline->sw_fence_timeline finds it    *)
(* there, whichever of the two is_sw flags it looked at.                    *)
SwPointHasTimeline ==
  \A t \in Threads : pc[t] = "sw_point" => timeline.sw /\ timeline.is_sw /\ is_sw

(* While an operation uses the timeline, and for good once in_use is 2, the *)
(* timeline's kind and name do not change under it.                         *)
KindFixedInUse ==
  [][in_use = 2 \/ (\E t \in Threads : Using(t))
       => /\ is_sw' = is_sw
          /\ timeline'.is_sw = timeline.is_sw
          /\ timeline'.sw = timeline.sw
          /\ timeline'.renamed = timeline.renamed]_vars

(* "First time we use this timeline, so create a context"                   *)
(* (pvr_sync_file.c:341): a timeline's hardware context is created once.    *)
ContextCreatedOnce == hw_created <= 1

-----------------------------------------------------------------------------
(* What the gate promises, without its atomics: a timeline is configured by *)
(* one ioctl at a time until it is closed to configuration, and used only   *)
(* after that.                                                              *)
Phases ==
  INSTANCE TimelinePhases WITH
    closed <- in_use # 0,
    configuring <- {t \in Threads : Configuring(t)},
    using <- {t \in Threads : Using(t)}

(* The gate of the code implements it. *)
ImplementsPhases == Phases!Spec
=============================================================================
