--------------------------- MODULE DisplayCommit ---------------------------
(***************************************************************************)
(* How a display commit reaches the hardware: the commit tail of           *)
(* mtgpu_drm_drv.c, the modeset helpers of mtgpu_drm_atomic.c and the crtc *)
(* of mtgpu_drm_dispc.c.  A commit gives a set of crtcs a new state: the   *)
(* connectors they drive, whether they are active, their mode, new planes. *)
(* The DRM core checks it under the locks of the crtcs, also while an      *)
(* earlier commit of them is being carried out, waits for that commit,     *)
(* swaps the states, and a worker carries the commit out while the display *)
(* goes on scanning and interrupting and commits of other crtcs go on      *)
(* beside it.  A commit may be dropped after its check: it was only a      *)
(* test, a later part of the check failed, the earlier commit keeps the    *)
(* crtc busy (-EBUSY), or the wait was interrupted.                        *)
(*                                                                         *)
(* A connector has one encoder, and each encoder of the driver can serve   *)
(* one crtc.  A core without mode_fixup (446) is one whose checks write    *)
(* nothing.  Left out: writeback, self refresh, MST encoders, the cursor's *)
(* asynchronous updates, the report of idle displays to frequency scaling, *)
(* and planes and registers, so also whether a frame is shown when its     *)
(* event is sent.                                                          *)
(***************************************************************************)
EXTENDS Integers, FiniteSets

CONSTANTS
  Crtcs, Connectors, Modes,
  Workers,   \* commits that may be checked or carried out at a time
  None,      \* no crtc
  Off,       \* no mode: of a crtc without connectors, or that does not scan
  Devices    \* what the driver may be loaded for

(* sudi104: a SUDI104, for which Linux's own helpers are used;             *)
(* possible_crtcs: the crtcs that the encoder of a connector can serve;    *)
(* mode_valid: the modes a crtc accepts.                                   *)
ASSUME CommitAssumption ==
  /\ None \notin Crtcs /\ Off \notin Modes
  /\ Devices \subseteq [sudi104 : BOOLEAN,
                        possible_crtcs : [Connectors -> SUBSET Crtcs],
                        mode_valid : [Crtcs -> SUBSET Modes]]

VARIABLES
  device,    \* the device; it never changes
  route,     \* connector_state->crtc
  active,    \* crtc_state->active
  mode,      \* crtc_state->adjusted_mode
  event,     \* crtc_state->event is set
  job,       \* the commit of each worker
  vm,        \* dispc->ctx.vm, the mode the core will program
  scan,      \* the mode a crtc scans with, or Off
  drives,    \* the crtc an encoder is enabled for, or None
  vblank,    \* between drm_crtc_vblank_on and _off
  vsync,     \* the vsync interrupt is enabled
  armed,     \* an event waits for the next vblank, and holds a reference
  irq,       \* a vsync whose mtgpu_dispc_isr has not run
  owed,      \* commits of a crtc whose event has not been sent; a history
  fixed_up,  \* crtcs whose ctx.vm is of a check not yet swapped in; a history
  astray     \* crtcs that were enabled with such a mode; a history

stateVars == <<route, active, mode>>
eventVars == <<event, armed, owed>>
hardVars == <<scan, vblank, vsync, irq, astray>>
modeVars == <<vm, fixed_up>>
vars == <<device, stateVars, eventVars, job, modeVars, hardVars, drives>>

(* The order of the commit tail, as the phase that follows each: the       *)
(* driver's helpers switch crtcs off before their encoders and on after    *)
(* them, those of Linux the other way round.                               *)
After ==
  IF device.sudi104
  THEN [wait |-> "encoders_off", encoders_off |-> "crtcs_off",
        crtcs_off |-> "set_mode", set_mode |-> "crtcs_on",
        crtcs_on |-> "encoders_on", encoders_on |-> "planes"]
  ELSE [wait |-> "crtcs_off", crtcs_off |-> "encoders_off",
        encoders_off |-> "set_mode", set_mode |-> "encoders_on",
        encoders_on |-> "crtcs_on", crtcs_on |-> "planes"]

Phases == {"wait", "crtcs_off", "encoders_off", "set_mode", "encoders_on",
           "crtcs_on", "planes"}

NoJob == [phase |-> "idle"]

(* A commit that has been checked, with the new state of its crtcs. *)
Checks == [phase : {"checked"}, crtcs : SUBSET Crtcs,
           conns : SUBSET Connectors,  \* of its crtcs, before or after
           route : [Connectors -> Crtcs \cup {None}],  \* of its connectors
           active : SUBSET Crtcs, mode : [Crtcs -> Modes \cup {Off}]]

(* A commit that is carried out. *)
Jobs == [phase : Phases, crtcs : SUBSET Crtcs, conns : SUBSET Connectors,
         modeset : SUBSET Crtcs, mode_changed : SUBSET Crtcs,
         flush : SUBSET Crtcs,   \* crtcs to be flushed
         old_route : [Connectors -> Crtcs \cup {None}],  \* of its connectors
         old_active : SUBSET Crtcs]

TypeOK ==
  /\ device \in Devices
  /\ route \in [Connectors -> Crtcs \cup {None}]
  /\ active \in [Crtcs -> BOOLEAN] /\ mode \in [Crtcs -> Modes \cup {Off}]
  /\ event \in [Crtcs -> BOOLEAN]
  /\ job \in [Workers -> Checks \cup Jobs \cup {NoJob}]
  /\ vm \in [Crtcs -> Modes \cup {Off}] /\ scan \in [Crtcs -> Modes \cup {Off}]
  /\ drives \in [Connectors -> Crtcs \cup {None}]
  /\ vblank \in [Crtcs -> BOOLEAN]
  /\ vsync \in [Crtcs -> BOOLEAN] /\ armed \in [Crtcs -> BOOLEAN]
  /\ irq \in [Crtcs -> BOOLEAN] /\ owed \in [Crtcs -> -1 .. 2]
  /\ fixed_up \subseteq Crtcs /\ astray \subseteq Crtcs

Init ==
  /\ device \in Devices
  /\ route = [k \in Connectors |-> None]
  /\ active = [c \in Crtcs |-> FALSE]
  /\ mode = [c \in Crtcs |-> Off] /\ vm = [c \in Crtcs |-> Off]
  /\ event = [c \in Crtcs |-> FALSE]
  /\ job = [w \in Workers |-> NoJob]
  /\ scan = [c \in Crtcs |-> Off]
  /\ drives = [k \in Connectors |-> None]
  /\ vblank = [c \in Crtcs |-> FALSE]
  /\ vsync = [c \in Crtcs |-> FALSE]
  /\ armed = [c \in Crtcs |-> FALSE]
  /\ irq = [c \in Crtcs |-> FALSE]
  /\ owed = [c \in Crtcs |-> 0]
  /\ fixed_up = {} /\ astray = {}

-----------------------------------------------------------------------------
(* The DRM core's side of a commit. *)
Checked(w) == job[w].phase = "checked"
Busy(w) == job[w].phase \notin {"idle", "checked"}
InFlight == UNION {job[w].crtcs : w \in {v \in Workers : Busy(v)}}
ConnsInFlight == UNION {job[w].conns : w \in {v \in Workers : Busy(v)}}
Locked == UNION {job[w].crtcs : w \in {v \in Workers : Checked(v)}}
ConnsLocked == UNION {job[w].conns : w \in {v \in Workers : Checked(v)}}

(* The new state of the crtcs in S: their connectors, which no other crtc  *)
(* has; a crtc is enabled when it has a connector, and only then has a     *)
(* mode and may be active.                                                 *)
Enabled(r, c) == \E k \in Connectors : r[k] = c
NewRoutes(S) ==
  {r \in [Connectors -> S \cup {None}] :
     \A k \in Connectors : r[k] # None =>
       r[k] \in device.possible_crtcs[k] /\ route[k] \in S \cup {None}}
NewActives(S, r) == SUBSET {c \in S : Enabled(r, c)}
NewModes(r) ==
  {m \in [Crtcs -> Modes \cup {Off}] :
     \A c \in Crtcs : IF Enabled(r, c) THEN m[c] \in device.mode_valid[c] ELSE m[c] = Off}

(* The connectors of the crtcs in S, with the new routes r.  (A connector  *)
(* of theirs that r gives to none is taken from them.)                     *)
Conns(S, r) == {k \in Connectors : route[k] \in S \/ r[k] \in S}

(* What the check j finds changed, which needs a modeset, and which crtcs  *)
(* have an event: those active before or after.                            *)
ConnectorsChanged(j) ==
  {c \in j.crtcs : \E k \in Connectors : ~(j.route[k] = c <=> route[k] = c)}
ModeChanged(j) == {c \in j.crtcs : j.mode[c] # mode[c]}
ActiveChanged(j) == {c \in j.crtcs : ~(c \in j.active <=> active[c])}
Modeset(j) == ConnectorsChanged(j) \cup ModeChanged(j) \cup ActiveChanged(j)
FixedUp(j) == {c \in ConnectorsChanged(j) \cup ModeChanged(j) : Enabled(j.route, c)}
Signals(j) == {c \in j.crtcs : active[c] \/ c \in j.active}

(* mtgpu_crtc_mode_fixup leaves the new mode in ctx.vm, whatever becomes   *)
(* of the commit.                                                          *)
mtgpu_crtc_mode_fixup(j) ==
  /\ vm' = [c \in Crtcs |-> IF c \in FixedUp(j) THEN j.mode[c] ELSE vm[c]]
  /\ fixed_up' = fixed_up \cup {c \in FixedUp(j) : Enabled(route, c)}

(* mtgpu_atomic_helper_check, under the locks of the crtcs and connectors. *)
Check(w) ==
  /\ job[w] = NoJob
  /\ \E S \in (SUBSET (Crtcs \ Locked)) \ {{}} : \E r \in NewRoutes(S) :
       /\ Conns(S, r) \cap ConnsLocked = {}
       /\ \E a \in NewActives(S, r), m \in NewModes(r) :
            LET j == [phase |-> "checked", crtcs |-> S, conns |-> Conns(S, r),
                      route |-> r, active |-> a, mode |-> m]
            IN  job' = [job EXCEPT ![w] = j] /\ mtgpu_crtc_mode_fixup(j)
  /\ UNCHANGED <<device, stateVars, eventVars, hardVars, drives>>

(* The commit is given up after its check. *)
Drop(w) ==
  /\ Checked(w)
  /\ job' = [job EXCEPT ![w] = NoJob]
  /\ UNCHANGED <<device, stateVars, eventVars, modeVars, hardVars, drives>>

(* drm_atomic_helper_swap_state waits until the commits before it are done *)
(* with the hardware.                                                      *)
SwapState(w) ==
  LET j == job[w] IN
  /\ Checked(w)
  /\ j.crtcs \cap InFlight = {} /\ j.conns \cap ConnsInFlight = {}
  /\ route' = [k \in Connectors |-> IF k \in j.conns THEN j.route[k] ELSE route[k]]
  /\ active' = [c \in Crtcs |-> IF c \in j.crtcs THEN c \in j.active ELSE active[c]]
  /\ mode' = [c \in Crtcs |-> IF c \in j.crtcs THEN j.mode[c] ELSE mode[c]]
  /\ event' = [c \in Crtcs |-> IF c \in j.crtcs THEN c \in Signals(j) ELSE event[c]]
  /\ owed' = [c \in Crtcs |-> IF c \in Signals(j) THEN owed[c] + 1 ELSE owed[c]]
  /\ fixed_up' = fixed_up \ FixedUp(j)
  /\ job' = [job EXCEPT ![w] =
       [phase |-> "wait", crtcs |-> j.crtcs, conns |-> j.conns,
        modeset |-> Modeset(j), mode_changed |-> ModeChanged(j),
        flush |-> j.active, old_active |-> {c \in j.crtcs : active[c]},
        old_route |-> [k \in Connectors |-> IF route[k] \in j.crtcs THEN route[k] ELSE None]]]
  /\ UNCHANGED <<device, armed, vm, hardVars, drives>>

-----------------------------------------------------------------------------
(* The commit tail: drm_atomic_helper_wait_for_dependencies waits for the  *)
(* events of the commits before, and the phases follow as After says.      *)
GoOn(w) == job' = [job EXCEPT ![w].phase = After[@]]

Start(w) ==
  /\ job[w].phase = "wait"
  /\ \A c \in job[w].crtcs : ~armed[c]
  /\ GoOn(w)
  /\ UNCHANGED <<device, stateVars, eventVars, modeVars, hardVars, drives>>

(* drm_crtc_send_vblank_event for the events of the crtcs in C. *)
Sent(C) == [c \in Crtcs |-> IF c \in C THEN owed[c] - 1 ELSE owed[c]]
Cleared(f, C) == [c \in Crtcs |-> f[c] /\ c \notin C]

(* A mutant: the new state is asked. *)
NeedsDisableNew(w, c) == active[c]

mtgpu_crtc_needs_disable(w, c) == c \in job[w].old_active

(* A mutant: the event of the new state is left in it. *)
DisableKeepsEvent(C) ==
  /\ vblank' = Cleared(vblank, C) /\ vsync' = Cleared(vsync, C)
  /\ armed' = Cleared(armed, C)
  /\ astray' = astray \ C
  /\ scan' = [c \in Crtcs |-> IF c \in C THEN Off ELSE scan[c]]
  /\ owed' = Sent({c \in C : armed[c]})
  /\ UNCHANGED <<event, irq>>

(* mtgpu_crtc_atomic_disable for the crtcs in C.  drm_crtc_vblank_off      *)
(* sends what is armed; the event of the new state goes out here, also     *)
(* when the crtc comes on again in the same commit.                        *)
mtgpu_crtc_atomic_disable(C) ==
  /\ vblank' = Cleared(vblank, C) /\ vsync' = Cleared(vsync, C)
  /\ armed' = Cleared(armed, C)
  /\ astray' = astray \ C
  /\ scan' = [c \in Crtcs |-> IF c \in C THEN Off ELSE scan[c]]
  /\ event' = Cleared(event, C)
  /\ owed' = Sent({c \in C : event[c] \/ armed[c]})
  /\ UNCHANGED irq

(* mtgpu_disable_outputs: the crtcs ... *)
DisableCrtcs(w) ==
  /\ job[w].phase = "crtcs_off"
  /\ mtgpu_crtc_atomic_disable(
       {c \in job[w].modeset : mtgpu_crtc_needs_disable(w, c)})
  /\ GoOn(w)
  /\ UNCHANGED <<device, stateVars, modeVars, drives>>

(* A mutant: crtcs that need no modeset are not skipped. *)
DisableAlways(w, k) ==
  /\ job[w].old_route[k] # None
  /\ mtgpu_crtc_needs_disable(w, job[w].old_route[k])

EncoderOff(w, k) ==
  /\ job[w].old_route[k] # None
  /\ mtgpu_crtc_needs_disable(w, job[w].old_route[k])
  /\ job[w].old_route[k] \in job[w].modeset

(* ... and the encoders, by the old route. *)
DisableEncoders(w) ==
  /\ job[w].phase = "encoders_off"
  /\ drives' = [k \in Connectors |-> IF EncoderOff(w, k) THEN None ELSE drives[k]]
  /\ GoOn(w)
  /\ UNCHANGED <<device, stateVars, eventVars, modeVars, hardVars>>

(* mtgpu_crtc_set_mode.  The old state is not looked at any more. *)
ModesSet(w) == {c \in job[w].mode_changed : Enabled(route, c)}

SetMode(w) ==
  /\ job[w].phase = "set_mode"
  /\ vm' = [c \in Crtcs |-> IF c \in ModesSet(w) THEN mode[c] ELSE vm[c]]
  /\ fixed_up' = fixed_up \ ModesSet(w)
  /\ job' = [job EXCEPT ![w].phase = After[@], ![w].mode_changed = {},
       ![w].old_active = {}, ![w].old_route = [k \in Connectors |-> None]]
  /\ UNCHANGED <<device, stateVars, eventVars, hardVars, drives>>

(* mtgpu_atomic_helper_commit_modeset_enables: the encoders ... *)
EnablesNext(w) ==
  job' = [job EXCEPT ![w].phase = After[@],
                     ![w].modeset = IF After[job[w].phase] = "planes" THEN {} ELSE @]

EncoderOn(w, k) ==
  /\ route[k] # None
  /\ active[route[k]] /\ route[k] \in job[w].modeset

EnableEncoders(w) ==
  /\ job[w].phase = "encoders_on"
  /\ drives' = [k \in Connectors |-> IF EncoderOn(w, k) THEN route[k] ELSE drives[k]]
  /\ EnablesNext(w)
  /\ UNCHANGED <<device, stateVars, eventVars, modeVars, hardVars>>

(* mtgpu_crtc_atomic_enable for the crtcs in C: the core programs ctx.vm,  *)
(* and vblanks begin.                                                      *)
mtgpu_crtc_atomic_enable(C) ==
  /\ scan' = [c \in Crtcs |-> IF c \in C THEN vm[c] ELSE scan[c]]
  /\ astray' = (astray \ C) \cup (C \cap fixed_up)
  /\ vblank' = [c \in Crtcs |-> vblank[c] \/ c \in C]
  /\ UNCHANGED <<vsync, irq>>

(* ... and the crtcs. *)
EnableCrtcs(w) ==
  /\ job[w].phase = "crtcs_on"
  /\ mtgpu_crtc_atomic_enable({c \in job[w].modeset : active[c]})
  /\ EnablesNext(w)
  /\ UNCHANGED <<device, stateVars, eventVars, modeVars, drives>>

-----------------------------------------------------------------------------
(* drm_atomic_helper_commit_planes with ACTIVE_ONLY: planes are written,   *)
(* and then each active crtc is flushed.                                   *)
(* A mutant: the event is armed without a reference. *)
ArmWithoutGet(w, c) ==
  /\ job[w].phase = "planes" /\ c \in job[w].flush
  /\ event' = [event EXCEPT ![c] = FALSE]
  /\ armed' = [armed EXCEPT ![c] = armed[c] \/ event[c]]
  /\ job' = [job EXCEPT ![w].flush = @ \ {c}]
  /\ UNCHANGED <<device, stateVars, owed, modeVars, hardVars, drives>>

(* Under event_lock the event is armed, with a reference that has the      *)
(* vsync interrupt enabled, or sent where there are no vblanks.            *)
mtgpu_crtc_atomic_flush(w, c) ==
  /\ job[w].phase = "planes" /\ c \in job[w].flush
  /\ event' = [event EXCEPT ![c] = FALSE]
  /\ armed' = [armed EXCEPT ![c] = armed[c] \/ (event[c] /\ vblank[c])]
  /\ vsync' = [vsync EXCEPT ![c] = vsync[c] \/ (event[c] /\ vblank[c])]
  /\ owed' = Sent({d \in {c} : event[d] /\ ~vblank[d]})
  /\ job' = [job EXCEPT ![w].flush = @ \ {c}]
  /\ UNCHANGED <<device, stateVars, modeVars, scan, astray, vblank, irq, drives>>

(* drm_atomic_helper_commit_hw_done. *)
HwDone(w) ==
  /\ job[w].phase = "planes" /\ job[w].flush = {}
  /\ job' = [job EXCEPT ![w] = NoJob]
  /\ UNCHANGED <<device, stateVars, eventVars, modeVars, hardVars, drives>>

-----------------------------------------------------------------------------
(* A frame ends, and an interrupt is raised. *)
Vsync(c) ==
  /\ scan[c] # Off /\ vsync[c] /\ ~irq[c]
  /\ irq' = [irq EXCEPT ![c] = TRUE]
  /\ UNCHANGED <<device, stateVars, eventVars, job, modeVars, scan, astray, vblank, vsync, drives>>

(* mtgpu_dispc_isr: drm_crtc_handle_vblank sends what is armed. *)
mtgpu_dispc_isr(c) ==
  /\ irq[c]
  /\ irq' = [irq EXCEPT ![c] = FALSE]
  /\ armed' = [armed EXCEPT ![c] = armed[c] /\ ~vsync[c]]
  /\ owed' = Sent({d \in {c} : armed[d] /\ vsync[d]})
  /\ UNCHANGED <<device, stateVars, event, job, modeVars, scan, astray, vblank, vsync, drives>>

(* Some time after the last reference is gone the DRM core disables the    *)
(* interrupt.                                                              *)
mtgpu_crtc_disable_vblank(c) ==
  /\ vsync[c] /\ ~armed[c]
  /\ vsync' = [vsync EXCEPT ![c] = FALSE]
  /\ UNCHANGED <<device, stateVars, eventVars, job, modeVars, scan, astray, vblank, irq, drives>>

-----------------------------------------------------------------------------
Tail(w) ==
  \/ Start(w) \/ DisableCrtcs(w) \/ DisableEncoders(w) \/ SetMode(w)
  \/ EnableEncoders(w) \/ EnableCrtcs(w)
  \/ (\E c \in Crtcs : mtgpu_crtc_atomic_flush(w, c)) \/ HwDone(w)

Next ==
  \/ \E w \in Workers : Check(w) \/ Drop(w) \/ SwapState(w) \/ Tail(w)
  \/ \E c \in Crtcs : Vsync(c) \/ mtgpu_dispc_isr(c) \/ mtgpu_crtc_disable_vblank(c)

Spec == Init /\ [][Next]_vars

-----------------------------------------------------------------------------
(* On most devices a crtc scans only while an encoder is enabled for it:   *)
(* the driver's helpers switch crtcs off before their encoders and on      *)
(* after them.  On a SUDI104 it is the other way round, no encoder is      *)
(* enabled for a crtc that does not scan.  Both while the connectors of a  *)
(* crtc come and go, and crtcs of the same commit need no modeset.         *)
ScansIntoEncoder ==
  IF device.sudi104
  THEN \A k \in Connectors : drives[k] # None => scan[drives[k]] # Off
  ELSE \A c \in Crtcs : scan[c] # Off => \E k \in Connectors : drives[k] = c

(* When no commit of a crtc is being carried out it scans just when it is  *)
(* active, into exactly the encoders of its connectors, and with its mode, *)
(* unless the check of another commit, dropped or not yet swapped in, came *)
(* between the setting of ctx.vm and the enable that programmed it.  The   *)
(* helpers decide from the old and the new state and from what was found   *)
(* changed what to touch: a wrong choice shows some commits later.         *)
StateReached ==
  \A c \in Crtcs \ InFlight :
    /\ scan[c] # Off <=> active[c]
    /\ active[c] /\ c \notin astray => scan[c] = mode[c]
    /\ \A k \in Connectors :
         drives[k] = c <=> route[k] = c /\ active[c]

(* The event of every commit is sent once: it is in the state of the crtc, *)
(* or armed, until it is.  atomic_disable, atomic_flush, vblank_off and    *)
(* the interrupt all send events; none may be lost or be sent again.       *)
FlipsAccounted ==
  \A c \in Crtcs :
    owed[c] = (IF event[c] THEN 1 ELSE 0) + (IF armed[c] THEN 1 ELSE 0)

(* An event that waits for a vblank will get one: its crtc scans and has   *)
(* the vsync interrupt enabled.  Nothing else ever sends it, and the next  *)
(* commit of the crtc waits for it; the interrupt is enabled and disabled  *)
(* behind the commits' back, and commits switch the crtc off.              *)
ArmedGetsVblank ==
  \A c \in Crtcs : armed[c] => scan[c] # Off /\ vblank[c] /\ vsync[c]

=============================================================================
