---------------------------- MODULE PvrSyncFile ----------------------------
(***************************************************************************)
(* The fences of a kick on their way through pvr_sync_file.c.  A kick may  *)
(* wait for the fences behind a descriptor (pvr_sync_resolve_fence); it    *)
(* makes a fence for itself behind a descriptor that is reserved but not   *)
(* yet visible (pvr_sync_create_fence); once the work is in the firmware's *)
(* queue the descriptor becomes visible (pvr_sync_finalise_fence), and if  *)
(* it cannot be queued everything is undone (pvr_sync_rollback_fence_data). *)
(* Other threads of the process meanwhile close, merge and query           *)
(* descriptors, and the timeline's too.                                    *)
(*                                                                         *)
(* Descriptors also hold fences of other drivers and the driver's own      *)
(* software points (PvrCountingTimeline): foreign here, for neither has a  *)
(* checkpoint.  A kick that finds one wraps it in a fence with a           *)
(* checkpoint of its own, which the signal of the foreign fence signals;   *)
(* whether it ever comes is up to others.                                  *)
(*                                                                         *)
(* A kick and the fence, sync file and sync checkpoint it makes have one   *)
(* name; so have a foreign fence and its sync file, and a wrapper and its  *)
(* checkpoint.  How a fence signals is in PvrFence; here a fence that was  *)
(* asked to signal is referenced until its signal was announced.           *)
(***************************************************************************)
EXTENDS Integers, FiniteSets

CONSTANTS
  Kicks,    \* kicks, each with its fence
  Merges,   \* sync files user space makes by merging two
  Foreigns, \* fences of other drivers, and software points
  Fds,      \* descriptor numbers
  Faults,   \* subset of {"nomem", "submit"}
  NoFile, NoFd

ASSUME SyncFileAssumption ==
  /\ Kicks \cap Merges = {} /\ Foreigns \cap (Kicks \cup Merges) = {}
  /\ (Kicks \X Foreigns) \cap (Kicks \cup Foreigns) = {}
  /\ NoFile \notin Kicks \cup Merges \cup Foreigns
  /\ NoFd \notin Fds
  /\ Faults \subseteq {"nomem", "submit"}
ASSUME FiniteAssumption == IsFiniteSet(Kicks) /\ IsFiniteSet(Merges) /\ IsFiniteSet(Foreigns)

Files == Kicks \cup Merges \cup Foreigns
\* What may be behind a descriptor; the wrappers of foreign fences, one for each
\* kick that finds one; what has a checkpoint.
Shared == Kicks \cup Foreigns
Wrappers == Kicks \X Foreigns
Fences == Shared \cup Wrappers
Checkpoints == Kicks \cup Wrappers

VARIABLES
  fds,        \* the process's descriptors: a sync file, or NoFile
  behind,     \* fences of a sync file that is open or held by its kick
  tl_open,    \* the timeline's descriptor is open
  tl_refs,    \* references on the timeline's file
  tl_ctx,     \* the timeline has its hardware context
  pc,         \* a kick's place
  reserved,   \* descriptor a kick has reserved
  input,      \* fences behind the descriptor a kick resolves
  todo,       \* those it has still to look at
  wrapping,   \* the foreign fence it is wrapping
  deps,       \* checkpoints it waits for
  hooked,     \* wrappers whose callback is on the foreign fence
  refcount,   \* references on a fence, on a foreign one those held here; freed at zero
  made,       \* the fence has been created
  ck_refs,    \* references on a checkpoint; freed at zero
  ck_signaled,\* the firmware has signalled the checkpoint
  flag,       \* DMA_FENCE_FLAG_SIGNALED_BIT
  listed,     \* on the signal_list of its context
  is_bind,    \* fence_prim_data.is_bind_sync_fd
  queued,     \* the work is in the firmware's queue
  query       \* a query of a descriptor: place, descriptor and fence

tlVars == <<tl_open, tl_refs, tl_ctx>>
kickVars == <<reserved, input, todo, wrapping, deps>>
fenceVars == <<refcount, hooked, made, flag, listed, is_bind>>
ckVars == <<ck_refs, ck_signaled>>
vars == <<fds, behind, tlVars, pc, kickVars, fenceVars, ckVars, queued, query>>

NoQuery == [at |-> "none", fd |-> NoFd, fence |-> NoFile]

Init ==
  /\ fds = [fd \in Fds |-> NoFile]
  /\ behind = [f \in Files |-> {}]
  /\ tl_open = TRUE /\ tl_refs = 1 /\ tl_ctx = FALSE
  /\ pc = [k \in Kicks |-> "idle"]
  /\ reserved = [k \in Kicks |-> NoFd]
  /\ input = [k \in Kicks |-> {}]
  /\ todo = [k \in Kicks |-> {}]
  /\ wrapping = [k \in Kicks |-> NoFile]
  /\ deps = [k \in Kicks |-> {}]
  /\ hooked = {}
  /\ refcount = [f \in Fences |-> 0]
  /\ made = [k \in Kicks |-> FALSE]
  /\ flag = [f \in Shared |-> FALSE]
  /\ listed = [k \in Kicks |-> FALSE]
  /\ is_bind = [k \in Kicks |-> FALSE]
  /\ ck_refs = [f \in Checkpoints |-> 0]
  /\ ck_signaled = [f \in Checkpoints |-> FALSE]
  /\ queued = [k \in Kicks |-> FALSE]
  /\ query = NoQuery

-----------------------------------------------------------------------------
At(k, label) == pc[k] = label
Goto(k, label) == pc' = [pc EXCEPT ![k] = label]

Reserved == {reserved[k] : k \in Kicks} \ {NoFd}
Unused == {fd \in Fds : fds[fd] = NoFile /\ fd \notin Reserved}

One(b) == IF b THEN 1 ELSE 0

\* References on the fences of a set, one each; the last one of a fence takes
\* the reference it has on its checkpoint with it (pvr_fence_release).
Get(S) == refcount' = [f \in Fences |-> refcount[f] + One(f \in S)]
Freed(S) == {f \in S : refcount[f] = 1}
Put(S) == refcount' = [f \in Fences |-> refcount[f] - One(f \in S)]
CkDrop(S, T) == ck_refs' = [f \in Checkpoints |-> ck_refs[f] - One(f \in S) - One(f \in T)]
PutAll(S, T) ==
  Put(S) /\ CkDrop(Freed(S), T) /\ UNCHANGED <<hooked, made, flag, listed, is_bind, ck_signaled>>

\* The last reference on a wrapper takes one on the foreign fence with it, too
\* (pvr_fence_foreign_release); its checkpoint gets n references before.
PutWrapper(w, n) ==
  LET last == One(refcount[w] = 1)
  IN  /\ refcount' = [refcount EXCEPT ![w] = @ - 1, ![w[2]] = @ - last]
      /\ ck_refs' = [ck_refs EXCEPT ![w] = @ + n - last]

-----------------------------------------------------------------------------
(* pvr_sync_resolve_fence *)

\* The core resolves the descriptor of the kick's check fence, if it has one.
NoCheckFence(k) ==
  /\ At(k, "idle")
  /\ Goto(k, "reserve")
  /\ UNCHANGED <<fds, behind, tlVars, kickVars, fenceVars, ckVars, queued, query>>

\* Mutant: a descriptor is looked up by the number a kick reserved, too.
ResolveReserved(k) ==
  /\ At(k, "idle")
  /\ \E f \in Files :
       /\ behind[f] # {}
       /\ input' = [input EXCEPT ![k] = behind[f]]
       /\ todo' = [todo EXCEPT ![k] = behind[f]]
       /\ Get(behind[f])
  /\ Goto(k, "resolve")
  /\ UNCHANGED <<fds, behind, tlVars, reserved, wrapping, deps, hooked, made, flag, listed,
                 is_bind, ckVars, queued, query>>

\* A reserved descriptor is not found.
ResolveGet(k) ==
  /\ At(k, "idle")
  /\ \E fd \in Fds :
       IF fds[fd] = NoFile
       THEN Goto(k, "over") /\ UNCHANGED <<input, todo, refcount>>
       ELSE /\ input' = [input EXCEPT ![k] = behind[fds[fd]]]
            /\ todo' = [todo EXCEPT ![k] = behind[fds[fd]]]
            /\ Get(behind[fds[fd]])
            /\ Goto(k, "resolve")
  /\ UNCHANGED <<fds, behind, tlVars, reserved, wrapping, deps, hooked, made, flag, listed,
                 is_bind, ckVars, queued, query>>

\* Fences that have signalled are left out; wrapping one of our own only takes
\* and drops a reference.
ResolveOne(k) ==
  /\ At(k, "resolve")
  /\ \E f \in todo[k] :
       /\ todo' = [todo EXCEPT ![k] = @ \ {f}]
       /\ \/ flag[f] /\ UNCHANGED <<pc, wrapping, deps, ck_refs>>
          \/ /\ ~flag[f] /\ f \in Kicks
             /\ deps' = [deps EXCEPT ![k] = @ \cup {f}]
             /\ ck_refs' = [ck_refs EXCEPT ![f] = @ + 1]
             /\ UNCHANGED <<pc, wrapping>>
          \/ /\ ~flag[f] /\ f \in Foreigns
             /\ wrapping' = [wrapping EXCEPT ![k] = f]
             /\ Goto(k, "wrap")
             /\ UNCHANGED <<deps, ck_refs>>
  /\ UNCHANGED <<fds, behind, tlVars, reserved, input, fenceVars, ck_signaled, queued, query>>

\* pvr_fence_create_from_fence: a fence with a checkpoint, which has one more
\* reference until the callback it adds to the foreign fence has run; if that
\* has signalled meanwhile (-ENOENT) the checkpoint is signalled here.
WrapForeign(k) ==
  /\ At(k, "wrap")
  /\ LET x == wrapping[k]
         w == <<k, x>>
     IN  /\ refcount' = [refcount EXCEPT ![w] = IF flag[x] THEN 1 ELSE 2, ![x] = @ + 1]
         /\ ck_refs' = [ck_refs EXCEPT ![w] = 1]
         /\ ck_signaled' = [ck_signaled EXCEPT ![w] = flag[x]]
         /\ hooked' = IF flag[x] THEN hooked ELSE hooked \cup {w}
  /\ Goto(k, "wrapped")
  /\ UNCHANGED <<fds, behind, tlVars, kickVars, made, flag, listed, is_bind, queued, query>>

\* The kick takes the checkpoint and puts the wrapper.
ResolveWrapped(k) ==
  /\ At(k, "wrapped")
  /\ deps' = [deps EXCEPT ![k] = @ \cup {<<k, wrapping[k]>>}]
  /\ PutWrapper(<<k, wrapping[k]>>, 1)
  /\ wrapping' = [wrapping EXCEPT ![k] = NoFile]
  /\ Goto(k, "resolve")
  /\ UNCHANGED <<fds, behind, tlVars, reserved, input, todo, hooked, made, flag, listed, is_bind,
                 ck_signaled, queued, query>>

\* No memory for the array of checkpoints or for a wrapper.
ResolveFails(k) ==
  /\ "nomem" \in Faults
  /\ (At(k, "resolve") /\ todo[k] = input[k]) \/ At(k, "wrap")
  /\ PutAll(input[k], deps[k])
  /\ input' = [input EXCEPT ![k] = {}]
  /\ todo' = [todo EXCEPT ![k] = {}]
  /\ wrapping' = [wrapping EXCEPT ![k] = NoFile]
  /\ deps' = [deps EXCEPT ![k] = {}]
  /\ Goto(k, "over")
  /\ UNCHANGED <<fds, behind, tlVars, reserved, queued, query>>

ResolvePut(k) ==
  /\ At(k, "resolve") /\ todo[k] = {}
  /\ PutAll(input[k], {})
  /\ input' = [input EXCEPT ![k] = {}]
  /\ Goto(k, "reserve")
  /\ UNCHANGED <<fds, behind, tlVars, reserved, todo, wrapping, deps, queued, query>>

-----------------------------------------------------------------------------
(* pvr_sync_create_fence *)

\* The core gives up a kick: it drops the checkpoints it was to wait for.
Abandon(k) == deps' = [deps EXCEPT ![k] = {}] /\ Goto(k, "over")

ReserveFd(k) ==
  /\ At(k, "reserve")
  /\ IF Unused = {}
     THEN Abandon(k) /\ CkDrop({}, deps[k]) /\ UNCHANGED reserved
     ELSE /\ \E fd \in Unused : reserved' = [reserved EXCEPT ![k] = fd]
          /\ Goto(k, "timeline")
          /\ UNCHANGED <<deps, ck_refs>>
  /\ UNCHANGED <<fds, behind, tlVars, input, todo, wrapping, fenceVars, ck_signaled, queued,
                 query>>

\* Whether it is a software timeline (332) is settled by the gate, PvrSyncIoctl.
GetTimeline(k) ==
  /\ At(k, "timeline")
  /\ IF tl_open
     THEN tl_refs' = tl_refs + 1 /\ Goto(k, "context")
     ELSE Goto(k, "put_fd") /\ UNCHANGED tl_refs
  /\ UNCHANGED <<fds, behind, tl_open, tl_ctx, kickVars, fenceVars, ckVars, queued, query>>

HwContext(k) ==
  /\ At(k, "context")
  /\ \/ tl_ctx' = TRUE /\ Goto(k, "fence")
     \/ ~tl_ctx /\ "nomem" \in Faults /\ Goto(k, "put_timeline") /\ UNCHANGED tl_ctx
  /\ UNCHANGED <<fds, behind, tl_open, tl_refs, kickVars, fenceVars, ckVars, queued, query>>

MakeFence(k) ==
  /\ At(k, "fence")
  /\ \/ /\ made' = [made EXCEPT ![k] = TRUE]
        /\ Get({k})
        /\ ck_refs' = [ck_refs EXCEPT ![k] = 1]
        /\ Goto(k, "file")
     \/ "nomem" \in Faults /\ Goto(k, "put_timeline") /\ UNCHANGED <<made, refcount, ck_refs>>
  /\ UNCHANGED <<fds, behind, tlVars, kickVars, hooked, flag, listed, is_bind, ck_signaled, queued,
                 query>>

\* sync_file_create takes a reference, and the one of pvr_fence_create is put.
MakeFile(k) ==
  /\ At(k, "file")
  /\ \/ /\ behind' = [behind EXCEPT ![k] = {k}]
        /\ Goto(k, "put")
        /\ UNCHANGED <<fenceVars, ckVars>>
     \/ /\ "nomem" \in Faults
        /\ PutAll({k}, {})
        /\ Goto(k, "put_timeline")
        /\ UNCHANGED behind
  /\ UNCHANGED <<fds, tlVars, kickVars, queued, query>>

\* pvr_sync_timeline_fput, after success or failure; the last reference on
\* the file releases the timeline (pvr_sync_api_deinit).
PutTimeline(k) ==
  /\ At(k, "put") \/ At(k, "put_timeline")
  /\ tl_refs' = tl_refs - 1
  /\ tl_ctx' = (tl_ctx /\ tl_refs' > 0)
  /\ Goto(k, IF At(k, "put") THEN "created" ELSE "put_fd")
  /\ UNCHANGED <<fds, behind, tl_open, kickVars, fenceVars, ckVars, queued, query>>

\* Mutant: the descriptor is not put back.
PutFdForgotten(k) ==
  /\ At(k, "put_fd")
  /\ Abandon(k) /\ CkDrop({}, deps[k])
  /\ UNCHANGED <<fds, behind, tlVars, reserved, input, todo, wrapping, fenceVars, ck_signaled,
                 queued, query>>

PutFd(k) ==
  /\ At(k, "put_fd")
  /\ reserved' = [reserved EXCEPT ![k] = NoFd]
  /\ Abandon(k) /\ CkDrop({}, deps[k])
  /\ UNCHANGED <<fds, behind, tlVars, input, todo, wrapping, fenceVars, ck_signaled, queued,
                 query>>

-----------------------------------------------------------------------------
(* Submission by the core, then pvr_sync_finalise_fence or                 *)
(* pvr_sync_rollback_fence_data.                                           *)

Submit(k) ==
  /\ At(k, "created")
  /\ \/ queued' = [queued EXCEPT ![k] = TRUE] /\ Goto(k, "enable")
     \/ "submit" \in Faults /\ Goto(k, "rollback") /\ UNCHANGED queued
  /\ UNCHANGED <<fds, behind, tlVars, kickVars, fenceVars, ckVars, query>>

\* Mutant: signalling is not enabled before the descriptor is visible.
FinaliseQuiet(k) ==
  /\ At(k, "enable")
  /\ Goto(k, "install")
  /\ UNCHANGED <<fds, behind, tlVars, kickVars, fenceVars, ckVars, queued, query>>

\* dma_fence_enable_sw_signaling: the fence is listed with a reference, or
\* signals at once when its checkpoint has.
FinaliseEnable(k) ==
  /\ At(k, "enable")
  /\ IF ck_signaled[k]
     THEN flag' = [flag EXCEPT ![k] = TRUE] /\ UNCHANGED <<listed, refcount>>
     ELSE listed' = [listed EXCEPT ![k] = TRUE] /\ Get({k}) /\ UNCHANGED flag
  /\ Goto(k, "install")
  /\ UNCHANGED <<fds, behind, tlVars, kickVars, hooked, made, is_bind, ckVars, queued, query>>

\* Mutant: the file is put after it was installed.
FinaliseInstallPuts(k) ==
  /\ At(k, "install")
  /\ fds' = [fds EXCEPT ![reserved[k]] = k]
  /\ reserved' = [reserved EXCEPT ![k] = NoFd]
  /\ PutAll({k}, {})
  /\ Goto(k, "bind")
  /\ UNCHANGED <<behind, tlVars, input, todo, wrapping, deps, queued, query>>

\* fd_install: the table owns the file now.
FinaliseInstall(k) ==
  /\ At(k, "install")
  /\ fds' = [fds EXCEPT ![reserved[k]] = k]
  /\ reserved' = [reserved EXCEPT ![k] = NoFd]
  /\ Goto(k, "bind")
  /\ UNCHANGED <<behind, tlVars, input, todo, wrapping, deps, fenceVars, ckVars, queued, query>>

FinaliseBind(k) ==
  /\ At(k, "bind")
  /\ is_bind' = [is_bind EXCEPT ![k] = TRUE]
  /\ Goto(k, "over")
  /\ UNCHANGED <<fds, behind, tlVars, kickVars, refcount, hooked, made, flag, listed, ckVars,
                 queued, query>>

\* The core drops the checkpoints when it gives up (PutFd).
Rollback(k) ==
  /\ At(k, "rollback")
  /\ PutAll({k}, {})
  /\ behind' = [behind EXCEPT ![k] = {}]
  /\ Goto(k, "put_fd")
  /\ UNCHANGED <<fds, tlVars, kickVars, queued, query>>

-----------------------------------------------------------------------------
(* Firmware, notifier and user space *)

CanRun(k) == queued[k] /\ \A f \in deps[k] : ck_signaled[f]

\* The work runs when all it waits for is done; its own checkpoint is
\* signalled and the others are dropped.
Finish(k) ==
  /\ CanRun(k)
  /\ ck_signaled' = [ck_signaled EXCEPT ![k] = TRUE]
  /\ queued' = [queued EXCEPT ![k] = FALSE]
  /\ CkDrop({}, deps[k])
  /\ deps' = [deps EXCEPT ![k] = {}]
  /\ UNCHANGED <<fds, behind, tlVars, pc, reserved, input, todo, wrapping, fenceVars, query>>

Announce(k) ==
  /\ listed[k] /\ ck_signaled[k]
  /\ listed' = [listed EXCEPT ![k] = FALSE]
  /\ flag' = [flag EXCEPT ![k] = TRUE]
  /\ Put({k}) /\ CkDrop(Freed({k}), {})
  /\ UNCHANGED <<fds, behind, tlVars, pc, kickVars, hooked, made, is_bind, ck_signaled, queued,
                 query>>

\* User space gets a descriptor of a foreign fence, from another driver or from
\* a software timeline (pvr_sync_api_sw_create_fence).
OpenForeign(x) ==
  /\ \A fd \in Fds : fds[fd] # x
  /\ \E fd \in Unused : fds' = [fds EXCEPT ![fd] = x]
  /\ behind' = [behind EXCEPT ![x] = {x}]
  /\ Get({x})
  /\ UNCHANGED <<tlVars, pc, kickVars, hooked, made, flag, listed, is_bind, ckVars, queued, query>>

\* Whoever owns a foreign fence signals it, when it pleases.
ForeignSignal(x) ==
  /\ ~flag[x]
  /\ flag' = [flag EXCEPT ![x] = TRUE]
  /\ UNCHANGED <<fds, behind, tlVars, pc, kickVars, refcount, hooked, made, listed, is_bind, ckVars,
                 queued, query>>

\* pvr_fence_foreign_signal_sync, the callback
SignalSync(w) ==
  /\ w \in hooked /\ flag[w[2]]
  /\ hooked' = hooked \ {w}
  /\ ck_signaled' = [ck_signaled EXCEPT ![w] = TRUE]
  /\ PutWrapper(w, 0)
  /\ UNCHANGED <<fds, behind, tlVars, pc, kickVars, made, flag, listed, is_bind, queued, query>>

CloseFd(fd) ==
  /\ fds[fd] # NoFile
  /\ fds' = [fds EXCEPT ![fd] = NoFile]
  /\ behind' = [behind EXCEPT ![fds[fd]] = {}]
  /\ PutAll(behind[fds[fd]], {})
  /\ UNCHANGED <<tlVars, pc, kickVars, queued, query>>

\* SYNC_IOC_MERGE
MergeFds(m, fd1, fd2) ==
  /\ \A fd \in Fds : fds[fd] # m
  /\ fds[fd1] # NoFile /\ fds[fd2] # NoFile
  /\ \E fd \in Unused : fds' = [fds EXCEPT ![fd] = m]
  /\ LET S == behind[fds[fd1]] \cup behind[fds[fd2]]
     IN  behind' = [behind EXCEPT ![m] = S] /\ Get(S)
  /\ UNCHANGED <<tlVars, pc, kickVars, hooked, made, flag, listed, is_bind, ckVars, queued, query>>

CloseTimeline ==
  /\ tl_open
  /\ tl_open' = FALSE
  /\ tl_refs' = tl_refs - 1
  /\ tl_ctx' = (tl_ctx /\ tl_refs' > 0)
  /\ UNCHANGED <<fds, behind, pc, kickVars, fenceVars, ckVars, queued, query>>

-----------------------------------------------------------------------------
(* pvr_sync_get_timeline_from_fence, pvr_sync_get_checkpoint_from_fence:   *)
(* both read the fence after they put it.                                  *)

\* Neither a merged fence nor a foreign one is a pvr_fence.
QueryGet(fd) ==
  /\ query.at = "none" /\ fds[fd] \in Kicks
  /\ query' = [at |-> "put", fd |-> fd, fence |-> fds[fd]]
  /\ Get({fds[fd]})
  /\ UNCHANGED <<fds, behind, tlVars, pc, kickVars, hooked, made, flag, listed, is_bind, ckVars,
                 queued>>

QueryPut ==
  /\ query.at = "put"
  /\ query' = [query EXCEPT !.at = "read"]
  /\ PutAll({query.fence}, {})
  /\ UNCHANGED <<fds, behind, tlVars, pc, kickVars, queued>>

QueryRead ==
  /\ query.at = "read"
  /\ query' = NoQuery
  /\ UNCHANGED <<fds, behind, tlVars, pc, kickVars, fenceVars, ckVars, queued>>

-----------------------------------------------------------------------------
Resolve(k) ==
  \/ ResolveGet(k) \/ ResolveOne(k) \/ WrapForeign(k) \/ ResolveWrapped(k)
  \/ ResolveFails(k) \/ ResolvePut(k)
Create(k) ==
  \/ ReserveFd(k) \/ GetTimeline(k) \/ HwContext(k) \/ MakeFence(k) \/ MakeFile(k)
  \/ PutTimeline(k) \/ PutFd(k)
Finalise(k) == FinaliseEnable(k) \/ FinaliseInstall(k) \/ FinaliseBind(k)
Kick(k) == NoCheckFence(k) \/ Resolve(k) \/ Create(k) \/ Submit(k) \/ Finalise(k) \/ Rollback(k)
User ==
  \/ CloseTimeline
  \/ \E fd \in Fds : CloseFd(fd) \/ QueryGet(fd)
  \/ \E m \in Merges, fd1, fd2 \in Fds : MergeFds(m, fd1, fd2)
Query == QueryPut \/ QueryRead
Foreign ==
  (\E x \in Foreigns : OpenForeign(x) \/ ForeignSignal(x)) \/ \E w \in Wrappers : SignalSync(w)

Next ==
  \/ \E k \in Kicks : Kick(k) \/ Finish(k) \/ Announce(k)
  \/ User
  \/ Query
  \/ Foreign

Spec == Init /\ [][Next]_vars

-----------------------------------------------------------------------------
Places ==
  {"idle", "resolve", "wrap", "wrapped", "reserve", "timeline", "context", "fence", "file", "put",
   "put_timeline", "put_fd", "created", "enable", "install", "bind", "rollback", "over"}

TypeOK ==
  /\ fds \in [Fds -> Files \cup {NoFile}]
  /\ behind \in [Files -> SUBSET Shared]
  /\ tl_open \in BOOLEAN /\ tl_refs \in Nat /\ tl_ctx \in BOOLEAN
  /\ pc \in [Kicks -> Places]
  /\ reserved \in [Kicks -> Fds \cup {NoFd}]
  /\ input \in [Kicks -> SUBSET Shared]
  /\ todo \in [Kicks -> SUBSET Shared]
  /\ wrapping \in [Kicks -> Foreigns \cup {NoFile}]
  /\ deps \in [Kicks -> SUBSET Checkpoints]
  /\ refcount \in [Fences -> Nat] /\ ck_refs \in [Checkpoints -> Nat]
  /\ hooked \subseteq Wrappers
  /\ made \in [Kicks -> BOOLEAN] /\ flag \in [Shared -> BOOLEAN] /\ listed \in [Kicks -> BOOLEAN]
  /\ is_bind \in [Kicks -> BOOLEAN] /\ ck_signaled \in [Checkpoints -> BOOLEAN]
  /\ queued \in [Kicks -> BOOLEAN]
  /\ query \in [at : {"none", "put", "read"}, fd : Fds \cup {NoFd}, fence : Files \cup {NoFile}]

\* References on fences, checkpoints and the timeline's file stand for exactly
\* who holds them, and a reserved descriptor for the kick that will install it
\* or put it back: whatever fails, a kick that is over holds nothing
\* (pvr_sync_file.c:412-420, 576-582), and a wrapper that its kick gave up lives
\* until the foreign fence signals.
ByKick(k, f) == (f = k /\ At(k, "file")) \/ (f = <<k, wrapping[k]>> /\ At(k, "wrapped"))
FenceHolders(f) ==
  Cardinality({g \in Files : f \in behind[g]}) + Cardinality({k \in Kicks : f \in input[k]})
    + Cardinality({w \in Wrappers : w[2] = f /\ refcount[w] > 0})
    + Cardinality({k \in Kicks : ByKick(k, f)})
    + One(f \in Kicks /\ listed[f]) + One(f \in hooked) + One(query.at = "put" /\ query.fence = f)
CkHolders(f) == One(refcount[f] > 0) + Cardinality({k \in Kicks : f \in deps[k]})
InCreate(k) == pc[k] \in {"context", "fence", "file", "put", "put_timeline"}
HasFd(k) ==
  pc[k] \in {"timeline", "context", "fence", "file", "put", "put_timeline", "put_fd", "created",
             "enable", "install", "rollback"}
HoldersExact ==
  /\ \A f \in Fences : refcount[f] = FenceHolders(f)
  /\ \A f \in Checkpoints : ck_refs[f] = CkHolders(f)
  /\ tl_refs = One(tl_open) + Cardinality({k \in Kicks : InCreate(k)})
  /\ \A k \in Kicks : reserved[k] # NoFd <=> HasFd(k)
  /\ \A k, l \in Kicks : HasFd(k) /\ reserved[k] = reserved[l] => k = l
  /\ \A k \in Kicks : HasFd(k) => fds[reserved[k]] = NoFile

\* What the firmware looks at and writes is there: the checkpoints queued work
\* waits for, and the one it signals, although the fence's descriptor may be
\* closed as soon as it is visible (signalling is enabled first, 263-265).
FirmwareSafe ==
  \A k \in Kicks :
    /\ \A f \in deps[k] : ck_refs[f] > 0
    /\ queued[k] => ck_refs[k] > 0

\* Of our own work nobody waits for any that is not in the queue and may never be,
\* since a fence is not found before its work is there (rollback, 434-460); for a
\* foreign fence nobody waits without the callback that passes its signal on, even
\* if it signals while it is wrapped.  Kicks never wait for each other in a circle:
\* of the work in the queue some waits, if at all, for foreign fences only.  These
\* may never signal, and wedge what waits (205-210).
WaitsForQueued ==
  /\ \A k \in Kicks : \A f \in deps[k] :
       ck_signaled[f] \/ (IF f \in Kicks THEN queued[f] ELSE f \in hooked)
  /\ (\E k \in Kicks : queued[k]) =>
       \E k \in Kicks : queued[k] /\ \A f \in deps[k] \cap Kicks : ck_signaled[f]

\* The flag that finalise sets after fd_install (266), and what the queries
\* read after they put the fence (614, 662), are memory in use unless another
\* thread closed the descriptor during the call.
StaleOnlyIfClosed ==
  /\ \A k \in Kicks : At(k, "bind") /\ (\E fd \in Fds : fds[fd] = k) => refcount[k] > 0
  /\ query.at = "read" /\ fds[query.fd] = query.fence => refcount[query.fence] > 0
=============================================================================
