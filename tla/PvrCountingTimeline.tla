------------------------ MODULE PvrCountingTimeline -------------------------
(***************************************************************************)
(* A software timeline: the counting timeline of                           *)
(* src/src/pvr/pvr_counting_timeline.c, its fences (pvr_sw_fence.c), and   *)
(* the operations of pvr_sync_file.c that reach it through the timeline    *)
(* file or through a reference the services core took.                     *)
(*                                                                         *)
(* The module starts when force_sw_only has created the timeline, with the *)
(* file open.  Threads are processes inside an ioctl of the file or inside *)
(* pvr_sync_sw_timeline_fence_create.  Everything under                    *)
(* active_fences_lock is one step.  Out-of-memory returns before the point *)
(* is defined change nothing and are left out; later ones are kept.        *)
(***************************************************************************)
EXTENDS Integers, FiniteSets

CONSTANTS Threads,
          Fences,       \* struct pvr_sw_fence objects, each used once: bounds the points
          MaxHandles,   \* bound: references the services core holds at a time
          NoFence

ASSUME CountingAssumption == NoFence \notin Fences /\ MaxHandles \in Nat

VARIABLES
  fd_open,        \* is the file descriptor of the timeline open?
  file_refs,      \* references to its struct file
  closing,        \* progress of pvr_sync_api_deinit
  handles,        \* references taken by pvr_sync_sw_timeline_get
  kref,           \* timeline->kref
  registered,     \* is the debug request notifier registered?
  dumping,        \* is a debug request being served?
  destroying,     \* progress of pvr_counting_fence_timeline_destroy
  current_value, next_value,
  active_fences,  \* fences whose counting fence is on the list
  ctx_kref, ctx_freed, fence_count,   \* the pvr_sw_fence_context
  value,          \* counting fence value, 0 before it has one
  refcount, users, signaled,          \* the dma_fence, and references user code holds
  rel,            \* progress of pvr_sw_fence_release
  pc, fence_of, has_file

fileVars  == <<fd_open, file_refs, closing, handles>>
lifeVars  == <<kref, registered, dumping, destroying>>
countVars == <<current_value, next_value, active_fences, value>>
ctxVars   == <<ctx_kref, ctx_freed, fence_count>>
fenceVars == <<refcount, users, signaled, rel>>
callVars  == <<pc, fence_of, has_file>>
vars == <<fileVars, lifeVars, countVars, ctxVars, fenceVars, callVars>>

Init ==
  /\ fd_open = TRUE /\ file_refs = 1 /\ closing = "no" /\ handles = 0
  /\ kref = 1 /\ registered = TRUE /\ dumping = FALSE /\ destroying = "no"
  /\ current_value = 0 /\ next_value = 1 /\ active_fences = {}
  /\ ctx_kref = 1 /\ ctx_freed = FALSE /\ fence_count = 0
  /\ value = [f \in Fences |-> 0]
  /\ refcount = [f \in Fences |-> 0]
  /\ users = [f \in Fences |-> 0]
  /\ signaled = [f \in Fences |-> FALSE]
  /\ rel = [f \in Fences |-> "none"]
  /\ pc = [t \in Threads |-> "idle"]
  /\ fence_of = [t \in Threads |-> NoFence]
  /\ has_file = [t \in Threads |-> FALSE]

-----------------------------------------------------------------------------
(* References.                                                             *)

\* fput: the last reference runs the release handler, pvr_sync_api_deinit.
FilePut ==
  /\ file_refs' = file_refs - 1
  /\ closing' = IF file_refs = 1 THEN "force" ELSE closing

\* pvr_counting_fence_timeline_put
TimelinePut ==
  /\ kref' = kref - 1
  /\ destroying' = IF kref = 1 THEN "unregister" ELSE destroying

\* dma_fence_put of every fence in F
PutFences(F) ==
  /\ refcount' = [f \in Fences |-> IF f \in F THEN refcount[f] - 1 ELSE refcount[f]]
  /\ rel' = [f \in Fences |-> IF f \in F /\ refcount[f] = 1 THEN "count" ELSE rel[f]]

\* pvr_sw_fence_release: first the count, then the context's reference and
\* the memory.
ReleaseCount(f) ==
  /\ rel[f] = "count"
  /\ rel' = [rel EXCEPT ![f] = "kref"]
  /\ fence_count' = fence_count - 1
  /\ UNCHANGED <<fileVars, lifeVars, countVars, ctx_kref, ctx_freed, refcount, users,
                 signaled, callVars>>

\* pvr_sw_fence_context_destroy_kref frees the context with the last reference.
CtxPut ==
  /\ ctx_kref' = ctx_kref - 1
  /\ ctx_freed' = (ctx_kref = 1)

\* Mutant: the context is not put.
ReleaseKrefForgotten(f) ==
  /\ rel[f] = "kref"
  /\ rel' = [rel EXCEPT ![f] = "freed"]
  /\ UNCHANGED <<fileVars, lifeVars, countVars, ctxVars, refcount, users, signaled, callVars>>

ReleaseKref(f) ==
  /\ rel[f] = "kref"
  /\ rel' = [rel EXCEPT ![f] = "freed"]
  /\ CtxPut
  /\ UNCHANGED <<fileVars, lifeVars, countVars, fence_count, refcount, users, signaled,
                 callVars>>

-----------------------------------------------------------------------------
(* Defining a point: pvr_sync_api_sw_create_fence through the ioctl, which *)
(* keeps the file until it returns, and pvr_sync_sw_timeline_fence_create, *)
(* which lets go of it before it makes the sync file.                      *)

CreateBegin(t) ==
  /\ pc[t] = "idle" /\ fd_open
  /\ pc' = [pc EXCEPT ![t] = "sw_fence"]
  /\ has_file' = [has_file EXCEPT ![t] = TRUE]
  /\ file_refs' = file_refs + 1
  /\ UNCHANGED <<fd_open, closing, handles, lifeVars, countVars, ctxVars, fenceVars, fence_of>>

\* Mutant: the list shares the creator's reference.
SwFenceCreateOneRef(t) ==
  /\ pc[t] = "sw_fence"
  /\ \E f \in Fences :
       /\ refcount[f] = 0 /\ rel[f] = "none"
       /\ refcount' = [refcount EXCEPT ![f] = 1]
       /\ fence_of' = [fence_of EXCEPT ![t] = f]
  /\ fence_count' = fence_count + 1
  /\ ctx_kref' = ctx_kref + 1
  /\ pc' = [pc EXCEPT ![t] = "point"]
  /\ UNCHANGED <<fileVars, lifeVars, countVars, ctx_freed, users, signaled, rel, has_file>>

\* pvr_sw_fence_create, and dma_fence_get for the list.
SwFenceCreate(t) ==
  /\ pc[t] = "sw_fence"
  /\ \E f \in Fences :
       /\ refcount[f] = 0 /\ rel[f] = "none"
       /\ refcount' = [refcount EXCEPT ![f] = 2]
       /\ fence_of' = [fence_of EXCEPT ![t] = f]
  /\ fence_count' = fence_count + 1
  /\ ctx_kref' = ctx_kref + 1
  /\ pc' = [pc EXCEPT ![t] = "point"]
  /\ UNCHANGED <<fileVars, lifeVars, countVars, ctx_freed, users, signaled, rel, has_file>>

\* Either allocation fails.
SwFenceFails(t) ==
  /\ pc[t] = "sw_fence"
  /\ pc' = [pc EXCEPT ![t] = "return"]
  /\ UNCHANGED <<fileVars, lifeVars, countVars, ctxVars, fenceVars, fence_of, has_file>>

\* Mutant: next_value is not advanced.
AddPointSameValue(t) ==
  /\ pc[t] = "point"
  /\ value' = [value EXCEPT ![fence_of[t]] = next_value]
  /\ active_fences' = active_fences \cup {fence_of[t]}
  /\ pc' = [pc EXCEPT ![t] = "sync_file"]
  /\ UNCHANGED <<fileVars, lifeVars, current_value, next_value, ctxVars, fenceVars, fence_of,
                 has_file>>

\* The critical section of pvr_counting_fence_create.  Enabling signalling
\* afterwards only sets a flag of the fence.
AddPoint(t) ==
  /\ pc[t] = "point"
  /\ value' = [value EXCEPT ![fence_of[t]] = next_value]
  /\ next_value' = next_value + 1
  /\ active_fences' = active_fences \cup {fence_of[t]}
  /\ pc' = [pc EXCEPT ![t] = "sync_file"]
  /\ UNCHANGED <<fileVars, lifeVars, current_value, ctxVars, fenceVars, fence_of, has_file>>

\* sync_file_create takes its own reference or fails; either way the
\* creator's is put.  The point stays defined.
SyncFile(t) ==
  /\ pc[t] = "sync_file"
  /\ \/ /\ users' = [users EXCEPT ![fence_of[t]] = 1]
        /\ UNCHANGED <<refcount, rel>>
     \/ PutFences({fence_of[t]}) /\ UNCHANGED users
  /\ fence_of' = [fence_of EXCEPT ![t] = NoFence]
  /\ pc' = [pc EXCEPT ![t] = IF has_file[t] THEN "return" ELSE "idle"]
  /\ UNCHANGED <<fileVars, lifeVars, countVars, ctxVars, signaled, has_file>>

\* pvr_sync_timeline_fput, or the end of the ioctl.
Fput(t) ==
  /\ has_file[t] /\ pc[t] \in {"sync_file", "return"}
  /\ has_file' = [has_file EXCEPT ![t] = FALSE]
  /\ pc' = [pc EXCEPT ![t] = IF @ = "return" THEN "idle" ELSE @]
  /\ FilePut
  /\ UNCHANGED <<fd_open, handles, lifeVars, countVars, ctxVars, fenceVars, fence_of>>

\* The holder of a sync file, or of another reference, lets go.
UserPut(f) ==
  /\ users[f] = 1
  /\ users' = [users EXCEPT ![f] = 0]
  /\ PutFences({f})
  /\ UNCHANGED <<fileVars, lifeVars, countVars, ctxVars, signaled, callVars>>

-----------------------------------------------------------------------------
(* Advancing.                                                              *)

\* Signal and put the fences of S under active_fences_lock.
SignalAll(S) ==
  /\ signaled' = [f \in Fences |-> f \in S \/ signaled[f]]
  /\ active_fences' = active_fences \ S
  /\ PutFences(S)

\* Mutant: a point is signalled one step late.
IncLate ==
  IF current_value = next_value - 1
  THEN UNCHANGED <<current_value, active_fences, signaled, refcount, rel>>
  ELSE /\ current_value' = current_value + 1
       /\ SignalAll({f \in active_fences : value[f] < current_value'})

\* pvr_counting_fence_timeline_inc
Inc ==
  IF current_value = next_value - 1
  THEN UNCHANGED <<current_value, active_fences, signaled, refcount, rel>>
  ELSE /\ current_value' = current_value + 1
       /\ SignalAll({f \in active_fences : value[f] <= current_value'})

\* pvr_sync_api_sw_inc through the ioctl
IncBegin(t) ==
  /\ pc[t] = "idle" /\ fd_open
  /\ pc' = [pc EXCEPT ![t] = "inc"]
  /\ has_file' = [has_file EXCEPT ![t] = TRUE]
  /\ file_refs' = file_refs + 1
  /\ UNCHANGED <<fd_open, closing, handles, lifeVars, countVars, ctxVars, fenceVars, fence_of>>

SwInc(t) ==
  /\ pc[t] = "inc"
  /\ Inc
  /\ pc' = [pc EXCEPT ![t] = "return"]
  /\ UNCHANGED <<fileVars, lifeVars, next_value, value, ctxVars, users, fence_of, has_file>>

\* pvr_sync_sw_timeline_get, _advance and _release: the services core keeps
\* the timeline beyond the file.  Its fget and fput enclose only the get.
TimelineGet ==
  /\ fd_open /\ handles < MaxHandles
  /\ handles' = handles + 1 /\ kref' = kref + 1
  /\ UNCHANGED <<fd_open, file_refs, closing, registered, dumping, destroying, countVars,
                 ctxVars, fenceVars, callVars>>

TimelineAdvance ==
  /\ handles > 0
  /\ Inc
  /\ UNCHANGED <<fileVars, lifeVars, next_value, value, ctxVars, users, callVars>>

TimelineRelease ==
  /\ handles > 0
  /\ handles' = handles - 1
  /\ TimelinePut
  /\ UNCHANGED <<fd_open, file_refs, closing, registered, dumping, countVars, ctxVars,
                 fenceVars, callVars>>

-----------------------------------------------------------------------------
(* Closing and destroying.                                                 *)

CloseFd ==
  /\ fd_open /\ fd_open' = FALSE
  /\ FilePut
  /\ UNCHANGED <<handles, lifeVars, countVars, ctxVars, fenceVars, callVars>>

\* pvr_sync_api_deinit completes what is outstanding, then puts the timeline.
ForceComplete ==
  /\ closing = "force"
  /\ closing' = "put"
  /\ SignalAll(active_fences)
  /\ UNCHANGED <<fd_open, file_refs, handles, lifeVars, current_value, next_value, value,
                 ctxVars, users, callVars>>

ClosePut ==
  /\ closing = "put"
  /\ closing' = "done"
  /\ TimelinePut
  /\ UNCHANGED <<fd_open, file_refs, handles, registered, dumping, countVars, ctxVars,
                 fenceVars, callVars>>

\* A debug request walks active_fences.  Unregistering waits for it, and a
\* waiting writer keeps new readers out of the notifier lock.
DumpBegin ==
  /\ registered /\ ~dumping /\ destroying = "no" /\ dumping' = TRUE
  /\ UNCHANGED <<fileVars, kref, registered, destroying, countVars, ctxVars, fenceVars, callVars>>

DumpEnd ==
  /\ dumping /\ dumping' = FALSE
  /\ UNCHANGED <<fileVars, kref, registered, destroying, countVars, ctxVars, fenceVars, callVars>>

\* pvr_counting_fence_timeline_destroy
Unregister ==
  /\ destroying = "unregister" /\ ~dumping
  /\ registered' = FALSE
  /\ destroying' = "context"
  /\ UNCHANGED <<fileVars, kref, dumping, countVars, ctxVars, fenceVars, callVars>>

DestroyContext ==
  /\ destroying = "context"
  /\ destroying' = "freed"
  /\ CtxPut
  /\ UNCHANGED <<fileVars, kref, registered, dumping, countVars, fence_count, fenceVars,
                 callVars>>

-----------------------------------------------------------------------------
ThreadNext(t) ==
  \/ CreateBegin(t) \/ SwFenceCreate(t) \/ SwFenceFails(t) \/ AddPoint(t) \/ SyncFile(t)
  \/ Fput(t) \/ IncBegin(t) \/ SwInc(t)
FenceNext(f) == UserPut(f) \/ ReleaseCount(f) \/ ReleaseKref(f)
HandleNext == TimelineGet \/ TimelineAdvance \/ TimelineRelease
LifeNext == CloseFd \/ ForceComplete \/ ClosePut \/ Unregister \/ DestroyContext
DumpNext == DumpBegin \/ DumpEnd

Next ==
  \/ \E t \in Threads : ThreadNext(t)
  \/ \E f \in Fences : FenceNext(f)
  \/ HandleNext \/ LifeNext \/ DumpNext

Spec == Init /\ [][Next]_vars

\* Calls that began return, references that reached zero release, a debug
\* request ends.  Nobody need close the file, advance or let go of a fence.
Fairness ==
  /\ \A t \in Threads :
       WF_vars(SwFenceCreate(t) \/ SwFenceFails(t) \/ AddPoint(t) \/ SyncFile(t) \/ SwInc(t)
               \/ (pc[t] = "return" /\ Fput(t)))
  /\ \A f \in Fences : WF_vars(ReleaseCount(f) \/ ReleaseKref(f))
  /\ WF_vars(ForceComplete \/ ClosePut)
  /\ WF_vars(Unregister \/ DestroyContext)
  /\ WF_vars(DumpEnd)
FairSpec == Spec /\ Fairness

-----------------------------------------------------------------------------
(* Properties.                                                             *)

TypeOK ==
  /\ fd_open \in BOOLEAN /\ file_refs \in Nat
  /\ closing \in {"no", "force", "put", "done"} /\ handles \in 0..MaxHandles
  /\ kref \in Nat /\ registered \in BOOLEAN /\ dumping \in BOOLEAN
  /\ destroying \in {"no", "unregister", "context", "freed"}
  /\ current_value \in Nat /\ next_value \in Nat
  /\ active_fences \subseteq Fences
  /\ ctx_kref \in Nat /\ ctx_freed \in BOOLEAN /\ fence_count \in Nat
  /\ value \in [Fences -> Nat]
  /\ refcount \in [Fences -> Nat] /\ users \in [Fences -> 0..1]
  /\ signaled \in [Fences -> BOOLEAN]
  /\ rel \in [Fences -> {"none", "count", "kref", "freed"}]
  /\ pc \in [Threads -> {"idle", "sw_fence", "point", "sync_file", "inc", "return"}]
  /\ fence_of \in [Threads -> Fences \cup {NoFence}]
  /\ has_file \in [Threads -> BOOLEAN]

\* A point's fence is signalled exactly when the timeline has reached its
\* value or was closed; no two fences share a value.
Completed == closing \in {"put", "done"}
SignalledExactly ==
  /\ \A f \in Fences : value[f] > 0 => (signaled[f] <=> value[f] <= current_value \/ Completed)
  /\ \A f, g \in Fences : value[f] = value[g] /\ value[f] > 0 => f = g

\* No use after free: a handle, a call in progress and a debug request find
\* the timeline; the list, the creating call and the debug request find the
\* fences; fences and timeline find the sw fence context.  The two WARN_ONs
\* agree: no point is outstanding when the timeline is destroyed, no fence is
\* counted when its context is.
NothingDangles ==
  /\ (handles > 0 \/ dumping \/ registered \/ \E t \in Threads : pc[t] \in {"sw_fence", "point", "inc"})
       => destroying \in {"no", "unregister"}
  /\ \A f \in active_fences : rel[f] = "none" /\ refcount[f] > 0
  /\ \A t \in Threads : fence_of[t] # NoFence => rel[fence_of[t]] = "none"
  /\ destroying # "freed" => ~ctx_freed
  /\ \A f \in Fences : refcount[f] > 0 \/ rel[f] \in {"count", "kref"} => ~ctx_freed
  /\ destroying # "no" => active_fences = {} /\ \A t \in Threads : pc[t] # "point"
  /\ ctx_freed => fence_count = 0

\* Nobody holds a fence.
Unheld == \A f \in Fences : users[f] = 0 /\ \A t \in Threads : fence_of[t] # f

\* Closing releases every waiter; the timeline is freed once file and handles
\* are gone, its fence context once nobody has a fence of it either.
ClosingEnds ==
  /\ \A f \in Fences : (~fd_open /\ value[f] > 0) ~> signaled[f]
  /\ (~fd_open /\ handles = 0) ~> destroying = "freed"
  /\ (destroying = "freed" /\ Unheld) ~> ctx_freed

\* The timeline does what SwTimeline promises.
Promise == INSTANCE SwTimeline WITH
  defined   <- next_value - 1,
  reached   <- current_value,
  signalled <- {value[f] : f \in {g \in Fences : signaled[g]}},
  given_up  <- Completed
KeepsPromise == Promise!Spec
=============================================================================
