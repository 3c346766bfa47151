------------------------------ MODULE PvrFence ------------------------------
(***************************************************************************)
(* Fence contexts and fences of src/src/pvr/pvr_fence.c: how a fence is    *)
(* created, watched, signalled, released and at last freed, and how a      *)
(* context outlives every fence made on it.                                *)
(*                                                                         *)
(* Who takes steps.  Notifiers are threads in which the services core      *)
(* announces that some GPU command completed: each announcement calls      *)
(* pvr_fence_context_signal_fences for every registered context, under the *)
(* read side of the notifier lock.  Worker is the single thread of the     *)
(* ordered queue gpFenceStatusWq (osfunc.c:714): it runs check_status_work *)
(* (one more announcement) and destroy_work.  Every other step belongs to  *)
(* a user process, to the firmware, to the owner of a foreign fence or to  *)
(* RCU, and is attributed to the object it is about.                       *)
(*                                                                         *)
(* Allocation failures that undo everything they did change no state and   *)
(* are left out; so are names, sequence numbers, traces and debug output.  *)
(***************************************************************************)
EXTENDS Integers, Sequences, FiniteSets

CONSTANTS Contexts,      \* struct pvr_fence_context objects
          Fences,        \* struct pvr_fence objects
          Foreigns,      \* dma fences of other drivers
          Notifiers,     \* threads that announce command completion
          Worker,        \* the thread of gpFenceStatusWq
          MaxUserRefs,   \* bound: references users hold on one fence
          NoCtx, NoFence, NoForeign

Threads == Notifiers \cup {Worker}

ASSUME ThreadsAssumption ==
    /\ Worker \notin Notifiers
    /\ Threads \cap {"none", "adding", "list", "fence_list", "deferred"} = {}
ASSUME AbsentAssumption ==
    NoCtx \notin Contexts /\ NoFence \notin Fences /\ NoForeign \notin Foreigns
ASSUME BoundAssumption == MaxUserRefs \in Nat \ {0}
ASSUME FiniteAssumption == IsFiniteSet(Contexts) /\ IsFiniteSet(Fences)

VARIABLES
  ctx,          \* memory of a context, and how far its creation got
  kref,         \* fctx->kref
  held,         \* does the creator still hold its reference on the context?
  registered,   \* contexts on the core's command-complete notifier list
  cache,        \* does the slab cache pvr_fence_cache exist?
  cache_refs,   \* pvr_fence_cache_refcount
  module_refs,  \* references fences hold on this module
  mem,          \* memory of a fence; "rcu": handed to call_rcu
  fctx,         \* fence->fctx
  wraps,        \* the foreign fence behind pvr_fence->fence, or NoForeign
  refcount,     \* dma_fence refcount of pvr_fence->base
  users,        \* how many of those references user code holds
  fence_head,   \* the list fence_head is on; a thread: its on-stack free list
  signal_head,  \* the list signal_head is on; a thread: its on-stack signal
                \* list, or the entry the thread has just taken off it
  enabled,      \* DMA_FENCE_FLAG_ENABLE_SIGNAL_BIT
  signaled,     \* DMA_FENCE_FLAG_SIGNALED_BIT
  checkpoint,   \* the sync checkpoint behind the fence
  cb,           \* progress of pvr_fence_foreign_signal_sync
  rel,          \* progress of the fence's release handler
  xsignaled,    \* has the foreign fence signalled?
  xrefs,        \* references this driver holds on a foreign fence
  pc,           \* where a thread is
  todo,         \* contexts its announcement has still to visit
  nctx,         \* the context it works on
  cur,          \* the fence it signals, or is releasing inline
  wq,           \* pending items of gpFenceStatusWq
  job,          \* the item the worker runs
  barrier       \* the RCU callbacks its rcu_barrier waits for

ctxVars    == <<ctx, kref, held, registered>>
cacheVars  == <<cache, cache_refs, module_refs>>
bornVars   == <<fctx, wraps>>
fenceVars  == <<mem, refcount, users, fence_head, signal_head, enabled,
                signaled, checkpoint, cb, rel>>
xVars      == <<xsignaled, xrefs>>
threadVars == <<pc, todo, nctx, cur>>
workVars   == <<wq, job, barrier>>
vars == <<ctxVars, cacheVars, bornVars, fenceVars, xVars, threadVars, workVars>>

-----------------------------------------------------------------------------
Check(c)   == [kind |-> "check", ctx |-> c]
Destroy(c) == [kind |-> "destroy", ctx |-> c]
Items      == [kind : {"check", "destroy"}, ctx : Contexts]

IsNative(f)  == wraps[f] = NoForeign
FencesOf(c)  == {f \in Fences : mem[f] # "none" /\ fctx[f] = c}
Pending(i)   == \E k \in 1..Len(wq) : wq[k] = i

\* queue_work does nothing when the item is already pending.
Queue(i) == wq' = IF Pending(i) THEN wq ELSE Append(wq, i)

\* fctx->lock is fence->lock: the dma_fence core holds it around
\* enable_signaling and takes it to signal.
LockFree(c) == \A f \in FencesOf(c) : signal_head[f] # "adding"

\* The threads inside an announcement hold the notifier lock for reading.
Reading(t) == pc[t] # "idle" /\ ~(t = Worker /\ job = "destroy")
NoReaders  == \A t \in Threads : ~Reading(t)

Init ==
  /\ ctx = [c \in Contexts |-> "none"]
  /\ kref = [c \in Contexts |-> 0]
  /\ held = [c \in Contexts |-> FALSE]
  /\ registered = {}
  /\ cache = FALSE /\ cache_refs = 0 /\ module_refs = 0
  /\ mem = [f \in Fences |-> "none"]
  /\ fctx = [f \in Fences |-> NoCtx]
  /\ wraps = [f \in Fences |-> NoForeign]
  /\ refcount = [f \in Fences |-> 0]
  /\ users = [f \in Fences |-> 0]
  /\ fence_head = [f \in Fences |-> "none"]
  /\ signal_head = [f \in Fences |-> "none"]
  /\ enabled = [f \in Fences |-> FALSE]
  /\ signaled = [f \in Fences |-> FALSE]
  /\ checkpoint = [f \in Fences |-> "none"]
  /\ cb = [f \in Fences |-> "none"]
  /\ rel = [f \in Fences |-> "none"]
  /\ xsignaled = [x \in Foreigns |-> FALSE]
  /\ xrefs = [x \in Foreigns |-> 0]
  /\ pc = [t \in Threads |-> "idle"]
  /\ todo = [t \in Threads |-> {}]
  /\ nctx = [t \in Threads |-> NoCtx]
  /\ cur = [t \in Threads |-> NoFence]
  /\ wq = <<>> /\ job = "none" /\ barrier = {}

-----------------------------------------------------------------------------
(* Creating and dropping contexts.                                         *)

\* pvr_fence_context_create_internal up to the registration, which takes the
\* notifier lock for writing.
CtxRegister(c) ==
  /\ ctx[c] = "none" /\ NoReaders
  /\ ctx' = [ctx EXCEPT ![c] = "registering"]
  /\ registered' = registered \cup {c}
  /\ UNCHANGED <<kref, held, cacheVars, bornVars, fenceVars, xVars, threadVars, workVars>>

\* Its second half: the first context makes the slab cache.
CtxGetCache(c) ==
  /\ ctx[c] = "registering"
  /\ ctx' = [ctx EXCEPT ![c] = "live"]
  /\ cache' = TRUE
  /\ cache_refs' = cache_refs + 1
  /\ kref' = [kref EXCEPT ![c] = 1]
  /\ held' = [held EXCEPT ![c] = TRUE]
  /\ UNCHANGED <<registered, module_refs, bornVars, fenceVars, xVars, threadVars, workVars>>

\* KMEM_CACHE fails; the context is still registered until the next step.
CtxCacheFails(c) ==
  /\ ctx[c] = "registering" /\ cache_refs = 0
  /\ ctx' = [ctx EXCEPT ![c] = "failing"]
  /\ UNCHANGED <<kref, held, registered, cacheVars, bornVars, fenceVars, xVars,
                 threadVars, workVars>>

CtxUndo(c) ==
  /\ ctx[c] = "failing" /\ NoReaders
  /\ ctx' = [ctx EXCEPT ![c] = "freed"]
  /\ registered' = registered \ {c}
  /\ UNCHANGED <<kref, held, cacheVars, bornVars, fenceVars, xVars, threadVars, workVars>>

\* kref_put(&fctx->kref, pvr_fence_context_destroy_kref): the last reference
\* queues destroy_work.
KrefPut(c) ==
  /\ kref' = [kref EXCEPT ![c] = @ - 1]
  /\ IF kref[c] = 1 THEN Queue(Destroy(c)) ELSE UNCHANGED wq

\* pvr_fence_context_destroy
OwnerPut(c) ==
  /\ held[c]
  /\ held' = [held EXCEPT ![c] = FALSE]
  /\ KrefPut(c)
  /\ UNCHANGED <<ctx, registered, cacheVars, bornVars, fenceVars, xVars, threadVars,
                 job, barrier>>

-----------------------------------------------------------------------------
(* Creating fences.  The caller holds the context throughout.              *)

\* What both creation paths do; x is the fence to wrap, or NoForeign.
Born(c, f, x, refs) ==
  /\ held[c] /\ mem[f] = "none"
  /\ mem' = [mem EXCEPT ![f] = "used"]
  /\ fctx' = [fctx EXCEPT ![f] = c]
  /\ wraps' = [wraps EXCEPT ![f] = x]
  /\ module_refs' = module_refs + 1
  /\ checkpoint' = [checkpoint EXCEPT ![f] = "active"]
  /\ refcount' = [refcount EXCEPT ![f] = refs]
  /\ users' = [users EXCEPT ![f] = 1]
  /\ fence_head' = [fence_head EXCEPT ![f] = "fence_list"]
  /\ kref' = [kref EXCEPT ![c] = @ + 1]
  /\ UNCHANGED <<ctx, held, registered, cache, cache_refs, signal_head, enabled,
                 signaled, rel, xsignaled, threadVars, workVars>>

\* pvr_fence_create
Create(c, f) == Born(c, f, NoForeign, 1) /\ UNCHANGED <<cb, xrefs>>

\* Mutant: pvr_fence_create_from_fence without the callback's reference
CreateFromForeignOneRef(c, f, x) ==
  /\ Born(c, f, x, 1)
  /\ xrefs' = [xrefs EXCEPT ![x] = @ + 1]
  /\ cb' = [cb EXCEPT ![f] = "adding"]

\* pvr_fence_create_from_fence of a foreign fence, up to the call of
\* dma_fence_add_callback: the second reference is the callback's.
CreateFromForeign(c, f, x) ==
  /\ Born(c, f, x, 2)
  /\ xrefs' = [xrefs EXCEPT ![x] = @ + 1]
  /\ cb' = [cb EXCEPT ![f] = "adding"]

\* dma_fence_put(&pvr_fence->base): the last reference runs the release
\* handler in the caller's context.
FencePut(f) ==
  /\ refcount' = [refcount EXCEPT ![f] = @ - 1]
  /\ rel' = IF refcount[f] = 1 THEN [rel EXCEPT ![f] = "entered"] ELSE rel

\* dma_fence_add_callback returns 0, or -ENOENT when the foreign fence has
\* already signalled: then the checkpoint is signalled and the callback's
\* reference dropped here.
AddCallback(f) ==
  /\ cb[f] = "adding"
  /\ IF xsignaled[wraps[f]]
     THEN /\ cb' = [cb EXCEPT ![f] = "done"]
          /\ checkpoint' = [checkpoint EXCEPT ![f] = "signalled"]
          /\ FencePut(f)
     ELSE /\ cb' = [cb EXCEPT ![f] = "registered"]
          /\ UNCHANGED <<checkpoint, refcount, rel>>
  /\ UNCHANGED <<ctxVars, cacheVars, bornVars, mem, users, fence_head, signal_head,
                 enabled, signaled, xVars, threadVars, workVars>>

\* The owner of a foreign fence signals it: the callbacks added to it are due.
ForeignSignal(x) ==
  /\ ~xsignaled[x]
  /\ xsignaled' = [xsignaled EXCEPT ![x] = TRUE]
  /\ cb' = [f \in Fences |-> IF wraps[f] = x /\ cb[f] = "registered" THEN "fired" ELSE cb[f]]
  /\ UNCHANGED <<ctxVars, cacheVars, bornVars, mem, refcount, users, fence_head,
                 signal_head, enabled, signaled, checkpoint, rel, xrefs, threadVars,
                 workVars>>

\* pvr_fence_foreign_signal_sync: signal the checkpoint, queue the status
\* check, drop the callback's reference.
CbSignal(f) ==
  /\ cb[f] = "fired"
  /\ cb' = [cb EXCEPT ![f] = "queue"]
  /\ checkpoint' = [checkpoint EXCEPT ![f] = "signalled"]
  /\ UNCHANGED <<ctxVars, cacheVars, bornVars, mem, refcount, users, fence_head,
                 signal_head, enabled, signaled, rel, xVars, threadVars, workVars>>

CbQueue(f) ==
  /\ cb[f] = "queue"
  /\ cb' = [cb EXCEPT ![f] = "put"]
  /\ Queue(Check(fctx[f]))
  /\ UNCHANGED <<ctxVars, cacheVars, bornVars, mem, refcount, users, fence_head,
                 signal_head, enabled, signaled, checkpoint, rel, xVars, threadVars,
                 job, barrier>>

CbPut(f) ==
  /\ cb[f] = "put"
  /\ cb' = [cb EXCEPT ![f] = "done"]
  /\ FencePut(f)
  /\ UNCHANGED <<ctxVars, cacheVars, bornVars, mem, users, fence_head, signal_head,
                 enabled, signaled, checkpoint, xVars, threadVars, workVars>>

-----------------------------------------------------------------------------
(* Using fences.  A user may act on a fence while users hold a reference.  *)

UserGet(f) ==
  /\ users[f] \in 1..(MaxUserRefs - 1)
  /\ users' = [users EXCEPT ![f] = @ + 1]
  /\ refcount' = [refcount EXCEPT ![f] = @ + 1]
  /\ UNCHANGED <<ctxVars, cacheVars, bornVars, mem, fence_head, signal_head, enabled,
                 signaled, checkpoint, cb, rel, xVars, threadVars, workVars>>

\* The user inside enable_signaling or create_from_fence keeps its own.
Busy(f) == signal_head[f] = "adding" \/ cb[f] = "adding"

\* pvr_fence_destroy, or any other holder letting go
UserPut(f) ==
  /\ users[f] > (IF Busy(f) THEN 1 ELSE 0)
  /\ users' = [users EXCEPT ![f] = @ - 1]
  /\ FencePut(f)
  /\ UNCHANGED <<ctxVars, cacheVars, bornVars, mem, fence_head, signal_head, enabled,
                 signaled, checkpoint, cb, xVars, threadVars, workVars>>

\* Mutant: enable_signaling without dma_fence_get
EnableCheckNoGet(f) ==
  /\ users[f] > 0 /\ IsNative(f) /\ ~enabled[f] /\ ~signaled[f] /\ LockFree(fctx[f])
  /\ enabled' = [enabled EXCEPT ![f] = TRUE]
  /\ IF checkpoint[f] = "signalled"
     THEN signaled' = [signaled EXCEPT ![f] = TRUE] /\ UNCHANGED signal_head
     ELSE signal_head' = [signal_head EXCEPT ![f] = "adding"] /\ UNCHANGED signaled
  /\ UNCHANGED <<ctxVars, cacheVars, bornVars, mem, refcount, users, fence_head, checkpoint,
                 cb, rel, xVars, threadVars, workVars>>

\* The core asks for signalling, once per fence.  pvr_fence_enable_signaling
\* looks at the checkpoint: a signalled one is reported at once, else a
\* reference is taken ...
EnableCheck(f) ==
  /\ users[f] > 0 /\ IsNative(f) /\ ~enabled[f] /\ ~signaled[f] /\ LockFree(fctx[f])
  /\ enabled' = [enabled EXCEPT ![f] = TRUE]
  /\ IF checkpoint[f] = "signalled"
     THEN /\ signaled' = [signaled EXCEPT ![f] = TRUE]
          /\ UNCHANGED <<refcount, signal_head>>
     ELSE /\ signal_head' = [signal_head EXCEPT ![f] = "adding"]
          /\ refcount' = [refcount EXCEPT ![f] = @ + 1]
          /\ UNCHANGED signaled
  /\ UNCHANGED <<ctxVars, cacheVars, bornVars, mem, users, fence_head, checkpoint, cb,
                 rel, xVars, threadVars, workVars>>

\* ... and the fence joins fctx->signal_list.
EnableAdd(f) ==
  /\ signal_head[f] = "adding"
  /\ signal_head' = [signal_head EXCEPT ![f] = "list"]
  /\ UNCHANGED <<ctxVars, cacheVars, bornVars, mem, refcount, users, fence_head, enabled,
                 signaled, checkpoint, cb, rel, xVars, threadVars, workVars>>

\* dma_fence_is_signaled: the core signals the fence when
\* pvr_fence_is_signaled reports the checkpoint.
Poll(f) ==
  /\ users[f] > 0 /\ IsNative(f) /\ ~signaled[f] /\ LockFree(fctx[f])
  /\ checkpoint[f] = "signalled"
  /\ signaled' = [signaled EXCEPT ![f] = TRUE]
  /\ UNCHANGED <<ctxVars, cacheVars, bornVars, mem, refcount, users, fence_head,
                 signal_head, enabled, checkpoint, cb, rel, xVars, threadVars, workVars>>

\* The firmware reaches the checkpoint, or pvr_fence_sw_error errors it: both
\* read as signalled, and neither tells anybody.
CheckpointSignal(f) ==
  /\ IsNative(f) /\ checkpoint[f] = "active"
  /\ checkpoint' = [checkpoint EXCEPT ![f] = "signalled"]
  /\ UNCHANGED <<ctxVars, cacheVars, bornVars, mem, refcount, users, fence_head,
                 signal_head, enabled, signaled, cb, rel, xVars, threadVars, workVars>>

\* pvr_fence_sw_signal
SwSignal(f) ==
  /\ users[f] > 0
  /\ checkpoint' = [checkpoint EXCEPT ![f] = "signalled"]
  /\ Queue(Check(fctx[f]))
  /\ UNCHANGED <<ctxVars, cacheVars, bornVars, mem, refcount, users, fence_head,
                 signal_head, enabled, signaled, cb, rel, xVars, threadVars, job, barrier>>

-----------------------------------------------------------------------------
(* pvr_fence_release and pvr_fence_foreign_release.  The handler keeps     *)
(* fctx and the foreign fence in locals: once the fence is on the deferred *)
(* list anyone may free it.                                                *)

ReleaseMove(f) ==
  /\ rel[f] = "entered"
  /\ rel' = [rel EXCEPT ![f] = IF IsNative(f) THEN "unwrapped" ELSE "moved"]
  /\ fence_head' = [fence_head EXCEPT ![f] = "deferred"]
  /\ UNCHANGED <<ctxVars, cacheVars, bornVars, mem, refcount, users, signal_head, enabled,
                 signaled, checkpoint, cb, xVars, threadVars, workVars>>

ReleaseForeign(f) ==
  /\ rel[f] = "moved"
  /\ rel' = [rel EXCEPT ![f] = "unwrapped"]
  /\ xrefs' = [xrefs EXCEPT ![wraps[f]] = @ - 1]
  /\ UNCHANGED <<ctxVars, cacheVars, bornVars, mem, refcount, users, fence_head,
                 signal_head, enabled, signaled, checkpoint, cb, xsignaled, threadVars,
                 workVars>>

\* Mutant: a release handler without kref_put
ReleaseCtxForgotten(f) ==
  /\ rel[f] = "unwrapped"
  /\ rel' = [rel EXCEPT ![f] = "done"]
  /\ UNCHANGED <<ctxVars, cacheVars, bornVars, mem, refcount, users, fence_head, signal_head,
                 enabled, signaled, checkpoint, cb, xVars, threadVars, workVars>>

ReleaseCtx(f) ==
  /\ rel[f] = "unwrapped"
  /\ rel' = [rel EXCEPT ![f] = "done"]
  /\ KrefPut(fctx[f])
  /\ UNCHANGED <<ctx, held, registered, cacheVars, bornVars, mem, refcount, users,
                 fence_head, signal_head, enabled, signaled, checkpoint, cb, xVars,
                 threadVars, job, barrier>>

-----------------------------------------------------------------------------
(* An announcement, and pvr_fence_context_signal_fences for each context.  *)

\* A waiting writer keeps new readers out of the notifier lock.
NotifyBegin(t) ==
  /\ t \in Notifiers /\ pc[t] = "idle" /\ registered # {} /\ pc[Worker] # "unregister"
  /\ pc' = [pc EXCEPT ![t] = "visit"]
  /\ todo' = [todo EXCEPT ![t] = registered]
  /\ UNCHANGED <<ctxVars, cacheVars, bornVars, fenceVars, xVars, nctx, cur, workVars>>

Visit(t) ==
  /\ pc[t] = "visit"
  /\ \E c \in todo[t] :
       /\ nctx' = [nctx EXCEPT ![t] = c]
       /\ todo' = [todo EXCEPT ![t] = @ \ {c}]
  /\ pc' = [pc EXCEPT ![t] = "scan"]
  /\ UNCHANGED <<ctxVars, cacheVars, bornVars, fenceVars, xVars, cur, workVars>>

NotifyEnd(t) ==
  /\ pc[t] = "visit" /\ todo[t] = {}
  /\ pc' = [pc EXCEPT ![t] = "idle"]
  /\ job' = IF t = Worker THEN "none" ELSE job
  /\ UNCHANGED <<ctxVars, cacheVars, bornVars, fenceVars, xVars, todo, nctx, cur, wq, barrier>>

\* Mutant: scans that take every fence of the context, or skip those users dropped
DueAll(c) == {f \in Fences : signal_head[f] = "list" /\ fctx[f] = c}
DueUsed(c) == {f \in DueAll(c) : checkpoint[f] = "signalled" /\ users[f] > 0}

\* Under list_lock: take every entry whose checkpoint is signalled.
Due(c) == {f \in Fences : signal_head[f] = "list" /\ fctx[f] = c /\ checkpoint[f] = "signalled"}
Scan(t) ==
  /\ pc[t] = "scan"
  /\ signal_head' = [f \in Fences |-> IF f \in Due(nctx[t]) THEN t ELSE signal_head[f]]
  /\ pc' = [pc EXCEPT ![t] = "signal"]
  /\ UNCHANGED <<ctxVars, cacheVars, bornVars, mem, refcount, users, fence_head, enabled,
                 signaled, checkpoint, cb, rel, xVars, todo, nctx, cur, workVars>>

\* The release handler a thread runs inside dma_fence_put.
InlineDone(t) == \A f \in Fences : cur[t] = f => rel[f] = "done"

\* Mutant: a notifier that puts the fence without signalling it
SignalOneForgotten(t) ==
  /\ pc[t] = "signal" /\ InlineDone(t)
  /\ \E f \in Fences : /\ signal_head[f] = t /\ LockFree(fctx[f])
                       /\ cur' = [cur EXCEPT ![t] = f]
  /\ pc' = [pc EXCEPT ![t] = "put"]
  /\ UNCHANGED <<ctxVars, cacheVars, bornVars, fenceVars, xVars, todo, nctx, workVars>>

\* list_del and dma_fence_signal, which takes fctx->lock.
SignalOne(t) ==
  /\ pc[t] = "signal" /\ InlineDone(t)
  /\ \E f \in Fences :
       /\ signal_head[f] = t /\ LockFree(fctx[f])
       /\ cur' = [cur EXCEPT ![t] = f]
       /\ signaled' = [signaled EXCEPT ![f] = TRUE]
  /\ pc' = [pc EXCEPT ![t] = "put"]
  /\ UNCHANGED <<ctxVars, cacheVars, bornVars, mem, refcount, users, fence_head,
                 signal_head, enabled, checkpoint, cb, rel, xVars, todo, nctx, workVars>>

\* dma_fence_put of the reference enable_signaling took.
PutOne(t) ==
  /\ pc[t] = "put"
  /\ FencePut(cur[t])
  /\ signal_head' = [signal_head EXCEPT ![cur[t]] = "none"]
  /\ cur' = [cur EXCEPT ![t] = IF refcount[@] = 1 THEN @ ELSE NoFence]
  /\ pc' = [pc EXCEPT ![t] = "signal"]
  /\ UNCHANGED <<ctxVars, cacheVars, bornVars, mem, users, fence_head, enabled, signaled,
                 checkpoint, cb, xVars, todo, nctx, workVars>>

SignalsDone(t) ==
  /\ pc[t] = "signal" /\ InlineDone(t) /\ \A f \in Fences : signal_head[f] # t
  /\ pc' = [pc EXCEPT ![t] = "grab"]
  /\ cur' = [cur EXCEPT ![t] = NoFence]
  /\ UNCHANGED <<ctxVars, cacheVars, bornVars, fenceVars, xVars, todo, nctx, workVars>>

-----------------------------------------------------------------------------
(* pvr_fence_context_free_deferred, in an announcement or in destroy_work. *)

\* Under list_lock: move the whole deferred list to an on-stack one.
Grab(t) ==
  /\ pc[t] = "grab"
  /\ fence_head' = [f \in Fences |->
                      IF fence_head[f] = "deferred" /\ fctx[f] = nctx[t] THEN t
                      ELSE fence_head[f]]
  /\ pc' = [pc EXCEPT ![t] = "free"]
  /\ UNCHANGED <<ctxVars, cacheVars, bornVars, mem, refcount, users, signal_head, enabled,
                 signaled, checkpoint, cb, rel, xVars, todo, nctx, cur, workVars>>

\* list_del, SyncCheckpointFree, call_rcu and module_put
FreeOne(t) ==
  /\ pc[t] = "free"
  /\ \E f \in Fences :
       /\ fence_head[f] = t
       /\ fence_head' = [fence_head EXCEPT ![f] = "none"]
       /\ checkpoint' = [checkpoint EXCEPT ![f] = "freed"]
       /\ mem' = [mem EXCEPT ![f] = "rcu"]
  /\ module_refs' = module_refs - 1
  /\ UNCHANGED <<ctxVars, cache, cache_refs, bornVars, refcount, users, signal_head,
                 enabled, signaled, cb, rel, xVars, threadVars, workVars>>

FreesDone(t) ==
  /\ pc[t] = "free" /\ \A f \in Fences : fence_head[f] # t
  /\ IF t = Worker /\ job = "destroy"
     THEN pc' = [pc EXCEPT ![t] = "unregister"] /\ UNCHANGED nctx
     ELSE pc' = [pc EXCEPT ![t] = "visit"] /\ nctx' = [nctx EXCEPT ![t] = NoCtx]
  /\ UNCHANGED <<ctxVars, cacheVars, bornVars, fenceVars, xVars, todo, cur, workVars>>

\* pvr_fence_sched_free, after a grace period
RcuCallback(f) ==
  /\ mem[f] = "rcu"
  /\ mem' = [mem EXCEPT ![f] = "freed"]
  /\ UNCHANGED <<ctxVars, cacheVars, bornVars, refcount, users, fence_head, signal_head,
                 enabled, signaled, checkpoint, cb, rel, xVars, threadVars, workVars>>

-----------------------------------------------------------------------------
(* The worker takes the items of its queue in order.                       *)

\* check_status_work: PVRSRVCheckStatus announces like any notifier.
WorkerCheck ==
  /\ pc[Worker] = "idle" /\ wq # <<>> /\ Head(wq).kind = "check"
  /\ wq' = Tail(wq) /\ job' = "check"
  /\ pc' = [pc EXCEPT ![Worker] = "visit"]
  /\ todo' = [todo EXCEPT ![Worker] = registered]
  /\ UNCHANGED <<ctxVars, cacheVars, bornVars, fenceVars, xVars, nctx, cur, barrier>>

\* destroy_work: pvr_fence_context_destroy_internal begins with free_deferred.
WorkerDestroy ==
  /\ pc[Worker] = "idle" /\ wq # <<>> /\ Head(wq).kind = "destroy"
  /\ wq' = Tail(wq) /\ job' = "destroy"
  /\ pc' = [pc EXCEPT ![Worker] = "grab"]
  /\ nctx' = [nctx EXCEPT ![Worker] = Head(wq).ctx]
  /\ UNCHANGED <<ctxVars, cacheVars, bornVars, fenceVars, xVars, todo, cur, barrier>>

\* Mutant: unregistering without waiting for the notifiers
UnregisterNoWait ==
  /\ pc[Worker] = "unregister"
  /\ registered' = registered \ {nctx[Worker]}
  /\ pc' = [pc EXCEPT ![Worker] = "barrier"]
  /\ UNCHANGED <<ctx, kref, held, cacheVars, bornVars, fenceVars, xVars, todo, nctx, cur,
                 workVars>>

\* PVRSRVUnregisterCmdCompleteNotify waits for the readers.
Unregister ==
  /\ pc[Worker] = "unregister" /\ NoReaders
  /\ registered' = registered \ {nctx[Worker]}
  /\ pc' = [pc EXCEPT ![Worker] = "barrier"]
  /\ UNCHANGED <<ctx, kref, held, cacheVars, bornVars, fenceVars, xVars, todo, nctx, cur,
                 workVars>>

\* rcu_barrier() waits for the callbacks queued before it.
RcuBarrier ==
  /\ pc[Worker] = "barrier"
  /\ barrier' = {f \in Fences : mem[f] = "rcu"}
  /\ pc' = [pc EXCEPT ![Worker] = "teardown"]
  /\ UNCHANGED <<ctxVars, cacheVars, bornVars, fenceVars, xVars, todo, nctx, cur, wq, job>>

\* It returns; the last context destroys the cache; kfree(fctx).
Teardown ==
  /\ pc[Worker] = "teardown" /\ \A f \in barrier : mem[f] = "freed"
  /\ cache_refs' = cache_refs - 1
  /\ cache' = (cache_refs # 1)
  /\ ctx' = [ctx EXCEPT ![nctx[Worker]] = "freed"]
  /\ pc' = [pc EXCEPT ![Worker] = "idle"]
  /\ nctx' = [nctx EXCEPT ![Worker] = NoCtx]
  /\ job' = "none" /\ barrier' = {}
  /\ UNCHANGED <<kref, held, registered, module_refs, bornVars, fenceVars, xVars, todo,
                 cur, wq>>

-----------------------------------------------------------------------------
CtxNext(c) ==
  \/ CtxRegister(c) \/ CtxGetCache(c) \/ CtxCacheFails(c) \/ CtxUndo(c) \/ OwnerPut(c)
  \/ \E f \in Fences : Create(c, f) \/ \E x \in Foreigns : CreateFromForeign(c, f, x)

FenceNext(f) ==
  \/ AddCallback(f) \/ CbSignal(f) \/ CbQueue(f) \/ CbPut(f)
  \/ UserGet(f) \/ UserPut(f) \/ EnableCheck(f) \/ EnableAdd(f) \/ Poll(f)
  \/ CheckpointSignal(f) \/ SwSignal(f)
  \/ ReleaseMove(f) \/ ReleaseForeign(f) \/ ReleaseCtx(f) \/ RcuCallback(f)

ThreadRuns(t) ==
  \/ Visit(t) \/ NotifyEnd(t) \/ Scan(t) \/ SignalOne(t) \/ PutOne(t) \/ SignalsDone(t)
  \/ Grab(t) \/ FreeOne(t) \/ FreesDone(t)

WorkerRuns == WorkerCheck \/ WorkerDestroy \/ Unregister \/ RcuBarrier \/ Teardown

Next ==
  \/ \E c \in Contexts : CtxNext(c)
  \/ \E f \in Fences : FenceNext(f)
  \/ \E x \in Foreigns : ForeignSignal(x)
  \/ \E t \in Threads : NotifyBegin(t) \/ ThreadRuns(t)
  \/ WorkerRuns

Spec == Init /\ [][Next]_vars

\* Fairness: threads that hold the notifier lock or run a work item go on,
\* RCU grace periods end, and code that has entered a handler leaves it.
\* Users, the firmware and foreign drivers promise nothing, and nobody has to
\* announce anything.
Progress(f) ==
  \/ AddCallback(f) \/ CbSignal(f) \/ CbQueue(f) \/ CbPut(f) \/ EnableAdd(f)
  \/ ReleaseMove(f) \/ ReleaseForeign(f) \/ ReleaseCtx(f) \/ RcuCallback(f)
Fairness ==
  /\ \A t \in Threads : WF_vars(ThreadRuns(t))
  /\ WF_vars(WorkerRuns)
  /\ \A f \in Fences : WF_vars(Progress(f))
FairSpec == Spec /\ Fairness

-----------------------------------------------------------------------------
(* Properties.                                                             *)

TypeOK ==
  /\ ctx \in [Contexts -> {"none", "registering", "failing", "live", "freed"}]
  /\ kref \in [Contexts -> Nat]
  /\ held \in [Contexts -> BOOLEAN]
  /\ registered \subseteq Contexts
  /\ cache \in BOOLEAN /\ cache_refs \in Nat /\ module_refs \in Nat
  /\ mem \in [Fences -> {"none", "used", "rcu", "freed"}]
  /\ fctx \in [Fences -> Contexts \cup {NoCtx}]
  /\ wraps \in [Fences -> Foreigns \cup {NoForeign}]
  /\ refcount \in [Fences -> Nat]
  /\ users \in [Fences -> 0..MaxUserRefs]
  /\ fence_head \in [Fences -> {"none", "fence_list", "deferred"} \cup Threads]
  /\ signal_head \in [Fences -> {"none", "adding", "list"} \cup Threads]
  /\ enabled \in [Fences -> BOOLEAN]
  /\ signaled \in [Fences -> BOOLEAN]
  /\ checkpoint \in [Fences -> {"none", "active", "signalled", "freed"}]
  /\ cb \in [Fences -> {"none", "adding", "registered", "fired", "queue", "put", "done"}]
  /\ rel \in [Fences -> {"none", "entered", "moved", "unwrapped", "done"}]
  /\ xsignaled \in [Foreigns -> BOOLEAN]
  /\ xrefs \in [Foreigns -> Nat]
  /\ pc \in [Threads -> {"idle", "visit", "scan", "signal", "put", "grab", "free",
                         "unregister", "barrier", "teardown"}]
  /\ todo \in [Threads -> SUBSET Contexts]
  /\ nctx \in [Threads -> Contexts \cup {NoCtx}]
  /\ cur \in [Threads -> Fences \cup {NoFence}]
  /\ wq \in Seq(Items)
  /\ job \in {"none", "check", "destroy"}
  /\ barrier \subseteq Fences

\* The references a fence's count stands for: the users', the one signalling
\* took, and the one of the callback on the foreign fence.
CbHolds(f)     == cb[f] \in {"adding", "registered", "fired", "queue", "put"}
One(condition) == IF condition THEN 1 ELSE 0
RefsAccounted ==
  \A f \in Fences : refcount[f] = users[f] + One(signal_head[f] # "none") + One(CbHolds(f))

\* No use after free of a fence: whoever can still reach one (a user, a list,
\* a notifier on its way through it, the foreign callback, the release
\* handler before it lets go) finds its memory in use.
Reachable(f) ==
  \/ users[f] > 0 \/ CbHolds(f) \/ signal_head[f] # "none" \/ fence_head[f] # "none"
  \/ rel[f] = "entered"
FenceMemSafe == \A f \in Fences : Reachable(f) => mem[f] = "used"

\* No use after free of a context: a pending work item, the worker, a
\* notifier, the owner and every fence up to the end of its release handler
\* find fctx live.
CtxMemSafe ==
  /\ \A c \in Contexts : held[c] => ctx[c] = "live"
  /\ \A k \in 1..Len(wq) : ctx[wq[k].ctx] = "live"
  /\ \A c \in registered : ctx[c] \in {"registering", "failing", "live"}
  /\ \A t \in Threads : nctx[t] # NoCtx => ctx[nctx[t]] \in {"registering", "failing", "live"}
  /\ \A f \in Fences : mem[f] # "none" /\ rel[f] # "done" => ctx[fctx[f]] = "live"

\* When destroy_work has emptied the deferred list no fence of the context is
\* left on a list (the WARN_ON of pvr_fence_context_destroy_internal), though
\* a notifier may still be freeing some on its own stack.
DestroyFindsNoFences ==
  pc[Worker] = "unregister" =>
    \A f \in FencesOf(nctx[Worker]) : fence_head[f] \in {"none"} \cup Notifiers

\* Every object of the slab cache has been given back before the cache goes,
\* also those whose freeing RCU still delays.
CacheOutlivesFences == \A f \in Fences : mem[f] \in {"used", "rcu"} => cache

\* A context that is gone leaves no fence behind, on a list or with RCU, and
\* the module's references are exactly those of fences in use.
NothingLeaks ==
  /\ \A f \in Fences : mem[f] # "none" /\ ctx[fctx[f]] = "freed" => mem[f] = "freed"
  /\ module_refs = Cardinality({f \in Fences : mem[f] = "used"})

\* What a debug dump or a stalled-UFO report walks: under list_lock, a fence
\* on fence_list has its checkpoint and its foreign fence.  References on a
\* foreign fence are those of the wrappers that have not put theirs.
DumpSafe ==
  /\ \A f \in Fences : fence_head[f] = "fence_list" =>
       /\ checkpoint[f] \in {"active", "signalled"}
       /\ IsNative(f) \/ xrefs[wraps[f]] > 0
  /\ \A x \in Foreigns :
       xrefs[x] = Cardinality({f \in Fences : wraps[f] = x /\ rel[f] \in {"none", "entered", "moved"}})

\* Nothing is used after it is gone: a context, the slab cache of its fences,
\* and what a dump finds on a context's list.  Nor is anything left of a
\* destroyed context: on its lists, with RCU, or as a reference on the module.
NothingDangles ==
  CtxMemSafe /\ CacheOutlivesFences /\ DumpSafe /\ DestroyFindsNoFences /\ NothingLeaks

\* A fence somebody waits on cannot be forgotten: until it signals, it is on
\* its way to the signal list, on it, or in the hands of a notifier.
WaitedIsListed == \A f \in Fences : enabled[f] /\ ~signaled[f] => signal_head[f] # "none"

\* A fence is reported signalled only when its checkpoint is, and never again
\* otherwise.
SignalFollowsCheckpoint ==
  [][\A f \in Fences :
       /\ signaled'[f] /\ ~signaled[f] => checkpoint[f] = "signalled"
       /\ signaled[f] => signaled'[f]]_vars

\* A context that its creator gave up, and whose fences nobody refers to any
\* more, is destroyed in the end: no reference is forgotten, and the notifier
\* lock, rcu_barrier and the work queue never wait for each other.
Abandoned(c) ==
  /\ ctx[c] = "live" /\ ~held[c]
  /\ \A f \in FencesOf(c) : users[f] = 0 /\ ~CbHolds(f) /\ signal_head[f] = "none"
AbandonedContextIsFreed == \A c \in Contexts : Abandoned(c) ~> ctx[c] = "freed"

\* If announcements keep coming, a fence somebody waits on signals once its
\* checkpoint has.
WaitedFenceSignals ==
  ([]<>(\E t \in Notifiers : pc[t] = "visit" /\ todo[t] = registered)) =>
    \A f \in Fences : (enabled[f] /\ checkpoint[f] = "signalled") ~> signaled[f]
=============================================================================
