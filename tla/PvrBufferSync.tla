--------------------------- MODULE PvrBufferSync ----------------------------
(***************************************************************************)
(* Implicit synchronisation of kicks on shared buffers:                    *)
(* src/src/pvr/pvr_buffer_sync.c, with the two reservation object APIs of  *)
(* src/inc/imgtec/pvr_dma_resv.h.                                          *)
(*                                                                         *)
(* A job is one kick: resolve_and_create_fences, the submission by the     *)
(* services core, then kick_succeeded or kick_failed.  Jobs of one context *)
(* exclude each other by ctx_lock, jobs of different contexts by the       *)
(* wait-die locks of the reservation objects.  External: the locks, the    *)
(* reservation objects, the GPU (which runs the kicks of a context in      *)
(* order, each once the checkpoints it was given are signalled), and other *)
(* drivers, whose work waits for the fences it finds, and which lock a     *)
(* reservation object only to add one fence.  A PMR exported as a dma-buf  *)
(* stands for its reservation object.                                      *)
(***************************************************************************)
EXTENDS Integers, FiniteSets, Sequences

CONSTANTS
  Jobs, Foreign,        \* kicks of this device, works of other drivers
  Ctxs, CtxOf,          \* buffer sync contexts, and the context of a job
  Pmrs, Exported,       \* physical memory, and what of it has a dma-buf
  Requests,             \* the arrays of PMRs and flags a kick may bring
  UsageApi,             \* the kernel has enum dma_resv_usage (5.19 on)
  ForeignUses,          \* what other drivers do with a buffer
  Faults,               \* which calls may fail
  NoJob, NoPmr, NoWork

Works == Jobs \cup Foreign
Access == [pmr : Pmrs, write : BOOLEAN]
FaultKinds == {"interrupt", "alloc", "create", "get_fences", "wait", "kick"}

ASSUME BufferSyncAssumption ==
  /\ Jobs \cap Foreign = {} /\ NoJob \notin Jobs /\ NoWork \notin Works
  /\ CtxOf \in [Jobs -> Ctxs]
  /\ Exported \subseteq Pmrs /\ NoPmr \notin Pmrs
  /\ Requests \subseteq Seq(Access)
  /\ ForeignUses \subseteq [pmr : Exported, write : BOOLEAN]
  /\ UsageApi \in BOOLEAN
  /\ Faults \subseteq FaultKinds
  /\ IsFiniteSet(Works)

VARIABLES
  pc,           \* where each job is
  asked, req,   \* the PMRs of the call; those of the append data, without duplicates
  idx,          \* the PMR its current loop is at
  ctx_lock,     \* the job that holds the mutex of each context
  order,        \* jobs between ww_acquire_init and ww_acquire_fini, by ticket
  held,         \* the job that holds each reservation object's lock
  lresv, cresv, \* locked by the slow path; contended
  resv,         \* the fences of each reservation object
  fence_count,  \* the size of the array data->fences
  fences,       \* its entries: <<index of the PMR, work>>
  todo,         \* fences obtained at idx that are not dealt with yet
  waiting,      \* the fence a job waits for because it has no check fence
  missed,       \* fences whose wait was interrupted
  deps,         \* the works whose checkpoints the GPU is given
  ck_refs,      \* are the references on those checkpoints held?
  refs,         \* references on the job's update fence
  enabled,      \* does software signalling hold a reference?
  ccb,          \* per context, the kicks the GPU has not finished
  stage, uses, before  \* of each work: progress, buffers, what came before

lockVars  == <<ctx_lock, order, held, lresv, cresv>>
checkVars == <<fence_count, fences, todo, waiting, missed>>
depVars   == <<deps, ck_refs>>
fenceVars == <<refs, enabled>>
workVars  == <<stage, uses, before>>
vars == <<pc, asked, req, idx, lockVars, resv, checkVars, depVars, fenceVars, ccb, workVars>>

\* The promise this module keeps, and its notion of work.
Promise == INSTANCE ImplicitSync WITH Buffers <- Exported

Init ==
  /\ pc = [j \in Jobs |-> "idle"]
  /\ asked = [j \in Jobs |-> << >>]
  /\ req = [j \in Jobs |-> << >>]
  /\ idx = [j \in Jobs |-> 1]
  /\ ctx_lock = [c \in Ctxs |-> NoJob]
  /\ order = << >>
  /\ held = [p \in Exported |-> NoJob]
  /\ lresv = [j \in Jobs |-> NoPmr]
  /\ cresv = [j \in Jobs |-> NoPmr]
  /\ resv = [p \in Exported |-> {}]
  /\ fence_count = [j \in Jobs |-> 0]
  /\ fences = [j \in Jobs |-> {}]
  /\ todo = [j \in Jobs |-> {}]
  /\ waiting = [j \in Jobs |-> NoWork]
  /\ missed = [j \in Jobs |-> {}]
  /\ deps = [j \in Jobs |-> {}]
  /\ ck_refs = [j \in Jobs |-> FALSE]
  /\ refs = [j \in Jobs |-> 0]
  /\ enabled = [j \in Jobs |-> FALSE]
  /\ ccb = [c \in Ctxs |-> << >>]
  /\ Promise!AbsInit

-----------------------------------------------------------------------------
(* Helpers.                                                                *)

At(j, l) == pc[j] = l
Goto(j, l) == pc' = [pc EXCEPT ![j] = l]

Here(j) == req[j][idx[j]].pmr
Writes(j) == req[j][idx[j]].write
InLoop(j) == idx[j] <= Len(req[j])
Step(j) == idx' = [idx EXCEPT ![j] = @ + 1]
Rewind(j) == idx' = [idx EXCEPT ![j] = 1]

Signaled(w) == stage[w] = "done"

\* Mutant: the flags of the last handle win.
FilteredLast(r) ==
  LET First == {i \in 1..Len(r) : \A k \in 1..(i - 1) : r[k].pmr # r[i].pmr}
      Nth(n) == CHOOSE i \in First : Cardinality({k \in First : k <= i}) = n
      Latest(p) == CHOOSE i \in 1..Len(r) : r[i].pmr = p /\ \A k \in (i + 1)..Len(r) : r[k].pmr # p
  IN [n \in 1..Cardinality(First) |-> r[Latest(r[Nth(n)].pmr)]]

\* Duplicates of a PMR are merged into its first place, flags ORed.
Filtered(r) ==
  LET First == {i \in 1..Len(r) : \A k \in 1..(i - 1) : r[k].pmr # r[i].pmr}
      Nth(n) == CHOOSE i \in First : Cardinality({k \in First : k <= i}) = n
  IN [n \in 1..Cardinality(First) |->
        [pmr |-> r[Nth(n)].pmr,
         write |-> \E k \in 1..Len(r) : r[k].pmr = r[Nth(n)].pmr /\ r[k].write]]

-----------------------------------------------------------------------------
(* pvr_buffer_sync_pmrs_lock: every reservation object, with wait-die      *)
(* locks and the slow path after -EDEADLK.                                 *)

Place(j) == CHOOSE n \in DOMAIN order : order[n] = j
Older(k, j) == Place(k) < Place(j)

\* What the job has locked so far in its loop.
LockedSoFar(j) ==
  {req[j][n].pmr : n \in 1..(idx[j] - 1)} \cup ({lresv[j]} \ {NoPmr})

Release(j) == held' = [p \in Exported |-> IF held[p] = j THEN NoJob ELSE held[p]]

\* Call with a request of at least one PMR; zeroing of the append data and the
\* filter of duplicates.
Resolve(j) ==
  /\ At(j, "idle")
  /\ \E r \in Requests :
       /\ r # << >>
       /\ asked' = [asked EXCEPT ![j] = r]
       /\ req' = [req EXCEPT ![j] = Filtered(r)]
  /\ Goto(j, "ctx_lock")
  /\ UNCHANGED <<idx, lockVars, resv, checkVars, depVars, fenceVars, ccb, workVars>>

\* mutex_lock(&ctx->ctx_lock) and ww_acquire_init
LockCtx(j) ==
  /\ At(j, "ctx_lock") /\ ctx_lock[CtxOf[j]] = NoJob
  /\ ctx_lock' = [ctx_lock EXCEPT ![CtxOf[j]] = j]
  /\ order' = Append(order, j)
  /\ Goto(j, "lock")
  /\ UNCHANGED <<asked, req, idx, held, lresv, cresv, resv, checkVars, depVars, fenceVars, ccb, workVars>>

\* Mutant: the slow path's object is locked again in the loop.
LockResvAgain(j) ==
  /\ At(j, "lock") /\ InLoop(j) /\ Here(j) \in Exported
  /\ held[Here(j)] = NoJob
  /\ held' = [held EXCEPT ![Here(j)] = j]
  /\ Step(j)
  /\ UNCHANGED <<pc, asked, req, ctx_lock, order, lresv, cresv, resv, checkVars, depVars, fenceVars, ccb, workVars>>

\* The lock is free, or the slow path has taken it already.
LockResv(j) ==
  /\ At(j, "lock") /\ InLoop(j) /\ Here(j) \in Exported
  /\ IF Here(j) = lresv[j]
     THEN lresv' = [lresv EXCEPT ![j] = NoPmr] /\ UNCHANGED held
     ELSE /\ held[Here(j)] = NoJob
          /\ held' = [held EXCEPT ![Here(j)] = j]
          /\ UNCHANGED lresv
  /\ Step(j)
  /\ UNCHANGED <<pc, asked, req, ctx_lock, order, cresv, resv, checkVars, depVars, fenceVars, ccb, workVars>>

\* -EINVAL without a dma-buf, -EINTR for a signal while blocked.
LockFails(j) ==
  /\ At(j, "lock") /\ InLoop(j)
  /\ \/ Here(j) \notin Exported
     \/ /\ Here(j) \in Exported /\ "interrupt" \in Faults
        /\ Here(j) # lresv[j] /\ held[Here(j)] # NoJob
  /\ Goto(j, "fail")
  /\ UNCHANGED <<asked, req, idx, lockVars, resv, checkVars, depVars, fenceVars, ccb, workVars>>

\* -EDEADLK: the holder, or a job that waits for the same lock, is older, and
\* this job holds a lock.
LockDies(j) ==
  /\ At(j, "lock") /\ InLoop(j) /\ Here(j) \in Exported
  /\ Here(j) # lresv[j] /\ held[Here(j)] \notin {NoJob, j}
  /\ LockedSoFar(j) # {}
  /\ \/ Older(held[Here(j)], j)
     \/ \E k \in Jobs \ {j} : At(k, "lock") /\ InLoop(k) /\ Here(k) = Here(j) /\ Older(k, j)
  /\ cresv' = [cresv EXCEPT ![j] = Here(j)]
  /\ Goto(j, "fail")
  /\ UNCHANGED <<asked, req, idx, ctx_lock, order, held, lresv, resv, checkVars, depVars, fenceVars, ccb, workVars>>

\* Mutant: the unwinding stops one short and leaves the first object locked.
LockUnwindShort(j) ==
  /\ At(j, "fail")
  /\ held' = [p \in Exported |-> IF p \in LockedSoFar(j) /\ p # req[j][1].pmr THEN NoJob ELSE held[p]]
  /\ Goto(j, IF cresv[j] # NoPmr THEN "slow" ELSE "give_up")
  /\ Rewind(j) /\ lresv' = [lresv EXCEPT ![j] = NoPmr]
  /\ UNCHANGED <<asked, req, ctx_lock, order, cresv, resv, checkVars, depVars, fenceVars, ccb, workVars>>

\* fail: the prefix locked by the loop and the object of the slow path are
\* unlocked.  (lresv keeps its value in the code but is not used again before
\* it is set.)
LockUnwind(j) ==
  /\ At(j, "fail")
  /\ held' = [p \in Exported |-> IF p \in LockedSoFar(j) THEN NoJob ELSE held[p]]
  /\ Goto(j, IF cresv[j] # NoPmr THEN "slow" ELSE "give_up")
  /\ Rewind(j) /\ lresv' = [lresv EXCEPT ![j] = NoPmr]
  /\ UNCHANGED <<asked, req, ctx_lock, order, cresv, resv, checkVars, depVars, fenceVars, ccb, workVars>>

\* ww_mutex_lock_slow_interruptible: a lock taken, or a signal.
LockSlow(j) ==
  /\ At(j, "slow")
  /\ \/ /\ held[cresv[j]] = NoJob
        /\ held' = [held EXCEPT ![cresv[j]] = j]
        /\ lresv' = [lresv EXCEPT ![j] = cresv[j]]
        /\ Goto(j, "lock")
     \/ /\ "interrupt" \in Faults /\ held[cresv[j]] # NoJob
        /\ Goto(j, "give_up")
        /\ UNCHANGED <<held, lresv>>
  /\ cresv' = [cresv EXCEPT ![j] = NoPmr]
  /\ UNCHANGED <<asked, req, idx, ctx_lock, order, resv, checkVars, depVars, fenceVars, ccb, workVars>>

Fini(j) ==
  /\ order' = SelectSeq(order, LAMBDA k : k # j)
  /\ ctx_lock' = [ctx_lock EXCEPT ![CtxOf[j]] = NoJob]

\* The error goes back to the caller.
GiveUp(j) ==
  /\ At(j, "give_up")
  /\ Fini(j) /\ Goto(j, "failed")
  /\ UNCHANGED <<asked, req, idx, held, lresv, cresv, resv, checkVars, depVars, fenceVars, ccb, workVars>>

\* ww_acquire_done
LockDone(j) ==
  /\ At(j, "lock") /\ ~InLoop(j)
  /\ Rewind(j) /\ Goto(j, "count")
  /\ UNCHANGED <<asked, req, lockVars, resv, checkVars, depVars, fenceVars, ccb, workVars>>

-----------------------------------------------------------------------------
(* Check fences.                                                           *)

\* The fences of a reservation object that access to it has to wait for.  With
\* enum dma_resv_usage: the unsignalled ones, of writers only for a reader.
\* Before: the exclusive fence for a reader, the shared ones for a writer or,
\* when there are none, the exclusive one.
Obtained(p, write) ==
  LET Excl == {f.work : f \in {g \in resv[p] : g.write}}
      Shared == {f.work : f \in {g \in resv[p] : ~g.write}}
  IN IF UsageApi
     THEN {w \in Excl \cup (IF write THEN Shared ELSE {}) : ~Signaled(w)}
     ELSE IF write /\ Shared # {} THEN Shared ELSE Excl

\* Mutant: as it was before all_in_shared_fences.
CountFencesOld(j) ==
  /\ At(j, "count") /\ InLoop(j)
  /\ fence_count' = [fence_count EXCEPT ![j] = IF Writes(j) THEN @ + Cardinality(Obtained(Here(j), TRUE)) ELSE @]
  /\ Step(j)
  /\ UNCHANGED <<pc, asked, req, lockVars, resv, fences, todo, waiting, missed, depVars, fenceVars, ccb, workVars>>

\* One round of pvr_buffer_sync_pmrs_fence_count.  The result of
\* dma_resv_get_fences is ignored: out of memory it yields no fence.
CountFences(j) ==
  /\ At(j, "count") /\ InLoop(j)
  /\ \E got \in {Obtained(Here(j), Writes(j))} \cup (IF "get_fences" \in Faults THEN {{}} ELSE {}) :
       fence_count' = [fence_count EXCEPT ![j] = @ + Cardinality(got)]
  /\ Step(j)
  /\ UNCHANGED <<pc, asked, req, lockVars, resv, fences, todo, waiting, missed, depVars, fenceVars, ccb, workVars>>

\* The array is allocated, or the check data cannot be created.
AllocFences(j) ==
  /\ At(j, "count") /\ ~InLoop(j)
  /\ Rewind(j)
  /\ \/ Goto(j, "check")
     \/ "alloc" \in Faults /\ Goto(j, "err_unlock")
  /\ UNCHANGED <<asked, req, lockVars, resv, checkVars, depVars, fenceVars, ccb, workVars>>

\* A round of the loop of check_fences_create: a slot is reserved for the
\* fence of a reader, and the fences are obtained again.
GetFences(j) ==
  /\ At(j, "check") /\ InLoop(j)
  /\ \/ /\ \E got \in {Obtained(Here(j), Writes(j))} \cup (IF "get_fences" \in Faults THEN {{}} ELSE {}) :
             todo' = [todo EXCEPT ![j] = got]
        /\ Goto(j, "fences")
     \/ /\ ~Writes(j) /\ "alloc" \in Faults
        /\ Goto(j, "err_destroy") /\ UNCHANGED todo
  /\ UNCHANGED <<asked, req, idx, lockVars, resv, fence_count, fences, waiting, missed, depVars, fenceVars, ccb, workVars>>

\* pvr_fence_create_from_fence: a reference on a fence of this device, or a new
\* check fence for a foreign one.
CheckFence(j) ==
  /\ At(j, "fences")
  /\ \E w \in todo[j] :
       /\ todo' = [todo EXCEPT ![j] = @ \ {w}]
       /\ fences' = [fences EXCEPT ![j] = @ \cup {<<idx[j], w>>}]
       /\ refs' = [k \in Jobs |-> IF k = w THEN refs[k] + 1 ELSE refs[k]]
  /\ UNCHANGED <<pc, asked, req, idx, lockVars, resv, fence_count, waiting, missed, depVars, enabled, ccb, workVars>>

\* It returns NULL, and the job waits for the foreign fence itself.
CheckFenceFails(j) ==
  /\ At(j, "fences") /\ "create" \in Faults
  /\ \E w \in todo[j] \cap Foreign :
       /\ todo' = [todo EXCEPT ![j] = @ \ {w}]
       /\ waiting' = [waiting EXCEPT ![j] = w]
  /\ Goto(j, "wait")
  /\ UNCHANGED <<asked, req, idx, lockVars, resv, fence_count, fences, missed, depVars, fenceVars, ccb, workVars>>

\* dma_fence_wait(fence, true); an interrupted wait is not looked at further.
WaitFence(j) ==
  /\ At(j, "wait")
  /\ "wait" \notin Faults => Signaled(waiting[j])
  /\ missed' = [missed EXCEPT ![j] = @ \cup {w \in {waiting[j]} : ~Signaled(w)}]
  /\ waiting' = [waiting EXCEPT ![j] = NoWork]
  /\ Goto(j, "fences")
  /\ UNCHANGED <<asked, req, idx, lockVars, resv, fence_count, fences, todo, depVars, fenceVars, ccb, workVars>>

NextResv(j) ==
  /\ At(j, "fences") /\ todo[j] = {}
  /\ Step(j) /\ Goto(j, "check")
  /\ UNCHANGED <<asked, req, lockVars, resv, checkVars, depVars, fenceVars, ccb, workVars>>

\* The list of checkpoints for the GPU, a reference on each; out of memory
\* matters only when there is one.
GetCheckpoints(j) ==
  /\ At(j, "check") /\ ~InLoop(j)
  /\ \/ /\ deps' = [deps EXCEPT ![j] = {f[2] : f \in fences[j]}]
        /\ ck_refs' = [ck_refs EXCEPT ![j] = fences[j] # {}]
        /\ Goto(j, "update")
     \/ /\ fences[j] # {} /\ "alloc" \in Faults
        /\ Goto(j, "err_destroy") /\ UNCHANGED depVars
  /\ UNCHANGED <<asked, req, idx, lockVars, resv, checkVars, fenceVars, ccb, workVars>>

\* The update fence with its extra reference; without it, the list of
\* checkpoints is freed and the check fences are destroyed.
CreateUpdate(j) ==
  /\ At(j, "update")
  /\ \/ /\ refs' = [refs EXCEPT ![j] = 2]
        /\ Goto(j, "resolved")
     \/ /\ "alloc" \in Faults
        /\ Goto(j, "err_destroy") /\ UNCHANGED refs
  /\ UNCHANGED <<asked, req, idx, lockVars, resv, checkVars, depVars, enabled, ccb, workVars>>

-----------------------------------------------------------------------------
(* Release.                                                                *)

\* pvr_fence_destroy of every check fence of j: the references left on k
Undestroyed(j, k) == refs[k] - Cardinality({f \in fences[j] : f[2] = k})

\* err_free_check_data
ErrDestroy(j) ==
  /\ At(j, "err_destroy")
  /\ refs' = [k \in Jobs |-> Undestroyed(j, k)]
  /\ fences' = [fences EXCEPT ![j] = {}]
  /\ Goto(j, "err_unlock")
  /\ UNCHANGED <<asked, req, idx, lockVars, resv, fence_count, todo, waiting, missed, depVars, enabled, ccb, workVars>>

\* pvr_buffer_sync_pmrs_unlock
UnlockPmrs(j) ==
  /\ Release(j) /\ Fini(j)
  /\ UNCHANGED <<lresv, cresv>>

\* err_pmrs_unlock, err_free_data
ErrUnlock(j) ==
  /\ At(j, "err_unlock")
  /\ UnlockPmrs(j) /\ Goto(j, "failed")
  /\ UNCHANGED <<asked, req, idx, resv, checkVars, depVars, fenceVars, ccb, workVars>>

-----------------------------------------------------------------------------
(* The kick.                                                               *)

\* What the caller said the kick reads and writes.
UsesOf(j) ==
  LET Of(write) == {asked[j][n].pmr : n \in {m \in DOMAIN asked[j] : asked[j][m].write = write}}
  IN [read |-> Of(FALSE), write |-> Of(TRUE)]

Publish(w, u) ==
  /\ uses' = [uses EXCEPT ![w] = u]
  /\ before' = [before EXCEPT ![w] = {v \in Works : stage[v] # "none"}]
  /\ stage' = [stage EXCEPT ![w] = "queued"]

\* The core submits the kick: the GPU may run it from here on.
Kick(j) ==
  /\ At(j, "resolved")
  /\ Publish(j, UsesOf(j))
  /\ ccb' = [ccb EXCEPT ![CtxOf[j]] = Append(@, j)]
  /\ Goto(j, "kicked")
  /\ UNCHANGED <<asked, req, idx, lockVars, resv, checkVars, depVars, fenceVars>>

\* Or fails to, and drops what it was given.
KickFails(j) ==
  /\ At(j, "resolved") /\ "kick" \in Faults
  /\ ck_refs' = [ck_refs EXCEPT ![j] = FALSE]
  /\ Goto(j, "put_extra")
  /\ UNCHANGED <<asked, req, idx, lockVars, resv, checkVars, deps, fenceVars, ccb, workVars>>

\* kick_succeeded: dma_fence_enable_sw_signaling takes a reference unless the
\* checkpoint is signalled already.
KickSucceeded(j) ==
  /\ At(j, "kicked")
  /\ IF Signaled(j) THEN UNCHANGED fenceVars
     ELSE /\ refs' = [refs EXCEPT ![j] = @ + 1]
          /\ enabled' = [enabled EXCEPT ![j] = TRUE]
  /\ Rewind(j) /\ Goto(j, "add")
  /\ UNCHANGED <<asked, req, lockVars, resv, checkVars, depVars, ccb, workVars>>

SameContext(v, w) == v \in Jobs /\ w \in Jobs /\ CtxOf[v] = CtxOf[w]

\* The sets of fences one of which makes room for a new one; none may.
Replaced(p, w, write) ==
  LET Room(f) == Signaled(f.work) \/ SameContext(f.work, w)
      One(S) == IF S = {} THEN {{}} ELSE {{f} : f \in S}
  IN IF UsageApi
     THEN One({f \in resv[p] : Signaled(f.work) \/ (SameContext(f.work, w) /\ (write \/ ~f.write))})
     ELSE IF write THEN {resv[p]}
          ELSE One({f \in resv[p] : ~f.write /\ Room(f)})

\* The update fence joins the reservation object, as exclusive or shared.
AddFence(j) ==
  /\ At(j, "add") /\ InLoop(j)
  /\ \E out \in Replaced(Here(j), j, Writes(j)) :
       /\ resv' = [resv EXCEPT ![Here(j)] = (@ \ out) \cup {[work |-> j, write |-> Writes(j)]}]
       /\ refs' = [k \in Jobs |->
                     refs[k] + (IF k = j THEN 1 ELSE 0) - Cardinality({f \in out : f.work = k})]
  /\ Step(j)
  /\ UNCHANGED <<pc, asked, req, lockVars, checkVars, depVars, enabled, ccb, workVars>>

AddDone(j) ==
  /\ At(j, "add") /\ ~InLoop(j)
  /\ Goto(j, "put_extra")
  /\ UNCHANGED <<asked, req, idx, lockVars, resv, checkVars, depVars, fenceVars, ccb, workVars>>

\* Mutant: the extra reference of a failed kick is forgotten.
PutExtraUnlessFailed(j) ==
  /\ At(j, "put_extra")
  /\ refs' = [refs EXCEPT ![j] = IF stage[j] = "none" THEN @ ELSE @ - 1]
  /\ UnlockPmrs(j) /\ Goto(j, "destroy")
  /\ UNCHANGED <<asked, req, idx, resv, checkVars, depVars, enabled, ccb, workVars>>

\* Both outcomes: the extra reference is put, then the PMRs are unlocked.
PutExtra(j) ==
  /\ At(j, "put_extra")
  /\ refs' = [refs EXCEPT ![j] = @ - 1]
  /\ UnlockPmrs(j) /\ Goto(j, "destroy")
  /\ UNCHANGED <<asked, req, idx, resv, checkVars, depVars, enabled, ccb, workVars>>

\* The check fences and the update fence are destroyed.
Destroy(j) ==
  /\ At(j, "destroy")
  /\ refs' = [k \in Jobs |-> Undestroyed(j, k) - (IF k = j THEN 1 ELSE 0)]
  /\ fences' = [fences EXCEPT ![j] = {}]
  /\ Goto(j, IF stage[j] = "none" THEN "failed" ELSE "succeeded")
  /\ UNCHANGED <<asked, req, idx, lockVars, resv, fence_count, todo, waiting, missed, depVars, enabled, ccb, workVars>>

-----------------------------------------------------------------------------
(* The GPU and other drivers.                                              *)

\* A kick runs in the order of its context and once its checkpoints are met.
Start(j) ==
  /\ stage[j] = "queued" /\ Head(ccb[CtxOf[j]]) = j
  /\ \A w \in deps[j] : Signaled(w)
  /\ stage' = [stage EXCEPT ![j] = "running"]
  /\ UNCHANGED <<pc, asked, req, idx, lockVars, resv, checkVars, depVars, fenceVars, ccb, uses, before>>

\* The GPU signals the update checkpoint; the core drops what it held.
Finish(j) ==
  /\ stage[j] = "running"
  /\ stage' = [stage EXCEPT ![j] = "done"]
  /\ ccb' = [ccb EXCEPT ![CtxOf[j]] = Tail(@)]
  /\ ck_refs' = [ck_refs EXCEPT ![j] = FALSE]
  /\ UNCHANGED <<pc, asked, req, idx, lockVars, resv, checkVars, deps, fenceVars, uses, before>>

\* The fence context notices: the reference of software signalling goes.
Notice(j) ==
  /\ enabled[j] /\ Signaled(j)
  /\ enabled' = [enabled EXCEPT ![j] = FALSE]
  /\ refs' = [refs EXCEPT ![j] = @ - 1]
  /\ UNCHANGED <<pc, asked, req, idx, lockVars, resv, checkVars, depVars, ccb, workVars>>

\* Another driver queues work on a buffer and adds its fence.
ForeignPublish(w) ==
  /\ stage[w] = "none"
  /\ \E u \in ForeignUses :
       /\ held[u.pmr] = NoJob
       /\ Publish(w, [read |-> IF u.write THEN {} ELSE {u.pmr},
                      write |-> IF u.write THEN {u.pmr} ELSE {}])
       /\ \E out \in Replaced(u.pmr, w, u.write) :
            /\ resv' = [resv EXCEPT ![u.pmr] = (@ \ out) \cup {[work |-> w, write |-> u.write]}]
            /\ refs' = [k \in Jobs |-> refs[k] - Cardinality({f \in out : f.work = k})]
  /\ UNCHANGED <<pc, asked, req, idx, lockVars, checkVars, depVars, enabled, ccb>>

\* It runs when the work it conflicts with is done.
ForeignStart(w) ==
  /\ Promise!AbsStart(w)
  /\ UNCHANGED <<pc, asked, req, idx, lockVars, resv, checkVars, depVars, fenceVars, ccb>>

ForeignFinish(w) ==
  /\ Promise!AbsFinish(w)
  /\ UNCHANGED <<pc, asked, req, idx, lockVars, resv, checkVars, depVars, fenceVars, ccb>>

-----------------------------------------------------------------------------

LockStep(j) ==
  \/ Resolve(j) \/ LockCtx(j) \/ LockResv(j) \/ LockFails(j) \/ LockDies(j)
  \/ LockUnwind(j) \/ LockSlow(j) \/ GiveUp(j) \/ LockDone(j)

CheckStep(j) ==
  \/ CountFences(j) \/ AllocFences(j) \/ GetFences(j) \/ CheckFence(j)
  \/ CheckFenceFails(j) \/ WaitFence(j) \/ NextResv(j) \/ GetCheckpoints(j)
  \/ CreateUpdate(j) \/ ErrDestroy(j) \/ ErrUnlock(j)

KickStep(j) ==
  \/ Kick(j) \/ KickFails(j) \/ KickSucceeded(j) \/ AddFence(j) \/ AddDone(j)
  \/ PutExtra(j) \/ Destroy(j)

GpuStep(j) == Start(j) \/ Finish(j) \/ Notice(j)

ForeignStep(w) == ForeignPublish(w) \/ ForeignStart(w) \/ ForeignFinish(w)

Next ==
  \/ \E j \in Jobs : LockStep(j) \/ CheckStep(j) \/ KickStep(j) \/ GpuStep(j)
  \/ \E w \in Foreign : ForeignStep(w)

Spec == Init /\ [][Next]_vars

\* Threads run, and a mutex is granted in the end to a job that keeps asking:
\* both kinds hand the lock over to a waiter that has waited long.  The GPU and
\* the other drivers make progress with what they have started.
FairSpec ==
  /\ Spec
  /\ \A j \in Jobs :
       /\ SF_vars(LockCtx(j)) /\ SF_vars(LockResv(j)) /\ SF_vars(LockSlow(j))
       /\ WF_vars(LockFails(j) \/ LockDies(j) \/ LockUnwind(j) \/ GiveUp(j) \/ LockDone(j))
       /\ WF_vars(CheckStep(j)) /\ WF_vars(KickStep(j)) /\ WF_vars(GpuStep(j))
  /\ \A w \in Foreign : WF_vars(ForeignStart(w)) /\ WF_vars(ForeignFinish(w))

-----------------------------------------------------------------------------
(* Properties.                                                             *)

Locking == {"lock", "fail"}
Holding == {"count", "check", "fences", "wait", "update", "resolved", "kicked",
            "add", "put_extra", "err_destroy", "err_unlock"}
Outside == {"idle", "ctx_lock", "destroy", "succeeded", "failed"}
Labels == Locking \cup Holding \cup Outside \cup {"slow", "give_up"}

\* Values of the variables.
TypeOK ==
  /\ pc \in [Jobs -> Labels]
  /\ asked \in [Jobs -> Requests \cup {<< >>}]
  /\ req \in [Jobs -> Seq(Access)]
  /\ \A j \in Jobs : idx[j] \in 1..(Len(req[j]) + 1)
  /\ ctx_lock \in [Ctxs -> Jobs \cup {NoJob}]
  /\ order \in Seq(Jobs)
  /\ held \in [Exported -> Jobs \cup {NoJob}]
  /\ lresv \in [Jobs -> Exported \cup {NoPmr}]
  /\ cresv \in [Jobs -> Exported \cup {NoPmr}]
  /\ resv \in [Exported -> SUBSET [work : Works, write : BOOLEAN]]
  /\ fence_count \in [Jobs -> Nat]
  /\ fences \in [Jobs -> SUBSET (Nat \X Works)]
  /\ todo \in [Jobs -> SUBSET Works]
  /\ waiting \in [Jobs -> Foreign \cup {NoWork}]
  /\ missed \in [Jobs -> SUBSET Foreign]
  /\ deps \in [Jobs -> SUBSET Works]
  /\ ck_refs \in [Jobs -> BOOLEAN]
  /\ refs \in [Jobs -> Nat]
  /\ enabled \in [Jobs -> BOOLEAN]
  /\ ccb \in [Ctxs -> Seq(Jobs)]
  /\ stage \in [Works -> {"none", "queued", "running", "done"}]

\* The locks a job holds are exactly the ones its progress through
\* pvr_buffer_sync_pmrs_lock accounts for: what the loop has passed and what
\* the slow path took, everything while the kick is prepared, and nothing on
\* any other path out, however often it had to back off.
LocksBalanced ==
  \A j \in Jobs :
    LET mine == {p \in Exported : held[p] = j}
    IN /\ mine = CASE pc[j] \in Locking -> LockedSoFar(j)
                   [] pc[j] \in Holding -> {req[j][n].pmr : n \in DOMAIN req[j]}
                   [] OTHER -> {}
       /\ ctx_lock[CtxOf[j]] = j <=> pc[j] \notin Outside

\* The entries of data->fences stay within the array: the second look at the
\* reservation objects finds no more fences than the first, for which the array
\* was sized (the WARN_ON of pvr_buffer_sync_check_fences_create).
FencesFit ==
  \A j \in Jobs :
    /\ Cardinality(fences[j]) <= fence_count[j]
    /\ At(j, "wait") => Cardinality(fences[j]) < fence_count[j]

\* References on an update fence: the creator's and the extra one, the one of
\* software signalling, one for each reservation object and one for each check
\* fence other kicks made of it.  None is put twice, none is left behind: a
\* resolve that fails and a kick that is over, either way, hold no check fence.
RefsBalanced ==
  \A j \in Jobs :
    /\ refs[j] =
         (IF pc[j] \in {"resolved", "kicked", "add", "put_extra"} THEN 2 ELSE 0)
         + (IF At(j, "destroy") THEN 1 ELSE 0)
         + (IF enabled[j] THEN 1 ELSE 0)
         + Cardinality({p \in Exported : \E f \in resv[p] : f.work = j})
         + Cardinality(UNION {{<<k, f>> : f \in {g \in fences[k] : g[2] = j}} : k \in Jobs})
    /\ pc[j] \in {"err_unlock", "failed", "succeeded"} => fences[j] = {}

\* Work on shared buffers keeps the promise of ImplicitSync: a kick, or work
\* of another driver, starts only after everything published before it that it
\* conflicts with is done.
KeepsOrder == Promise!AbsSpec

\* Every kick gets an answer: the locks it needs, in the face of others that
\* want them in another order, or an error.  And what was published is done in
\* the end: the waits of kicks and of other drivers for each other have no cycle.
NobodyStuck ==
  /\ \A j \in Jobs : At(j, "ctx_lock") ~> pc[j] \in {"succeeded", "failed"}
  /\ \A w \in Works : stage[w] = "queued" ~> stage[w] = "done"

\* The fences of a failed resolve leave no reference on a checkpoint behind:
\* "will be dropped later by kick code" (pvr_fence.c:1079).
CheckpointRefsDropped == \A j \in Jobs : At(j, "failed") => ~ck_refs[j]

\* A fence a kick has to wait for itself is signalled when the wait is over:
\* WARN_ON(dma_fence_wait(...) <= 0).
WaitsComplete == \A j \in Jobs : At(j, "resolved") => \A w \in missed[j] : Signaled(w)
=============================================================================
