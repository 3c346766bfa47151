--------------------------- MODULE PvrFenceProofs ---------------------------
(***************************************************************************)
(* Theorems about PvrFence, for every number of contexts, fences, foreign  *)
(* fences and notifier threads.                                            *)
(*                                                                         *)
(* The argument is about one fence at a time.  Its reference count is the  *)
(* sum of the references somebody holds (Accounted).  The release handler  *)
(* starts when that sum reaches zero and never before (ReleasedAtZero), the *)
(* fence leaves fence_list in that handler and nowhere else (Placed), and  *)
(* only a fence that has left it can be freed.  Hence whoever holds a      *)
(* reference finds the memory in use.  About the threads only one fact is  *)
(* needed: the fence a notifier is about to put is the one it took off its *)
(* own signal list, and it has been signalled (PutsItsOwn).                *)
(*                                                                         *)
(* The lifetime of a context (CInv) rests on that.  Its kref counts its    *)
(* creator and the fences whose release handler has not finished           *)
(* (KrefExact), so its destruction is queued once, when nobody can queue   *)
(* anything for it any more, and the queue is served in order (QueueInv);  *)
(* announcements only visit registered contexts (PlaceInv), and what       *)
(* destroy_work did so far is true of each fence of its context (FreeInv). *)
(***************************************************************************)
EXTENDS PvrFence, FiniteSetTheorems, SequenceTheorems, TLAPS

Unborn(f) ==
  mem[f] = "none" =>
    /\ refcount[f] = 0 /\ users[f] = 0 /\ rel[f] = "none" /\ cb[f] = "none"
    /\ fence_head[f] = "none" /\ signal_head[f] = "none"
    /\ ~enabled[f] /\ ~signaled[f] /\ checkpoint[f] = "none"

Accounted(f) ==
  refcount[f] = users[f] + One(signal_head[f] # "none") + One(CbHolds(f))

ReleasedAtZero(f) == mem[f] # "none" => (rel[f] = "none" <=> refcount[f] # 0)

Placed(f) ==
  /\ fence_head[f] = "fence_list" <=> mem[f] # "none" /\ rel[f] \in {"none", "entered"}
  /\ fence_head[f] # "none" => mem[f] = "used"
  /\ mem[f] = "used" => fence_head[f] # "none"

\* Only a watched fence is on a signal list, and what a notifier took off one
\* has a signalled checkpoint.
Listed(f) ==
  /\ signal_head[f] # "none" => enabled[f]
  /\ signal_head[f] \in Threads => checkpoint[f] = "signalled"

FenceInv(f) == Unborn(f) /\ Accounted(f) /\ ReleasedAtZero(f) /\ Placed(f) /\ Listed(f)

PutsItsOwn(t) ==
  pc[t] = "put" => cur[t] \in Fences /\ signal_head[cur[t]] = t /\ signaled[cur[t]]

Types ==
  /\ mem \in [Fences -> {"none", "used", "rcu", "freed"}]
  /\ refcount \in [Fences -> Int]
  /\ users \in [Fences -> Nat]
  /\ fence_head \in [Fences -> {"none", "fence_list", "deferred"} \cup Threads]
  /\ signal_head \in [Fences -> {"none", "adding", "list"} \cup Threads]
  /\ enabled \in [Fences -> BOOLEAN]
  /\ signaled \in [Fences -> BOOLEAN]
  /\ checkpoint \in [Fences -> {"none", "active", "signalled", "freed"}]
  /\ cb \in [Fences -> {"none", "adding", "registered", "fired", "queue", "put", "done"}]
  /\ rel \in [Fences -> {"none", "entered", "moved", "unwrapped", "done"}]
  /\ pc \in [Threads -> {"idle", "visit", "scan", "signal", "put", "grab", "free",
                         "unregister", "barrier", "teardown"}]
  /\ cur \in [Threads -> Fences \cup {NoFence}]

IInv ==
  /\ Types
  /\ \A f \in Fences : FenceInv(f)
  /\ \A t \in Threads : PutsItsOwn(t)
  /\ WaitedIsListed

-----------------------------------------------------------------------------
LEMMA ThreadNames ==
  ASSUME NEW t \in Threads
  PROVE  t \notin {"none", "adding", "list", "fence_list", "deferred"}
BY ThreadsAssumption

LEMMA InitIInv == Init => IInv
<1> SUFFICES ASSUME Init PROVE IInv
  OBVIOUS
<1>1. Types
  BY DEF Init, Types
<1>2. ASSUME NEW f \in Fences PROVE FenceInv(f)
  BY ThreadNames DEF Init, FenceInv, Unborn, Accounted, ReleasedAtZero, Placed, Listed, One, CbHolds
<1>3. ASSUME NEW t \in Threads PROVE PutsItsOwn(t)
  BY DEF Init, PutsItsOwn
<1>4. WaitedIsListed
  BY DEF Init, WaitedIsListed
<1> QED
  BY <1>1, <1>2, <1>3, <1>4 DEF IInv

(* Steps that touch no fence: only the threads' places matter.             *)
LEMMA ThreadsOnly ==
  ASSUME IInv, UNCHANGED fenceVars, pc' \in [Threads -> {"idle", "visit", "scan", "signal",
           "put", "grab", "free", "unregister", "barrier", "teardown"}],
         cur' \in [Threads -> Fences \cup {NoFence}],
         \A t \in Threads : pc'[t] = "put" => pc[t] = "put" /\ cur'[t] = cur[t]
  PROVE  IInv'
<1>1. Types'
  BY DEF IInv, Types, fenceVars
<1>2. ASSUME NEW f \in Fences PROVE FenceInv(f)'
  BY DEF IInv, fenceVars, FenceInv, Unborn, Accounted, ReleasedAtZero, Placed, Listed, One, CbHolds
<1>3. ASSUME NEW t \in Threads PROVE PutsItsOwn(t)'
  BY DEF IInv, PutsItsOwn, fenceVars
<1>4. WaitedIsListed'
  BY DEF IInv, fenceVars, WaitedIsListed
<1> QED
  BY <1>1, <1>2, <1>3, <1>4 DEF IInv

LEMMA ContextStep ==
  ASSUME IInv, NEW c \in Contexts, CtxNext(c)
  PROVE  IInv'
<1>1. CASE CtxRegister(c) \/ CtxGetCache(c) \/ CtxCacheFails(c) \/ CtxUndo(c) \/ OwnerPut(c)
  <2>1. UNCHANGED <<fenceVars, pc, cur>>
    BY <1>1 DEF CtxRegister, CtxGetCache, CtxCacheFails, CtxUndo, OwnerPut, threadVars
  <2> QED
    BY <2>1, ThreadsOnly DEF IInv, Types
<1>2. CASE \E f \in Fences : Create(c, f)
  <2>1. Types'
    BY <1>2, ThreadNames DEF IInv, Types, FenceInv, Unborn, Create, Born, threadVars
  <2>2. ASSUME NEW g \in Fences PROVE FenceInv(g)'
    BY <1>2, ThreadNames DEF IInv, Types, FenceInv, Unborn, Accounted, ReleasedAtZero, Placed,
       Listed, One, CbHolds, Create, Born, threadVars
  <2>3. ASSUME NEW t \in Threads PROVE PutsItsOwn(t)'
    BY <1>2, ThreadNames DEF IInv, Types, FenceInv, Unborn, PutsItsOwn, Create, Born, threadVars
  <2>4. WaitedIsListed'
    BY <1>2, ThreadNames DEF IInv, Types, FenceInv, Unborn, WaitedIsListed, Create, Born, threadVars
  <2> QED
    BY <2>1, <2>2, <2>3, <2>4 DEF IInv
<1>3. CASE \E f \in Fences, x \in Foreigns : CreateFromForeign(c, f, x)
  <2>1. Types'
    BY <1>3, ThreadNames DEF IInv, Types, FenceInv, Unborn, CreateFromForeign, Born, threadVars
  <2>2. ASSUME NEW g \in Fences PROVE FenceInv(g)'
    BY <1>3, ThreadNames DEF IInv, Types, FenceInv, Unborn, Accounted, ReleasedAtZero, Placed,
       Listed, One, CbHolds, CreateFromForeign, Born, threadVars
  <2>3. ASSUME NEW t \in Threads PROVE PutsItsOwn(t)'
    BY <1>3, ThreadNames DEF IInv, Types, FenceInv, Unborn, PutsItsOwn, CreateFromForeign, Born, threadVars
  <2>4. WaitedIsListed'
    BY <1>3, ThreadNames DEF IInv, Types, FenceInv, Unborn, WaitedIsListed, CreateFromForeign, Born, threadVars
  <2> QED
    BY <2>1, <2>2, <2>3, <2>4 DEF IInv
<1> QED
  BY <1>1, <1>2, <1>3 DEF CtxNext

LEMMA ForeignStep == ASSUME IInv, NEW x \in Foreigns, ForeignSignal(x) PROVE IInv'
<1>2. CASE ForeignSignal(x)
  <2>1. Types'
    BY <1>2, ThreadNames DEF IInv, Types, FenceInv, Unborn, ForeignSignal, threadVars
  <2>2. ASSUME NEW g \in Fences PROVE FenceInv(g)'
    BY <1>2, ThreadNames DEF IInv, Types, FenceInv, Unborn, Accounted, ReleasedAtZero, Placed,
       Listed, One, CbHolds, ForeignSignal, threadVars
  <2>3. ASSUME NEW t \in Threads PROVE PutsItsOwn(t)'
    BY <1>2, ThreadNames DEF IInv, Types, FenceInv, Unborn, PutsItsOwn, ForeignSignal, threadVars
  <2>4. WaitedIsListed'
    BY <1>2, ThreadNames DEF IInv, Types, FenceInv, Unborn, WaitedIsListed, ForeignSignal, threadVars
  <2> QED
    BY <2>1, <2>2, <2>3, <2>4 DEF IInv
<1> QED
  BY <1>2

LEMMA FenceStep ==
  ASSUME IInv, NEW f \in Fences, FenceNext(f)
  PROVE  IInv'
<1>1. CASE AddCallback(f)
  <2>1. Types'
    BY <1>1, ThreadNames DEF IInv, Types, FenceInv, Unborn, AddCallback, FencePut, threadVars
  <2>2. ASSUME NEW g \in Fences PROVE FenceInv(g)'
    BY <1>1, ThreadNames DEF IInv, Types, FenceInv, Unborn, Accounted, ReleasedAtZero, Placed,
       Listed, One, CbHolds, AddCallback, FencePut, threadVars
  <2>3. ASSUME NEW t \in Threads PROVE PutsItsOwn(t)'
    BY <1>1, ThreadNames DEF IInv, Types, FenceInv, Unborn, PutsItsOwn, AddCallback, FencePut, threadVars
  <2>4. WaitedIsListed'
    BY <1>1, ThreadNames DEF IInv, Types, FenceInv, Unborn, WaitedIsListed, AddCallback, FencePut, threadVars
  <2> QED
    BY <2>1, <2>2, <2>3, <2>4 DEF IInv
<1>2. CASE CbSignal(f)
  <2>1. Types'
    BY <1>2, ThreadNames DEF IInv, Types, FenceInv, Unborn, CbSignal, threadVars
  <2>2. ASSUME NEW g \in Fences PROVE FenceInv(g)'
    BY <1>2, ThreadNames DEF IInv, Types, FenceInv, Unborn, Accounted, ReleasedAtZero, Placed,
       Listed, One, CbHolds, CbSignal, threadVars
  <2>3. ASSUME NEW t \in Threads PROVE PutsItsOwn(t)'
    BY <1>2, ThreadNames DEF IInv, Types, FenceInv, Unborn, PutsItsOwn, CbSignal, threadVars
  <2>4. WaitedIsListed'
    BY <1>2, ThreadNames DEF IInv, Types, FenceInv, Unborn, WaitedIsListed, CbSignal, threadVars
  <2> QED
    BY <2>1, <2>2, <2>3, <2>4 DEF IInv
<1>3. CASE CbQueue(f)
  <2>1. Types'
    BY <1>3, ThreadNames DEF IInv, Types, FenceInv, Unborn, CbQueue, threadVars
  <2>2. ASSUME NEW g \in Fences PROVE FenceInv(g)'
    BY <1>3, ThreadNames DEF IInv, Types, FenceInv, Unborn, Accounted, ReleasedAtZero, Placed,
       Listed, One, CbHolds, CbQueue, threadVars
  <2>3. ASSUME NEW t \in Threads PROVE PutsItsOwn(t)'
    BY <1>3, ThreadNames DEF IInv, Types, FenceInv, Unborn, PutsItsOwn, CbQueue, threadVars
  <2>4. WaitedIsListed'
    BY <1>3, ThreadNames DEF IInv, Types, FenceInv, Unborn, WaitedIsListed, CbQueue, threadVars
  <2> QED
    BY <2>1, <2>2, <2>3, <2>4 DEF IInv
<1>4. CASE CbPut(f)
  <2>1. Types'
    BY <1>4, ThreadNames DEF IInv, Types, FenceInv, Unborn, CbPut, FencePut, threadVars
  <2>2. ASSUME NEW g \in Fences PROVE FenceInv(g)'
    BY <1>4, ThreadNames DEF IInv, Types, FenceInv, Unborn, Accounted, ReleasedAtZero, Placed,
       Listed, One, CbHolds, CbPut, FencePut, threadVars
  <2>3. ASSUME NEW t \in Threads PROVE PutsItsOwn(t)'
    BY <1>4, ThreadNames DEF IInv, Types, FenceInv, Unborn, PutsItsOwn, CbPut, FencePut, threadVars
  <2>4. WaitedIsListed'
    BY <1>4, ThreadNames DEF IInv, Types, FenceInv, Unborn, WaitedIsListed, CbPut, FencePut, threadVars
  <2> QED
    BY <2>1, <2>2, <2>3, <2>4 DEF IInv
<1>5. CASE UserGet(f)
  <2>1. Types'
    BY <1>5, ThreadNames DEF IInv, Types, FenceInv, Unborn, UserGet, threadVars
  <2>2. ASSUME NEW g \in Fences PROVE FenceInv(g)'
    BY <1>5, ThreadNames DEF IInv, Types, FenceInv, Unborn, Accounted, ReleasedAtZero, Placed,
       Listed, One, CbHolds, UserGet, threadVars
  <2>3. ASSUME NEW t \in Threads PROVE PutsItsOwn(t)'
    BY <1>5, ThreadNames DEF IInv, Types, FenceInv, Unborn, PutsItsOwn, UserGet, threadVars
  <2>4. WaitedIsListed'
    BY <1>5, ThreadNames DEF IInv, Types, FenceInv, Unborn, WaitedIsListed, UserGet, threadVars
  <2> QED
    BY <2>1, <2>2, <2>3, <2>4 DEF IInv
<1>6. CASE UserPut(f)
  <2>1. Types'
    BY <1>6, ThreadNames DEF IInv, Types, FenceInv, Unborn, UserPut, FencePut, Busy, threadVars
  <2>2. ASSUME NEW g \in Fences PROVE FenceInv(g)'
    BY <1>6, ThreadNames DEF IInv, Types, FenceInv, Unborn, Accounted, ReleasedAtZero, Placed,
       Listed, One, CbHolds, UserPut, FencePut, Busy, threadVars
  <2>3. ASSUME NEW t \in Threads PROVE PutsItsOwn(t)'
    BY <1>6, ThreadNames DEF IInv, Types, FenceInv, Unborn, PutsItsOwn, UserPut, FencePut, Busy, threadVars
  <2>4. WaitedIsListed'
    BY <1>6, ThreadNames DEF IInv, Types, FenceInv, Unborn, WaitedIsListed, UserPut, FencePut, Busy, threadVars
  <2> QED
    BY <2>1, <2>2, <2>3, <2>4 DEF IInv
<1>7. CASE EnableCheck(f)
  <2>1. Types'
    <3>1. enabled' \in [Fences -> BOOLEAN] /\ signaled' \in [Fences -> BOOLEAN]
      BY <1>7 DEF IInv, Types, EnableCheck
    <3>2. /\ refcount' \in [Fences -> Int]
          /\ signal_head' \in [Fences -> {"none", "adding", "list"} \cup Threads]
      BY <1>7 DEF IInv, Types, EnableCheck
    <3> QED
      BY <1>7, <3>1, <3>2 DEF IInv, Types, EnableCheck, threadVars
  <2>2. ASSUME NEW g \in Fences PROVE FenceInv(g)'
    BY <1>7, ThreadNames DEF IInv, Types, FenceInv, Unborn, Accounted, ReleasedAtZero, Placed,
       Listed, One, CbHolds, EnableCheck, threadVars
  <2>3. ASSUME NEW t \in Threads PROVE PutsItsOwn(t)'
    BY <1>7, ThreadNames DEF IInv, Types, FenceInv, Unborn, PutsItsOwn, EnableCheck, threadVars
  <2>4. WaitedIsListed'
    BY <1>7, ThreadNames DEF IInv, Types, FenceInv, Unborn, WaitedIsListed, EnableCheck, threadVars
  <2> QED
    BY <2>1, <2>2, <2>3, <2>4 DEF IInv
<1>8. CASE EnableAdd(f)
  <2>1. Types'
    BY <1>8, ThreadNames DEF IInv, Types, FenceInv, Unborn, EnableAdd, threadVars
  <2>2. ASSUME NEW g \in Fences PROVE FenceInv(g)'
    BY <1>8, ThreadNames DEF IInv, Types, FenceInv, Unborn, Accounted, ReleasedAtZero, Placed,
       Listed, One, CbHolds, EnableAdd, threadVars
  <2>3. ASSUME NEW t \in Threads PROVE PutsItsOwn(t)'
    BY <1>8, ThreadNames DEF IInv, Types, FenceInv, Unborn, PutsItsOwn, EnableAdd, threadVars
  <2>4. WaitedIsListed'
    BY <1>8, ThreadNames DEF IInv, Types, FenceInv, Unborn, WaitedIsListed, EnableAdd, threadVars
  <2> QED
    BY <2>1, <2>2, <2>3, <2>4 DEF IInv
<1>9. CASE Poll(f)
  <2>1. Types'
    BY <1>9, ThreadNames DEF IInv, Types, FenceInv, Unborn, Poll, threadVars
  <2>2. ASSUME NEW g \in Fences PROVE FenceInv(g)'
    BY <1>9, ThreadNames DEF IInv, Types, FenceInv, Unborn, Accounted, ReleasedAtZero, Placed,
       Listed, One, CbHolds, Poll, threadVars
  <2>3. ASSUME NEW t \in Threads PROVE PutsItsOwn(t)'
    BY <1>9, ThreadNames DEF IInv, Types, FenceInv, Unborn, PutsItsOwn, Poll, threadVars
  <2>4. WaitedIsListed'
    BY <1>9, ThreadNames DEF IInv, Types, FenceInv, Unborn, WaitedIsListed, Poll, threadVars
  <2> QED
    BY <2>1, <2>2, <2>3, <2>4 DEF IInv
<1>10. CASE CheckpointSignal(f)
  <2>1. Types'
    BY <1>10, ThreadNames DEF IInv, Types, FenceInv, Unborn, CheckpointSignal, threadVars
  <2>2. ASSUME NEW g \in Fences PROVE FenceInv(g)'
    BY <1>10, ThreadNames DEF IInv, Types, FenceInv, Unborn, Accounted, ReleasedAtZero, Placed,
       Listed, One, CbHolds, CheckpointSignal, threadVars
  <2>3. ASSUME NEW t \in Threads PROVE PutsItsOwn(t)'
    BY <1>10, ThreadNames DEF IInv, Types, FenceInv, Unborn, PutsItsOwn, CheckpointSignal, threadVars
  <2>4. WaitedIsListed'
    BY <1>10, ThreadNames DEF IInv, Types, FenceInv, Unborn, WaitedIsListed, CheckpointSignal, threadVars
  <2> QED
    BY <2>1, <2>2, <2>3, <2>4 DEF IInv
<1>11. CASE SwSignal(f)
  <2>1. Types'
    BY <1>11, ThreadNames DEF IInv, Types, FenceInv, Unborn, SwSignal, threadVars
  <2>2. ASSUME NEW g \in Fences PROVE FenceInv(g)'
    BY <1>11, ThreadNames DEF IInv, Types, FenceInv, Unborn, Accounted, ReleasedAtZero, Placed,
       Listed, One, CbHolds, SwSignal, threadVars
  <2>3. ASSUME NEW t \in Threads PROVE PutsItsOwn(t)'
    BY <1>11, ThreadNames DEF IInv, Types, FenceInv, Unborn, PutsItsOwn, SwSignal, threadVars
  <2>4. WaitedIsListed'
    BY <1>11, ThreadNames DEF IInv, Types, FenceInv, Unborn, WaitedIsListed, SwSignal, threadVars
  <2> QED
    BY <2>1, <2>2, <2>3, <2>4 DEF IInv
<1>12. CASE ReleaseMove(f)
  <2>1. Types'
    BY <1>12, ThreadNames DEF IInv, Types, FenceInv, Unborn, ReleaseMove, threadVars
  <2>2. ASSUME NEW g \in Fences PROVE FenceInv(g)'
    BY <1>12, ThreadNames DEF IInv, Types, FenceInv, Unborn, Accounted, ReleasedAtZero, Placed,
       Listed, One, CbHolds, ReleaseMove, threadVars
  <2>3. ASSUME NEW t \in Threads PROVE PutsItsOwn(t)'
    BY <1>12, ThreadNames DEF IInv, Types, FenceInv, Unborn, PutsItsOwn, ReleaseMove, threadVars
  <2>4. WaitedIsListed'
    BY <1>12, ThreadNames DEF IInv, Types, FenceInv, Unborn, WaitedIsListed, ReleaseMove, threadVars
  <2> QED
    BY <2>1, <2>2, <2>3, <2>4 DEF IInv
<1>13. CASE ReleaseForeign(f)
  <2>1. Types'
    BY <1>13, ThreadNames DEF IInv, Types, FenceInv, Unborn, ReleaseForeign, threadVars
  <2>2. ASSUME NEW g \in Fences PROVE FenceInv(g)'
    BY <1>13, ThreadNames DEF IInv, Types, FenceInv, Unborn, Accounted, ReleasedAtZero, Placed,
       Listed, One, CbHolds, ReleaseForeign, threadVars
  <2>3. ASSUME NEW t \in Threads PROVE PutsItsOwn(t)'
    BY <1>13, ThreadNames DEF IInv, Types, FenceInv, Unborn, PutsItsOwn, ReleaseForeign, threadVars
  <2>4. WaitedIsListed'
    BY <1>13, ThreadNames DEF IInv, Types, FenceInv, Unborn, WaitedIsListed, ReleaseForeign, threadVars
  <2> QED
    BY <2>1, <2>2, <2>3, <2>4 DEF IInv
<1>14. CASE ReleaseCtx(f)
  <2>1. Types'
    BY <1>14, ThreadNames DEF IInv, Types, FenceInv, Unborn, ReleaseCtx, threadVars
  <2>2. ASSUME NEW g \in Fences PROVE FenceInv(g)'
    BY <1>14, ThreadNames DEF IInv, Types, FenceInv, Unborn, Accounted, ReleasedAtZero, Placed,
       Listed, One, CbHolds, ReleaseCtx, threadVars
  <2>3. ASSUME NEW t \in Threads PROVE PutsItsOwn(t)'
    BY <1>14, ThreadNames DEF IInv, Types, FenceInv, Unborn, PutsItsOwn, ReleaseCtx, threadVars
  <2>4. WaitedIsListed'
    BY <1>14, ThreadNames DEF IInv, Types, FenceInv, Unborn, WaitedIsListed, ReleaseCtx, threadVars
  <2> QED
    BY <2>1, <2>2, <2>3, <2>4 DEF IInv
<1>15. CASE RcuCallback(f)
  <2>1. Types'
    BY <1>15, ThreadNames DEF IInv, Types, FenceInv, Unborn, RcuCallback, threadVars
  <2>2. ASSUME NEW g \in Fences PROVE FenceInv(g)'
    BY <1>15, ThreadNames DEF IInv, Types, FenceInv, Unborn, Accounted, ReleasedAtZero, Placed,
       Listed, One, CbHolds, RcuCallback, threadVars
  <2>3. ASSUME NEW t \in Threads PROVE PutsItsOwn(t)'
    BY <1>15, ThreadNames DEF IInv, Types, FenceInv, Unborn, PutsItsOwn, RcuCallback, threadVars
  <2>4. WaitedIsListed'
    BY <1>15, ThreadNames DEF IInv, Types, FenceInv, Unborn, WaitedIsListed, RcuCallback, threadVars
  <2> QED
    BY <2>1, <2>2, <2>3, <2>4 DEF IInv
<1> QED
  BY <1>1, <1>2, <1>3, <1>4, <1>5, <1>6, <1>7, <1>8, <1>9, <1>10, <1>11, <1>12, <1>13, <1>14, <1>15 DEF FenceNext

LEMMA ThreadStep ==
  ASSUME IInv, NEW t \in Threads, ThreadRuns(t)
  PROVE  IInv'
<1>1. CASE Scan(t)
  <2>1. Types'
    BY <1>1, ThreadNames DEF IInv, Types, FenceInv, Unborn, Scan, Due
  <2>2. ASSUME NEW g \in Fences PROVE FenceInv(g)'
    BY <1>1, ThreadNames DEF IInv, Types, FenceInv, Unborn, Accounted, ReleasedAtZero, Placed,
       Listed, One, CbHolds, Scan, Due
  <2>3. ASSUME NEW u \in Threads PROVE PutsItsOwn(u)'
    BY <1>1, ThreadNames DEF IInv, Types, FenceInv, Unborn, PutsItsOwn, Scan, Due
  <2>4. WaitedIsListed'
    BY <1>1, ThreadNames DEF IInv, Types, FenceInv, Unborn, WaitedIsListed, Scan, Due
  <2> QED
    BY <2>1, <2>2, <2>3, <2>4 DEF IInv
<1>2. CASE SignalOne(t)
  <2>1. Types'
    BY <1>2, ThreadNames DEF IInv, Types, FenceInv, Unborn, SignalOne
  <2>2. ASSUME NEW g \in Fences PROVE FenceInv(g)'
    BY <1>2, ThreadNames DEF IInv, Types, FenceInv, Unborn, Accounted, ReleasedAtZero, Placed,
       Listed, One, CbHolds, SignalOne
  <2>3. ASSUME NEW u \in Threads PROVE PutsItsOwn(u)'
    BY <1>2, ThreadNames DEF IInv, Types, FenceInv, Unborn, PutsItsOwn, SignalOne
  <2>4. WaitedIsListed'
    BY <1>2, ThreadNames DEF IInv, Types, FenceInv, Unborn, WaitedIsListed, SignalOne
  <2> QED
    BY <2>1, <2>2, <2>3, <2>4 DEF IInv
<1>3. CASE PutOne(t)
  <2> DEFINE f == cur[t]
  <2>1. f \in Fences /\ signal_head[f] = t /\ signaled[f]
    BY <1>3 DEF PutOne, IInv, PutsItsOwn
  <2>2. /\ refcount' = [refcount EXCEPT ![f] = @ - 1]
        /\ rel' = IF refcount[f] = 1 THEN [rel EXCEPT ![f] = "entered"] ELSE rel
        /\ signal_head' = [signal_head EXCEPT ![f] = "none"]
        /\ UNCHANGED <<mem, users, fence_head, enabled, signaled, checkpoint, cb>>
    BY <1>3 DEF PutOne, FencePut
  <2>3. /\ pc' = [pc EXCEPT ![t] = "signal"]
        /\ cur' = [cur EXCEPT ![t] = IF refcount[@] = 1 THEN @ ELSE NoFence]
    BY <1>3 DEF PutOne
  <2> HIDE DEF f
  <2>4. Types'
    <3>1. cur' \in [Threads -> Fences \cup {NoFence}]
      BY <2>3 DEF IInv, Types
    <3>2. pc' \in [Threads -> {"idle", "visit", "scan", "signal", "put", "grab", "free",
                               "unregister", "barrier", "teardown"}]
      BY <2>3 DEF IInv, Types
    <3> QED
      BY <2>1, <2>2, <3>1, <3>2 DEF IInv, Types
  <2>5. ASSUME NEW g \in Fences PROVE FenceInv(g)'
    BY <2>1, <2>2, ThreadNames DEF IInv, Types, FenceInv, Unborn, Accounted, ReleasedAtZero,
       Placed, Listed, One, CbHolds
  <2>6. ASSUME NEW u \in Threads PROVE PutsItsOwn(u)'
    BY <2>1, <2>2, <2>3 DEF IInv, Types, PutsItsOwn
  <2>7. WaitedIsListed'
    BY <2>1, <2>2 DEF IInv, Types, WaitedIsListed
  <2> QED
    BY <2>4, <2>5, <2>6, <2>7 DEF IInv
<1>4. CASE Grab(t)
  <2>1. Types'
    BY <1>4, ThreadNames DEF IInv, Types, FenceInv, Unborn, Grab
  <2>2. ASSUME NEW g \in Fences PROVE FenceInv(g)'
    BY <1>4, ThreadNames DEF IInv, Types, FenceInv, Unborn, Accounted, ReleasedAtZero, Placed,
       Listed, One, CbHolds, Grab
  <2>3. ASSUME NEW u \in Threads PROVE PutsItsOwn(u)'
    BY <1>4, ThreadNames DEF IInv, Types, FenceInv, Unborn, PutsItsOwn, Grab
  <2>4. WaitedIsListed'
    BY <1>4, ThreadNames DEF IInv, Types, FenceInv, Unborn, WaitedIsListed, Grab
  <2> QED
    BY <2>1, <2>2, <2>3, <2>4 DEF IInv
<1>5. CASE FreeOne(t)
  <2>1. Types'
    BY <1>5, ThreadNames DEF IInv, Types, FenceInv, Unborn, FreeOne, threadVars
  <2>2. ASSUME NEW g \in Fences PROVE FenceInv(g)'
    BY <1>5, ThreadNames DEF IInv, Types, FenceInv, Unborn, Accounted, ReleasedAtZero, Placed,
       Listed, One, CbHolds, FreeOne, threadVars
  <2>3. ASSUME NEW u \in Threads PROVE PutsItsOwn(u)'
    BY <1>5, ThreadNames DEF IInv, Types, FenceInv, Unborn, PutsItsOwn, FreeOne, threadVars
  <2>4. WaitedIsListed'
    BY <1>5, ThreadNames DEF IInv, Types, FenceInv, Unborn, WaitedIsListed, FreeOne, threadVars
  <2> QED
    BY <2>1, <2>2, <2>3, <2>4 DEF IInv
<1>6. CASE Visit(t) \/ NotifyEnd(t) \/ SignalsDone(t) \/ FreesDone(t)
  <2>1. UNCHANGED fenceVars
    BY <1>6 DEF Visit, NotifyEnd, SignalsDone, FreesDone
  <2>2. /\ pc' \in [Threads -> {"idle", "visit", "scan", "signal", "put", "grab", "free",
                                "unregister", "barrier", "teardown"}]
        /\ cur' \in [Threads -> Fences \cup {NoFence}]
        /\ \A u \in Threads : pc'[u] = "put" => pc[u] = "put" /\ cur'[u] = cur[u]
    BY <1>6 DEF IInv, Types, Visit, NotifyEnd, SignalsDone, FreesDone
  <2> QED
    BY <2>1, <2>2, ThreadsOnly
<1> QED
  BY <1>1, <1>2, <1>3, <1>4, <1>5, <1>6 DEF ThreadRuns

LEMMA NotifierAndWorkerStep ==
  ASSUME IInv, WorkerRuns \/ \E t \in Threads : NotifyBegin(t)
  PROVE  IInv'
<1>1. UNCHANGED fenceVars
  BY DEF WorkerRuns, WorkerCheck, WorkerDestroy, Unregister, RcuBarrier, Teardown, NotifyBegin
<1>2. /\ pc' \in [Threads -> {"idle", "visit", "scan", "signal", "put", "grab", "free",
                              "unregister", "barrier", "teardown"}]
      /\ cur' \in [Threads -> Fences \cup {NoFence}]
      /\ \A u \in Threads : pc'[u] = "put" => pc[u] = "put" /\ cur'[u] = cur[u]
  <2>1. CASE WorkerRuns
    BY <2>1 DEF IInv, Types, Threads, WorkerRuns, WorkerCheck, WorkerDestroy, Unregister,
       RcuBarrier, Teardown
  <2>2. CASE \E t \in Threads : NotifyBegin(t)
    BY <2>2 DEF IInv, Types, NotifyBegin
  <2> QED
    BY <2>1, <2>2
<1> QED
  BY <1>1, <1>2, ThreadsOnly

LEMMA NextIInv == IInv /\ [Next]_vars => IInv'
<1> SUFFICES ASSUME IInv, [Next]_vars PROVE IInv'
  OBVIOUS
<1>1. CASE Next
  BY <1>1, ContextStep, FenceStep, ForeignStep, ThreadStep, NotifierAndWorkerStep DEF Next
<1>2. CASE UNCHANGED vars
  <2>1. UNCHANGED <<fenceVars, pc, cur>>
    BY <1>2 DEF vars, threadVars
  <2> QED
    BY <2>1, ThreadsOnly DEF IInv, Types
<1> QED
  BY <1>1, <1>2

(* The invariant holds throughout.                                         *)
THEOREM Invariance == Spec => []IInv
<1> QED
  BY InitIInv, NextIInv, PTL DEF Spec

(* Every reference count is the number of references held: one that a      *)
(* user, a signal list or the foreign callback holds is never missing from *)
(* it, and none is left over.                                              *)
THEOREM CountsAreExact == Spec => []RefsAccounted
<1>1. IInv => RefsAccounted
  BY DEF IInv, FenceInv, Accounted, RefsAccounted
<1> QED
  BY <1>1, Invariance, PTL

(* No use after free of a fence, whatever the interleaving of users,       *)
(* notifiers, the worker, the foreign fence and RCU.                       *)
THEOREM FenceNeverDangles == Spec => []FenceMemSafe
<1>1. IInv => FenceMemSafe
  <2> SUFFICES ASSUME IInv, NEW f \in Fences, Reachable(f)
               PROVE  mem[f] = "used"
    BY DEF FenceMemSafe
  <2>1. mem[f] # "none"
    BY DEF IInv, Types, FenceInv, Unborn, Reachable, CbHolds
  <2>2. refcount[f] # 0 => rel[f] = "none"
    BY <2>1 DEF IInv, FenceInv, ReleasedAtZero
  <2>3. refcount[f] # 0 \/ fence_head[f] # "none" \/ rel[f] = "entered"
    BY DEF IInv, Types, FenceInv, Accounted, One, Reachable
  <2> QED
    BY <2>1, <2>2, <2>3 DEF IInv, FenceInv, Placed
<1> QED
  BY <1>1, Invariance, PTL

(* A fence somebody waits on is never forgotten.                           *)
THEOREM WaitedStaysListed == Spec => []WaitedIsListed
<1>1. IInv => WaitedIsListed
  BY DEF IInv
<1> QED
  BY <1>1, Invariance, PTL

(* A fence signals only after its checkpoint, and stays signalled.         *)
THEOREM NoEarlySignal == Spec => SignalFollowsCheckpoint
<1> DEFINE Follows == \A f \in Fences :
              /\ signaled'[f] /\ ~signaled[f] => checkpoint[f] = "signalled"
              /\ signaled[f] => signaled'[f]
<1>1. IInv /\ [Next]_vars => [Follows]_vars
  <2> SUFFICES ASSUME IInv, Next, NEW f \in Fences
               PROVE  /\ signaled'[f] /\ ~signaled[f] => checkpoint[f] = "signalled"
                      /\ signaled[f] => signaled'[f]
    OBVIOUS
  <2>1. CASE \E c \in Contexts : CtxNext(c)
    BY <2>1 DEF CtxNext, CtxRegister, CtxGetCache, CtxCacheFails, CtxUndo, OwnerPut, Create,
       CreateFromForeign, Born, fenceVars
  <2>2. CASE \E g \in Fences : EnableCheck(g)
    BY <2>2 DEF EnableCheck, IInv, Types
  <2>3. CASE \E g \in Fences : Poll(g)
    BY <2>3 DEF Poll, IInv, Types
  <2>4. CASE \E t \in Threads : SignalOne(t)
    BY <2>4 DEF SignalOne, IInv, Types, FenceInv, Listed
  <2>5. CASE UNCHANGED signaled
    BY <2>5
  <2>6. ASSUME NEW g \in Fences, FenceNext(g)
        PROVE  EnableCheck(g) \/ Poll(g) \/ UNCHANGED signaled
    BY <2>6 DEF FenceNext, AddCallback, CbSignal, CbQueue, CbPut, UserGet, UserPut, EnableAdd,
       CheckpointSignal, SwSignal, ReleaseMove, ReleaseForeign, ReleaseCtx, RcuCallback
  <2>7. ASSUME NEW t \in Threads, NotifyBegin(t) \/ ThreadRuns(t)
        PROVE  SignalOne(t) \/ UNCHANGED signaled
    BY <2>7 DEF NotifyBegin, ThreadRuns, Visit, NotifyEnd, Scan, PutOne, SignalsDone, Grab,
       FreeOne, FreesDone, fenceVars
  <2>8. WorkerRuns \/ (\E x \in Foreigns : ForeignSignal(x)) => UNCHANGED signaled
    BY DEF WorkerRuns, WorkerCheck, WorkerDestroy, Unregister, RcuBarrier, Teardown,
       ForeignSignal, fenceVars
  <2> QED
    BY <2>1, <2>2, <2>3, <2>4, <2>5, <2>6, <2>7, <2>8 DEF Next
<1> QED
  BY <1>1, Invariance, PTL DEF Spec, SignalFollowsCheckpoint

-----------------------------------------------------------------------------
(* The lifetime of contexts.                                               *)

CTypes ==
  /\ ctx \in [Contexts -> {"none", "registering", "failing", "live", "freed"}]
  /\ kref \in [Contexts -> Int]
  /\ held \in [Contexts -> BOOLEAN]
  /\ registered \subseteq Contexts
  /\ cache \in BOOLEAN /\ cache_refs \in Int /\ module_refs \in Int
  /\ fctx \in [Fences -> Contexts \cup {NoCtx}]
  /\ wraps \in [Fences -> Foreigns \cup {NoForeign}]
  /\ xrefs \in [Foreigns -> Int]
  /\ todo \in [Threads -> SUBSET Contexts]
  /\ nctx \in [Threads -> Contexts \cup {NoCtx}]
  /\ wq \in Seq(Items)
  /\ job \in {"none", "check", "destroy"}
  /\ barrier \subseteq Fences

\* The references of a context: its creator's, and one of each fence whose
\* release handler has not finished.
Attached(c) == {f \in Fences : mem[f] # "none" /\ fctx[f] = c /\ rel[f] # "done"}
KrefExact(c) ==
  /\ kref[c] = One(held[c]) + Cardinality(Attached(c))
  /\ held[c] => ctx[c] = "live"

\* A fence belongs to a context that is live, or gone after it.
Home(f) ==
  mem[f] # "none" =>
    /\ fctx[f] \in Contexts
    /\ ctx[fctx[f]] \in {"live", "freed"}
    /\ ctx[fctx[f]] = "freed" => mem[f] = "freed" /\ rel[f] = "done"

\* Nothing follows the destruction of a context in the queue, and nothing but
\* a context without references is destroyed.
Destroys(c) == job = "destroy" /\ nctx[Worker] = c
QueueInv ==
  /\ \A k \in 1..Len(wq) : ctx[wq[k].ctx] = "live"
  /\ \A k \in 1..Len(wq) : wq[k].kind = "destroy" => kref[wq[k].ctx] = 0
  /\ \A k, l \in 1..Len(wq) : k < l /\ wq[k].kind = "destroy" => wq[l].ctx # wq[k].ctx
  /\ \A k \in 1..Len(wq) : ~Destroys(wq[k].ctx)
  /\ job = "destroy" => /\ nctx[Worker] \in Contexts
                        /\ ctx[nctx[Worker]] = "live"
                        /\ kref[nctx[Worker]] = 0

\* An announcement is about registered contexts.
Place(t) ==
  /\ pc[t] \in {"idle", "visit"} <=> nctx[t] = NoCtx
  /\ pc[t] = "idle" => todo[t] = {}
  /\ pc[t] \in {"unregister", "barrier", "teardown"} => t = Worker
  /\ todo[t] \subseteq registered
  /\ Reading(t) /\ nctx[t] # NoCtx => nctx[t] \in registered
WorkerPlace ==
  /\ pc[Worker] = "idle" <=> job = "none"
  /\ job = "destroy" => /\ pc[Worker] \in {"grab", "free", "unregister", "barrier", "teardown"}
                        /\ todo[Worker] = {}
  /\ pc[Worker] \in {"unregister", "barrier", "teardown"} => job = "destroy"
  /\ pc[Worker] \in {"barrier", "teardown"} => nctx[Worker] \notin registered
PlaceInv ==
  /\ \A t \in Threads : Place(t)
  /\ WorkerPlace
  /\ \A c \in registered : ctx[c] \in {"registering", "failing", "live"}

\* What destroy_work has achieved for a fence of the context it destroys.
Destroyed(f) ==
  mem[f] # "none" /\ Destroys(fctx[f]) =>
    /\ pc[Worker] # "grab" => fence_head[f] # "deferred"
    /\ pc[Worker] \in {"barrier", "teardown"} => mem[f] # "used"
    /\ pc[Worker] = "teardown" /\ mem[f] = "rcu" => f \in barrier
OnStack(f) ==
  fence_head[f] \in Threads =>
    pc[fence_head[f]] = "free" /\ nctx[fence_head[f]] = fctx[f]
FreeInv == \A f \in Fences : Destroyed(f) /\ OnStack(f)

LiveContexts == {c \in Contexts : ctx[c] = "live"}
Used         == {f \in Fences : mem[f] = "used"}
Wrappers(x)  == {f \in Fences : wraps[f] = x /\ rel[f] \in {"none", "entered", "moved"}}
Books ==
  /\ cache_refs = Cardinality(LiveContexts)
  /\ cache <=> cache_refs # 0
  /\ module_refs = Cardinality(Used)
  /\ \A x \in Foreigns : xrefs[x] = Cardinality(Wrappers(x))
  /\ \A f \in Fences : rel[f] = "moved" => wraps[f] # NoForeign
  /\ \A f \in Fences : mem[f] = "none" => wraps[f] = NoForeign
  /\ \A f \in Fences : fence_head[f] = "fence_list" => checkpoint[f] \in {"active", "signalled"}

CInv ==
  /\ CTypes
  /\ \A c \in Contexts : KrefExact(c)
  /\ \A f \in Fences : Home(f)
  /\ QueueInv /\ PlaceInv /\ FreeInv /\ Books

-----------------------------------------------------------------------------
(* What is left alone.                                                     *)

LEMMA KrefSame ==
  ASSUME \A c \in Contexts : KrefExact(c), UNCHANGED <<kref, held, fctx>>,
         \A c \in Contexts : held[c] => ctx'[c] = "live",
         \A f \in Fences : (mem'[f] = "none" <=> mem[f] = "none") /\ (rel'[f] = "done" <=> rel[f] = "done")
  PROVE  \A c \in Contexts : KrefExact(c)'
<1> SUFFICES ASSUME NEW c \in Contexts PROVE KrefExact(c)'
  OBVIOUS
<1>1. Attached(c)' = Attached(c)
  BY DEF Attached
<1> QED
  BY <1>1 DEF KrefExact, One

LEMMA HomeSame ==
  ASSUME \A f \in Fences : Home(f), UNCHANGED <<mem, fctx, ctx, rel>>
  PROVE  \A f \in Fences : Home(f)'
BY DEF Home

LEMMA QueueSame ==
  ASSUME QueueInv, UNCHANGED <<wq, ctx, kref, job, nctx>>
  PROVE  QueueInv'
BY DEF QueueInv, Destroys

LEMMA PlaceSame ==
  ASSUME PlaceInv, UNCHANGED <<pc, nctx, todo, registered, job, ctx>>
  PROVE  PlaceInv'
BY DEF PlaceInv, Place, WorkerPlace, Reading

LEMMA FreeSame ==
  ASSUME FreeInv, UNCHANGED <<fence_head, mem, fctx, job, nctx, pc, barrier>>
  PROVE  FreeInv'
BY DEF FreeInv, Destroyed, OnStack, Destroys

LEMMA BooksSame ==
  ASSUME Books, UNCHANGED <<ctx, cache, cache_refs, module_refs, mem, wraps, rel, xrefs,
                            fence_head, checkpoint>>
  PROVE  Books'
BY DEF Books, LiveContexts, Used, Wrappers

-----------------------------------------------------------------------------
(* What the invariants say together.                                       *)

LEMMA FiniteSubsets ==
  /\ \A c : IsFiniteSet(Attached(c)) /\ Cardinality(Attached(c)) \in Nat
  /\ IsFiniteSet(LiveContexts) /\ Cardinality(LiveContexts) \in Nat
  /\ IsFiniteSet(Used) /\ Cardinality(Used) \in Nat
  /\ \A x : IsFiniteSet(Wrappers(x)) /\ Cardinality(Wrappers(x)) \in Nat
<1>1. ASSUME NEW S, S \subseteq Fences PROVE IsFiniteSet(S) /\ Cardinality(S) \in Nat
  BY <1>1, FiniteAssumption, FS_Subset, FS_CardinalityType
<1>2. ASSUME NEW S, S \subseteq Contexts PROVE IsFiniteSet(S) /\ Cardinality(S) \in Nat
  BY <1>2, FiniteAssumption, FS_Subset, FS_CardinalityType
<1>3. /\ \A c : Attached(c) \subseteq Fences
      /\ LiveContexts \subseteq Contexts
      /\ Used \subseteq Fences
      /\ \A x : Wrappers(x) \subseteq Fences
  BY DEF Attached, LiveContexts, Used, Wrappers
<1> QED
  BY <1>1, <1>2, <1>3

(* Whoever holds a reference on a fence keeps its release handler away.    *)
LEMMA HeldFence ==
  ASSUME IInv, NEW f \in Fences, users[f] > 0 \/ CbHolds(f) \/ signal_head[f] # "none"
  PROVE  mem[f] = "used" /\ rel[f] = "none" /\ refcount[f] # 0
<1>1. mem[f] # "none"
  BY DEF IInv, Types, FenceInv, Unborn, CbHolds
<1>2. refcount[f] # 0
  BY DEF IInv, Types, FenceInv, Accounted, One
<1> QED
  BY <1>1, <1>2 DEF IInv, FenceInv, ReleasedAtZero, Placed

(* A fence whose handler has not finished keeps its context.               *)
LEMMA KeepsContext ==
  ASSUME CInv, NEW f \in Fences, mem[f] # "none", rel[f] # "done"
  PROVE  /\ fctx[f] \in Contexts /\ ctx[fctx[f]] = "live" /\ kref[fctx[f]] # 0
         /\ ~Destroys(fctx[f])
         /\ \A k \in 1..Len(wq) : wq[k].kind = "destroy" => wq[k].ctx # fctx[f]
<1>1. fctx[f] \in Contexts /\ ctx[fctx[f]] = "live"
  BY DEF CInv, Home
<1>2. f \in Attached(fctx[f])
  BY DEF Attached
<1>3. Cardinality(Attached(fctx[f])) # 0
  <2> DEFINE S == Attached(fctx[f])
  <2>1. IsFiniteSet(S)
    BY FiniteSubsets
  <2> HIDE DEF S
  <2> QED
    BY <2>1, <1>2, FS_EmptySet DEF S
<1>4. kref[fctx[f]] # 0
  BY <1>1, <1>3, FiniteSubsets DEF CInv, KrefExact, One
<1> QED
  BY <1>1, <1>4 DEF CInv, QueueInv, Destroys

(* No reference, no creator and no unfinished release handler.             *)
LEMMA NoReference ==
  ASSUME CInv, NEW c \in Contexts, kref[c] = 0
  PROVE  ~held[c] /\ \A f \in Fences : mem[f] # "none" /\ fctx[f] = c => rel[f] = "done"
<1>1. ~held[c]
  BY FiniteSubsets DEF CInv, KrefExact, One
<1>2. ASSUME NEW f \in Fences, mem[f] # "none", fctx[f] = c PROVE rel[f] = "done"
  BY <1>2, KeepsContext
<1> QED
  BY <1>1, <1>2

(* The creator's reference keeps the context.                              *)
LEMMA HeldContext ==
  ASSUME CInv, NEW c \in Contexts, held[c]
  PROVE  /\ ctx[c] = "live" /\ kref[c] \in Nat \ {0} /\ ~Destroys(c)
         /\ \A k \in 1..Len(wq) : wq[k].kind = "destroy" => wq[k].ctx # c
<1>1. ctx[c] = "live" /\ kref[c] \in Nat \ {0}
  BY FiniteSubsets DEF CInv, KrefExact, One
<1> QED
  BY <1>1 DEF CInv, QueueInv, Destroys

-----------------------------------------------------------------------------
(* Queueing work.                                                          *)

LEMMA Appended ==
  ASSUME NEW i \in Items, wq \in Seq(Items)
  PROVE  /\ Append(wq, i) \in Seq(Items)
         /\ Len(Append(wq, i)) = Len(wq) + 1
         /\ Append(wq, i)[Len(wq) + 1] = i
         /\ \A k \in 1..Len(wq) : Append(wq, i)[k] = wq[k]
         /\ Len(wq) \in Nat
BY AppendProperties, LenProperties

LEMMA QueueCheck ==
  ASSUME CInv, NEW c \in Contexts, ctx[c] = "live", kref[c] # 0, ~Destroys(c),
         Queue(Check(c)), UNCHANGED <<ctx, kref, job, nctx>>
  PROVE  QueueInv' /\ wq' \in Seq(Items)
<1>1. CASE Pending(Check(c))
  <2>1. UNCHANGED wq
    BY <1>1 DEF Queue
  <2> QED
    BY <2>1, QueueSame DEF CInv, CTypes
<1>2. CASE ~Pending(Check(c))
  <2> DEFINE i == Check(c)
  <2>1. wq' = Append(wq, i)
    BY <1>2 DEF Queue
  <2>2. i \in Items /\ i.ctx = c /\ i.kind = "check"
    BY DEF Check, Items
  <2> HIDE DEF i
  <2>3. /\ wq' \in Seq(Items) /\ Len(wq') = Len(wq) + 1 /\ wq'[Len(wq) + 1] = i
        /\ \A k \in 1..Len(wq) : wq'[k] = wq[k]
        /\ Len(wq) \in Nat
    BY <2>1, <2>2, Appended DEF CInv, CTypes
  <2>4. \A k \in 1..Len(wq') : k \in 1..Len(wq) \/ k = Len(wq) + 1
    BY <2>3
  <2>5. \A k \in 1..Len(wq') : ctx'[wq'[k].ctx] = "live"
    BY <2>2, <2>3, <2>4 DEF CInv, QueueInv
  <2>6. \A k \in 1..Len(wq') : wq'[k].kind = "destroy" => kref'[wq'[k].ctx] = 0
    BY <2>2, <2>3, <2>4 DEF CInv, QueueInv
  <2>7. \A k \in 1..Len(wq), l \in 1..Len(wq') :
          k < l /\ wq'[k].kind = "destroy" => wq'[l].ctx # wq'[k].ctx
    BY <2>2, <2>3, <2>4 DEF CInv, QueueInv
  <2>8. \A k, l \in 1..Len(wq') : k < l => k \in 1..Len(wq)
    BY <2>3
  <2>9. \A k \in 1..Len(wq') : ~(job' = "destroy" /\ nctx'[Worker] = wq'[k].ctx)
    BY <2>2, <2>3, <2>4 DEF CInv, QueueInv, Destroys
  <2>10. \A k, l \in 1..Len(wq') : k < l /\ wq'[k].kind = "destroy" => wq'[l].ctx # wq'[k].ctx
    BY <2>7, <2>8
  <2>11. job' = "destroy" => /\ nctx'[Worker] \in Contexts
                             /\ ctx'[nctx'[Worker]] = "live"
                             /\ kref'[nctx'[Worker]] = 0
    BY DEF CInv, QueueInv
  <2> QED
    BY <2>3, <2>5, <2>6, <2>9, <2>10, <2>11 DEF QueueInv, Destroys
<1> QED
  BY <1>1, <1>2

(* The last reference queues the destruction, once.                        *)
LEMMA QueueDestroy ==
  ASSUME CInv, NEW c \in Contexts, ctx[c] = "live", kref[c] # 0, KrefPut(c),
         UNCHANGED <<ctx, job, nctx>>
  PROVE  QueueInv' /\ wq' \in Seq(Items)
<1>1. kref' = [kref EXCEPT ![c] = @ - 1] /\ kref \in [Contexts -> Int]
  BY DEF KrefPut, CInv, CTypes
<1>2. /\ ~Destroys(c)
      /\ \A k \in 1..Len(wq) : wq[k].kind = "destroy" => wq[k].ctx # c
  BY DEF CInv, QueueInv, Destroys
<1>3. \A k \in 1..Len(wq) : wq[k].ctx \in Contexts
  <2>1. \A k \in 1..Len(wq) : wq[k] \in Items
    BY ElementOfSeq DEF CInv, CTypes
  <2> QED
    BY <2>1 DEF Items
<1>4. job' = "destroy" => /\ nctx'[Worker] \in Contexts
                          /\ ctx'[nctx'[Worker]] = "live"
                          /\ kref'[nctx'[Worker]] = 0
  BY <1>1, <1>2 DEF CInv, QueueInv, Destroys
<1>5. CASE kref[c] # 1 \/ Pending(Destroy(c))
  <2>1. UNCHANGED wq
    BY <1>5 DEF KrefPut, Queue
  <2>2. \A k \in 1..Len(wq) : wq[k].kind = "destroy" => kref'[wq[k].ctx] = 0
    BY <1>1, <1>2, <1>3 DEF CInv, QueueInv
  <2> QED
    BY <2>1, <2>2, <1>4 DEF QueueInv, Destroys, CInv, CTypes
<1>6. CASE kref[c] = 1 /\ ~Pending(Destroy(c))
  <2> DEFINE i == Destroy(c)
  <2>1. wq' = Append(wq, i)
    BY <1>6 DEF KrefPut, Queue
  <2>2. i \in Items /\ i.ctx = c /\ i.kind = "destroy"
    BY DEF Destroy, Items
  <2> HIDE DEF i
  <2>3. /\ wq' \in Seq(Items) /\ Len(wq') = Len(wq) + 1 /\ wq'[Len(wq) + 1] = i
        /\ \A k \in 1..Len(wq) : wq'[k] = wq[k]
        /\ Len(wq) \in Nat
    BY <2>1, <2>2, Appended DEF CInv, CTypes
  <2>4. \A k \in 1..Len(wq') : k \in 1..Len(wq) \/ k = Len(wq) + 1
    BY <2>3
  <2>5. \A k \in 1..Len(wq') : ctx'[wq'[k].ctx] = "live"
    BY <2>2, <2>3, <2>4 DEF CInv, QueueInv
  <2>6. \A k \in 1..Len(wq') : wq'[k].kind = "destroy" => kref'[wq'[k].ctx] = 0
    <3>1. kref'[c] = 0
      BY <1>1, <1>6
    <3>2. \A k \in 1..Len(wq) : wq[k].kind = "destroy" => kref'[wq[k].ctx] = 0
      BY <1>1, <1>2, <1>3 DEF CInv, QueueInv
    <3> QED
      BY <3>1, <3>2, <2>2, <2>3, <2>4
  <2>7. \A k \in 1..Len(wq), l \in 1..Len(wq') :
          k < l /\ wq'[k].kind = "destroy" => wq'[l].ctx # wq'[k].ctx
    BY <1>2, <2>2, <2>3, <2>4 DEF CInv, QueueInv
  <2>8. \A k, l \in 1..Len(wq') : k < l => k \in 1..Len(wq)
    BY <2>3
  <2>9. \A k \in 1..Len(wq') : ~(job' = "destroy" /\ nctx'[Worker] = wq'[k].ctx)
    BY <1>2, <2>2, <2>3, <2>4 DEF CInv, QueueInv, Destroys
  <2>10. \A k, l \in 1..Len(wq') : k < l /\ wq'[k].kind = "destroy" => wq'[l].ctx # wq'[k].ctx
    BY <2>7, <2>8
  <2> QED
    BY <2>3, <2>5, <2>6, <2>9, <2>10, <1>4 DEF QueueInv, Destroys
<1> QED
  BY <1>5, <1>6

(* One reference less.                                                     *)
LEMMA KrefLess ==
  ASSUME CInv, NEW c \in Contexts, KrefPut(c), UNCHANGED <<ctx, fctx, mem>>,
         \/ /\ held[c] /\ held' = [held EXCEPT ![c] = FALSE] /\ UNCHANGED rel
         \/ \E f \in Fences : /\ f \in Attached(c) /\ rel' = [rel EXCEPT ![f] = "done"]
                              /\ UNCHANGED held,
         rel \in [Fences -> {"none", "entered", "moved", "unwrapped", "done"}]
  PROVE  /\ \A d \in Contexts : KrefExact(d)'
         /\ kref' \in [Contexts -> Int]
<1>1. kref' = [kref EXCEPT ![c] = @ - 1] /\ kref \in [Contexts -> Int] /\ held \in [Contexts -> BOOLEAN]
  BY DEF KrefPut, CInv, CTypes
<1>2. ASSUME NEW d \in Contexts PROVE KrefExact(d)'
  <2>0. KrefExact(d)
    BY DEF CInv
  <2>1. CASE held[c] /\ held' = [held EXCEPT ![c] = FALSE] /\ UNCHANGED rel
    <3>1. Attached(d)' = Attached(d)
      BY <2>1 DEF Attached
    <3>2. Cardinality(Attached(d)) \in Nat
      BY FiniteSubsets
    <3> QED
      BY <2>0, <2>1, <3>1, <3>2, <1>1 DEF KrefExact, One
  <2>2. CASE \E f \in Fences : /\ f \in Attached(c) /\ rel' = [rel EXCEPT ![f] = "done"]
                               /\ UNCHANGED held
    <3>1. PICK f \in Fences : f \in Attached(c) /\ rel' = [rel EXCEPT ![f] = "done"] /\ UNCHANGED held
      BY <2>2
    <3>2. CASE d = c
      <4> DEFINE S == Attached(c)
                 T == Attached(c)'
      <4>1. T = S \ {f}
        BY <3>1 DEF Attached
      <4>2. IsFiniteSet(S) /\ Cardinality(S) \in Nat /\ f \in S
        BY <3>1, FiniteSubsets
      <4> HIDE DEF S, T
      <4>3. Cardinality(T) = Cardinality(S) - 1
        BY <4>1, <4>2, FS_RemoveElement
      <4>4. Cardinality(Attached(c))' = Cardinality(Attached(c)) - 1
        BY <4>3 DEF S, T
      <4> QED
        BY <4>2, <4>4, <3>1, <3>2, <2>0, <1>1 DEF KrefExact, One, S
    <3>3. CASE d # c
      <4>1. Attached(d)' = Attached(d)
        BY <3>1, <3>3 DEF Attached
      <4> QED
        BY <4>1, <3>1, <3>3, <2>0, <1>1 DEF KrefExact, One
    <3> QED
      BY <3>2, <3>3
  <2> QED
    BY <2>1, <2>2
<1> QED
  BY <1>1, <1>2

-----------------------------------------------------------------------------
(* Steps that move no fence between lists and count no context reference.  *)

QuietPlaces == {"scan", "signal", "put", "grab"}
LEMMA Quiet ==
  ASSUME IInv, CInv,
         UNCHANGED <<ctxVars, cacheVars, bornVars, mem, fence_head, xrefs, todo, nctx, workVars>>,
         \A f \in Fences : checkpoint'[f] = checkpoint[f] \/ checkpoint'[f] = "signalled",
         \A f \in Fences : rel'[f] = rel[f] \/ (rel[f] = "none" /\ rel'[f] = "entered"),
         \A t \in Threads : pc'[t] = pc[t]
                              \/ (pc[t] \in QuietPlaces \ {"grab"} /\ pc'[t] \in QuietPlaces)
  PROVE  CInv'
<1> USE DEF QuietPlaces
<1>0. UNCHANGED <<ctx, kref, held, registered, cache, cache_refs, module_refs, fctx, wraps,
                  wq, job, barrier, mem, fence_head, xrefs, todo, nctx>>
  BY DEF ctxVars, cacheVars, bornVars, workVars
<1>1. CTypes'
  BY <1>0 DEF CInv, CTypes
<1>2. \A c \in Contexts : KrefExact(c)'
  <2>1. \A c \in Contexts : held[c] => ctx'[c] = "live"
    BY <1>0 DEF CInv, KrefExact
  <2>2. \A f \in Fences : (mem'[f] = "none" <=> mem[f] = "none") /\ (rel'[f] = "done" <=> rel[f] = "done")
    BY <1>0
  <2> QED
    BY <2>1, <2>2, <1>0, KrefSame DEF CInv
<1>3. \A f \in Fences : Home(f)'
  BY <1>0 DEF CInv, Home
<1>4. QueueInv'
  BY <1>0, QueueSame DEF CInv
<1>5. Worker \in Threads
  BY DEF Threads
<1>6. \A t \in Threads : pc'[t] = pc[t] \/ (pc[t] \in QuietPlaces \ {"grab"} /\ pc'[t] \in QuietPlaces)
  OBVIOUS
<1>7. PlaceInv'
  <2>1. ASSUME NEW t \in Threads PROVE Place(t)'
    BY <1>0, <1>5, <1>6 DEF CInv, PlaceInv, Place, WorkerPlace, Reading
  <2>2. WorkerPlace'
    BY <1>0, <1>5, <1>6 DEF CInv, PlaceInv, WorkerPlace
  <2> QED
    BY <1>0, <2>1, <2>2 DEF CInv, PlaceInv
<1>8. FreeInv'
  <2>1. ASSUME NEW f \in Fences PROVE Destroyed(f)'
    BY <1>0, <1>5, <1>6 DEF CInv, PlaceInv, WorkerPlace, FreeInv, Destroyed, Destroys
  <2>2. ASSUME NEW f \in Fences PROVE OnStack(f)'
    BY <1>0, <1>6 DEF CInv, FreeInv, OnStack
  <2> QED
    BY <2>1, <2>2 DEF FreeInv
<1>9. Books'
  <2>1. LiveContexts' = LiveContexts /\ Used' = Used
    BY <1>0 DEF LiveContexts, Used
  <2>2. ASSUME NEW x \in Foreigns PROVE Wrappers(x)' = Wrappers(x)
    BY <1>0 DEF Wrappers
  <2> QED
    BY <1>0, <2>1, <2>2 DEF CInv, Books
<1> QED
  BY <1>1, <1>2, <1>3, <1>4, <1>7, <1>8, <1>9 DEF CInv

\* dma_fence_put does no more to the context than to start the handler.
LEMMA PutEnters ==
  ASSUME IInv, NEW f \in Fences, FencePut(f), refcount[f] # 0, mem[f] # "none"
  PROVE  \A g \in Fences : rel'[g] = rel[g] \/ (rel[g] = "none" /\ rel'[g] = "entered")
<1>1. rel[f] = "none" /\ rel \in [Fences -> {"none", "entered", "moved", "unwrapped", "done"}]
  BY DEF IInv, Types, FenceInv, ReleasedAtZero
<1> QED
  BY <1>1 DEF FencePut

LEMMA QuietSteps ==
  ASSUME IInv, CInv, NEW f \in Fences,
         \/ AddCallback(f) \/ CbSignal(f) \/ CbPut(f) \/ UserGet(f) \/ UserPut(f)
         \/ EnableCheck(f) \/ EnableAdd(f) \/ Poll(f) \/ CheckpointSignal(f)
  PROVE  CInv'
<1> USE DEF threadVars, xVars
<1>0. checkpoint \in [Fences -> {"none", "active", "signalled", "freed"}] /\ users[f] \in Nat
  BY DEF IInv, Types
<1>1. CASE AddCallback(f)
  <2>1. refcount[f] # 0 /\ mem[f] # "none"
    BY <1>1, HeldFence DEF AddCallback, CbHolds
  <2>2. \A g \in Fences : rel'[g] = rel[g] \/ (rel[g] = "none" /\ rel'[g] = "entered")
    BY <1>1, <2>1, PutEnters DEF AddCallback
  <2>3. \A g \in Fences : checkpoint'[g] = checkpoint[g] \/ checkpoint'[g] = "signalled"
    BY <1>0, <1>1 DEF AddCallback
  <2> QED
    BY <1>1, <2>2, <2>3, Quiet DEF AddCallback
<1>2. CASE CbSignal(f)
  BY <1>0, <1>2, Quiet DEF CbSignal
<1>3. CASE CbPut(f)
  <2>1. refcount[f] # 0 /\ mem[f] # "none"
    BY <1>3, HeldFence DEF CbPut, CbHolds
  <2>2. \A g \in Fences : rel'[g] = rel[g] \/ (rel[g] = "none" /\ rel'[g] = "entered")
    BY <1>3, <2>1, PutEnters DEF CbPut
  <2> QED
    BY <1>3, <2>2, Quiet DEF CbPut
<1>4. CASE UserPut(f)
  <2>1. refcount[f] # 0 /\ mem[f] # "none"
    BY <1>4, <1>0, HeldFence DEF UserPut
  <2>2. \A g \in Fences : rel'[g] = rel[g] \/ (rel[g] = "none" /\ rel'[g] = "entered")
    BY <1>4, <2>1, PutEnters DEF UserPut
  <2> QED
    BY <1>4, <2>2, Quiet DEF UserPut
<1>5. CASE UserGet(f)
  BY <1>5, Quiet DEF UserGet
<1>6. CASE EnableCheck(f)
  BY <1>6, Quiet DEF EnableCheck
<1>7. CASE EnableAdd(f)
  BY <1>7, Quiet DEF EnableAdd
<1>8. CASE Poll(f)
  BY <1>8, Quiet DEF Poll
<1>9. CASE CheckpointSignal(f)
  BY <1>0, <1>9, Quiet DEF CheckpointSignal
<1> QED
  BY <1>1, <1>2, <1>3, <1>4, <1>5, <1>6, <1>7, <1>8, <1>9

LEMMA QuietForeign ==
  ASSUME IInv, CInv, NEW x \in Foreigns, ForeignSignal(x)
  PROVE  CInv'
BY Quiet DEF ForeignSignal, threadVars

LEMMA QuietThreads ==
  ASSUME IInv, CInv, NEW t \in Threads, Scan(t) \/ SignalOne(t) \/ PutOne(t) \/ SignalsDone(t)
  PROVE  CInv'
<1>0. pc \in [Threads -> {"idle", "visit", "scan", "signal", "put", "grab", "free",
                          "unregister", "barrier", "teardown"}]
  BY DEF IInv, Types
<1>1. CASE Scan(t)
  BY <1>0, <1>1, Quiet DEF Scan, xVars, QuietPlaces
<1>2. CASE SignalOne(t)
  BY <1>0, <1>2, Quiet DEF SignalOne, xVars, QuietPlaces
<1>3. CASE SignalsDone(t)
  BY <1>0, <1>3, Quiet DEF SignalsDone, xVars, fenceVars, QuietPlaces
<1>4. CASE PutOne(t)
  <2> DEFINE f == cur[t]
  <2>1. f \in Fences /\ signal_head[f] # "none"
    BY <1>4, ThreadNames DEF PutOne, IInv, PutsItsOwn
  <2>2. refcount[f] # 0 /\ mem[f] # "none"
    BY <2>1, HeldFence
  <2>3. FencePut(f)
    BY <1>4 DEF PutOne
  <2>4. \A g \in Fences : rel'[g] = rel[g] \/ (rel[g] = "none" /\ rel'[g] = "entered")
    BY <2>1, <2>2, <2>3, PutEnters
  <2> QED
    BY <1>0, <1>4, <2>4, Quiet DEF PutOne, xVars, QuietPlaces
<1> QED
  BY <1>1, <1>2, <1>3, <1>4

-----------------------------------------------------------------------------
(* Creating and dropping contexts.                                         *)

LEMMA CreationSteps ==
  ASSUME IInv, CInv, NEW c \in Contexts, CtxRegister(c) \/ CtxCacheFails(c) \/ CtxUndo(c)
  PROVE  CInv'
<1>0. Worker \in Threads
  BY DEF Threads
<1>1. /\ ctx[c] \in {"none", "registering", "failing"}
      /\ \E s \in {"registering", "failing", "freed"} : ctx' = [ctx EXCEPT ![c] = s]
      /\ UNCHANGED <<kref, held, cache, cache_refs, module_refs, fctx, wraps, mem, fence_head,
                     checkpoint, rel, xrefs, pc, todo, nctx, wq, job, barrier>>
  BY DEF CtxRegister, CtxCacheFails, CtxUndo, cacheVars, bornVars, fenceVars, xVars, threadVars, workVars
<1>2. CTypes'
  <2>1. registered' \subseteq Contexts
    BY DEF CInv, CTypes, CtxRegister, CtxCacheFails, CtxUndo
  <2> QED
    BY <1>1, <2>1 DEF CInv, CTypes
<1>3. \A d \in Contexts : KrefExact(d)'
  <2>1. \A d \in Contexts : held[d] => ctx'[d] = "live"
    BY <1>1 DEF CInv, CTypes, KrefExact
  <2> QED
    BY <1>1, <2>1, KrefSame DEF CInv
<1>4. \A f \in Fences : Home(f)'
  BY <1>1 DEF CInv, CTypes, Home
<1>5. QueueInv'
  <2>1. \A k \in 1..Len(wq) : wq[k].ctx # c
    BY <1>1 DEF CInv, QueueInv
  <2>2. job = "destroy" => nctx[Worker] # c
    BY <1>1 DEF CInv, QueueInv
  <2>3. \A d : d # c => ctx'[d] = ctx[d]
    BY <1>1 DEF CInv, CTypes
  <2> QED
    BY <1>1, <2>1, <2>2, <2>3 DEF CInv, QueueInv, Destroys
<1>6. PlaceInv'
  <2>1. CASE CtxRegister(c)
    <3>1. registered' = registered \cup {c} /\ c \notin registered /\ NoReaders
          /\ ctx' = [ctx EXCEPT ![c] = "registering"]
      BY <2>1 DEF CtxRegister, CInv, PlaceInv
    <3>2. ASSUME NEW t \in Threads PROVE Place(t)'
      BY <1>1, <3>1 DEF CInv, PlaceInv, Place, Reading
    <3>3. WorkerPlace'
      <4>1. nctx[Worker] # c \/ job # "destroy"
        BY <1>1 DEF CInv, QueueInv
      <4> QED
        BY <1>1, <3>1, <4>1 DEF CInv, PlaceInv, WorkerPlace
    <3>4. \A d \in registered' : ctx'[d] \in {"registering", "failing", "live"}
      BY <3>1 DEF CInv, CTypes, PlaceInv
    <3> QED
      BY <3>2, <3>3, <3>4 DEF PlaceInv
  <2>2. CASE CtxCacheFails(c)
    <3>1. registered' = registered /\ ctx' = [ctx EXCEPT ![c] = "failing"]
      BY <2>2 DEF CtxCacheFails
    <3>2. \A d \in registered' : ctx'[d] \in {"registering", "failing", "live"}
      BY <3>1 DEF CInv, CTypes, PlaceInv
    <3> QED
      BY <1>1, <3>1, <3>2 DEF CInv, PlaceInv, Place, WorkerPlace, Reading
  <2>3. CASE CtxUndo(c)
    <3>1. registered' = registered \ {c} /\ NoReaders /\ ctx' = [ctx EXCEPT ![c] = "freed"]
      BY <2>3 DEF CtxUndo
    <3>2. ASSUME NEW t \in Threads PROVE Place(t)' /\ todo[t] = {}
      <4>1. pc[t] = "idle" \/ (t = Worker /\ job = "destroy")
        BY <3>1 DEF NoReaders, Reading
      <4>2. todo[t] = {}
        BY <4>1 DEF CInv, PlaceInv, Place, WorkerPlace
      <4> QED
        BY <1>1, <3>1, <4>1, <4>2 DEF CInv, PlaceInv, Place, Reading
    <3>3. WorkerPlace'
      BY <1>1, <3>1 DEF CInv, PlaceInv, WorkerPlace
    <3>4. \A d \in registered' : ctx'[d] \in {"registering", "failing", "live"}
      BY <3>1 DEF CInv, CTypes, PlaceInv
    <3> QED
      BY <3>2, <3>3, <3>4 DEF PlaceInv
  <2> QED
    BY <2>1, <2>2, <2>3
<1>7. FreeInv'
  BY <1>1, FreeSame DEF CInv
<1>8. Books'
  <2>1. LiveContexts' = LiveContexts
    BY <1>1 DEF LiveContexts, CInv, CTypes
  <2>2. Used' = Used
    BY <1>1 DEF Used
  <2>3. ASSUME NEW x \in Foreigns PROVE Wrappers(x)' = Wrappers(x)
    BY <1>1 DEF Wrappers
  <2> QED
    BY <1>1, <2>1, <2>2, <2>3 DEF CInv, Books
<1> QED
  BY <1>2, <1>3, <1>4, <1>5, <1>6, <1>7, <1>8 DEF CInv

LEMMA GetCacheStep ==
  ASSUME IInv, CInv, NEW c \in Contexts, CtxGetCache(c)
  PROVE  CInv'
<1>1. /\ ctx[c] = "registering" /\ ctx' = [ctx EXCEPT ![c] = "live"]
      /\ cache' = TRUE /\ cache_refs' = cache_refs + 1
      /\ kref' = [kref EXCEPT ![c] = 1] /\ held' = [held EXCEPT ![c] = TRUE]
      /\ UNCHANGED <<registered, module_refs, fctx, wraps, mem, fence_head,
                     checkpoint, rel, xrefs, pc, todo, nctx, wq, job, barrier>>
  BY DEF CtxGetCache, cacheVars, bornVars, fenceVars, xVars, threadVars, workVars
<1>2. CTypes'
  BY <1>1 DEF CInv, CTypes
<1>3. ASSUME NEW d \in Contexts PROVE KrefExact(d)'
  <2>1. Attached(d)' = Attached(d)
    BY <1>1 DEF Attached
  <2>2. CASE d = c
    <3> DEFINE S == Attached(c)
    <3>1. S = {}
      BY <1>1 DEF Attached, CInv, Home
    <3> HIDE DEF S
    <3>2. Cardinality(S) = 0
      BY <3>1, FS_EmptySet
    <3> QED
      BY <1>1, <2>1, <2>2, <3>2 DEF KrefExact, One, CInv, CTypes, S
  <2>3. CASE d # c
    BY <1>1, <2>1, <2>3 DEF KrefExact, One, CInv, CTypes
  <2> QED
    BY <2>2, <2>3
<1>4. \A f \in Fences : Home(f)'
  BY <1>1 DEF CInv, CTypes, Home
<1>5. QueueInv'
  <2>1. \A k \in 1..Len(wq) : wq[k].ctx # c
    BY <1>1 DEF CInv, QueueInv
  <2>2. job = "destroy" => nctx[Worker] # c
    BY <1>1 DEF CInv, QueueInv
  <2>3. \A d : d # c => ctx'[d] = ctx[d] /\ kref'[d] = kref[d]
    BY <1>1 DEF CInv, CTypes
  <2> QED
    BY <1>1, <2>1, <2>2, <2>3 DEF CInv, QueueInv, Destroys
<1>6. PlaceInv'
  <2>1. \A d \in registered' : ctx'[d] \in {"registering", "failing", "live"}
    BY <1>1 DEF CInv, CTypes, PlaceInv
  <2> QED
    BY <1>1, <2>1 DEF CInv, PlaceInv, Place, WorkerPlace, Reading
<1>7. FreeInv'
  BY <1>1, FreeSame DEF CInv
<1>8. Books'
  <2>1. Cardinality(LiveContexts)' = Cardinality(LiveContexts) + 1
    <3> DEFINE S == LiveContexts
               T == LiveContexts'
    <3>1. T = S \cup {c} /\ c \notin S
      BY <1>1 DEF LiveContexts, CInv, CTypes
    <3>2. IsFiniteSet(S)
      BY FiniteSubsets
    <3> HIDE DEF S, T
    <3>3. Cardinality(T) = Cardinality(S) + 1
      BY <3>1, <3>2, FS_AddElement
    <3> QED
      BY <3>3 DEF S, T
  <2>2. Used' = Used
    BY <1>1 DEF Used
  <2>3. ASSUME NEW x \in Foreigns PROVE Wrappers(x)' = Wrappers(x)
    BY <1>1 DEF Wrappers
  <2>4. Cardinality(LiveContexts) \in Nat
    BY FiniteSubsets
  <2> QED
    BY <1>1, <2>1, <2>2, <2>3, <2>4 DEF CInv, Books
<1> QED
  BY <1>2, <1>3, <1>4, <1>5, <1>6, <1>7, <1>8 DEF CInv

LEMMA OwnerStep ==
  ASSUME IInv, CInv, NEW c \in Contexts, OwnerPut(c)
  PROVE  CInv'
<1>1. /\ held[c] /\ held' = [held EXCEPT ![c] = FALSE] /\ KrefPut(c)
      /\ UNCHANGED <<ctx, registered, cache, cache_refs, module_refs, fctx, wraps, mem, fence_head,
                     checkpoint, rel, xrefs, pc, todo, nctx, job, barrier>>
  BY DEF OwnerPut, cacheVars, bornVars, fenceVars, xVars, threadVars
<1>2. ctx[c] = "live" /\ kref[c] # 0
  BY <1>1, HeldContext
<1>3. (\A d \in Contexts : KrefExact(d)') /\ kref' \in [Contexts -> Int]
  BY <1>1, KrefLess DEF IInv, Types
<1>4. QueueInv' /\ wq' \in Seq(Items)
  BY <1>1, <1>2, QueueDestroy
<1>5. CTypes'
  BY <1>1, <1>3, <1>4 DEF CInv, CTypes
<1>6. \A f \in Fences : Home(f)'
  BY <1>1, HomeSame DEF CInv
<1>7. PlaceInv'
  BY <1>1, PlaceSame DEF CInv
<1>8. FreeInv'
  BY <1>1, FreeSame DEF CInv
<1>9. Books'
  BY <1>1, BooksSame DEF CInv
<1> QED
  BY <1>3, <1>4, <1>5, <1>6, <1>7, <1>8, <1>9 DEF CInv

-----------------------------------------------------------------------------
(* Creating, queueing for and releasing fences.                            *)

LEMMA BornStep ==
  ASSUME IInv, CInv, NEW c \in Contexts, NEW f \in Fences,
         NEW x \in Foreigns \cup {NoForeign}, NEW n, Born(c, f, x, n),
         IF x = NoForeign THEN UNCHANGED xrefs ELSE xrefs' = [xrefs EXCEPT ![x] = @ + 1]
  PROVE  CInv'
<1>1. /\ held[c] /\ mem[f] = "none" /\ mem' = [mem EXCEPT ![f] = "used"]
      /\ fctx' = [fctx EXCEPT ![f] = c] /\ wraps' = [wraps EXCEPT ![f] = x]
      /\ module_refs' = module_refs + 1
      /\ checkpoint' = [checkpoint EXCEPT ![f] = "active"]
      /\ fence_head' = [fence_head EXCEPT ![f] = "fence_list"]
      /\ kref' = [kref EXCEPT ![c] = @ + 1]
      /\ UNCHANGED <<ctx, held, registered, cache, cache_refs, rel, pc, todo, nctx, wq, job, barrier>>
  BY DEF Born, threadVars, workVars
<1>2. /\ mem \in [Fences -> {"none", "used", "rcu", "freed"}]
      /\ fence_head \in [Fences -> {"none", "fence_list", "deferred"} \cup Threads]
      /\ checkpoint \in [Fences -> {"none", "active", "signalled", "freed"}]
      /\ rel[f] = "none" /\ fence_head[f] = "none"
  BY <1>1 DEF IInv, Types, FenceInv, Unborn
<1>3. /\ ctx[c] = "live" /\ kref[c] \in Nat \ {0} /\ ~Destroys(c)
      /\ \A k \in 1..Len(wq) : wq[k].kind = "destroy" => wq[k].ctx # c
  BY <1>1, HeldContext
<1>4. CTypes'
  <2>1. xrefs' \in [Foreigns -> Int]
    BY AbsentAssumption DEF CInv, CTypes
  <2> QED
    BY <1>1, <2>1 DEF CInv, CTypes
<1>5. ASSUME NEW d \in Contexts PROVE KrefExact(d)'
  <2>1. CASE d = c
    <3> DEFINE S == Attached(c)
               T == Attached(c)'
    <3>1. T = S \cup {f} /\ f \notin S
      BY <1>1, <1>2 DEF Attached, CInv, CTypes
    <3>2. IsFiniteSet(S) /\ Cardinality(S) \in Nat
      BY FiniteSubsets
    <3> HIDE DEF S, T
    <3>3. Cardinality(T) = Cardinality(S) + 1
      BY <3>1, <3>2, FS_AddElement
    <3>4. Cardinality(Attached(c))' = Cardinality(Attached(c)) + 1 /\ Cardinality(Attached(c)) \in Nat
      BY <3>2, <3>3 DEF S, T
    <3> QED
      BY <1>1, <2>1, <3>4 DEF KrefExact, One, CInv, CTypes
  <2>2. CASE d # c
    <3>1. Attached(d)' = Attached(d)
      BY <1>1, <1>2, <2>2 DEF Attached, CInv, CTypes
    <3> QED
      BY <1>1, <2>2, <3>1 DEF KrefExact, One, CInv, CTypes
  <2> QED
    BY <2>1, <2>2
<1>6. \A g \in Fences : Home(g)'
  BY <1>1, <1>2, <1>3 DEF CInv, CTypes, Home
<1>7. QueueInv'
  <2>1. \A d : d # c => kref'[d] = kref[d]
    BY <1>1 DEF CInv, CTypes
  <2> QED
    BY <1>1, <1>3, <2>1, SMTT(30) DEF CInv, QueueInv, Destroys
<1>8. PlaceInv'
  BY <1>1, PlaceSame DEF CInv
<1>9. FreeInv'
  <2>1. fence_head'[f] \notin Threads /\ fence_head'[f] # "deferred" /\ fctx'[f] = c
    BY <1>1, <1>2, ThreadNames DEF CInv, CTypes
  <2>2. \A g \in Fences \ {f} : mem'[g] = mem[g] /\ fctx'[g] = fctx[g] /\ fence_head'[g] = fence_head[g]
    BY <1>1, <1>2 DEF CInv, CTypes
  <2>3. ASSUME NEW g \in Fences PROVE Destroyed(g)' /\ OnStack(g)'
    BY <1>1, <1>3, <2>1, <2>2 DEF CInv, FreeInv, Destroyed, OnStack, Destroys
  <2> QED
    BY <2>3 DEF FreeInv
<1>10. Books'
  <2>1. LiveContexts' = LiveContexts
    BY <1>1 DEF LiveContexts
  <2>2. Cardinality(Used)' = Cardinality(Used) + 1
    <3> DEFINE S == Used
               T == Used'
    <3>1. T = S \cup {f} /\ f \notin S
      BY <1>1, <1>2 DEF Used
    <3>2. IsFiniteSet(S)
      BY FiniteSubsets
    <3> HIDE DEF S, T
    <3>3. Cardinality(T) = Cardinality(S) + 1
      BY <3>1, <3>2, FS_AddElement
    <3> QED
      BY <3>3 DEF S, T
  <2>3. wraps[f] = NoForeign
    BY <1>1 DEF CInv, Books
  <2>4. ASSUME NEW y \in Foreigns PROVE xrefs'[y] = Cardinality(Wrappers(y))'
    <3>1. CASE y = x
      <4> DEFINE S == Wrappers(y)
                 T == Wrappers(y)'
      <4>1. T = S \cup {f} /\ f \notin S
        BY <1>1, <1>2, <2>3, <3>1, AbsentAssumption DEF Wrappers, CInv, CTypes
      <4>2. IsFiniteSet(S) /\ Cardinality(S) \in Nat
        BY FiniteSubsets
      <4> HIDE DEF S, T
      <4>3. Cardinality(T) = Cardinality(S) + 1
        BY <4>1, <4>2, FS_AddElement
      <4>4. Cardinality(Wrappers(y))' = Cardinality(Wrappers(y)) + 1
        BY <4>3 DEF S, T
      <4> QED
        BY <3>1, <4>4, AbsentAssumption DEF CInv, CTypes, Books
    <3>2. CASE y # x
      <4>1. Wrappers(y)' = Wrappers(y)
        BY <1>1, <1>2, <2>3, <3>2, AbsentAssumption DEF Wrappers, CInv, CTypes
      <4>2. xrefs'[y] = xrefs[y]
        BY <3>2 DEF CInv, CTypes
      <4> QED
        BY <4>1, <4>2 DEF CInv, Books
    <3> QED
      BY <3>1, <3>2
  <2>5. Cardinality(Used) \in Nat
    BY FiniteSubsets
  <2>6. \A g \in Fences : rel'[g] = "moved" => wraps'[g] # NoForeign
    BY <1>1, <1>2 DEF CInv, CTypes, Books
  <2>7. \A g \in Fences : mem'[g] = "none" => wraps'[g] = NoForeign
    BY <1>1, <1>2 DEF CInv, CTypes, Books
  <2>8. \A g \in Fences : fence_head'[g] = "fence_list" => checkpoint'[g] \in {"active", "signalled"}
    BY <1>1, <1>2 DEF CInv, Books
  <2> QED
    BY <1>1, <2>1, <2>2, <2>4, <2>5, <2>6, <2>7, <2>8 DEF CInv, Books
<1> QED
  BY <1>4, <1>5, <1>6, <1>7, <1>8, <1>9, <1>10 DEF CInv

LEMMA ContextSteps ==
  ASSUME IInv, CInv, NEW c \in Contexts, CtxNext(c)
  PROVE  CInv'
<1>1. CASE CtxRegister(c) \/ CtxGetCache(c) \/ CtxCacheFails(c) \/ CtxUndo(c) \/ OwnerPut(c)
  BY <1>1, CreationSteps, GetCacheStep, OwnerStep
<1>2. CASE \E f \in Fences : Create(c, f)
  BY <1>2, BornStep DEF Create
<1>3. CASE \E f \in Fences, x \in Foreigns : CreateFromForeign(c, f, x)
  <2>1. PICK f \in Fences, x \in Foreigns : CreateFromForeign(c, f, x)
    BY <1>3
  <2>2. x # NoForeign /\ x \in Foreigns \cup {NoForeign}
    BY AbsentAssumption
  <2>3. Born(c, f, x, 2) /\ xrefs' = [xrefs EXCEPT ![x] = @ + 1]
    BY <2>1 DEF CreateFromForeign
  <2> QED
    BY <2>2, <2>3, BornStep
<1> QED
  BY <1>1, <1>2, <1>3 DEF CtxNext

LEMMA CheckSteps ==
  ASSUME IInv, CInv, NEW f \in Fences, CbQueue(f) \/ SwSignal(f)
  PROVE  CInv'
<1>0. users[f] \in Nat /\ checkpoint \in [Fences -> {"none", "active", "signalled", "freed"}]
  BY DEF IInv, Types
<1>1. /\ users[f] > 0 \/ CbHolds(f)
      /\ Queue(Check(fctx[f]))
      /\ \A g \in Fences : checkpoint'[g] = checkpoint[g] \/ checkpoint'[g] = "signalled"
      /\ UNCHANGED <<ctx, kref, held, registered, cache, cache_refs, module_refs, fctx, wraps, mem,
                     fence_head, rel, xrefs, pc, todo, nctx, job, barrier>>
  BY <1>0 DEF CbQueue, SwSignal, CbHolds, ctxVars, cacheVars, bornVars, xVars, threadVars
<1>2. mem[f] # "none" /\ rel[f] # "done"
  BY <1>1, HeldFence
<1>3. fctx[f] \in Contexts /\ ctx[fctx[f]] = "live" /\ kref[fctx[f]] # 0 /\ ~Destroys(fctx[f])
  BY <1>2, KeepsContext
<1>4. QueueInv' /\ wq' \in Seq(Items)
  BY <1>1, <1>3, QueueCheck
<1>5. CTypes'
  BY <1>1, <1>4 DEF CInv, CTypes
<1>6. \A c \in Contexts : KrefExact(c)'
  <2>1. \A c \in Contexts : held[c] => ctx'[c] = "live"
    BY <1>1 DEF CInv, KrefExact
  <2> QED
    BY <1>1, <2>1, KrefSame DEF CInv
<1>7. \A g \in Fences : Home(g)'
  BY <1>1, HomeSame DEF CInv
<1>8. PlaceInv'
  BY <1>1, PlaceSame DEF CInv
<1>9. FreeInv'
  BY <1>1, FreeSame DEF CInv
<1>10. Books'
  <2>1. LiveContexts' = LiveContexts /\ Used' = Used
    BY <1>1 DEF LiveContexts, Used
  <2>2. ASSUME NEW x \in Foreigns PROVE Wrappers(x)' = Wrappers(x)
    BY <1>1 DEF Wrappers
  <2> QED
    BY <1>1, <2>1, <2>2 DEF CInv, Books
<1> QED
  BY <1>4, <1>5, <1>6, <1>7, <1>8, <1>9, <1>10 DEF CInv

LEMMA ReleaseSteps ==
  ASSUME IInv, CInv, NEW f \in Fences, ReleaseMove(f) \/ ReleaseForeign(f)
  PROVE  CInv'
<1>1. /\ rel[f] \in {"entered", "moved"}
      /\ \E r \in {"moved", "unwrapped"} : rel' = [rel EXCEPT ![f] = r]
      /\ rel \in [Fences -> {"none", "entered", "moved", "unwrapped", "done"}]
      /\ fence_head' = fence_head \/ fence_head' = [fence_head EXCEPT ![f] = "deferred"]
      /\ fence_head \in [Fences -> {"none", "fence_list", "deferred"} \cup Threads]
      /\ UNCHANGED <<ctx, kref, held, registered, cache, cache_refs, module_refs, fctx, wraps, mem,
                     checkpoint, pc, todo, nctx, wq, job, barrier>>
  BY DEF ReleaseMove, ReleaseForeign, ctxVars, cacheVars, bornVars, xVars, threadVars, workVars, IInv, Types
<1>2. mem[f] # "none"
  BY <1>1 DEF IInv, FenceInv, Unborn
<1>3. fctx[f] \in Contexts /\ ctx[fctx[f]] = "live" /\ ~Destroys(fctx[f])
  BY <1>1, <1>2, KeepsContext
<1>4. CTypes'
  <2>1. xrefs' \in [Foreigns -> Int]
    BY DEF ReleaseMove, ReleaseForeign, xVars, CInv, CTypes
  <2> QED
    BY <1>1, <2>1 DEF CInv, CTypes
<1>5. \A c \in Contexts : KrefExact(c)'
  <2>1. \A c \in Contexts : held[c] => ctx'[c] = "live"
    BY <1>1 DEF CInv, KrefExact
  <2>2. \A g \in Fences : (mem'[g] = "none" <=> mem[g] = "none") /\ (rel'[g] = "done" <=> rel[g] = "done")
    BY <1>1
  <2> QED
    BY <1>1, <2>1, <2>2, KrefSame DEF CInv
<1>6. \A g \in Fences : Home(g)'
  BY <1>1, <1>3 DEF CInv, Home
<1>7. QueueInv'
  BY <1>1, QueueSame DEF CInv
<1>8. PlaceInv'
  BY <1>1, PlaceSame DEF CInv
<1>9. FreeInv'
  <2>1. ASSUME NEW g \in Fences PROVE Destroyed(g)' /\ OnStack(g)'
    <3>1. CASE g = f
      BY <1>1, <1>3, <3>1, ThreadNames DEF CInv, FreeInv, Destroyed, OnStack, Destroys
    <3>2. CASE g # f
      BY <1>1, <3>2 DEF CInv, FreeInv, Destroyed, OnStack, Destroys
    <3> QED
      BY <3>1, <3>2
  <2> QED
    BY <2>1 DEF FreeInv
<1>10. Books'
  <2>1. LiveContexts' = LiveContexts /\ Used' = Used
    BY <1>1 DEF LiveContexts, Used
  <2>2. \A g \in Fences : fence_head'[g] = "fence_list" => checkpoint'[g] \in {"active", "signalled"}
    BY <1>1 DEF CInv, Books
  <2>3. \A g \in Fences : rel'[g] = "moved" => wraps'[g] # NoForeign
    BY <1>1 DEF ReleaseMove, ReleaseForeign, IsNative, CInv, Books
  <2>4. ASSUME NEW x \in Foreigns PROVE xrefs'[x] = Cardinality(Wrappers(x))'
    <3>1. CASE ReleaseForeign(f) /\ wraps[f] = x
      <4> DEFINE S == Wrappers(x)
                 T == Wrappers(x)'
      <4>1. T = S \ {f} /\ f \in S
        BY <1>1, <3>1 DEF Wrappers, ReleaseForeign
      <4>2. IsFiniteSet(S) /\ Cardinality(S) \in Nat
        BY FiniteSubsets
      <4> HIDE DEF S, T
      <4>3. Cardinality(T) = Cardinality(S) - 1
        BY <4>1, <4>2, FS_RemoveElement
      <4>4. Cardinality(Wrappers(x))' = Cardinality(Wrappers(x)) - 1
        BY <4>3 DEF S, T
      <4> QED
        BY <3>1, <4>4 DEF CInv, CTypes, Books, ReleaseForeign
    <3>2. CASE ReleaseForeign(f) /\ wraps[f] # x
      <4>1. Wrappers(x)' = Wrappers(x)
        BY <1>1, <3>2 DEF Wrappers
      <4>2. xrefs'[x] = xrefs[x]
        BY <3>2 DEF CInv, CTypes, ReleaseForeign
      <4> QED
        BY <4>1, <4>2 DEF CInv, Books
    <3>3. CASE ReleaseMove(f)
      <4>1. Wrappers(x)' = Wrappers(x)
        BY <1>1, <3>3, AbsentAssumption DEF Wrappers, ReleaseMove, IsNative
      <4> QED
        BY <3>3, <4>1 DEF CInv, Books, ReleaseMove, xVars
    <3> QED
      BY <3>1, <3>2, <3>3
  <2> QED
    BY <1>1, <2>1, <2>2, <2>3, <2>4 DEF CInv, Books
<1> QED
  BY <1>4, <1>5, <1>6, <1>7, <1>8, <1>9, <1>10 DEF CInv

LEMMA ReleaseCtxStep ==
  ASSUME IInv, CInv, NEW f \in Fences, ReleaseCtx(f)
  PROVE  CInv'
<1>1. /\ rel[f] = "unwrapped" /\ rel' = [rel EXCEPT ![f] = "done"] /\ KrefPut(fctx[f])
      /\ rel \in [Fences -> {"none", "entered", "moved", "unwrapped", "done"}]
      /\ UNCHANGED <<ctx, held, registered, cache, cache_refs, module_refs, fctx, wraps, mem, fence_head,
                     checkpoint, xrefs, pc, todo, nctx, job, barrier>>
  BY DEF ReleaseCtx, cacheVars, bornVars, xVars, threadVars, IInv, Types
<1>2. mem[f] # "none"
  BY <1>1 DEF IInv, FenceInv, Unborn
<1>3. fctx[f] \in Contexts /\ ctx[fctx[f]] = "live" /\ kref[fctx[f]] # 0
  BY <1>1, <1>2, KeepsContext
<1>4. (\A d \in Contexts : KrefExact(d)') /\ kref' \in [Contexts -> Int]
  <2>1. f \in Attached(fctx[f])
    BY <1>1, <1>2 DEF Attached
  <2> QED
    BY <1>1, <1>3, <2>1, KrefLess
<1>5. QueueInv' /\ wq' \in Seq(Items)
  BY <1>1, <1>3, QueueDestroy
<1>6. CTypes'
  BY <1>1, <1>4, <1>5 DEF CInv, CTypes
<1>7. \A g \in Fences : Home(g)'
  BY <1>1, <1>3 DEF CInv, Home
<1>8. PlaceInv'
  BY <1>1, PlaceSame DEF CInv
<1>9. FreeInv'
  BY <1>1, FreeSame DEF CInv
<1>10. Books'
  <2>1. LiveContexts' = LiveContexts /\ Used' = Used
    BY <1>1 DEF LiveContexts, Used
  <2>2. ASSUME NEW x \in Foreigns PROVE Wrappers(x)' = Wrappers(x)
    BY <1>1 DEF Wrappers
  <2>3. \A g \in Fences : rel'[g] = "moved" => wraps'[g] # NoForeign
    BY <1>1 DEF CInv, Books
  <2> QED
    BY <1>1, <2>1, <2>2, <2>3 DEF CInv, Books
<1> QED
  BY <1>4, <1>5, <1>6, <1>7, <1>8, <1>9, <1>10 DEF CInv

\* mem changes while the fence stays born.
LEMMA RcuStep ==
  ASSUME IInv, CInv, NEW f \in Fences, RcuCallback(f)
  PROVE  CInv'
<1>1. /\ mem[f] = "rcu" /\ mem' = [mem EXCEPT ![f] = "freed"]
      /\ mem \in [Fences -> {"none", "used", "rcu", "freed"}]
      /\ UNCHANGED <<ctx, kref, held, registered, cache, cache_refs, module_refs, fctx, wraps,
                     fence_head, checkpoint, rel, xrefs, pc, todo, nctx, wq, job, barrier>>
  BY DEF RcuCallback, ctxVars, cacheVars, bornVars, xVars, threadVars, workVars, IInv, Types
<1>2. CTypes'
  BY <1>1 DEF CInv, CTypes
<1>3. \A c \in Contexts : KrefExact(c)'
  <2>1. \A c \in Contexts : held[c] => ctx'[c] = "live"
    BY <1>1 DEF CInv, KrefExact
  <2>2. \A g \in Fences : (mem'[g] = "none" <=> mem[g] = "none") /\ (rel'[g] = "done" <=> rel[g] = "done")
    BY <1>1
  <2> QED
    BY <1>1, <2>1, <2>2, KrefSame DEF CInv
<1>4. \A g \in Fences : Home(g)'
  BY <1>1 DEF CInv, Home
<1>5. QueueInv'
  BY <1>1, QueueSame DEF CInv
<1>6. PlaceInv'
  BY <1>1, PlaceSame DEF CInv
<1>7. FreeInv'
  BY <1>1 DEF CInv, FreeInv, Destroyed, OnStack, Destroys
<1>8. Books'
  <2>1. LiveContexts' = LiveContexts
    BY <1>1 DEF LiveContexts
  <2>2. Used' = Used
    BY <1>1 DEF Used
  <2>3. ASSUME NEW x \in Foreigns PROVE Wrappers(x)' = Wrappers(x)
    BY <1>1 DEF Wrappers
  <2>4. \A g \in Fences : mem'[g] = "none" => wraps'[g] = NoForeign
    BY <1>1 DEF CInv, Books
  <2> QED
    BY <1>1, <2>1, <2>2, <2>3, <2>4 DEF CInv, Books
<1> QED
  BY <1>2, <1>3, <1>4, <1>5, <1>6, <1>7, <1>8 DEF CInv

LEMMA FenceSteps ==
  ASSUME IInv, CInv, NEW f \in Fences, FenceNext(f)
  PROVE  CInv'
BY QuietSteps, CheckSteps, ReleaseSteps, ReleaseCtxStep, RcuStep DEF FenceNext

-----------------------------------------------------------------------------
(* Announcements and the freeing of fences.                                *)

\* Steps of threads that change no fence and no queue.
Walks(t) == NotifyBegin(t) \/ Visit(t) \/ NotifyEnd(t) \/ FreesDone(t)

LEMMA WorkerIs == Worker \in Threads /\ \A t \in Notifiers : t # Worker
BY ThreadsAssumption DEF Threads

LEMMA WalkSteps ==
  ASSUME IInv, CInv, NEW t \in Threads, Walks(t)
  PROVE  CInv'
<1>0. /\ pc \in [Threads -> {"idle", "visit", "scan", "signal", "put", "grab", "free",
                             "unregister", "barrier", "teardown"}]
      /\ todo \in [Threads -> SUBSET Contexts] /\ nctx \in [Threads -> Contexts \cup {NoCtx}]
      /\ registered \subseteq Contexts
  BY DEF IInv, Types, CInv, CTypes
<1>1. UNCHANGED <<ctx, kref, held, registered, cache, cache_refs, module_refs, fctx, wraps, mem,
                  fence_head, checkpoint, rel, xrefs, wq, barrier>>
  BY DEF Walks, NotifyBegin, Visit, NotifyEnd, FreesDone, ctxVars, cacheVars, bornVars, fenceVars,
     xVars, workVars
<1>2. /\ job' = job \/ (job = "check" /\ job' = "none")
      /\ job = "destroy" => nctx'[Worker] = nctx[Worker] /\ job' = "destroy"
      /\ nctx' \in [Threads -> Contexts \cup {NoCtx}] /\ todo' \in [Threads -> SUBSET Contexts]
      /\ pc' = [pc EXCEPT ![t] = pc'[t]]
  <2>1. CASE NotifyBegin(t)
    BY <1>0, <2>1 DEF NotifyBegin, workVars
  <2>2. CASE Visit(t)
    <3>1. job = "destroy" => t # Worker
      BY <2>2 DEF Visit, CInv, PlaceInv, WorkerPlace
    <3>2. nctx' \in [Threads -> Contexts \cup {NoCtx}] /\ todo' \in [Threads -> SUBSET Contexts]
      BY <1>0, <2>2 DEF Visit
    <3> QED
      BY <1>0, <2>2, <3>1, <3>2, WorkerIs DEF Visit, workVars
  <2>3. CASE NotifyEnd(t)
    <3>1. t = Worker => job = "check"
      BY <2>3 DEF NotifyEnd, CInv, CTypes, PlaceInv, WorkerPlace
    <3> QED
      BY <1>0, <2>3, <3>1 DEF NotifyEnd
  <2>4. CASE FreesDone(t)
    BY <1>0, <2>4, WorkerIs DEF FreesDone, workVars
  <2> QED
    BY <2>1, <2>2, <2>3, <2>4 DEF Walks
<1>3. CTypes'
  BY <1>1, <1>2 DEF CInv, CTypes
<1>4. \A c \in Contexts : KrefExact(c)'
  <2>1. \A c \in Contexts : held[c] => ctx'[c] = "live"
    BY <1>1 DEF CInv, KrefExact
  <2> QED
    BY <1>1, <2>1, KrefSame DEF CInv
<1>5. \A f \in Fences : Home(f)'
  BY <1>1, HomeSame DEF CInv
<1>6. QueueInv'
  BY <1>1, <1>2 DEF CInv, QueueInv, Destroys
<1>7. PlaceInv'
  <2>0. \A u \in Threads : u # t => pc'[u] = pc[u] /\ todo'[u] = todo[u] /\ nctx'[u] = nctx[u]
    BY <1>0 DEF Walks, NotifyBegin, Visit, NotifyEnd, FreesDone
  <2>1. CASE NotifyBegin(t)
    <3>1. t # Worker /\ pc'[t] = "visit" /\ todo'[t] = registered /\ nctx'[t] = NoCtx /\ job' = job
      BY <1>0, <2>1, WorkerIs DEF NotifyBegin, workVars, CInv, PlaceInv, Place
    <3>2. ASSUME NEW u \in Threads PROVE Place(u)'
      BY <1>1, <2>0, <3>1, <3>2 DEF CInv, PlaceInv, Place, Reading
    <3>3. WorkerPlace'
      BY <1>1, <2>0, <3>1, WorkerIs DEF CInv, PlaceInv, WorkerPlace
    <3> QED
      BY <1>1, <3>2, <3>3 DEF CInv, PlaceInv
  <2>2. CASE Visit(t)
    <3>1. PICK c \in todo[t] : nctx' = [nctx EXCEPT ![t] = c] /\ todo' = [todo EXCEPT ![t] = @ \ {c}]
      BY <2>2 DEF Visit
    <3>2. c \in registered /\ c # NoCtx /\ todo'[t] \subseteq registered
      BY <1>0, <3>1, AbsentAssumption DEF CInv, PlaceInv, Place
    <3>3. pc[t] = "visit" /\ pc'[t] = "scan" /\ nctx'[t] = c /\ job' = job
      BY <1>0, <2>2, <3>1 DEF Visit, workVars
    <3>4. ASSUME NEW u \in Threads PROVE Place(u)'
      BY <1>1, <2>0, <3>2, <3>3 DEF CInv, PlaceInv, Place, Reading
    <3>5. WorkerPlace'
      BY <1>1, <2>0, <3>3, WorkerIs DEF CInv, PlaceInv, WorkerPlace
    <3> QED
      BY <1>1, <3>4, <3>5 DEF CInv, PlaceInv
  <2>3. CASE NotifyEnd(t)
    <3>1. pc[t] = "visit" /\ pc'[t] = "idle" /\ todo'[t] = {} /\ nctx'[t] = NoCtx
      BY <1>0, <2>3 DEF NotifyEnd, CInv, PlaceInv, Place
    <3>2. job' = (IF t = Worker THEN "none" ELSE job) /\ (t = Worker => job = "check")
      BY <2>3 DEF NotifyEnd, CInv, CTypes, PlaceInv, WorkerPlace
    <3>3. ASSUME NEW u \in Threads PROVE Place(u)'
      BY <1>1, <2>0, <3>1, <3>2 DEF CInv, PlaceInv, Place, Reading
    <3>4. WorkerPlace'
      BY <1>1, <2>0, <3>1, <3>2, WorkerIs DEF CInv, PlaceInv, WorkerPlace
    <3> QED
      BY <1>1, <3>3, <3>4 DEF CInv, PlaceInv
  <2>4. CASE FreesDone(t)
    <3>1. /\ pc[t] = "free" /\ todo'[t] = todo[t] /\ job' = job
          /\ IF t = Worker /\ job = "destroy"
             THEN pc'[t] = "unregister" /\ nctx'[t] = nctx[t]
             ELSE pc'[t] = "visit" /\ nctx'[t] = NoCtx
      BY <1>0, <2>4 DEF FreesDone, workVars
    <3>2. ASSUME NEW u \in Threads PROVE Place(u)'
      BY <1>1, <2>0, <3>1 DEF CInv, PlaceInv, Place, Reading
    <3>3. WorkerPlace'
      BY <1>1, <2>0, <3>1, WorkerIs DEF CInv, PlaceInv, WorkerPlace
    <3> QED
      BY <1>1, <3>2, <3>3 DEF CInv, PlaceInv
  <2> QED
    BY <2>1, <2>2, <2>3, <2>4 DEF Walks
<1>8. FreeInv'
  <2>1. ASSUME NEW f \in Fences PROVE Destroyed(f)'
    <3>1. job' = "destroy" => job = "destroy" /\ nctx'[Worker] = nctx[Worker]
      BY <1>2
    <3>2. pc'[Worker] = pc[Worker] \/ (pc[Worker] = "free" /\ pc'[Worker] = "unregister")
            \/ job' # "destroy"
      BY <1>0, <1>2, WorkerIs DEF Walks, NotifyBegin, Visit, NotifyEnd, FreesDone, CInv, PlaceInv, WorkerPlace
    <3> QED
      BY <1>1, <3>1, <3>2 DEF CInv, FreeInv, Destroyed, Destroys
  <2>2. ASSUME NEW f \in Fences PROVE OnStack(f)'
    <3>1. \A u \in Threads : pc[u] = "free" /\ fence_head[f] = u => pc'[u] = "free" /\ nctx'[u] = nctx[u]
      BY <1>0 DEF Walks, NotifyBegin, Visit, NotifyEnd, FreesDone
    <3> QED
      BY <1>1, <3>1 DEF CInv, FreeInv, OnStack
  <2> QED
    BY <2>1, <2>2 DEF FreeInv
<1>9. Books'
  BY <1>1, BooksSame DEF CInv
<1> QED
  BY <1>3, <1>4, <1>5, <1>6, <1>7, <1>8, <1>9 DEF CInv

\* Grabbing and freeing keep the thread's announcement or destruction.
LEMMA GrabStep ==
  ASSUME IInv, CInv, NEW t \in Threads, Grab(t)
  PROVE  CInv'
<1>1. /\ pc \in [Threads -> {"idle", "visit", "scan", "signal", "put", "grab", "free",
                             "unregister", "barrier", "teardown"}]
      /\ pc[t] = "grab" /\ pc' = [pc EXCEPT ![t] = "free"]
      /\ fence_head' = [f \in Fences |-> IF fence_head[f] = "deferred" /\ fctx[f] = nctx[t] THEN t
                                         ELSE fence_head[f]]
      /\ UNCHANGED <<ctx, kref, held, registered, cache, cache_refs, module_refs, fctx, wraps, mem,
                     checkpoint, rel, xrefs, todo, nctx, wq, job, barrier>>
  BY DEF Grab, ctxVars, cacheVars, bornVars, xVars, workVars, IInv, Types
<1>2. CTypes'
  BY <1>1 DEF CInv, CTypes
<1>3. \A c \in Contexts : KrefExact(c)'
  <2>1. \A c \in Contexts : held[c] => ctx'[c] = "live"
    BY <1>1 DEF CInv, KrefExact
  <2> QED
    BY <1>1, <2>1, KrefSame DEF CInv
<1>4. \A f \in Fences : Home(f)'
  BY <1>1, HomeSame DEF CInv
<1>5. QueueInv'
  BY <1>1, QueueSame DEF CInv
<1>6. PlaceInv'
  BY <1>1, WorkerIs DEF CInv, PlaceInv, Place, WorkerPlace, Reading
<1>7. FreeInv'
  <2>1. ASSUME NEW f \in Fences PROVE Destroyed(f)'
    BY <1>1, WorkerIs, ThreadNames DEF CInv, FreeInv, Destroyed, Destroys
  <2>2. ASSUME NEW f \in Fences PROVE OnStack(f)'
    BY <1>1 DEF CInv, FreeInv, OnStack
  <2> QED
    BY <2>1, <2>2 DEF FreeInv
<1>8. Books'
  <2>1. LiveContexts' = LiveContexts /\ Used' = Used
    BY <1>1 DEF LiveContexts, Used
  <2>2. ASSUME NEW x \in Foreigns PROVE Wrappers(x)' = Wrappers(x)
    BY <1>1 DEF Wrappers
  <2>3. \A f \in Fences : fence_head'[f] = "fence_list" => checkpoint'[f] \in {"active", "signalled"}
    BY <1>1, ThreadNames DEF CInv, Books
  <2> QED
    BY <1>1, <2>1, <2>2, <2>3 DEF CInv, Books
<1> QED
  BY <1>2, <1>3, <1>4, <1>5, <1>6, <1>7, <1>8 DEF CInv

LEMMA FreeOneStep ==
  ASSUME IInv, CInv, NEW t \in Threads, FreeOne(t)
  PROVE  CInv'
<1>1. PICK f \in Fences : /\ fence_head[f] = t
                          /\ fence_head' = [fence_head EXCEPT ![f] = "none"]
                          /\ checkpoint' = [checkpoint EXCEPT ![f] = "freed"]
                          /\ mem' = [mem EXCEPT ![f] = "rcu"]
  BY DEF FreeOne
<1>2. /\ mem \in [Fences -> {"none", "used", "rcu", "freed"}]
      /\ fence_head \in [Fences -> {"none", "fence_list", "deferred"} \cup Threads]
      /\ checkpoint \in [Fences -> {"none", "active", "signalled", "freed"}]
      /\ module_refs' = module_refs - 1
      /\ UNCHANGED <<ctx, kref, held, registered, cache, cache_refs, fctx, wraps,
                     rel, xrefs, pc, todo, nctx, wq, job, barrier>>
  BY DEF FreeOne, ctxVars, bornVars, xVars, threadVars, workVars, IInv, Types
<1>3. mem[f] = "used" /\ fence_head[f] \in Threads
  BY <1>1, ThreadNames DEF IInv, FenceInv, Placed
<1>4. CTypes'
  BY <1>2 DEF CInv, CTypes
<1>5. \A c \in Contexts : KrefExact(c)'
  <2>1. \A c \in Contexts : held[c] => ctx'[c] = "live"
    BY <1>2 DEF CInv, KrefExact
  <2>2. \A g \in Fences : mem'[g] = "none" <=> mem[g] = "none"
    BY <1>1, <1>2, <1>3
  <2> QED
    BY <1>2, <2>1, <2>2, KrefSame DEF CInv
<1>6. \A g \in Fences : Home(g)'
  BY <1>1, <1>2, <1>3 DEF CInv, Home
<1>7. QueueInv'
  BY <1>2, QueueSame DEF CInv
<1>8. PlaceInv'
  BY <1>2, PlaceSame DEF CInv
<1>9. FreeInv'
  <2>1. ASSUME NEW g \in Fences PROVE Destroyed(g)'
    <3>1. CASE g = f
      <4>1. Destroys(fctx[f]) => pc[Worker] # "teardown"
        BY <1>3 DEF CInv, FreeInv, Destroyed
      <4> QED
        BY <1>1, <1>2, <1>3, <3>1, <4>1 DEF Destroyed, Destroys
    <3>2. CASE g # f
      BY <1>1, <1>2, <3>2 DEF CInv, FreeInv, Destroyed, Destroys
    <3> QED
      BY <3>1, <3>2
  <2>2. ASSUME NEW g \in Fences PROVE OnStack(g)'
    BY <1>1, <1>2, ThreadNames DEF CInv, FreeInv, OnStack
  <2> QED
    BY <2>1, <2>2 DEF FreeInv
<1>10. Books'
  <2>1. LiveContexts' = LiveContexts
    BY <1>2 DEF LiveContexts
  <2>2. ASSUME NEW x \in Foreigns PROVE Wrappers(x)' = Wrappers(x)
    BY <1>2 DEF Wrappers
  <2>3. Cardinality(Used)' = Cardinality(Used) - 1
    <3> DEFINE S == Used
               T == Used'
    <3>1. T = S \ {f} /\ f \in S
      BY <1>1, <1>2, <1>3 DEF Used
    <3>2. IsFiniteSet(S)
      BY FiniteSubsets
    <3> HIDE DEF S, T
    <3>3. Cardinality(T) = Cardinality(S) - 1
      BY <3>1, <3>2, FS_RemoveElement
    <3> QED
      BY <3>3 DEF S, T
  <2>4. \A g \in Fences : mem'[g] = "none" => wraps'[g] = NoForeign
    BY <1>1, <1>2 DEF CInv, Books
  <2>5. \A g \in Fences : fence_head'[g] = "fence_list" => checkpoint'[g] \in {"active", "signalled"}
    BY <1>1, <1>2 DEF CInv, Books
  <2> QED
    BY <1>2, <2>1, <2>2, <2>3, <2>4, <2>5 DEF CInv, Books
<1> QED
  BY <1>4, <1>5, <1>6, <1>7, <1>8, <1>9, <1>10 DEF CInv

LEMMA ThreadSteps ==
  ASSUME IInv, CInv, NEW t \in Threads, NotifyBegin(t) \/ ThreadRuns(t)
  PROVE  CInv'
BY WalkSteps, QuietThreads, GrabStep, FreeOneStep DEF ThreadRuns, Walks

-----------------------------------------------------------------------------
(* The worker.                                                             *)

LEMMA Taken ==
  ASSUME wq \in Seq(Items), wq # <<>>
  PROVE  /\ Tail(wq) \in Seq(Items) /\ Head(wq) = wq[1] /\ Head(wq) \in Items
         /\ Len(wq) \in Nat /\ 1 \in 1..Len(wq) /\ Len(Tail(wq)) = Len(wq) - 1
         /\ \A k \in 1..Len(Tail(wq)) : Tail(wq)[k] = wq[k + 1] /\ k + 1 \in 1..Len(wq)
<1>1. Len(wq) \in Nat /\ Len(wq) # 0
  BY LenProperties, EmptySeq
<1> QED
  BY <1>1, HeadTailProperties, ElementOfSeq

LEMMA TakeStep ==
  ASSUME IInv, CInv, WorkerCheck \/ WorkerDestroy
  PROVE  CInv'
<1> DEFINE i == Head(wq)
<1>0. /\ pc \in [Threads -> {"idle", "visit", "scan", "signal", "put", "grab", "free",
                             "unregister", "barrier", "teardown"}]
      /\ todo \in [Threads -> SUBSET Contexts] /\ nctx \in [Threads -> Contexts \cup {NoCtx}]
      /\ registered \subseteq Contexts /\ wq \in Seq(Items)
  BY DEF IInv, Types, CInv, CTypes
<1>1. /\ pc[Worker] = "idle" /\ wq # <<>> /\ wq' = Tail(wq)
      /\ UNCHANGED <<ctx, kref, held, registered, cache, cache_refs, module_refs, fctx, wraps, mem,
                     fence_head, checkpoint, rel, xrefs, barrier>>
  BY DEF WorkerCheck, WorkerDestroy, ctxVars, cacheVars, bornVars, fenceVars, xVars
<1>2. /\ wq' \in Seq(Items) /\ i = wq[1] /\ i \in Items
      /\ Len(wq) \in Nat /\ 1 \in 1..Len(wq) /\ Len(wq') = Len(wq) - 1
      /\ \A k \in 1..Len(wq') : wq'[k] = wq[k + 1] /\ k + 1 \in 1..Len(wq)
  BY <1>0, <1>1, Taken
<1>3. i.ctx \in Contexts /\ i.ctx # NoCtx
  BY <1>2, AbsentAssumption DEF Items
<1> HIDE DEF i
<1>4. /\ \/ /\ job' = "check" /\ pc' = [pc EXCEPT ![Worker] = "visit"]
            /\ todo' = [todo EXCEPT ![Worker] = registered] /\ nctx' = nctx
         \/ /\ job' = "destroy" /\ pc' = [pc EXCEPT ![Worker] = "grab"] /\ i.kind = "destroy"
            /\ todo' = todo /\ nctx' = [nctx EXCEPT ![Worker] = i.ctx]
      /\ job = "none" /\ todo[Worker] = {} /\ nctx[Worker] = NoCtx
  BY <1>1, WorkerIs DEF WorkerCheck, WorkerDestroy, CInv, PlaceInv, Place, WorkerPlace, i
<1>5. CTypes'
  <2>1. /\ todo' \in [Threads -> SUBSET Contexts] /\ nctx' \in [Threads -> Contexts \cup {NoCtx}]
        /\ job' \in {"none", "check", "destroy"}
    BY <1>0, <1>3, <1>4
  <2> QED
    BY <1>1, <1>2, <2>1 DEF CInv, CTypes
<1>6. \A c \in Contexts : KrefExact(c)'
  <2>1. \A c \in Contexts : held[c] => ctx'[c] = "live"
    BY <1>1 DEF CInv, KrefExact
  <2> QED
    BY <1>1, <2>1, KrefSame DEF CInv
<1>7. \A f \in Fences : Home(f)'
  BY <1>1, HomeSame DEF CInv
<1>8. QueueInv'
  <2>1. \A k \in 1..Len(wq') : ctx'[wq'[k].ctx] = "live"
    BY <1>1, <1>2 DEF CInv, QueueInv
  <2>2. \A k \in 1..Len(wq') : wq'[k].kind = "destroy" => kref'[wq'[k].ctx] = 0
    BY <1>1, <1>2 DEF CInv, QueueInv
  <2>3. \A k, l \in 1..Len(wq') : k < l /\ wq'[k].kind = "destroy" => wq'[l].ctx # wq'[k].ctx
    <3> SUFFICES ASSUME NEW k \in 1..Len(wq'), NEW l \in 1..Len(wq'), k < l, wq'[k].kind = "destroy"
                 PROVE  wq'[l].ctx # wq'[k].ctx
      OBVIOUS
    <3>1. k + 1 < l + 1 /\ k + 1 \in 1..Len(wq) /\ l + 1 \in 1..Len(wq)
      BY <1>2
    <3>2. wq'[k] = wq[k + 1] /\ wq'[l] = wq[l + 1]
      BY <1>2
    <3> QED
      BY <3>1, <3>2 DEF CInv, QueueInv
  <2>4. job' = "destroy" => /\ nctx'[Worker] = i.ctx /\ ctx[i.ctx] = "live" /\ kref[i.ctx] = 0
                            /\ \A k \in 1..Len(wq') : wq'[k].ctx # i.ctx
    <3>1. \A k \in 1..Len(wq') : 1 < k + 1 /\ k + 1 \in 1..Len(wq) /\ wq'[k] = wq[k + 1]
      BY <1>2
    <3>2. job' = "destroy" => nctx'[Worker] = i.ctx /\ i.kind = "destroy"
      BY <1>0, <1>4, WorkerIs
    <3> QED
      BY <1>2, <3>1, <3>2 DEF CInv, QueueInv
  <2> QED
    BY <1>1, <1>3, <2>1, <2>2, <2>3, <2>4 DEF QueueInv, Destroys
<1>9. PlaceInv'
  <2>0. \A u \in Threads : u # Worker => pc'[u] = pc[u] /\ todo'[u] = todo[u] /\ nctx'[u] = nctx[u]
    BY <1>0, <1>4
  <2>1. \/ job' = "check" /\ pc'[Worker] = "visit" /\ todo'[Worker] = registered /\ nctx'[Worker] = NoCtx
        \/ job' = "destroy" /\ pc'[Worker] = "grab" /\ todo'[Worker] = {} /\ nctx'[Worker] = i.ctx
    BY <1>0, <1>4, WorkerIs
  <2>2. ASSUME NEW u \in Threads PROVE Place(u)'
    BY <1>1, <1>3, <2>0, <2>1 DEF CInv, PlaceInv, Place, Reading
  <2>3. WorkerPlace'
    BY <1>1, <2>1 DEF WorkerPlace
  <2> QED
    BY <1>1, <2>2, <2>3 DEF CInv, PlaceInv
<1>10. FreeInv'
  <2>1. pc'[Worker] \in {"visit", "grab"}
    BY <1>0, <1>4, WorkerIs
  <2>2. ASSUME NEW f \in Fences PROVE Destroyed(f)'
    <3>1. job' = "destroy" => pc'[Worker] = "grab"
      BY <1>0, <1>4, WorkerIs
    <3> QED
      BY <3>1 DEF Destroyed, Destroys
  <2>3. ASSUME NEW f \in Fences PROVE OnStack(f)'
    <3>1. \A u \in Threads : u # Worker => pc'[u] = pc[u] /\ nctx'[u] = nctx[u]
      BY <1>0, <1>4
    <3> QED
      BY <1>1, <3>1, WorkerIs DEF CInv, FreeInv, OnStack
  <2> QED
    BY <2>2, <2>3 DEF FreeInv
<1>11. Books'
  BY <1>1, BooksSame DEF CInv
<1> QED
  BY <1>5, <1>6, <1>7, <1>8, <1>9, <1>10, <1>11 DEF CInv

LEMMA UnregisterStep ==
  ASSUME IInv, CInv, Unregister \/ RcuBarrier
  PROVE  CInv'
<1>0. /\ pc \in [Threads -> {"idle", "visit", "scan", "signal", "put", "grab", "free",
                             "unregister", "barrier", "teardown"}]
      /\ registered \subseteq Contexts
      /\ fence_head \in [Fences -> {"none", "fence_list", "deferred"} \cup Threads]
  BY DEF IInv, Types, CInv, CTypes
<1>1. UNCHANGED <<ctx, kref, held, cache, cache_refs, module_refs, fctx, wraps, mem,
                  fence_head, checkpoint, rel, xrefs, todo, nctx, wq, job>>
  BY DEF Unregister, RcuBarrier, ctxVars, cacheVars, bornVars, fenceVars, xVars, workVars
<1>2. /\ job = "destroy" /\ pc[Worker] \in {"unregister", "barrier"}
      /\ pc' = [pc EXCEPT ![Worker] = IF pc[Worker] = "unregister" THEN "barrier" ELSE "teardown"]
      /\ nctx[Worker] \in Contexts /\ kref[nctx[Worker]] = 0
  BY DEF Unregister, RcuBarrier, CInv, PlaceInv, WorkerPlace, QueueInv
<1>3. CTypes'
  <2>1. registered' \subseteq Contexts /\ barrier' \subseteq Fences
    BY <1>0 DEF Unregister, RcuBarrier, CInv, CTypes, workVars, ctxVars
  <2> QED
    BY <1>1, <2>1 DEF CInv, CTypes
<1>4. \A c \in Contexts : KrefExact(c)'
  <2>1. \A c \in Contexts : held[c] => ctx'[c] = "live"
    BY <1>1 DEF CInv, KrefExact
  <2> QED
    BY <1>1, <2>1, KrefSame DEF CInv
<1>5. \A f \in Fences : Home(f)'
  BY <1>1, HomeSame DEF CInv
<1>6. QueueInv'
  BY <1>1, QueueSame DEF CInv
<1>7. PlaceInv'
  <2>1. CASE Unregister
    <3>1. registered' = registered \ {nctx[Worker]} /\ NoReaders /\ pc'[Worker] = "barrier"
      BY <1>0, <1>2, <2>1, WorkerIs DEF Unregister
    <3>2. ASSUME NEW t \in Threads PROVE Place(t)'
      <4>1. pc[t] = "idle" \/ t = Worker
        BY <3>1 DEF NoReaders, Reading
      <4>2. todo[t] = {}
        BY <1>2, <4>1 DEF CInv, PlaceInv, Place, WorkerPlace
      <4> QED
        BY <1>0, <1>1, <1>2, <3>1, <4>1, <4>2 DEF CInv, PlaceInv, Place, Reading
    <3>3. WorkerPlace'
      BY <1>1, <1>2, <3>1 DEF CInv, PlaceInv, WorkerPlace
    <3> QED
      BY <1>1, <3>1, <3>2, <3>3 DEF CInv, PlaceInv
  <2>2. CASE RcuBarrier
    <3>1. registered' = registered /\ pc[Worker] = "barrier" /\ pc' = [pc EXCEPT ![Worker] = "teardown"]
      BY <2>2 DEF RcuBarrier, ctxVars
    <3>2. ASSUME NEW t \in Threads PROVE Place(t)'
      BY <1>0, <1>1, <1>2, <3>1 DEF CInv, PlaceInv, Place, Reading
    <3>3. WorkerPlace'
      BY <1>0, <1>1, <1>2, <3>1, WorkerIs DEF CInv, PlaceInv, WorkerPlace
    <3> QED
      BY <1>1, <3>1, <3>2, <3>3 DEF CInv, PlaceInv
  <2> QED
    BY <2>1, <2>2
<1>8. FreeInv'
  <2>1. ASSUME NEW f \in Fences PROVE OnStack(f)'
    BY <1>0, <1>1, <1>2 DEF CInv, FreeInv, OnStack
  <2>2. ASSUME NEW f \in Fences PROVE Destroyed(f)'
    <3> SUFFICES ASSUME mem[f] # "none", fctx[f] = nctx[Worker]
                 PROVE  /\ pc'[Worker] # "grab" => fence_head'[f] # "deferred"
                        /\ pc'[Worker] \in {"barrier", "teardown"} => mem'[f] # "used"
                        /\ pc'[Worker] = "teardown" /\ mem'[f] = "rcu" => f \in barrier'
      BY <1>1 DEF Destroyed, Destroys
    <3>1. /\ fence_head[f] # "deferred"
          /\ pc[Worker] = "barrier" => mem[f] # "used"
      BY <1>2 DEF CInv, FreeInv, Destroyed, Destroys
    <3>2. rel[f] = "done"
      BY <1>2, NoReference
    <3>3. CASE Unregister
      <4>1. NoReaders /\ pc[Worker] = "unregister"
        BY <3>3 DEF Unregister
      <4>2. fence_head[f] # "fence_list"
        BY <3>2 DEF IInv, FenceInv, Placed
      <4>3. fence_head[f] \notin Threads
        BY <4>1 DEF CInv, FreeInv, OnStack, NoReaders, Reading
      <4>4. fence_head[f] = "none"
        BY <1>0, <3>1, <4>2, <4>3
      <4>5. mem[f] # "used"
        BY <4>4 DEF IInv, FenceInv, Placed
      <4>6. pc'[Worker] = "barrier"
        BY <1>0, <1>2, <4>1, WorkerIs
      <4> QED
        BY <1>1, <3>1, <4>5, <4>6
    <3>4. CASE RcuBarrier
      <4>1. barrier' = {g \in Fences : mem[g] = "rcu"} /\ pc[Worker] = "barrier"
        BY <3>4 DEF RcuBarrier
      <4> QED
        BY <1>1, <3>1, <4>1
    <3> QED
      BY <3>3, <3>4
  <2> QED
    BY <2>1, <2>2 DEF FreeInv
<1>9. Books'
  BY <1>1, BooksSame DEF CInv
<1> QED
  BY <1>3, <1>4, <1>5, <1>6, <1>7, <1>8, <1>9 DEF CInv

LEMMA TeardownStep ==
  ASSUME IInv, CInv, Teardown
  PROVE  CInv'
<1> DEFINE c == nctx[Worker]
<1>0. /\ pc \in [Threads -> {"idle", "visit", "scan", "signal", "put", "grab", "free",
                             "unregister", "barrier", "teardown"}]
      /\ nctx \in [Threads -> Contexts \cup {NoCtx}]
      /\ ctx \in [Contexts -> {"none", "registering", "failing", "live", "freed"}]
      /\ mem \in [Fences -> {"none", "used", "rcu", "freed"}]
  BY DEF IInv, Types, CInv, CTypes
<1>1. /\ pc[Worker] = "teardown" /\ pc' = [pc EXCEPT ![Worker] = "idle"]
      /\ \A f \in barrier : mem[f] = "freed"
      /\ cache_refs' = cache_refs - 1 /\ cache' = (cache_refs # 1)
      /\ ctx' = [ctx EXCEPT ![c] = "freed"]
      /\ nctx' = [nctx EXCEPT ![Worker] = NoCtx]
      /\ job' = "none" /\ barrier' = {}
      /\ UNCHANGED <<kref, held, registered, module_refs, fctx, wraps, mem, fence_head, checkpoint,
                     rel, xrefs, todo, wq>>
  BY DEF Teardown, bornVars, fenceVars, xVars
<1>2. job = "destroy" /\ c \in Contexts /\ ctx[c] = "live" /\ kref[c] = 0 /\ c \notin registered
  BY <1>1 DEF CInv, PlaceInv, WorkerPlace, QueueInv
<1>3. ~held[c] /\ \A f \in Fences : mem[f] # "none" /\ fctx[f] = c => rel[f] = "done"
  BY <1>2, NoReference
<1>4. \A f \in Fences : mem[f] # "none" /\ fctx[f] = c => mem[f] = "freed"
  BY <1>0, <1>1, <1>2 DEF CInv, FreeInv, Destroyed, Destroys
<1>5. \A k \in 1..Len(wq) : wq[k].ctx # c
  BY <1>2 DEF CInv, QueueInv, Destroys
<1> HIDE DEF c
<1>6. CTypes'
  <2>0. cache_refs \in Int /\ cache_refs' = cache_refs - 1 /\ nctx' = [nctx EXCEPT ![Worker] = NoCtx]
    BY <1>1 DEF CInv, CTypes
  <2>1. nctx' \in [Threads -> Contexts \cup {NoCtx}]
    BY <1>0, <2>0
  <2>6. cache_refs' \in Int
    BY <2>0
  <2>2. cache' = (cache_refs # 1)
    BY <1>1
  <2>3. cache' \in BOOLEAN
    <3>1. ASSUME NEW P, P = (cache_refs # 1) PROVE P \in BOOLEAN
      BY <3>1, SMT
    <3> QED
      BY <2>2, <3>1
  <2>4. UNCHANGED <<kref, held, registered, module_refs, fctx, wraps, xrefs, todo, wq>>
    BY <1>1
  <2>5. /\ ctx' \in [Contexts -> {"none", "registering", "failing", "live", "freed"}]
        /\ job' \in {"none", "check", "destroy"} /\ barrier' \subseteq Fences
    BY <1>0, <1>1
  <2> QED
    BY <2>1, <2>3, <2>4, <2>5, <2>6 DEF CInv, CTypes
<1>7. \A d \in Contexts : KrefExact(d)'
  <2>1. \A d \in Contexts : held[d] => ctx'[d] = "live"
    BY <1>0, <1>1, <1>3 DEF CInv, KrefExact
  <2> QED
    BY <1>1, <2>1, KrefSame DEF CInv
<1>8. \A f \in Fences : Home(f)'
  BY <1>0, <1>1, <1>2, <1>3, <1>4 DEF CInv, Home
<1>9. QueueInv'
  BY <1>0, <1>1, <1>5 DEF CInv, QueueInv, Destroys
<1>10. PlaceInv'
  <2>0. \A u \in Threads : u # Worker => pc'[u] = pc[u] /\ nctx'[u] = nctx[u]
    BY <1>0, <1>1
  <2>1. pc'[Worker] = "idle" /\ nctx'[Worker] = NoCtx /\ todo[Worker] = {}
    BY <1>0, <1>1, <1>2, WorkerIs DEF CInv, PlaceInv, WorkerPlace
  <2>2. ASSUME NEW u \in Threads PROVE Place(u)'
    BY <1>1, <2>0, <2>1 DEF CInv, PlaceInv, Place, Reading
  <2>3. WorkerPlace'
    BY <1>1, <2>1 DEF WorkerPlace
  <2>4. \A d \in registered' : ctx'[d] \in {"registering", "failing", "live"}
    BY <1>0, <1>1, <1>2 DEF CInv, PlaceInv
  <2> QED
    BY <2>2, <2>3, <2>4 DEF PlaceInv
<1>11. FreeInv'
  BY <1>0, <1>1 DEF CInv, FreeInv, Destroyed, OnStack, Destroys
<1>12. Books'
  <2>1. Cardinality(LiveContexts)' = Cardinality(LiveContexts) - 1
    <3> DEFINE S == LiveContexts
               T == LiveContexts'
    <3>1. T = S \ {c} /\ c \in S
      BY <1>0, <1>1, <1>2 DEF LiveContexts
    <3>2. IsFiniteSet(S)
      BY FiniteSubsets
    <3> HIDE DEF S, T
    <3>3. Cardinality(T) = Cardinality(S) - 1
      BY <3>1, <3>2, FS_RemoveElement
    <3> QED
      BY <3>3 DEF S, T
  <2>2. Used' = Used
    BY <1>1 DEF Used
  <2>3. ASSUME NEW x \in Foreigns PROVE Wrappers(x)' = Wrappers(x)
    BY <1>1 DEF Wrappers
  <2>4. cache' <=> cache_refs' # 0
    <3>1. cache' = (cache_refs # 1)
      BY <1>1
    <3>2. cache' <=> cache_refs # 1
      BY <3>1, Zenon
    <3> QED
      BY <1>1, <3>2 DEF CInv, CTypes
  <2> QED
    BY <1>1, <2>1, <2>2, <2>3, <2>4 DEF CInv, Books
<1> QED
  BY <1>6, <1>7, <1>8, <1>9, <1>10, <1>11, <1>12 DEF CInv

LEMMA InitCInv == Init => CInv
<1> SUFFICES ASSUME Init PROVE CInv
  OBVIOUS
<1>0. Cardinality({}) = 0
  BY FS_EmptySet
<1>1. CTypes
  <2>1. wq \in Seq(Items)
    BY EmptySeq DEF Init
  <2>2. cache_refs \in Int /\ module_refs \in Int
    BY DEF Init
  <2>7. cache \in BOOLEAN
    BY DEF Init
  <2>3. /\ ctx \in [Contexts -> {"none", "registering", "failing", "live", "freed"}]
        /\ kref \in [Contexts -> Int] /\ held \in [Contexts -> BOOLEAN]
    BY DEF Init
  <2>6. /\ fctx \in [Fences -> Contexts \cup {NoCtx}]
        /\ wraps \in [Fences -> Foreigns \cup {NoForeign}]
        /\ xrefs \in [Foreigns -> Int]
    BY DEF Init
  <2>4. /\ todo \in [Threads -> SUBSET Contexts]
        /\ nctx \in [Threads -> Contexts \cup {NoCtx}]
    BY DEF Init
  <2>5. registered \subseteq Contexts /\ job \in {"none", "check", "destroy"} /\ barrier \subseteq Fences
    BY DEF Init
  <2> QED
    BY <2>1, <2>2, <2>3, <2>4, <2>5, <2>6, <2>7 DEF CTypes
<1>2. ASSUME NEW c \in Contexts PROVE KrefExact(c)
  <2>1. Attached(c) = {}
    BY DEF Init, Attached
  <2> QED
    BY <1>0, <2>1 DEF Init, KrefExact, One
<1>3. \A f \in Fences : Home(f)
  BY DEF Init, Home
<1>4. QueueInv
  <2>1. Len(wq) = 0
    BY EmptySeq DEF Init
  <2> QED
    BY <2>1 DEF Init, QueueInv
<1>5. PlaceInv
  BY WorkerIs DEF Init, PlaceInv, Place, WorkerPlace, Reading
<1>6. FreeInv
  BY ThreadNames DEF Init, FreeInv, Destroyed, OnStack
<1>7. Books
  <2>1. LiveContexts = {} /\ Used = {}
    BY DEF Init, LiveContexts, Used
  <2>2. ASSUME NEW x \in Foreigns PROVE Wrappers(x) = {}
    BY AbsentAssumption DEF Init, Wrappers
  <2> QED
    BY <1>0, <2>1, <2>2 DEF Init, Books
<1> QED
  BY <1>1, <1>2, <1>3, <1>4, <1>5, <1>6, <1>7 DEF CInv

LEMMA NextCInv == IInv /\ CInv /\ [Next]_vars => CInv'
<1> SUFFICES ASSUME IInv, CInv, [Next]_vars PROVE CInv'
  OBVIOUS
<1>1. CASE Next
  BY <1>1, ContextSteps, FenceSteps, QuietForeign, ThreadSteps, TakeStep, UnregisterStep, TeardownStep
     DEF Next, WorkerRuns
<1>2. CASE UNCHANGED vars
  BY <1>2, Quiet DEF vars, fenceVars, xVars, threadVars
<1> QED
  BY <1>1, <1>2

(* The invariant about contexts holds throughout.                          *)
THEOREM ContextsAccounted == Spec => [](IInv /\ CInv)
<1>1. Init => IInv /\ CInv
  BY InitIInv, InitCInv
<1>2. IInv /\ CInv /\ [Next]_vars => (IInv /\ CInv)'
  BY NextIInv, NextCInv
<1> QED
  BY <1>1, <1>2, PTL DEF Spec

(* A context outlives every fence made on it, every work item about it and *)
(* every notifier in it; the slab cache outlives the fences; a dump finds  *)
(* the checkpoint and the foreign fence of what it walks; destroy_work     *)
(* finds no fence listed; and nothing is left over at the end.             *)
THEOREM ContextNeverDangles == Spec => []NothingDangles
<1>1. IInv /\ CInv => NothingDangles
  <2> SUFFICES ASSUME IInv, CInv PROVE NothingDangles
    OBVIOUS
  <2>1. CtxMemSafe
    <3>1. \A c \in Contexts : held[c] => ctx[c] = "live"
      BY DEF CInv, KrefExact
    <3>2. \A k \in 1..Len(wq) : ctx[wq[k].ctx] = "live"
      BY DEF CInv, QueueInv
    <3>3. \A c \in registered : ctx[c] \in {"registering", "failing", "live"}
      BY DEF CInv, PlaceInv
    <3>4. ASSUME NEW t \in Threads, nctx[t] # NoCtx
          PROVE  ctx[nctx[t]] \in {"registering", "failing", "live"}
      BY <3>4 DEF CInv, PlaceInv, Place, Reading, QueueInv
    <3>5. \A f \in Fences : mem[f] # "none" /\ rel[f] # "done" => ctx[fctx[f]] = "live"
      BY KeepsContext
    <3> QED
      BY <3>1, <3>2, <3>3, <3>4, <3>5 DEF CtxMemSafe
  <2>2. CacheOutlivesFences
    <3> SUFFICES ASSUME NEW f \in Fences, mem[f] \in {"used", "rcu"} PROVE cache
      BY DEF CacheOutlivesFences
    <3> DEFINE S == LiveContexts
    <3>1. fctx[f] \in S
      BY DEF CInv, Home, LiveContexts
    <3>2. IsFiniteSet(S)
      BY FiniteSubsets
    <3> HIDE DEF S
    <3>3. Cardinality(S) # 0
      BY <3>1, <3>2, FS_EmptySet
    <3> QED
      BY <3>3 DEF CInv, Books, S
  <2>3. DumpSafe
    <3>1. ASSUME NEW f \in Fences, fence_head[f] = "fence_list"
          PROVE  /\ checkpoint[f] \in {"active", "signalled"}
                 /\ IsNative(f) \/ xrefs[wraps[f]] > 0
      <4>1. rel[f] \in {"none", "entered"}
        BY <3>1 DEF IInv, FenceInv, Placed
      <4>2. CASE ~IsNative(f)
        <5> DEFINE S == Wrappers(wraps[f])
        <5>1. f \in S /\ wraps[f] \in Foreigns
          BY <4>1, <4>2 DEF Wrappers, IsNative, CInv, CTypes
        <5>2. IsFiniteSet(S) /\ Cardinality(S) \in Nat
          BY FiniteSubsets
        <5>3. xrefs[wraps[f]] = Cardinality(S)
          BY <5>1 DEF CInv, Books
        <5> HIDE DEF S
        <5>4. Cardinality(S) # 0
          BY <5>1, <5>2, FS_EmptySet
        <5>5. xrefs[wraps[f]] > 0
          BY <5>2, <5>3, <5>4
        <5> QED
          BY <3>1, <5>5 DEF CInv, Books
      <4> QED
        BY <3>1, <4>2 DEF CInv, Books
    <3>2. ASSUME NEW x \in Foreigns
          PROVE  xrefs[x] = Cardinality({f \in Fences : wraps[f] = x /\ rel[f] \in {"none", "entered", "moved"}})
      BY DEF CInv, Books, Wrappers
    <3> QED
      BY <3>1, <3>2 DEF DumpSafe
  <2>4. DestroyFindsNoFences
    <3> SUFFICES ASSUME pc[Worker] = "unregister", NEW f \in FencesOf(nctx[Worker])
                 PROVE  fence_head[f] \in {"none"} \cup Notifiers
      BY DEF DestroyFindsNoFences
    <3>1. f \in Fences /\ mem[f] # "none" /\ fctx[f] = nctx[Worker]
      BY DEF FencesOf
    <3>2. job = "destroy" /\ nctx[Worker] \in Contexts /\ kref[nctx[Worker]] = 0
      BY DEF CInv, PlaceInv, WorkerPlace, QueueInv
    <3>3. rel[f] = "done"
      BY <3>1, <3>2, NoReference
    <3>4. fence_head[f] # "deferred"
      BY <3>1, <3>2 DEF CInv, FreeInv, Destroyed, Destroys
    <3>5. fence_head[f] # "fence_list"
      BY <3>1, <3>3 DEF IInv, FenceInv, Placed
    <3>6. fence_head[f] # Worker
      BY <3>1, WorkerIs DEF CInv, FreeInv, OnStack
    <3> QED
      BY <3>1, <3>4, <3>5, <3>6 DEF IInv, Types, Threads
  <2>5. NothingLeaks
    BY DEF NothingLeaks, CInv, Home, Books, Used
  <2> QED
    BY <2>1, <2>2, <2>3, <2>4, <2>5 DEF NothingDangles
<1> QED
  BY <1>1, ContextsAccounted, PTL

UserTypes == users \in [Fences -> 0..MaxUserRefs]

LEMMA NextUserTypes == IInv /\ UserTypes /\ [Next]_vars => UserTypes'
<1> SUFFICES ASSUME IInv, UserTypes, [Next]_vars PROVE UserTypes'
  OBVIOUS
<1>0. MaxUserRefs \in Nat \ {0}
  BY BoundAssumption
<1>1. CASE UNCHANGED users
  BY <1>1 DEF UserTypes
<1>2. ASSUME NEW c \in Contexts, NEW f \in Fences, NEW x, NEW n, Born(c, f, x, n)
      PROVE  UserTypes'
  BY <1>0, <1>2 DEF UserTypes, Born
<1>3. ASSUME NEW f \in Fences, UserGet(f) PROVE UserTypes'
  BY <1>0, <1>3 DEF UserTypes, UserGet
<1>4. ASSUME NEW f \in Fences, UserPut(f) PROVE UserTypes'
  <2>1. users[f] > 0 /\ users' = [users EXCEPT ![f] = @ - 1]
    BY <1>4 DEF UserPut, IInv, Types
  <2> QED
    BY <1>0, <2>1 DEF UserTypes
<1>5. ASSUME NEW c \in Contexts, CtxNext(c)
      PROVE  \/ UNCHANGED users \/ \E f \in Fences, x \in Foreigns \cup {NoForeign}, n \in {1, 2} : Born(c, f, x, n)
  BY <1>5 DEF CtxNext, CtxRegister, CtxGetCache, CtxCacheFails, CtxUndo, OwnerPut, Create,
     CreateFromForeign, fenceVars
<1>6. ASSUME NEW f \in Fences, FenceNext(f) PROVE UNCHANGED users \/ UserGet(f) \/ UserPut(f)
  BY <1>6 DEF FenceNext, AddCallback, CbSignal, CbQueue, CbPut, EnableCheck, EnableAdd, Poll,
     CheckpointSignal, SwSignal, ReleaseMove, ReleaseForeign, ReleaseCtx, RcuCallback
<1>7. ASSUME NEW t \in Threads, NotifyBegin(t) \/ ThreadRuns(t) PROVE UNCHANGED users
  BY <1>7 DEF NotifyBegin, ThreadRuns, Visit, NotifyEnd, Scan, SignalOne, PutOne, SignalsDone, Grab,
     FreeOne, FreesDone, fenceVars
<1>8. WorkerRuns \/ (\E x \in Foreigns : ForeignSignal(x)) \/ UNCHANGED vars => UNCHANGED users
  BY DEF WorkerRuns, WorkerCheck, WorkerDestroy, Unregister, RcuBarrier, Teardown, ForeignSignal,
     vars, fenceVars
<1>9. UNCHANGED users
      \/ (\E c \in Contexts, f \in Fences, x \in Foreigns \cup {NoForeign}, n \in {1, 2} : Born(c, f, x, n))
      \/ \E f \in Fences : UserGet(f) \/ UserPut(f)
  BY <1>5, <1>6, <1>7, <1>8 DEF Next
<1> QED
  BY <1>1, <1>2, <1>3, <1>4, <1>9

ForeignTypes == xsignaled \in [Foreigns -> BOOLEAN]

LEMMA NextForeignTypes == ForeignTypes /\ [Next]_vars => ForeignTypes'
<1> SUFFICES ASSUME ForeignTypes, [Next]_vars PROVE ForeignTypes'
  OBVIOUS
<1>1. ASSUME NEW c \in Contexts, CtxNext(c) PROVE UNCHANGED xsignaled
  BY <1>1 DEF CtxNext, CtxRegister, CtxGetCache, CtxCacheFails, CtxUndo, OwnerPut, Create,
     CreateFromForeign, Born, xVars
<1>2. ASSUME NEW f \in Fences, FenceNext(f) PROVE UNCHANGED xsignaled
  BY <1>2 DEF FenceNext, AddCallback, CbSignal, CbQueue, CbPut, UserGet, UserPut, EnableCheck, EnableAdd,
     Poll, CheckpointSignal, SwSignal, ReleaseMove, ReleaseForeign, ReleaseCtx, RcuCallback, xVars
<1>3. ASSUME NEW t \in Threads, NotifyBegin(t) \/ ThreadRuns(t) PROVE UNCHANGED xsignaled
  BY <1>3 DEF NotifyBegin, ThreadRuns, Visit, NotifyEnd, Scan, SignalOne, PutOne, SignalsDone, Grab,
     FreeOne, FreesDone, xVars
<1>4. WorkerRuns \/ UNCHANGED vars => UNCHANGED xsignaled
  BY DEF WorkerRuns, WorkerCheck, WorkerDestroy, Unregister, RcuBarrier, Teardown, vars, xVars
<1>5. ASSUME NEW x \in Foreigns, ForeignSignal(x) PROVE ForeignTypes'
  BY <1>5 DEF ForeignTypes, ForeignSignal
<1>6. CASE UNCHANGED xsignaled
  BY <1>6 DEF ForeignTypes
<1> QED
  BY <1>1, <1>2, <1>3, <1>4, <1>5, <1>6 DEF Next

(* Types, and with them that no count ever goes below zero and that users  *)
(* keep within their bound.                                                *)
THEOREM TypeCorrect == Spec => []TypeOK
<1>1. Init => UserTypes /\ ForeignTypes
  BY BoundAssumption DEF Init, UserTypes, ForeignTypes
<1>2. IInv /\ CInv /\ UserTypes /\ ForeignTypes => TypeOK
  <2> SUFFICES ASSUME IInv, CInv, UserTypes, ForeignTypes PROVE TypeOK
    OBVIOUS
  <2>1. refcount \in [Fences -> Nat]
    <3>1. ASSUME NEW f \in Fences PROVE refcount[f] \in Nat
      BY DEF IInv, Types, FenceInv, Accounted, One
    <3> QED
      BY <3>1 DEF IInv, Types
  <2>2. kref \in [Contexts -> Nat]
    <3>1. ASSUME NEW c \in Contexts PROVE kref[c] \in Nat
      BY FiniteSubsets DEF CInv, KrefExact, One
    <3> QED
      BY <3>1 DEF CInv, CTypes
  <2>3. xrefs \in [Foreigns -> Nat]
    <3>1. ASSUME NEW x \in Foreigns PROVE xrefs[x] \in Nat
      BY FiniteSubsets DEF CInv, Books
    <3> QED
      BY <3>1 DEF CInv, CTypes
  <2>4. cache_refs \in Nat /\ module_refs \in Nat
    BY FiniteSubsets DEF CInv, Books
  <2>5. CTypes /\ Types
    BY DEF CInv, IInv
  <2> QED
    BY <2>1, <2>2, <2>3, <2>4, <2>5, Zenon DEF TypeOK, Types, CTypes, UserTypes, ForeignTypes
<1> QED
  BY <1>1, <1>2, NextUserTypes, NextForeignTypes, ContextsAccounted, Invariance, PTL DEF Spec
=============================================================================
