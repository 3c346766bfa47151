------------------------ MODULE PvrBufferSyncProofs -------------------------
(***************************************************************************)
(* Proofs about PvrBufferSync, for any number of jobs, contexts and        *)
(* buffers: its locks, the order of its works, the references on update    *)
(* fences and the size of the array of check fences.                       *)
(*                                                                         *)
(* Locks (LInv).  The invariant says of each job what it holds from where  *)
(* it is.  While the loop of pvr_buffer_sync_pmrs_lock runs, that is what  *)
(* the loop has passed, and the object of the slow path if the loop has    *)
(* yet to reach it; that it WILL reach it (Ahead) is what makes the job    *)
(* hold all and only its buffers when the loop ends.                       *)
(*                                                                         *)
(* Order (OInv).  Every published work that is not done is, on each buffer *)
(* it uses, behind a fence of the buffer's reservation object              *)
(* (AllCovered): its own, or that of a work which waits for it and has     *)
(* replaced its own.  So what a kick obtains at a buffer is enough to wait *)
(* for (Enough), and it stays enough until the kick runs, as nobody else   *)
(* may add a fence to a locked buffer and a checkpoint once signalled      *)
(* stays so.                                                               *)
(*                                                                         *)
(* References (RInv) and the array (FInv) rest on LInv and on what holds   *)
(* whatever fails (BInv): a fence that is there is of a published work,    *)
(* and a buffer has one fence of a work at most.                           *)
(***************************************************************************)
EXTENDS PvrBufferSync, FiniteSetTheorems, SequenceTheorems, TLAPS

\* An array of the append data.
IsArray(a) == Len(a) \in Nat /\ DOMAIN a = 1..Len(a)

LockTypes ==
  /\ pc \in [Jobs -> Labels]
  /\ DOMAIN req = Jobs /\ \A j \in Jobs : IsArray(req[j])
  /\ idx \in [Jobs -> Nat \ {0}]
  /\ ctx_lock \in [Ctxs -> Jobs \cup {NoJob}]
  /\ held \in [Exported -> Jobs \cup {NoJob}]
  /\ lresv \in [Jobs -> Exported \cup {NoPmr}]
  /\ cresv \in [Jobs -> Exported \cup {NoPmr}]

Mine(j) == {p \in Exported : held[p] = j}
AllOf(j) == {req[j][n].pmr : n \in DOMAIN req[j]}

CtxHeld == \A j \in Jobs : ctx_lock[CtxOf[j]] = j <=> pc[j] \notin Outside

\* What a job holds, by the place it is at.
Holds(j) ==
  /\ pc[j] \in Locking => Mine(j) = LockedSoFar(j)
  /\ pc[j] \in Holding => Mine(j) = AllOf(j)
  /\ pc[j] \notin Locking \cup Holding => Mine(j) = {}

\* The object of the slow path is one the loop has still to reach, so that none
\* is left over when the loop is through; the contended object is one of the
\* job's, too.
Ahead(j) ==
  /\ pc[j] \in Locking /\ lresv[j] # NoPmr =>
       \E n \in idx[j]..Len(req[j]) : req[j][n].pmr = lresv[j]
  /\ cresv[j] # NoPmr => \E n \in 1..Len(req[j]) : req[j][n].pmr = cresv[j]
  /\ pc[j] = "slow" => cresv[j] # NoPmr

\* Where the loops begin.
Fresh(j) ==
  /\ pc[j] \notin Locking => lresv[j] = NoPmr
  /\ pc[j] \in {"idle", "ctx_lock"} => cresv[j] = NoPmr
  /\ pc[j] \in {"idle", "ctx_lock", "slow"} => idx[j] = 1
  /\ pc[j] \in Locking => idx[j] <= Len(req[j]) + 1

Settled(j) == Holds(j) /\ Ahead(j) /\ Fresh(j)

LInv == LockTypes /\ CtxHeld /\ \A j \in Jobs : Settled(j)

USE DEF Locking, Holding, Outside, Labels

-----------------------------------------------------------------------------

\* The filter of duplicates yields an array.
LEMMA FilteredArray == ASSUME NEW r \in Requests PROVE IsArray(Filtered(r))
<1> DEFINE First == {i \in 1..Len(r) : \A k \in 1..(i - 1) : r[k].pmr # r[i].pmr}
           Nth(n) == CHOOSE i \in First : Cardinality({k \in First : k <= i}) = n
           N == Cardinality(First)
           F(n) == [pmr |-> r[Nth(n)].pmr,
                    write |-> \E k \in 1..Len(r) : r[k].pmr = r[Nth(n)].pmr /\ r[k].write]
<1>1. N \in Nat
  <2>1. r \in Seq(Access)
    BY BufferSyncAssumption
  <2>2. IsFiniteSet(1..Len(r))
    BY <2>1, FS_Interval
  <2>3. IsFiniteSet(First)
    BY <2>2, FS_Subset
  <2> QED
    BY <2>3, FS_CardinalityType
<1>2. Filtered(r) = [n \in 1..N |-> F(n)]
  BY DEF Filtered
<1> HIDE DEF N, F
<1>3. Filtered(r) \in Seq({F(n) : n \in 1..N})
  BY <1>1, <1>2
<1> QED
  BY <1>1, <1>2, <1>3 DEF IsArray

LEMMA InitInv == Init => LInv
<1> SUFFICES ASSUME Init PROVE LInv
  OBVIOUS
<1>1. IsArray(<< >>)
  BY DEF IsArray
<1>2. LockTypes
  BY <1>1 DEF Init, LockTypes
<1>3. \A j \in Jobs : Mine(j) = {}
  BY BufferSyncAssumption DEF Init, Mine
<1> QED
  BY <1>2, <1>3, BufferSyncAssumption DEF LInv, Init, CtxHeld, Settled, Holds, Ahead, Fresh

\* A step of one job that locks or unlocks for itself leaves the others settled.
LEMMA OthersSettled ==
  ASSUME LInv, NEW j \in Jobs, LockTypes', CtxHeld', Settled(j)',
         \A k \in Jobs \ {j} :
           /\ pc'[k] = pc[k] /\ idx'[k] = idx[k] /\ req'[k] = req[k]
           /\ lresv'[k] = lresv[k] /\ cresv'[k] = cresv[k],
         \A p \in Exported : held'[p] = held[p] \/ {held[p], held'[p]} \subseteq {NoJob, j}
  PROVE  LInv'
<1> SUFFICES ASSUME NEW k \in Jobs \ {j} PROVE Settled(k)'
  BY DEF LInv
<1>1. Mine(k)' = Mine(k)
  BY BufferSyncAssumption DEF Mine
<1>2. LockedSoFar(k)' = LockedSoFar(k) /\ AllOf(k)' = AllOf(k)
  BY DEF LockedSoFar, AllOf
<1>3. Settled(k)
  BY DEF LInv
<1>4. Holds(k)'
  BY <1>1, <1>2, <1>3 DEF Settled, Holds
<1> QED
  BY <1>3, <1>4 DEF Settled, Ahead, Fresh

\* A step that only moves a job which holds everything.
LEMMA StillHolding ==
  ASSUME LInv, NEW j \in Jobs, pc[j] \in Holding,
         \/ pc' = pc
         \/ \E l \in Holding : pc' = [pc EXCEPT ![j] = l],
         \/ idx' = idx
         \/ idx' = [idx EXCEPT ![j] = 1]
         \/ idx' = [idx EXCEPT ![j] = @ + 1],
         UNCHANGED <<req, lockVars>>
  PROVE  LInv'
<1>1. LockTypes'
  <2>1. pc' \in [Jobs -> Labels]
    BY DEF LInv, LockTypes
  <2>2. idx' \in [Jobs -> Nat \ {0}]
    BY DEF LInv, LockTypes
  <2> QED
    BY <2>1, <2>2 DEF LInv, LockTypes, lockVars
<1>2. CtxHeld'
  BY DEF LInv, LockTypes, CtxHeld, lockVars
<1>3. Mine(j)' = AllOf(j)'
  BY DEF LInv, Settled, Holds, Mine, AllOf, lockVars
<1>4. pc'[j] \in Holding
  BY DEF LInv, LockTypes
<1>5. Settled(j)'
  BY <1>3, <1>4 DEF LInv, LockTypes, Settled, Holds, Ahead, Fresh, lockVars
<1> QED
  BY <1>1, <1>2, <1>5, OthersSettled DEF LInv, LockTypes, lockVars

\* The mutex of a context goes with the job that held it.
LEMMA CtxReleased ==
  ASSUME LInv, NEW j \in Jobs, pc[j] \notin Outside, pc'[j] \in Outside,
         \A k \in Jobs \ {j} : pc'[k] = pc[k],
         ctx_lock' = [ctx_lock EXCEPT ![CtxOf[j]] = NoJob]
  PROVE  CtxHeld'
<1> SUFFICES ASSUME NEW k \in Jobs
             PROVE  ctx_lock'[CtxOf[k]] = k <=> pc'[k] \notin Outside
  BY DEF CtxHeld
<1>1. CtxOf[k] \in Ctxs /\ CtxOf[j] \in Ctxs /\ k # NoJob
  BY BufferSyncAssumption
<1>2. /\ ctx_lock[CtxOf[k]] = k <=> pc[k] \notin Outside
      /\ ctx_lock[CtxOf[j]] = j
  BY DEF LInv, CtxHeld
<1> QED
  BY <1>1, <1>2 DEF LInv, LockTypes

\* pvr_buffer_sync_pmrs_unlock
LEMMA Unlocked ==
  ASSUME LInv, NEW j \in Jobs, pc[j] \in Holding,
         NEW l \in {"failed", "destroy"}, pc' = [pc EXCEPT ![j] = l],
         held' = [p \in Exported |-> IF held[p] = j THEN NoJob ELSE held[p]],
         ctx_lock' = [ctx_lock EXCEPT ![CtxOf[j]] = NoJob],
         UNCHANGED <<req, idx, lresv, cresv>>
  PROVE  LInv'
<1>1. LockTypes'
  BY DEF LInv, LockTypes
<1>2. CtxHeld'
  BY CtxReleased DEF LInv, LockTypes
<1>3. Mine(j)' = {}
  BY BufferSyncAssumption DEF Mine
<1>4. Settled(j)'
  BY <1>3 DEF LInv, LockTypes, Settled, Holds, Ahead, Fresh
<1> QED
  BY <1>1, <1>2, <1>4, OthersSettled DEF LInv, LockTypes

LEMMA ResolveInv == ASSUME LInv, NEW j \in Jobs, Resolve(j) PROVE LInv'
<1>1. PICK r \in Requests : req' = [req EXCEPT ![j] = Filtered(r)]
  BY DEF Resolve
<1>2. /\ pc' = [pc EXCEPT ![j] = "ctx_lock"] /\ pc[j] = "idle"
      /\ UNCHANGED <<idx, lockVars>>
  BY DEF Resolve, At, Goto
<1>3. LockTypes'
  BY <1>1, <1>2, FilteredArray DEF LInv, LockTypes, lockVars
<1>4. CtxHeld'
  BY <1>2 DEF LInv, LockTypes, CtxHeld, lockVars
<1>5. Settled(j)'
  BY <1>2 DEF LInv, LockTypes, Settled, Holds, Ahead, Fresh, Mine, lockVars
<1> QED
  BY <1>1, <1>2, <1>3, <1>4, <1>5, OthersSettled DEF LInv, LockTypes, lockVars

LEMMA LockCtxInv == ASSUME LInv, NEW j \in Jobs, LockCtx(j) PROVE LInv'
<1>1. /\ pc' = [pc EXCEPT ![j] = "lock"] /\ pc[j] = "ctx_lock"
      /\ ctx_lock[CtxOf[j]] = NoJob /\ ctx_lock' = [ctx_lock EXCEPT ![CtxOf[j]] = j]
      /\ UNCHANGED <<req, idx, held, lresv, cresv>>
  BY DEF LockCtx, At, Goto
<1>2. LockTypes'
  BY <1>1 DEF LInv, LockTypes
<1>3. CtxHeld'
  <2> SUFFICES ASSUME NEW k \in Jobs
               PROVE  ctx_lock'[CtxOf[k]] = k <=> pc'[k] \notin Outside
    BY DEF CtxHeld
  <2>1. CtxOf[k] \in Ctxs /\ CtxOf[j] \in Ctxs /\ k # NoJob
    BY BufferSyncAssumption
  <2>2. ctx_lock[CtxOf[k]] = k <=> pc[k] \notin Outside
    BY DEF LInv, CtxHeld
  <2> QED
    BY <1>1, <2>1, <2>2 DEF LInv, LockTypes
<1>4. Settled(j)'
  <2>1. Mine(j) = {} /\ lresv[j] = NoPmr /\ cresv[j] = NoPmr /\ idx[j] = 1
    BY <1>1 DEF LInv, LockTypes, Settled, Holds, Fresh
  <2>2. Mine(j)' = {} /\ LockedSoFar(j)' = {}
    BY <1>1, <2>1 DEF Mine, LockedSoFar
  <2> QED
    BY <1>1, <2>1, <2>2 DEF LInv, LockTypes, Settled, Holds, Ahead, Fresh, IsArray
<1> QED
  BY <1>1, <1>2, <1>3, <1>4, OthersSettled DEF LInv, LockTypes

LEMMA LockResvInv == ASSUME LInv, NEW j \in Jobs, LockResv(j) PROVE LInv'
<1> DEFINE p == Here(j)
<1>1. /\ pc' = pc /\ pc[j] = "lock" /\ p \in Exported
      /\ p = req[j][idx[j]].pmr /\ idx[j] <= Len(req[j])
      /\ idx' = [idx EXCEPT ![j] = @ + 1]
      /\ UNCHANGED <<req, ctx_lock, cresv>>
  BY DEF LockResv, At, Step, InLoop, Here
<1>2. p = lresv[j] => lresv' = [lresv EXCEPT ![j] = NoPmr] /\ held' = held
  BY DEF LockResv
<1>3. p # lresv[j] => held[p] = NoJob /\ held' = [held EXCEPT ![p] = j] /\ lresv' = lresv
  BY DEF LockResv
<1> HIDE DEF p
<1>4. LockTypes'
  <2>1. idx' \in [Jobs -> Nat \ {0}]
    BY <1>1 DEF LInv, LockTypes
  <2>2. held' \in [Exported -> Jobs \cup {NoJob}] /\ lresv' \in [Jobs -> Exported \cup {NoPmr}]
    BY <1>1, <1>2, <1>3 DEF LInv, LockTypes
  <2> QED
    BY <1>1, <2>1, <2>2 DEF LInv, LockTypes
<1>5. CtxHeld'
  BY <1>1 DEF LInv, CtxHeld
<1>6. Holds(j)'
  <2>1. Mine(j) = LockedSoFar(j)
    BY <1>1 DEF LInv, Settled, Holds
  <2>2. Mine(j)' = Mine(j) \cup {p}
    <3>1. CASE p = lresv[j]
      <4>1. p \in LockedSoFar(j)
        BY <3>1, <1>1, BufferSyncAssumption DEF LockedSoFar
      <4> QED
        BY <3>1, <4>1, <2>1, <1>2 DEF Mine
    <3>2. CASE p # lresv[j]
      BY <3>2, <1>1, <1>3 DEF Mine, LInv, LockTypes
    <3> QED
      BY <3>1, <3>2
  <2>3. LockedSoFar(j)' = LockedSoFar(j) \cup {p}
    <3>1. 1..(idx'[j] - 1) = (1..(idx[j] - 1)) \cup {idx[j]}
      BY <1>1 DEF LInv, LockTypes
    <3>2. {req'[j][n].pmr : n \in 1..(idx'[j] - 1)} = {req[j][n].pmr : n \in 1..(idx[j] - 1)} \cup {p}
      BY <3>1, <1>1
    <3>3. lresv'[j] = IF p = lresv[j] THEN NoPmr ELSE lresv[j]
      BY <1>2, <1>3 DEF LInv, LockTypes
    <3> QED
      BY <3>2, <3>3 DEF LockedSoFar
  <2> QED
    BY <1>1, <2>1, <2>2, <2>3 DEF Holds
<1>7. Ahead(j)'
  <2>1. lresv'[j] # NoPmr => p # lresv[j] /\ lresv'[j] = lresv[j]
    BY <1>2, <1>3 DEF LInv, LockTypes
  <2>2. lresv'[j] # NoPmr => \E n \in (idx[j] + 1)..Len(req[j]) : req[j][n].pmr = lresv[j]
    BY <1>1, <2>1 DEF LInv, LockTypes, Settled, Ahead, IsArray
  <2>3. idx'[j] = idx[j] + 1
    BY <1>1 DEF LInv, LockTypes
  <2> QED
    BY <1>1, <2>1, <2>2, <2>3 DEF LInv, Settled, Ahead
<1>8. Fresh(j)'
  BY <1>1 DEF LInv, LockTypes, Settled, Fresh, IsArray
<1>9. \A q \in Exported : held'[q] = held[q] \/ {held[q], held'[q]} \subseteq {NoJob, j}
  BY <1>1, <1>2, <1>3 DEF LInv, LockTypes
<1>10. \A k \in Jobs \ {j} : idx'[k] = idx[k] /\ lresv'[k] = lresv[k]
  BY <1>1, <1>2, <1>3 DEF LInv, LockTypes
<1> QED
  BY <1>1, <1>4, <1>5, <1>6, <1>7, <1>8, <1>9, <1>10, OthersSettled DEF Settled

LEMMA LockFailsInv == ASSUME LInv, NEW j \in Jobs, LockFails(j) PROVE LInv'
<1>1. /\ pc[j] = "lock" /\ pc' = [pc EXCEPT ![j] = "fail"] /\ UNCHANGED <<req, idx, lockVars>>
  BY DEF LockFails, At, Goto
<1>2. LockTypes'
  BY <1>1 DEF LInv, LockTypes, lockVars
<1>3. CtxHeld'
  BY <1>1 DEF LInv, LockTypes, CtxHeld, lockVars
<1>4. Mine(j)' = Mine(j) /\ LockedSoFar(j)' = LockedSoFar(j)
  BY <1>1 DEF Mine, LockedSoFar, lockVars
<1>5. Settled(j)'
  BY <1>1, <1>4 DEF LInv, LockTypes, Settled, Holds, Ahead, Fresh, lockVars
<1> QED
  BY <1>1, <1>2, <1>3, <1>5, OthersSettled DEF LInv, LockTypes, lockVars

LEMMA LockDiesInv == ASSUME LInv, NEW j \in Jobs, LockDies(j) PROVE LInv'
<1>1. /\ pc[j] = "lock" /\ pc' = [pc EXCEPT ![j] = "fail"]
      /\ Here(j) \in Exported /\ InLoop(j) /\ cresv' = [cresv EXCEPT ![j] = Here(j)]
      /\ UNCHANGED <<req, idx, ctx_lock, held, lresv>>
  BY DEF LockDies, At, Goto
<1>2. LockTypes'
  BY <1>1 DEF LInv, LockTypes
<1>3. CtxHeld'
  BY <1>1 DEF LInv, LockTypes, CtxHeld
<1>4. Mine(j)' = Mine(j) /\ LockedSoFar(j)' = LockedSoFar(j)
  BY <1>1 DEF Mine, LockedSoFar
<1>5. Holds(j)' /\ Fresh(j)'
  BY <1>1, <1>4 DEF LInv, LockTypes, Settled, Holds, Fresh
<1>6. Ahead(j)'
  <2>1. idx[j] \in 1..Len(req[j]) /\ req[j][idx[j]].pmr = cresv'[j]
    BY <1>1 DEF LInv, LockTypes, IsArray, InLoop, Here
  <2> QED
    BY <1>1, <2>1 DEF LInv, LockTypes, Settled, Ahead
<1> QED
  BY <1>1, <1>2, <1>3, <1>5, <1>6, OthersSettled DEF LInv, LockTypes, Settled

LEMMA LockUnwindInv == ASSUME LInv, NEW j \in Jobs, LockUnwind(j) PROVE LInv'
<1>1. /\ pc[j] = "fail"
      /\ pc' = [pc EXCEPT ![j] = IF cresv[j] # NoPmr THEN "slow" ELSE "give_up"]
      /\ held' = [p \in Exported |-> IF p \in LockedSoFar(j) THEN NoJob ELSE held[p]]
      /\ idx' = [idx EXCEPT ![j] = 1] /\ lresv' = [lresv EXCEPT ![j] = NoPmr]
      /\ UNCHANGED <<req, ctx_lock, cresv>>
  BY DEF LockUnwind, At, Goto, Rewind
<1>2. Mine(j) = LockedSoFar(j)
  BY <1>1 DEF LInv, Settled, Holds
<1>3. LockTypes'
  BY <1>1 DEF LInv, LockTypes
<1>4. CtxHeld'
  BY <1>1 DEF LInv, LockTypes, CtxHeld
<1>5. Settled(j)'
  <2>1. Mine(j)' = {}
    BY <1>1, <1>2, BufferSyncAssumption DEF Mine
  <2> QED
    BY <1>1, <2>1 DEF LInv, LockTypes, Settled, Holds, Ahead, Fresh
<1>6. \A p \in Exported : held'[p] = held[p] \/ {held[p], held'[p]} \subseteq {NoJob, j}
  BY <1>1, <1>2 DEF Mine
<1> QED
  BY <1>1, <1>3, <1>4, <1>5, <1>6, OthersSettled DEF LInv, LockTypes

LEMMA LockSlowInv == ASSUME LInv, NEW j \in Jobs, LockSlow(j) PROVE LInv'
<1>1. /\ pc[j] = "slow" /\ cresv' = [cresv EXCEPT ![j] = NoPmr]
      /\ UNCHANGED <<req, idx, ctx_lock>>
  BY DEF LockSlow, At
<1>2. /\ cresv[j] \in Exported /\ lresv[j] = NoPmr /\ idx[j] = 1 /\ Mine(j) = {}
      /\ \E n \in 1..Len(req[j]) : req[j][n].pmr = cresv[j]
  BY <1>1 DEF LInv, LockTypes, Settled, Holds, Ahead, Fresh
<1>3. CASE /\ held[cresv[j]] = NoJob /\ held' = [held EXCEPT ![cresv[j]] = j]
           /\ lresv' = [lresv EXCEPT ![j] = cresv[j]] /\ pc' = [pc EXCEPT ![j] = "lock"]
  <2>1. LockTypes'
    BY <1>1, <1>2, <1>3 DEF LInv, LockTypes
  <2>2. CtxHeld'
    BY <1>1, <1>3 DEF LInv, LockTypes, CtxHeld
  <2>3. Mine(j)' = {cresv[j]}
    BY <1>2, <1>3 DEF LInv, LockTypes, Mine
  <2>4. lresv'[j] = cresv[j] /\ pc'[j] = "lock" /\ idx'[j] = 1 /\ cresv'[j] = NoPmr
    BY <1>1, <1>2, <1>3 DEF LInv, LockTypes
  <2>5. LockedSoFar(j)' = {cresv[j]}
    BY <1>2, <2>4, BufferSyncAssumption DEF LockedSoFar
  <2>6. Ahead(j)'
    BY <1>1, <1>2, <2>4 DEF Ahead
  <2>7. Settled(j)'
    BY <1>1, <2>3, <2>4, <2>5, <2>6 DEF LInv, LockTypes, Settled, Holds, Fresh, IsArray
  <2>8. \A p \in Exported : held'[p] = held[p] \/ {held[p], held'[p]} \subseteq {NoJob, j}
    BY <1>3 DEF LInv, LockTypes
  <2> QED
    BY <1>1, <1>3, <2>1, <2>2, <2>7, <2>8, OthersSettled DEF LInv, LockTypes
<1>4. CASE pc' = [pc EXCEPT ![j] = "give_up"] /\ UNCHANGED <<held, lresv>>
  <2>1. LockTypes'
    BY <1>1, <1>2, <1>4 DEF LInv, LockTypes
  <2>2. CtxHeld'
    BY <1>1, <1>4 DEF LInv, LockTypes, CtxHeld
  <2>3. Settled(j)'
    BY <1>1, <1>2, <1>4 DEF LInv, LockTypes, Settled, Holds, Ahead, Fresh, Mine
  <2> QED
    BY <1>1, <1>4, <2>1, <2>2, <2>3, OthersSettled DEF LInv, LockTypes
<1> QED
  BY <1>3, <1>4 DEF LockSlow, Goto

LEMMA GiveUpInv == ASSUME LInv, NEW j \in Jobs, GiveUp(j) PROVE LInv'
<1>1. /\ pc[j] = "give_up" /\ pc' = [pc EXCEPT ![j] = "failed"]
      /\ ctx_lock' = [ctx_lock EXCEPT ![CtxOf[j]] = NoJob]
      /\ UNCHANGED <<req, idx, held, lresv, cresv>>
  BY DEF GiveUp, Fini, At, Goto
<1>2. LockTypes'
  BY <1>1 DEF LInv, LockTypes
<1>3. CtxHeld'
  BY <1>1, CtxReleased DEF LInv, LockTypes
<1>4. Settled(j)'
  BY <1>1 DEF LInv, LockTypes, Settled, Holds, Ahead, Fresh, Mine
<1> QED
  BY <1>1, <1>2, <1>3, <1>4, OthersSettled DEF LInv, LockTypes

LEMMA LockDoneInv == ASSUME LInv, NEW j \in Jobs, LockDone(j) PROVE LInv'
<1>1. /\ pc[j] = "lock" /\ idx[j] > Len(req[j]) /\ pc' = [pc EXCEPT ![j] = "count"]
      /\ idx' = [idx EXCEPT ![j] = 1] /\ UNCHANGED <<req, lockVars>>
  BY DEF LockDone, At, Goto, Rewind, InLoop, LInv, LockTypes, IsArray
<1>2. LockTypes'
  BY <1>1 DEF LInv, LockTypes, lockVars
<1>3. CtxHeld'
  BY <1>1 DEF LInv, LockTypes, CtxHeld, lockVars
<1>4. lresv[j] = NoPmr /\ idx[j] - 1 = Len(req[j])
  BY <1>1 DEF LInv, LockTypes, Settled, Ahead, Fresh, IsArray
<1>5. Mine(j)' = AllOf(j)'
  <2>1. Mine(j) = LockedSoFar(j)
    BY <1>1 DEF LInv, Settled, Holds
  <2>2. LockedSoFar(j) = AllOf(j)
    BY <1>4 DEF LInv, LockTypes, IsArray, LockedSoFar, AllOf
  <2> QED
    BY <1>1, <2>1, <2>2 DEF Mine, AllOf, lockVars
<1>6. Settled(j)'
  BY <1>1, <1>4, <1>5 DEF LInv, LockTypes, Settled, Holds, Ahead, Fresh, lockVars
<1> QED
  BY <1>1, <1>2, <1>3, <1>6, OthersSettled DEF LInv, LockTypes, lockVars

LEMMA ErrUnlockInv == ASSUME LInv, NEW j \in Jobs, ErrUnlock(j) PROVE LInv'
<1>1. /\ pc[j] = "err_unlock" /\ pc' = [pc EXCEPT ![j] = "failed"]
      /\ held' = [p \in Exported |-> IF held[p] = j THEN NoJob ELSE held[p]]
      /\ ctx_lock' = [ctx_lock EXCEPT ![CtxOf[j]] = NoJob]
      /\ UNCHANGED <<req, idx, lresv, cresv>>
  BY DEF ErrUnlock, UnlockPmrs, Release, Fini, At, Goto
<1> QED
  BY <1>1, Unlocked

LEMMA PutExtraInv == ASSUME LInv, NEW j \in Jobs, PutExtra(j) PROVE LInv'
<1>1. /\ pc[j] = "put_extra" /\ pc' = [pc EXCEPT ![j] = "destroy"]
      /\ held' = [p \in Exported |-> IF held[p] = j THEN NoJob ELSE held[p]]
      /\ ctx_lock' = [ctx_lock EXCEPT ![CtxOf[j]] = NoJob]
      /\ UNCHANGED <<req, idx, lresv, cresv>>
  BY DEF PutExtra, UnlockPmrs, Release, Fini, At, Goto
<1> QED
  BY <1>1, Unlocked

LEMMA DestroyInv == ASSUME LInv, NEW j \in Jobs, Destroy(j) PROVE LInv'
<1>1. /\ pc[j] = "destroy" /\ UNCHANGED <<req, idx, lockVars>>
      /\ pc' = [pc EXCEPT ![j] = IF stage[j] = "none" THEN "failed" ELSE "succeeded"]
  BY DEF Destroy, At, Goto
<1>2. LockTypes'
  BY <1>1 DEF LInv, LockTypes, lockVars
<1>3. CtxHeld'
  BY <1>1 DEF LInv, LockTypes, CtxHeld, lockVars
<1>4. Settled(j)'
  BY <1>1 DEF LInv, LockTypes, Settled, Holds, Ahead, Fresh, Mine, lockVars
<1> QED
  BY <1>1, <1>2, <1>3, <1>4, OthersSettled DEF LInv, LockTypes, lockVars

LEMMA CountFencesInv == ASSUME LInv, NEW j \in Jobs, CountFences(j) PROVE LInv'
  BY StillHolding DEF CountFences, At, Goto, Step, Rewind, lockVars

LEMMA AllocFencesInv == ASSUME LInv, NEW j \in Jobs, AllocFences(j) PROVE LInv'
  BY StillHolding DEF AllocFences, At, Goto, Step, Rewind, lockVars

LEMMA GetFencesInv == ASSUME LInv, NEW j \in Jobs, GetFences(j) PROVE LInv'
  BY StillHolding DEF GetFences, At, Goto, Step, Rewind, lockVars

LEMMA CheckFenceInv == ASSUME LInv, NEW j \in Jobs, CheckFence(j) PROVE LInv'
  BY StillHolding DEF CheckFence, At, Goto, Step, Rewind, lockVars

LEMMA CheckFenceFailsInv == ASSUME LInv, NEW j \in Jobs, CheckFenceFails(j) PROVE LInv'
  BY StillHolding DEF CheckFenceFails, At, Goto, Step, Rewind, lockVars

LEMMA WaitFenceInv == ASSUME LInv, NEW j \in Jobs, WaitFence(j) PROVE LInv'
  BY StillHolding DEF WaitFence, At, Goto, Step, Rewind, lockVars

LEMMA NextResvInv == ASSUME LInv, NEW j \in Jobs, NextResv(j) PROVE LInv'
  BY StillHolding DEF NextResv, At, Goto, Step, Rewind, lockVars

LEMMA GetCheckpointsInv == ASSUME LInv, NEW j \in Jobs, GetCheckpoints(j) PROVE LInv'
  BY StillHolding DEF GetCheckpoints, At, Goto, Step, Rewind, lockVars

LEMMA CreateUpdateInv == ASSUME LInv, NEW j \in Jobs, CreateUpdate(j) PROVE LInv'
  BY StillHolding DEF CreateUpdate, At, Goto, Step, Rewind, lockVars

LEMMA ErrDestroyInv == ASSUME LInv, NEW j \in Jobs, ErrDestroy(j) PROVE LInv'
  BY StillHolding DEF ErrDestroy, At, Goto, Step, Rewind, lockVars

LEMMA KickInv == ASSUME LInv, NEW j \in Jobs, Kick(j) PROVE LInv'
  BY StillHolding DEF Kick, At, Goto, Step, Rewind, lockVars

LEMMA KickFailsInv == ASSUME LInv, NEW j \in Jobs, KickFails(j) PROVE LInv'
  BY StillHolding DEF KickFails, At, Goto, Step, Rewind, lockVars

LEMMA KickSucceededInv == ASSUME LInv, NEW j \in Jobs, KickSucceeded(j) PROVE LInv'
  BY StillHolding DEF KickSucceeded, At, Goto, Step, Rewind, lockVars

LEMMA AddFenceInv == ASSUME LInv, NEW j \in Jobs, AddFence(j) PROVE LInv'
  BY StillHolding DEF AddFence, At, Goto, Step, Rewind, lockVars

LEMMA AddDoneInv == ASSUME LInv, NEW j \in Jobs, AddDone(j) PROVE LInv'
  BY StillHolding DEF AddDone, At, Goto, Step, Rewind, lockVars

\* The GPU and other drivers move no job.
LEMMA OutsideInv ==
  ASSUME LInv, UNCHANGED <<pc, req, idx, lockVars>> PROVE LInv'
<1>1. LockTypes' /\ CtxHeld'
  BY DEF LInv, LockTypes, CtxHeld, lockVars
<1>2. ASSUME NEW j \in Jobs PROVE Settled(j)'
  BY DEF LInv, Settled, Holds, Ahead, Fresh, Mine, LockedSoFar, AllOf, lockVars
<1> QED
  BY <1>1, <1>2 DEF LInv

LEMMA StepInv == LInv /\ [Next]_vars => LInv'
<1> SUFFICES ASSUME LInv, [Next]_vars PROVE LInv'
  OBVIOUS
<1>1. ASSUME NEW j \in Jobs, LockStep(j) PROVE LInv'
  BY <1>1, ResolveInv, LockCtxInv, LockResvInv, LockFailsInv, LockDiesInv,
     LockUnwindInv, LockSlowInv, GiveUpInv, LockDoneInv DEF LockStep
<1>2. ASSUME NEW j \in Jobs, CheckStep(j) PROVE LInv'
  BY <1>2, CountFencesInv, AllocFencesInv, GetFencesInv, CheckFenceInv,
     CheckFenceFailsInv, WaitFenceInv, NextResvInv, GetCheckpointsInv,
     CreateUpdateInv, ErrDestroyInv, ErrUnlockInv DEF CheckStep
<1>3. ASSUME NEW j \in Jobs, KickStep(j) PROVE LInv'
  BY <1>3, KickInv, KickFailsInv, KickSucceededInv, AddFenceInv, AddDoneInv,
     PutExtraInv, DestroyInv DEF KickStep
<1>4. ASSUME NEW j \in Jobs, GpuStep(j) PROVE LInv'
  BY <1>4, OutsideInv DEF GpuStep, Start, Finish, Notice
<1>5. ASSUME NEW w \in Foreign, ForeignStep(w) PROVE LInv'
  BY <1>5, OutsideInv DEF ForeignStep, ForeignPublish, ForeignStart, ForeignFinish
<1>6. CASE UNCHANGED vars
  BY <1>6, OutsideInv DEF vars
<1> QED
  BY <1>1, <1>2, <1>3, <1>4, <1>5, <1>6 DEF Next

LEMMA InvBalances == LInv => LocksBalanced
<1> SUFFICES ASSUME LInv, NEW j \in Jobs
             PROVE  /\ Mine(j) = CASE pc[j] \in Locking -> LockedSoFar(j)
                                   [] pc[j] \in Holding -> AllOf(j)
                                   [] OTHER -> {}
                    /\ ctx_lock[CtxOf[j]] = j <=> pc[j] \notin Outside
  BY DEF LocksBalanced, Mine, AllOf
<1> QED
  BY DEF LInv, CtxHeld, Settled, Holds, LockTypes

\* Whatever number of kicks want whatever buffers in whatever order, and
\* whatever fails: pvr_buffer_sync_pmrs_lock leaves a kick with all its locks or
\* none, with the object of the slow path neither lost nor left locked, and
\* every way out unlocks what was locked.
THEOREM LocksAlwaysBalanced == Spec => []LocksBalanced
<1>1. Init => LInv
  BY InitInv
<1>2. LInv /\ [Next]_vars => LInv'
  BY StepInv
<1>3. LInv => LocksBalanced
  BY InvBalances
<1> QED
  BY <1>1, <1>2, <1>3, PTL DEF Spec

-----------------------------------------------------------------------------
(* The promise: what every behaviour of ImplicitSync is worth.             *)

Stages == {"none", "queued", "running", "done"}
Published(w) == stage[w] # "none"

OrderTypes ==
  /\ uses \in [Works -> Promise!Uses]
  /\ before \in [Works -> SUBSET Works]
  /\ stage \in [Works -> Stages]

\* Publication is a total order: of two works one came before the other, and
\* nothing comes after a work that is not published.
Ordered ==
  \A v, w \in Works :
    /\ v \in before[w] => Published(v) /\ Published(w) /\ w \notin before[v]
    /\ v # w /\ Published(v) /\ Published(w) => v \in before[w] \/ w \in before[v]

\* A work that runs, or has run, found its earlier conflicts done.
WaitedFor ==
  \A w \in Works : stage[w] \in {"running", "done"} =>
    \A v \in before[w] : Promise!Conflict(v, w) => stage[v] = "done"

PromiseInv == OrderTypes /\ Ordered /\ WaitedFor

USE DEF Stages, Published

LEMMA PromiseInitInv == Promise!AbsInit => PromiseInv
  BY DEF Promise!AbsInit, Promise!NoUse, Promise!Uses, PromiseInv, OrderTypes, Ordered, WaitedFor

\* What publication changes.
LEMMA Publication ==
  ASSUME OrderTypes, NEW w \in Works, NEW u \in Promise!Uses, stage[w] = "none", Publish(w, u)
  PROVE  /\ OrderTypes'
         /\ stage'[w] = "queued" /\ uses'[w] = u
         /\ before'[w] = {v \in Works : Published(v)}
         /\ \A v \in Works \ {w} :
              stage'[v] = stage[v] /\ before'[v] = before[v] /\ uses'[v] = uses[v]
  BY DEF OrderTypes, Publish

LEMMA PublishKeeps ==
  ASSUME PromiseInv, NEW w \in Works, NEW u \in Promise!Uses, stage[w] = "none", Publish(w, u)
  PROVE  PromiseInv'
<1>1. /\ OrderTypes' /\ stage'[w] = "queued"
      /\ before'[w] = {v \in Works : Published(v)}
      /\ \A v \in Works \ {w} :
           stage'[v] = stage[v] /\ before'[v] = before[v] /\ uses'[v] = uses[v]
  BY Publication DEF PromiseInv
<1>2. \A v \in Works : w \notin before[v]
  BY DEF PromiseInv, Ordered
<1>3. Ordered'
  <2> SUFFICES ASSUME NEW v \in Works, NEW x \in Works
               PROVE  /\ v \in before'[x] => stage'[v] # "none" /\ stage'[x] # "none" /\ x \notin before'[v]
                      /\ v # x /\ stage'[v] # "none" /\ stage'[x] # "none"
                           => v \in before'[x] \/ x \in before'[v]
    BY DEF Ordered
  <2>1. CASE x = w
    BY <2>1, <1>1, <1>2
  <2>2. CASE x # w /\ v = w
    BY <2>2, <1>1, <1>2
  <2>3. CASE x # w /\ v # w
    BY <2>3, <1>1 DEF PromiseInv, Ordered
  <2> QED
    BY <2>1, <2>2, <2>3
<1>4. WaitedFor'
  <2> SUFFICES ASSUME NEW x \in Works, stage'[x] \in {"running", "done"},
                      NEW v \in before'[x], Promise!Conflict(v, x)'
               PROVE  stage'[v] = "done"
    BY DEF WaitedFor
  <2>1. x # w
    BY <1>1
  <2>2. v \in before[x] /\ v # w /\ v \in Works
    BY <2>1, <1>1, <1>2 DEF PromiseInv, OrderTypes
  <2>3. Promise!Conflict(v, x)
    BY <2>1, <2>2, <1>1 DEF Promise!Conflict
  <2> QED
    BY <2>1, <2>2, <2>3, <1>1 DEF PromiseInv, WaitedFor
<1> QED
  BY <1>1, <1>3, <1>4 DEF PromiseInv

LEMMA StartKeeps ==
  ASSUME PromiseInv, NEW w \in Works, Promise!AbsStart(w) PROVE PromiseInv'
<1>1. OrderTypes' /\ Ordered'
  BY DEF PromiseInv, OrderTypes, Ordered, Promise!AbsStart
<1>2. WaitedFor'
  <2> SUFFICES ASSUME NEW x \in Works, stage'[x] \in {"running", "done"},
                      NEW v \in before[x], Promise!Conflict(v, x)
               PROVE  stage'[v] = "done"
    BY DEF WaitedFor, Promise!AbsStart, Promise!Conflict
  <2>1. v \in Works
    BY DEF PromiseInv, OrderTypes
  <2>2. stage[v] = "done"
    BY DEF PromiseInv, OrderTypes, WaitedFor, Promise!AbsStart
  <2> QED
    BY <2>1, <2>2 DEF PromiseInv, OrderTypes, Promise!AbsStart
<1> QED
  BY <1>1, <1>2 DEF PromiseInv

LEMMA FinishKeeps ==
  ASSUME PromiseInv, NEW w \in Works, Promise!AbsFinish(w) PROVE PromiseInv'
<1>1. OrderTypes' /\ Ordered'
  BY DEF PromiseInv, OrderTypes, Ordered, Promise!AbsFinish
<1>2. WaitedFor'
  BY DEF PromiseInv, OrderTypes, WaitedFor, Promise!AbsFinish, Promise!Conflict
<1> QED
  BY <1>1, <1>2 DEF PromiseInv

LEMMA QuietKeeps ==
  ASSUME PromiseInv, UNCHANGED workVars PROVE PromiseInv'
  BY DEF PromiseInv, OrderTypes, Ordered, WaitedFor, Promise!Conflict, workVars

LEMMA PromiseStepInv ==
  ASSUME PromiseInv, [Promise!AbsNext]_(Promise!absVars) PROVE PromiseInv'
<1>1. ASSUME NEW w \in Works, Promise!AbsPublish(w) PROVE PromiseInv'
  BY <1>1, PublishKeeps DEF Promise!AbsPublish, Publish
<1>2. CASE UNCHANGED Promise!absVars
  BY <1>2, QuietKeeps DEF Promise!absVars, workVars
<1> QED
  BY <1>1, <1>2, StartKeeps, FinishKeeps DEF Promise!AbsNext

LEMMA PromiseExcludes == PromiseInv => Promise!NoConflictRuns
<1> SUFFICES ASSUME PromiseInv, NEW v \in Works, NEW w \in Works, v # w,
                    stage[v] = "running", stage[w] = "running"
             PROVE  ~Promise!Conflict(v, w)
  BY DEF Promise!NoConflictRuns
<1>1. v \in before[w] \/ w \in before[v]
  BY DEF PromiseInv, Ordered
<1>2. Promise!Conflict(v, w) <=> Promise!Conflict(w, v)
  BY DEF Promise!Conflict
<1> QED
  BY <1>1, <1>2 DEF PromiseInv, WaitedFor

\* Whatever keeps the promise of ImplicitSync never runs two works at the same
\* time that touch a buffer one of them writes: what a kick and the work of
\* another driver rely on when they share memory.
THEOREM ConflictsExclude == Promise!AbsSpec => []Promise!NoConflictRuns
<1>1. Promise!AbsInit => PromiseInv
  BY PromiseInitInv
<1>2. PromiseInv /\ [Promise!AbsNext]_(Promise!absVars) => PromiseInv'
  BY PromiseStepInv
<1>3. PromiseInv => Promise!NoConflictRuns
  BY PromiseExcludes
<1> QED
  BY <1>1, <1>2, <1>3, PTL DEF Promise!AbsSpec

-----------------------------------------------------------------------------
(* The filter of duplicates.                                               *)

\* The append data name each buffer of the call once, for writing if it is
\* named for writing anywhere.
Tells(a, r) ==
  /\ {a[n].pmr : n \in DOMAIN a} = {r[k].pmr : k \in DOMAIN r}
  /\ \A n \in DOMAIN a : a[n].write \in BOOLEAN
  /\ \A n \in DOMAIN a : a[n].write <=> \E k \in DOMAIN r : r[k].pmr = a[n].pmr /\ r[k].write
  /\ \A m, n \in DOMAIN a : a[m].pmr = a[n].pmr => m = n

\* Counting up a finite set of numbers reaches each of them.
LEMMA Ranks ==
  ASSUME NEW L \in Nat, NEW S \in SUBSET (1..L)
  PROVE  /\ IsFiniteSet(S) /\ Cardinality(S) \in Nat
         /\ \A i \in S : Cardinality({k \in S : k <= i}) \in 1..Cardinality(S)
         /\ \A i, m \in S :
              Cardinality({k \in S : k <= i}) = Cardinality({k \in S : k <= m}) => i = m
         /\ \A n \in 1..Cardinality(S) : \E i \in S : Cardinality({k \in S : k <= i}) = n
<1> DEFINE Below(i) == {k \in S : k <= i}
           Rank(i) == Cardinality(Below(i))
           N == Cardinality(S)
           f == [i \in S |-> Rank(i)]
<1>1. IsFiniteSet(S) /\ N \in Nat
  <2>1. IsFiniteSet(1..L)
    BY FS_Interval
  <2>2. IsFiniteSet(S)
    BY <2>1, FS_Subset
  <2> QED
    BY <2>2, FS_CardinalityType
<1>2. ASSUME NEW i \in S PROVE IsFiniteSet(Below(i)) /\ Rank(i) \in Nat /\ Rank(i) <= N /\ Rank(i) # 0
  <2>1. Below(i) \in SUBSET S /\ i \in Below(i)
    OBVIOUS
  <2>2. IsFiniteSet(Below(i)) /\ Rank(i) <= N
    BY <2>1, <1>1, FS_Subset
  <2> QED
    BY <2>1, <2>2, FS_CardinalityType, FS_EmptySet
<1>3. ASSUME NEW i \in S, NEW k \in S, i < k PROVE Rank(i) # Rank(k)
  <2>1. \A x \in S : x <= i => x <= k
    BY <1>3
  <2>2. Below(i) \in SUBSET Below(k)
    BY <2>1
  <2>3. k \in Below(k) /\ k \notin Below(i)
    BY <1>3
  <2> QED
    BY <2>2, <2>3, <1>2, FS_Subset
<1>4. \A i, k \in S : Rank(i) = Rank(k) => i = k
  <2> SUFFICES ASSUME NEW i \in S, NEW k \in S, i # k PROVE Rank(i) # Rank(k)
    OBVIOUS
  <2> QED
    BY <1>3
<1>5. \A i \in S : Rank(i) \in 1..N
  BY <1>1, <1>2
<1> HIDE DEF Rank, N
<1>6. f \in Injection(S, 1..N)
  BY <1>4, <1>5 DEF Injection, IsInjective
<1>7. IsFiniteSet(1..N) /\ Cardinality(1..N) = N
  BY <1>1, FS_Interval
<1>8. Cardinality(S) = N
  BY DEF N
<1>9. f \in Surjection(S, 1..N)
  BY <1>6, <1>7, <1>8, FS_Injection
<1>10. \A n \in 1..N : \E i \in S : Rank(i) = n
  BY <1>9 DEF Surjection
<1> QED
  BY <1>1, <1>4, <1>5, <1>10 DEF N, Rank

LEMMA FilteredTells == ASSUME NEW r \in Requests PROVE Tells(Filtered(r), r)
<1> DEFINE First == {i \in 1..Len(r) : \A k \in 1..(i - 1) : r[k].pmr # r[i].pmr}
           Rank(i) == Cardinality({k \in First : k <= i})
           Nth(n) == CHOOSE i \in First : Rank(i) = n
           N == Cardinality(First)
           F(n) == [pmr |-> r[Nth(n)].pmr,
                    write |-> \E k \in 1..Len(r) : r[k].pmr = r[Nth(n)].pmr /\ r[k].write]
<1>1. Filtered(r) = [n \in 1..N |-> F(n)]
  BY DEF Filtered
<1>2. Len(r) \in Nat /\ DOMAIN r = 1..Len(r)
  BY BufferSyncAssumption
<1>3. First \in SUBSET (1..Len(r))
  OBVIOUS
<1> HIDE DEF First
<1>4. /\ N \in Nat
      /\ \A i \in First : Rank(i) \in 1..N
      /\ \A i, k \in First : Rank(i) = Rank(k) => i = k
      /\ \A n \in 1..N : \E i \in First : Rank(i) = n
  BY <1>2, <1>3, Ranks
\* Every PMR of the call has a first place.
<1>5. ASSUME NEW k \in 1..Len(r) PROVE \E i \in First : r[i].pmr = r[k].pmr
  <2> DEFINE Same == {i \in 1..Len(r) : r[i].pmr = r[k].pmr}
  <2>1. Same \in SUBSET (1..Len(r)) /\ k \in Same
    OBVIOUS
  <2>2. /\ IsFiniteSet(Same) /\ Cardinality(Same) \in Nat
        /\ \A n \in 1..Cardinality(Same) : \E i \in Same : Cardinality({m \in Same : m <= i}) = n
    <3> HIDE DEF Same
    <3> QED
      BY <2>1, <1>2, Ranks
  <2>3. Cardinality(Same) # 0
    BY <2>1, <2>2, FS_EmptySet
  <2>4. PICK i \in Same : Cardinality({m \in Same : m <= i}) = 1
    <3> HIDE DEF Same
    <3>1. 1 \in 1..Cardinality(Same)
      BY <2>2, <2>3
    <3> QED
      BY <3>1, <2>2
  <2>5. \A m \in 1..(i - 1) : r[m].pmr # r[i].pmr
    <3> SUFFICES ASSUME NEW m \in 1..(i - 1), r[m].pmr = r[i].pmr PROVE FALSE
      OBVIOUS
    <3> DEFINE T == {x \in Same : x <= i}
    <3>1. m \in T /\ i \in T /\ m # i
      BY <1>2
    <3>2. IsFiniteSet(T)
      BY <2>2, FS_Subset
    <3>3. Cardinality(T) = 1
      BY <2>4
    <3> HIDE DEF T
    <3>4. \E x : T = {x}
      BY <3>2, <3>3, FS_Singleton
    <3> QED
      BY <3>1, <3>4
  <2> QED
    BY <2>5 DEF First
<1> HIDE DEF Rank, N
<1>6. \A n \in 1..N : Nth(n) \in First /\ Rank(Nth(n)) = n
  BY <1>4
<1>7. \A i \in First : \E n \in 1..N : Nth(n) = i
  BY <1>4, <1>6
<1>8. \A i, k \in First : r[i].pmr = r[k].pmr => i = k
  <2> SUFFICES ASSUME NEW i \in First, NEW k \in First, i < k PROVE r[i].pmr # r[k].pmr
    BY <1>3
  <2> QED
    BY <1>3 DEF First
<1>9. \A m, n \in 1..N : Nth(m) = Nth(n) => m = n
  BY <1>6
<1> HIDE DEF Nth, F
<1>10. \A n \in 1..N :
         /\ Filtered(r)[n].pmr = r[Nth(n)].pmr /\ Filtered(r)[n].write \in BOOLEAN
         /\ Filtered(r)[n].write <=> \E k \in 1..Len(r) : r[k].pmr = r[Nth(n)].pmr /\ r[k].write
  <2>1. \A n \in 1..N : Filtered(r)[n] = F(n)
    BY <1>1
  <2>2. \A n : /\ F(n).pmr = r[Nth(n)].pmr
               /\ F(n).write = \E k \in 1..Len(r) : r[k].pmr = r[Nth(n)].pmr /\ r[k].write
    BY DEF F
  <2> QED
    BY <2>1, <2>2, Zenon
<1>11. DOMAIN Filtered(r) = 1..N
  BY <1>1
<1>12. {Filtered(r)[n].pmr : n \in 1..N} = {r[k].pmr : k \in 1..Len(r)}
  <2>1. ASSUME NEW n \in 1..N PROVE Filtered(r)[n].pmr \in {r[k].pmr : k \in 1..Len(r)}
    BY <1>3, <1>6, <1>10
  <2>2. ASSUME NEW k \in 1..Len(r) PROVE r[k].pmr \in {Filtered(r)[n].pmr : n \in 1..N}
    <3>1. PICK i \in First : r[i].pmr = r[k].pmr
      BY <1>5
    <3>2. PICK n \in 1..N : Nth(n) = i
      BY <1>7
    <3> QED
      BY <3>1, <3>2, <1>10
  <2> QED
    BY <2>1, <2>2
<1>13. \A m, n \in 1..N : Filtered(r)[m].pmr = Filtered(r)[n].pmr => m = n
  BY <1>6, <1>8, <1>9, <1>10
<1> QED
  BY <1>2, <1>10, <1>11, <1>12, <1>13 DEF Tells

-----------------------------------------------------------------------------
(* The order of work.  Assumed is that waits are not interrupted and that  *)
(* the fences of a reservation object can be got: the code looks at        *)
(* neither result.                                                         *)

Reliable == Faults \cap {"wait", "get_fences"} = {}

WritesTo(w, p) == p \in uses[w].write
Touches(w, p) == p \in uses[w].read \cup uses[w].write

WorkTypes ==
  /\ asked \in [Jobs -> Requests \cup {<< >>}]
  /\ resv \in [Exported -> SUBSET [work : Works, write : BOOLEAN]]
  /\ fences \in [Jobs -> SUBSET (Nat \X Works)]
  /\ todo \in [Jobs -> SUBSET Works]
  /\ waiting \in [Jobs -> Works \cup {NoWork}]
  /\ deps \in [Jobs -> SUBSET Works]

\* The GPU has the kicks of a context in the order of their publication, and
\* runs them in that order.
Queue(j) == ccb[CtxOf[j]]
InOrder ==
  /\ ccb \in [Ctxs -> Seq(Jobs)]
  /\ \A c \in Ctxs : \A n \in 1..Len(ccb[c]) :
       /\ CtxOf[ccb[c][n]] = c /\ stage[ccb[c][n]] \in {"queued", "running"}
       /\ \A m \in 1..(n - 1) : ccb[c][m] \in before[ccb[c][n]]
  /\ \A j \in Jobs : stage[j] \in {"queued", "running"} =>
       \E n \in 1..Len(Queue(j)) : Queue(j)[n] = j
  /\ \A j \in Jobs : stage[j] = "running" => Queue(j)[1] = j
  /\ \A v, w \in Jobs :
       v \in before[w] /\ CtxOf[v] = CtxOf[w] /\ stage[w] \in {"running", "done"}
         => stage[v] = "done"

\* The append data say what the caller asked for, and a kick is published as
\* that, not before it is made.
Asked(j) == pc[j] # "idle" => Tells(req[j], asked[j])

Before == {"idle", "ctx_lock", "lock", "fail", "slow", "give_up", "count", "check",
           "fences", "wait", "update", "resolved", "err_destroy", "err_unlock"}
Kicked(j) ==
  /\ pc[j] \in Before => ~Published(j)
  /\ pc[j] \in {"kicked", "add"} => Published(j)
  /\ Published(j) => uses[j] = UsesOf(j)

\* A fence of a reservation object is that of a work which uses the buffer.
FencesTell ==
  \A p \in Exported : \A f \in resv[p] :
    /\ Published(f.work) /\ Touches(f.work, p)
    /\ f.write <=> WritesTo(f.work, p)

\* u on p is done only when v is.
BeforeAt(v, u, p) ==
  \/ v = u
  \/ /\ v \in before[u] /\ Touches(v, p) /\ Touches(u, p)
     /\ WritesTo(v, p) \/ WritesTo(u, p) \/ SameContext(v, u)

Chain(v, d, p) == \E e \in Works : BeforeAt(v, e, p) /\ BeforeAt(e, d, p)

\* A work that is not done is behind some fence, of a writer if it writes, or
\* will be before its buffers are unlocked.
ToAdd(j, p) ==
  \/ pc[j] = "kicked" /\ p \in AllOf(j)
  \/ pc[j] = "add" /\ \E n \in idx[j]..Len(req[j]) : req[j][n].pmr = p
Covered(v, p) ==
  \/ stage[v] = "done"
  \/ \E f \in resv[p] : BeforeAt(v, f.work, p) /\ (WritesTo(v, p) => f.write)
  \/ v \in Jobs /\ ToAdd(v, p)
AllCovered ==
  \A v \in Works : \A p \in Exported : Published(v) /\ Touches(v, p) => Covered(v, p)

\* A kick whose buffers are still locked was the last to be published of those
\* that use them.
Latest(j) ==
  pc[j] \in {"kicked", "add"} =>
    \A p \in Exported : p \in AllOf(j) =>
      \A v \in Works \ {j} : Published(v) /\ Touches(v, p) => v \in before[j]

\* Without enum dma_resv_usage the shared fences hide the exclusive one, which
\* they came after.
HiddenBehind ==
  ~UsageApi => \A p \in Exported : \A e, s \in resv[p] :
    e.write /\ ~s.write => e.work \in before[s.work]

\* What a kick being prepared is going to wait for, and the buffers it has
\* looked at for that.
WaitsFor(j, d) ==
  \/ pc[j] \in {"check", "fences", "wait"} /\ \E f \in fences[j] : f[2] = d
  \/ pc[j] \in {"fences", "wait"} /\ d \in todo[j]
  \/ pc[j] = "wait" /\ d = waiting[j]
  \/ pc[j] \in {"update", "resolved"} /\ d \in deps[j]
LookedAt(j, n) ==
  \/ pc[j] = "check" /\ n < idx[j]
  \/ pc[j] \in {"fences", "wait"} /\ n <= idx[j]
  \/ pc[j] \in {"update", "resolved"}

\* That is enough: nothing else uses the n-th buffer and has to be waited for.
Enough(j, n) ==
  \A v \in Works : \A p \in Exported :
    /\ p = req[j][n].pmr /\ Published(v) /\ Touches(v, p)
    /\ req[j][n].write \/ WritesTo(v, p)
    => stage[v] = "done" \/ \E d \in Works : WaitsFor(j, d) /\ Chain(v, d, p)
Checked(j) == \A n \in DOMAIN req[j] : LookedAt(j, n) => Enough(j, n)

\* And it stays enough until the kick runs.
Held(j) ==
  stage[j] = "queued" => \A v \in Works : v \in before[j] /\ Promise!Conflict(v, j) =>
    stage[v] = "done" \/ \E d \in deps[j] : \E p \in Exported : Chain(v, d, p)

JobInv(j) == Asked(j) /\ Kicked(j) /\ Latest(j) /\ Checked(j) /\ Held(j)

OInv ==
  /\ PromiseInv /\ WorkTypes /\ InOrder
  /\ FencesTell /\ AllCovered /\ HiddenBehind
  /\ \A j \in Jobs : JobInv(j)

-----------------------------------------------------------------------------
(* What is done, and what stays.                                           *)

LEMMA DoneBefore ==
  ASSUME PromiseInv, InOrder, NEW v \in Works, NEW u \in Works, NEW p \in Exported,
         BeforeAt(v, u, p), stage[u] = "done"
  PROVE  stage[v] = "done"
<1>1. CASE v = u
  BY <1>1
<1>2. CASE v \in before[u] /\ SameContext(v, u)
  BY <1>2 DEF InOrder, SameContext
<1>3. CASE v \in before[u] /\ Touches(v, p) /\ Touches(u, p) /\ (WritesTo(v, p) \/ WritesTo(u, p))
  <2>1. Promise!Conflict(v, u)
    BY <1>3 DEF Touches, WritesTo, Promise!Conflict
  <2> QED
    BY <1>3, <2>1 DEF PromiseInv, WaitedFor
<1> QED
  BY <1>1, <1>2, <1>3 DEF BeforeAt

LEMMA ChainDone ==
  ASSUME PromiseInv, InOrder, NEW v \in Works, NEW d \in Works, NEW p \in Exported,
         Chain(v, d, p), stage[d] = "done"
  PROVE  stage[v] = "done"
  BY DoneBefore DEF Chain

LEMMA OneLink ==
  ASSUME NEW v \in Works, NEW d \in Works, NEW p, BeforeAt(v, d, p) PROVE Chain(v, d, p)
  BY DEF Chain, BeforeAt

\* Steps only add works and get them done.
Grows ==
  \A v \in Works :
    /\ Published(v) => Published(v)' /\ uses'[v] = uses[v] /\ before'[v] = before[v]
    /\ stage[v] = "done" => stage'[v] = "done"

LEMMA BeforeAtStays ==
  ASSUME PromiseInv, Grows, NEW v \in Works, NEW u \in Works, NEW p, Published(v), BeforeAt(v, u, p)
  PROVE  Published(u) /\ BeforeAt(v, u, p)'
<1>1. CASE v = u
  BY <1>1 DEF BeforeAt
<1>2. CASE v # u
  <2>1. v \in before[u] /\ Published(u)
    BY <1>2 DEF BeforeAt, PromiseInv, Ordered
  <2>2. uses'[v] = uses[v] /\ uses'[u] = uses[u] /\ before'[u] = before[u]
    BY <2>1 DEF Grows
  <2> QED
    BY <1>2, <2>1, <2>2 DEF BeforeAt, Touches, WritesTo, SameContext
<1> QED
  BY <1>1, <1>2

LEMMA ChainStays ==
  ASSUME PromiseInv, Grows, NEW v \in Works, NEW d \in Works, NEW p, Published(v), Chain(v, d, p)
  PROVE  Chain(v, d, p)'
<1>1. PICK e \in Works : BeforeAt(v, e, p) /\ BeforeAt(e, d, p)
  BY DEF Chain
<1>2. Published(e) /\ BeforeAt(v, e, p)'
  BY <1>1, BeforeAtStays
<1>3. BeforeAt(e, d, p)'
  BY <1>1, <1>2, BeforeAtStays
<1> QED
  BY <1>2, <1>3 DEF Chain

\* No other work may use a buffer a job has locked.
LEMMA LockedFor ==
  ASSUME LInv, NEW j \in Jobs, pc[j] \in Holding, NEW p \in Exported, p \in AllOf(j)
  PROVE  held[p] = j
  BY DEF LInv, Settled, Holds, Mine

LEMMA EnoughStays ==
  ASSUME PromiseInv, InOrder, Grows, NEW j \in Jobs, NEW n \in DOMAIN req[j], Enough(j, n),
         req'[j][n] = req[j][n],
         \A v \in Works : Published(v)' /\ Touches(v, req[j][n].pmr)' => Published(v),
         \A d \in Works : WaitsFor(j, d) => stage[d] = "done" \/ WaitsFor(j, d)'
  PROVE  Enough(j, n)'
<1> SUFFICES ASSUME NEW v \in Works, NEW p \in Exported,
                    p = req[j][n].pmr, Published(v)', Touches(v, p)',
                    req[j][n].write \/ WritesTo(v, p)'
             PROVE  stage'[v] = "done" \/ \E d \in Works : WaitsFor(j, d)' /\ Chain(v, d, p)'
  BY DEF Enough
<1>1. Published(v)
  OBVIOUS
<1>2. Touches(v, p) /\ (req[j][n].write \/ WritesTo(v, p))
  BY <1>1 DEF Grows, Touches, WritesTo
<1>3. stage[v] = "done" \/ \E d \in Works : WaitsFor(j, d) /\ Chain(v, d, p)
  BY <1>1, <1>2 DEF Enough
<1>4. CASE stage[v] = "done"
  BY <1>4 DEF Grows
<1>5. ASSUME NEW d \in Works, WaitsFor(j, d), Chain(v, d, p)
      PROVE  stage'[v] = "done" \/ \E x \in Works : WaitsFor(j, x)' /\ Chain(v, x, p)'
  <2>1. CASE stage[d] = "done"
    <3>1. stage[v] = "done"
      BY <1>5, <2>1, ChainDone
    <3> QED
      BY <3>1 DEF Grows
  <2>2. CASE WaitsFor(j, d)'
    <3>1. Chain(v, d, p)'
      BY <1>1, <1>5, ChainStays
    <3> QED
      BY <2>2, <3>1
  <2> QED
    BY <1>5, <2>1, <2>2
<1> QED
  BY <1>3, <1>4, <1>5

LEMMA HeldStays ==
  ASSUME PromiseInv, WorkTypes, InOrder, Grows, NEW j \in Jobs, Held(j), stage'[j] = "queued" => stage[j] = "queued",
         stage[j] = "queued" => deps'[j] = deps[j]
  PROVE  Held(j)'
<1> SUFFICES ASSUME stage'[j] = "queued", NEW v \in Works, v \in before'[j], Promise!Conflict(v, j)'
             PROVE  stage'[v] = "done" \/ \E d \in deps'[j] : \E p \in Exported : Chain(v, d, p)'
  BY DEF Held
<1>1. stage[j] = "queued" /\ j \in Works /\ deps'[j] = deps[j] /\ deps[j] \subseteq Works
  BY DEF Works, WorkTypes
<1>2. v \in before[j] /\ Published(v)
  BY <1>1 DEF Grows, PromiseInv, Ordered
<1>3. Promise!Conflict(v, j)
  BY <1>1, <1>2 DEF Grows, Promise!Conflict
<1>4. stage[v] = "done" \/ \E d \in deps[j] : \E p \in Exported : Chain(v, d, p)
  BY <1>1, <1>2, <1>3 DEF Held
<1>5. CASE stage[v] = "done"
  BY <1>5 DEF Grows
<1>6. ASSUME NEW d \in deps[j], NEW p \in Exported, Chain(v, d, p)
      PROVE  \E x \in deps'[j] : \E q \in Exported : Chain(v, x, q)'
  BY <1>1, <1>2, <1>6, ChainStays
<1> QED
  BY <1>4, <1>5, <1>6

-----------------------------------------------------------------------------
(* Steps that touch no work and no fence of a reservation object.          *)

\* The other jobs are where they were.
OthersStay(j) ==
  \A k \in Jobs \ {j} :
    /\ pc'[k] = pc[k] /\ idx'[k] = idx[k] /\ asked'[k] = asked[k] /\ req'[k] = req[k]
    /\ fences'[k] = fences[k] /\ todo'[k] = todo[k] /\ waiting'[k] = waiting[k]
    /\ deps'[k] = deps[k]

\* Of those, what a step of the works means to them.
LEMMA OtherJob ==
  ASSUME LInv, OInv, Grows, NEW j, OthersStay(j), NEW k \in Jobs \ {j},
         stage'[k] # "none" => stage[k] # "none",
         stage'[k] = "queued" => stage[k] = "queued",
         \A v \in Works : \A p \in Exported :
           Published(v)' /\ Touches(v, p)' /\ p \in AllOf(k) /\ pc[k] \in Holding => Published(v)
  PROVE  JobInv(k)'
<1>1. /\ JobInv(k) /\ k \in Works /\ PromiseInv /\ InOrder /\ WorkTypes
      /\ pc'[k] = pc[k] /\ req'[k] = req[k] /\ asked'[k] = asked[k] /\ deps'[k] = deps[k]
  BY DEF OInv, Works, OthersStay
<1> UsesOf(k)' = UsesOf(k) /\ AllOf(k)' = AllOf(k)
  BY <1>1 DEF UsesOf, AllOf
<1>2. Asked(k)'
  BY <1>1 DEF JobInv, Asked
<1>3. Kicked(k)'
  BY <1>1 DEF JobInv, Kicked, Grows
<1>4. Latest(k)'
  <2> SUFFICES ASSUME pc[k] \in {"kicked", "add"}, NEW p \in Exported, p \in AllOf(k),
                      NEW v \in Works \ {k}, Published(v)', Touches(v, p)'
               PROVE  v \in before'[k]
    BY <1>1 DEF Latest
  <2>1. Published(v) /\ Published(k)
    BY <1>1 DEF JobInv, Kicked
  <2> QED
    BY <1>1, <2>1 DEF JobInv, Latest, Grows, Touches
<1>5. Checked(k)'
  <2> SUFFICES ASSUME NEW n \in DOMAIN req[k], LookedAt(k, n)' PROVE Enough(k, n)'
    BY <1>1 DEF Checked
  <2>1. LookedAt(k, n) /\ pc[k] \in Holding
    BY <1>1 DEF LookedAt, OthersStay
  <2>2. Enough(k, n)
    BY <1>1, <2>1 DEF JobInv, Checked
  <2>3. \A d \in Works : WaitsFor(k, d) => WaitsFor(k, d)'
    BY <1>1 DEF WaitsFor, OthersStay
  <2>4. ASSUME req[k][n].pmr \notin Exported PROVE Enough(k, n)'
    BY <1>1, <2>4 DEF Enough
  <2>5. req[k][n].pmr \in AllOf(k)
    BY DEF AllOf
  <2> QED
    BY <1>1, <2>1, <2>2, <2>3, <2>4, <2>5, EnoughStays
<1>6. Held(k)'
  BY <1>1, HeldStays DEF JobInv
<1> QED
  BY <1>2, <1>3, <1>4, <1>5, <1>6 DEF JobInv

LEMMA QuietInv ==
  ASSUME LInv, OInv, NEW j, UNCHANGED <<workVars, resv, ccb>>, OthersStay(j), WorkTypes',
         j \in Jobs => JobInv(j)' /\ \A p \in Exported : ToAdd(j, p) => ToAdd(j, p)'
  PROVE  OInv'
<1>1. PromiseInv'
  BY QuietKeeps DEF OInv
<1>2. InOrder'
  BY DEF OInv, InOrder, Queue, workVars
<1>3. FencesTell' /\ HiddenBehind'
  BY DEF OInv, FencesTell, HiddenBehind, Touches, WritesTo, workVars
<1>4. AllCovered'
  <2> SUFFICES ASSUME NEW v \in Works, NEW p \in Exported, Published(v), Touches(v, p), Covered(v, p)
               PROVE  Covered(v, p)'
    BY DEF AllCovered, OInv, Touches, workVars
  <2>1. ASSUME NEW k \in Jobs, ToAdd(k, p) PROVE ToAdd(k, p)'
    BY <2>1 DEF ToAdd, OthersStay, AllOf
  <2> QED
    BY <2>1 DEF Covered, BeforeAt, Touches, WritesTo, SameContext, workVars
<1>5. ASSUME NEW k \in Jobs \ {j} PROVE JobInv(k)'
  <2>1. Grows
    BY DEF Grows, workVars
  <2> QED
    BY <2>1, OtherJob DEF workVars
<1> QED
  BY <1>1, <1>2, <1>3, <1>4, <1>5 DEF OInv

\* Steps of a job before and after it looks at fences.
LEMMA AsideInv ==
  ASSUME LInv, OInv, NEW j \in Jobs,
         UNCHANGED <<workVars, resv, ccb, asked, req, todo, waiting, deps>>,
         \A k \in Jobs \ {j} : pc'[k] = pc[k] /\ idx'[k] = idx[k] /\ fences'[k] = fences[k],
         fences' \in [Jobs -> SUBSET (Nat \X Works)],
         pc[j] # "idle", pc'[j] \notin {"fences", "wait", "update", "resolved", "kicked", "add"},
         pc'[j] = "check" => idx'[j] = 1,
         pc'[j] \in Before => pc[j] \in Before,
         pc[j] # "kicked", pc[j] = "add" => idx[j] > Len(req[j])
  PROVE  OInv'
<1>1. JobInv(j) /\ WorkTypes /\ PromiseInv
  BY DEF OInv
<1>2. WorkTypes'
  BY <1>1 DEF WorkTypes
<1>3. OthersStay(j)
  BY DEF OthersStay
<1>4. Asked(j)' /\ Kicked(j)' /\ Latest(j)'
  BY <1>1 DEF JobInv, Asked, Kicked, Latest, UsesOf, workVars
<1>5. Checked(j)'
  BY DEF Checked, LookedAt, LInv, LockTypes, IsArray
<1>6. Held(j)'
  BY <1>1 DEF JobInv, Held, Promise!Conflict, Chain, BeforeAt, Touches, WritesTo, SameContext, workVars
<1>7. \A p \in Exported : ~ToAdd(j, p)
  BY DEF ToAdd, LInv, LockTypes, IsArray
<1> QED
  BY <1>2, <1>3, <1>4, <1>5, <1>6, <1>7, QuietInv DEF JobInv

LEMMA StutterInv ==
  ASSUME LInv, OInv, UNCHANGED <<pc, asked, req, idx, resv, fences, todo, waiting, deps, ccb, workVars>>
  PROVE  OInv'
<1>1. NoJob \notin Jobs
  BY BufferSyncAssumption
<1> QED
  BY <1>1, QuietInv DEF OInv, WorkTypes, OthersStay

LEMMA ResolveOrder == ASSUME LInv, OInv, NEW j \in Jobs, Resolve(j) PROVE OInv'
<1>1. PICK r \in Requests :
        asked' = [asked EXCEPT ![j] = r] /\ req' = [req EXCEPT ![j] = Filtered(r)]
  BY DEF Resolve
<1>2. /\ pc[j] = "idle" /\ pc' = [pc EXCEPT ![j] = "ctx_lock"]
      /\ UNCHANGED <<idx, resv, fences, todo, waiting, deps, ccb, workVars>>
  BY DEF Resolve, At, Goto, checkVars, depVars
<1>3. WorkTypes'
  BY <1>1, <1>2 DEF OInv, WorkTypes
<1>4. pc'[j] = "ctx_lock" /\ req'[j] = Filtered(r) /\ asked'[j] = r
  BY <1>1, <1>2 DEF LInv, LockTypes, OInv, WorkTypes
<1>5. OthersStay(j)
  BY <1>1, <1>2 DEF OthersStay, LInv, LockTypes, OInv, WorkTypes
<1>6. stage[j] = "none"
  BY <1>2 DEF OInv, JobInv, Kicked, Before
<1>7. JobInv(j)'
  BY <1>2, <1>4, <1>6, FilteredTells
     DEF JobInv, Asked, Kicked, Latest, Checked, LookedAt, Held, workVars
<1>8. \A p \in Exported : ~ToAdd(j, p)
  BY <1>2 DEF ToAdd
<1> QED
  BY <1>2, <1>3, <1>5, <1>7, <1>8, QuietInv

LEMMA LockOrder ==
  ASSUME LInv, OInv, NEW j \in Jobs,
         \/ LockCtx(j) \/ LockResv(j) \/ LockFails(j) \/ LockDies(j) \/ LockUnwind(j)
         \/ LockSlow(j) \/ GiveUp(j) \/ LockDone(j)
  PROVE  OInv'
<1>1. /\ pc[j] \in {"ctx_lock", "lock", "fail", "slow", "give_up"}
      /\ \E l \in {"lock", "fail", "slow", "give_up", "failed", "count"} :
           pc' = pc \/ pc' = [pc EXCEPT ![j] = l]
      /\ \A k \in Jobs \ {j} : idx'[k] = idx[k]
      /\ UNCHANGED <<asked, req, resv, fences, todo, waiting, deps, ccb, workVars>>
  BY DEF LockCtx, LockResv, LockFails, LockDies, LockUnwind, LockSlow, GiveUp, LockDone,
         At, Goto, Step, Rewind, checkVars, depVars, LInv, LockTypes
<1>2. /\ pc'[j] \in {"ctx_lock", "lock", "fail", "slow", "give_up", "failed", "count"}
      /\ \A k \in Jobs \ {j} : pc'[k] = pc[k]
  BY <1>1 DEF LInv, LockTypes
<1> QED
  BY <1>1, <1>2, AsideInv DEF OInv, WorkTypes, Before

LEMMA AsideOrder ==
  ASSUME LInv, OInv, NEW j \in Jobs,
         \/ CountFences(j) \/ AllocFences(j) \/ ErrDestroy(j) \/ ErrUnlock(j)
         \/ KickFails(j) \/ AddDone(j) \/ PutExtra(j) \/ Destroy(j)
  PROVE  OInv'
<1>1. \A l : pc' = [pc EXCEPT ![j] = l] => pc'[j] = l /\ \A k \in Jobs \ {j} : pc'[k] = pc[k]
  BY DEF LInv, LockTypes
<1>2. \A k \in Jobs \ {j} : fences' = fences \/ fences' = [fences EXCEPT ![j] = {}] => fences'[k] = fences[k]
  BY DEF OInv, WorkTypes
<1>3. fences' = fences \/ fences' = [fences EXCEPT ![j] = {}] => fences' \in [Jobs -> SUBSET (Nat \X Works)]
  BY DEF OInv, WorkTypes
<1>4. CASE CountFences(j)
  <2>1. /\ pc[j] = "count" /\ pc' = pc /\ idx' = [idx EXCEPT ![j] = @ + 1]
        /\ UNCHANGED <<asked, req, resv, fences, todo, waiting, deps, ccb, workVars>>
    BY <1>4 DEF CountFences, At, Step, depVars
  <2>2. \A k \in Jobs \ {j} : idx'[k] = idx[k]
    BY <2>1 DEF LInv, LockTypes
  <2> QED
    BY <1>3, <2>1, <2>2, AsideInv DEF Before
<1>5. CASE AllocFences(j)
  <2>1. /\ pc[j] = "count" /\ idx' = [idx EXCEPT ![j] = 1]
        /\ pc' = [pc EXCEPT ![j] = "check"] \/ pc' = [pc EXCEPT ![j] = "err_unlock"]
        /\ UNCHANGED <<asked, req, resv, fences, todo, waiting, deps, ccb, workVars>>
    BY <1>5 DEF AllocFences, At, Goto, Rewind, checkVars, depVars
  <2>2. idx'[j] = 1 /\ \A k \in Jobs \ {j} : idx'[k] = idx[k]
    BY <2>1 DEF LInv, LockTypes
  <2> QED
    BY <1>1, <1>3, <2>1, <2>2, AsideInv DEF Before
<1>6. CASE ErrDestroy(j)
  <2>1. /\ pc[j] = "err_destroy" /\ pc' = [pc EXCEPT ![j] = "err_unlock"]
        /\ fences' = [fences EXCEPT ![j] = {}]
        /\ UNCHANGED <<asked, req, idx, resv, todo, waiting, deps, ccb, workVars>>
    BY <1>6 DEF ErrDestroy, At, Goto, depVars
  <2> QED
    BY <1>1, <1>2, <1>3, <2>1, AsideInv DEF Before
<1>7. CASE ErrUnlock(j)
  <2>1. /\ pc[j] = "err_unlock" /\ pc' = [pc EXCEPT ![j] = "failed"]
        /\ UNCHANGED <<asked, req, idx, resv, fences, todo, waiting, deps, ccb, workVars>>
    BY <1>7 DEF ErrUnlock, At, Goto, checkVars, depVars
  <2> QED
    BY <1>1, <1>3, <2>1, AsideInv DEF Before
<1>8. CASE KickFails(j)
  <2>1. /\ pc[j] = "resolved" /\ pc' = [pc EXCEPT ![j] = "put_extra"]
        /\ UNCHANGED <<asked, req, idx, resv, fences, todo, waiting, deps, ccb, workVars>>
    BY <1>8 DEF KickFails, At, Goto, checkVars
  <2> QED
    BY <1>1, <1>3, <2>1, AsideInv DEF Before
<1>9. CASE AddDone(j)
  <2>1. /\ pc[j] = "add" /\ ~(idx[j] <= Len(req[j])) /\ pc' = [pc EXCEPT ![j] = "put_extra"]
        /\ UNCHANGED <<asked, req, idx, resv, fences, todo, waiting, deps, ccb, workVars>>
    BY <1>9 DEF AddDone, At, Goto, InLoop, checkVars, depVars
  <2>2. idx[j] > Len(req[j])
    BY <2>1 DEF LInv, LockTypes, IsArray
  <2> QED
    BY <1>1, <1>3, <2>1, <2>2, AsideInv DEF Before
<1>10. CASE PutExtra(j)
  <2>1. /\ pc[j] = "put_extra" /\ pc' = [pc EXCEPT ![j] = "destroy"]
        /\ UNCHANGED <<asked, req, idx, resv, fences, todo, waiting, deps, ccb, workVars>>
    BY <1>10 DEF PutExtra, At, Goto, checkVars, depVars
  <2> QED
    BY <1>1, <1>3, <2>1, AsideInv DEF Before
<1>11. CASE Destroy(j)
  <2>1. /\ pc[j] = "destroy" /\ fences' = [fences EXCEPT ![j] = {}]
        /\ pc' = [pc EXCEPT ![j] = "failed"] \/ pc' = [pc EXCEPT ![j] = "succeeded"]
        /\ UNCHANGED <<asked, req, idx, resv, todo, waiting, deps, ccb, workVars>>
    BY <1>11 DEF Destroy, At, Goto, depVars
  <2> QED
    BY <1>1, <1>2, <1>3, <2>1, AsideInv, SMTT(30) DEF Before
<1> QED
  BY <1>4, <1>5, <1>6, <1>7, <1>8, <1>9, <1>10, <1>11

-----------------------------------------------------------------------------
(* Looking at the fences of the buffers.                                   *)

Looking == {"check", "fences", "wait", "update", "resolved"}

LEMMA LookInv ==
  ASSUME LInv, OInv, NEW j \in Jobs, pc[j] \in Looking,
         NEW l \in Looking, pc' = pc \/ pc' = [pc EXCEPT ![j] = l],
         idx' = idx \/ idx' = [idx EXCEPT ![j] = @ + 1],
         UNCHANGED <<asked, req, resv, ccb, workVars>>, WorkTypes',
         \A k \in Jobs \ {j} :
           /\ fences'[k] = fences[k] /\ todo'[k] = todo[k] /\ waiting'[k] = waiting[k]
           /\ deps'[k] = deps[k],
         \A d \in Works : WaitsFor(j, d) => stage[d] = "done" \/ WaitsFor(j, d)',
         \A n \in DOMAIN req[j] : LookedAt(j, n)' => LookedAt(j, n) \/ Enough(j, n)'
  PROVE  OInv'
<1>1. OthersStay(j)
  BY DEF OthersStay, LInv, LockTypes
<1>2. pc'[j] \in Looking
  BY DEF LInv, LockTypes
<1>3. JobInv(j) /\ PromiseInv /\ InOrder
  BY DEF OInv
<1>4. stage[j] = "none"
  BY <1>3 DEF JobInv, Kicked, Before, Looking
<1>5. Asked(j)' /\ Kicked(j)' /\ Latest(j)' /\ Held(j)'
  BY <1>2, <1>3, <1>4 DEF JobInv, Asked, Kicked, Latest, Held, Before, Looking, UsesOf, workVars
<1>6. Checked(j)'
  <2> SUFFICES ASSUME NEW n \in DOMAIN req[j], LookedAt(j, n), Enough(j, n) PROVE Enough(j, n)'
    BY <1>3 DEF Checked, JobInv
  <2> Grows /\ \A v \in Works, p \in Exported : Published(v)' /\ Touches(v, p)' => Published(v)
    BY DEF Grows, workVars
  <2>1. CASE req[j][n].pmr \in Exported
    BY <1>3, EnoughStays, <2>1
  <2>2. CASE req[j][n].pmr \notin Exported
    BY <2>2 DEF Enough
  <2> QED
    BY <2>1, <2>2
<1>7. \A p \in Exported : ~ToAdd(j, p)
  BY DEF ToAdd, Looking
<1> QED
  BY <1>1, <1>5, <1>6, <1>7, QuietInv DEF JobInv

\* The fences that are got are enough, whichever of them the kernel's interface
\* leaves out.
LEMMA ObtainedEnough ==
  ASSUME LInv, OInv, NEW j \in Jobs, pc[j] \in {"check", "count"}, NEW p \in Exported, p \in AllOf(j),
         NEW write \in BOOLEAN, NEW v \in Works, Published(v), Touches(v, p), write \/ WritesTo(v, p)
  PROVE  stage[v] = "done" \/ \E d \in Obtained(p, write) : d \in Works /\ Chain(v, d, p)
<1> DEFINE Excl == {f.work : f \in {g \in resv[p] : g.write}}
           Shared == {f.work : f \in {g \in resv[p] : ~g.write}}
<1>1. Covered(v, p)
  BY DEF OInv, AllCovered
<1>2. ~(v \in Jobs /\ ToAdd(v, p))
  <2> SUFFICES ASSUME v \in Jobs, ToAdd(v, p) PROVE FALSE
    OBVIOUS
  <2>1. p \in AllOf(v) /\ pc[v] \in {"kicked", "add"}
    BY DEF ToAdd, AllOf, LInv, LockTypes, IsArray
  <2>2. held[p] = v /\ held[p] = j
    BY <2>1, LockedFor
  <2> QED
    BY <2>1, <2>2
<1>3. SUFFICES ASSUME NEW f \in resv[p], BeforeAt(v, f.work, p), WritesTo(v, p) => f.write
               PROVE  stage[v] = "done" \/ \E d \in Obtained(p, write) : d \in Works /\ Chain(v, d, p)
  BY <1>1, <1>2 DEF Covered
<1>4. f.work \in Works /\ f.write \in BOOLEAN /\ resv[p] \subseteq [work : Works, write : BOOLEAN]
  BY DEF OInv, WorkTypes
<1>5. Chain(v, f.work, p)
  BY <1>3, <1>4, OneLink
<1>6. f.write \/ write
  BY <1>3
<1>7. CASE UsageApi
  <2>1. f.work \in Excl \/ f.work \in Shared
    BY <1>4
  <2>2. stage[f.work] = "done" => stage[v] = "done"
    BY <1>3, <1>4, DoneBefore DEF OInv
  <2>3. stage[f.work] # "done" => f.work \in Obtained(p, write)
    BY <1>6, <1>7, <1>4 DEF Obtained, Signaled
  <2> QED
    BY <2>2, <2>3, <1>4, <1>5
<1>8. CASE ~UsageApi /\ ~(write /\ Shared # {})
  <2>1. Obtained(p, write) = Excl
    BY <1>8 DEF Obtained
  <2>2. f.write
    BY <1>8, <1>6, <1>4
  <2> QED
    BY <2>1, <2>2, <1>4, <1>5
<1>9. CASE ~UsageApi /\ write /\ Shared # {}
  <2>1. Obtained(p, write) = Shared
    BY <1>9 DEF Obtained
  <2>2. CASE ~f.write
    BY <2>1, <2>2, <1>4, <1>5
  <2>3. CASE f.write
    <3>1. PICK s \in resv[p] : ~s.write
      BY <1>9
    <3>2. f.work \in before[s.work] /\ s.work \in Works /\ s.work \in Shared
      BY <1>9, <2>3, <3>1, <1>4 DEF OInv, HiddenBehind
    <3>3. BeforeAt(f.work, s.work, p)
      BY <2>3, <3>1, <3>2 DEF BeforeAt, OInv, FencesTell
    <3>4. Chain(v, s.work, p)
      BY <1>3, <1>4, <3>2, <3>3 DEF Chain
    <3> QED
      BY <2>1, <3>2, <3>4
  <2> QED
    BY <2>2, <2>3
<1> QED
  BY <1>7, <1>8, <1>9

LEMMA GetFencesOrder ==
  ASSUME Reliable, LInv, OInv, NEW j \in Jobs, GetFences(j) PROVE OInv'
<1>1. /\ pc[j] = "check" /\ idx[j] <= Len(req[j])
      /\ UNCHANGED <<asked, req, idx, resv, fences, waiting, deps, ccb, workVars>>
  BY DEF GetFences, At, InLoop, depVars
<1>2. "get_fences" \notin Faults
  BY DEF Reliable
<1>3. CASE todo' = [todo EXCEPT ![j] = Obtained(Here(j), Writes(j))] /\ pc' = [pc EXCEPT ![j] = "fences"]
  <2>1. /\ idx[j] \in DOMAIN req[j] /\ Here(j) = req[j][idx[j]].pmr
        /\ Writes(j) = req[j][idx[j]].write /\ Asked(j)
    BY <1>1 DEF LInv, LockTypes, IsArray, Here, Writes, OInv, JobInv
  <2>2. Here(j) \in AllOf(j) /\ Mine(j) = AllOf(j)
    BY <1>1, <2>1 DEF AllOf, LInv, Settled, Holds
  <2>3. PICK p \in Exported : p = Here(j)
    BY <2>2 DEF Mine
  <2>4. PICK write \in BOOLEAN : write = Writes(j)
    BY <1>1, <2>1 DEF Asked, Tells
  <2>5. Obtained(p, write) \subseteq Works
    BY DEF Obtained, OInv, WorkTypes
  <2>6. WorkTypes'
    <3>1. todo' \in [Jobs -> SUBSET Works]
      BY <1>3, <2>3, <2>4, <2>5 DEF OInv, WorkTypes
    <3> QED
      BY <1>1, <3>1 DEF OInv, WorkTypes
  <2>7. todo'[j] = Obtained(p, write) /\ pc'[j] = "fences"
    BY <1>3, <2>3, <2>4 DEF OInv, WorkTypes, LInv, LockTypes
  <2>8. \A d \in Works : WaitsFor(j, d) => WaitsFor(j, d)'
    BY <1>1, <2>7 DEF WaitsFor
  <2>9. ASSUME NEW n \in DOMAIN req[j], n = idx[j] PROVE Enough(j, n)'
    <3> SUFFICES ASSUME NEW v \in Works, Published(v), Touches(v, p), write \/ WritesTo(v, p)
                 PROVE  stage[v] = "done" \/ \E d \in Works : WaitsFor(j, d)' /\ Chain(v, d, p)'
      BY <1>1, <2>1, <2>3, <2>4, <2>9 DEF Enough, Touches, WritesTo, workVars
    <3>1. stage[v] = "done" \/ \E d \in Obtained(p, write) : d \in Works /\ Chain(v, d, p)
      BY <1>1, <2>2, <2>3, ObtainedEnough
    <3>2. \A d \in Works : Chain(v, d, p) => Chain(v, d, p)'
      BY <1>1 DEF Chain, BeforeAt, Touches, WritesTo, SameContext, workVars
    <3> QED
      BY <3>1, <3>2, <2>7 DEF WaitsFor
  <2>10. \A n \in DOMAIN req[j] : LookedAt(j, n)' => LookedAt(j, n) \/ n = idx[j]
    BY <1>1, <2>7 DEF LookedAt, LInv, LockTypes, IsArray
  <2>11. \A n \in DOMAIN req[j] : LookedAt(j, n)' => LookedAt(j, n) \/ Enough(j, n)'
    BY <2>9, <2>10
  <2>12. \A k \in Jobs \ {j} : todo'[k] = todo[k]
    BY <1>3 DEF OInv, WorkTypes
  <2> QED
    BY <1>1, <1>3, <2>6, <2>8, <2>11, <2>12, LookInv DEF Looking
<1>4. CASE pc' = [pc EXCEPT ![j] = "err_destroy"] /\ todo' = todo
  <2>1. pc'[j] = "err_destroy" /\ \A k \in Jobs \ {j} : pc'[k] = pc[k]
    BY <1>4 DEF LInv, LockTypes
  <2> QED
    BY <1>1, <1>4, <2>1, AsideInv DEF Before, OInv, WorkTypes
<1> QED
  BY <1>2, <1>3, <1>4 DEF GetFences, Goto

LEMMA CheckFenceOrder == ASSUME LInv, OInv, NEW j \in Jobs, CheckFence(j) PROVE OInv'
<1>1. PICK w \in todo[j] :
        todo' = [todo EXCEPT ![j] = @ \ {w}] /\ fences' = [fences EXCEPT ![j] = @ \cup {<<idx[j], w>>}]
  BY DEF CheckFence
<1>2. /\ pc[j] = "fences" /\ pc' = pc
      /\ UNCHANGED <<asked, req, idx, resv, waiting, deps, ccb, workVars>>
  BY DEF CheckFence, At, depVars
<1>3. /\ todo[j] \subseteq Works /\ idx[j] \in Nat /\ fences[j] \subseteq Nat \X Works
  BY DEF OInv, WorkTypes, LInv, LockTypes
<1>4. /\ todo'[j] = todo[j] \ {w} /\ fences'[j] = fences[j] \cup {<<idx[j], w>>}
      /\ \A k \in Jobs \ {j} : todo'[k] = todo[k] /\ fences'[k] = fences[k]
  BY <1>1 DEF OInv, WorkTypes
<1>5. WorkTypes'
  <2>1. todo' \in [Jobs -> SUBSET Works]
    BY <1>1 DEF OInv, WorkTypes
  <2>2. fences[j] \cup {<<idx[j], w>>} \subseteq Nat \X Works
    BY <1>3
  <2>3. fences' \in [Jobs -> SUBSET (Nat \X Works)]
    BY <1>1, <2>2 DEF OInv, WorkTypes
  <2> QED
    BY <1>2, <2>1, <2>3 DEF OInv, WorkTypes
<1>6. ASSUME NEW d \in Works, WaitsFor(j, d) PROVE WaitsFor(j, d)'
  <2>1. CASE d = w
    <3>1. <<idx[j], w>>[2] = w /\ <<idx[j], w>> \in fences'[j]
      BY <1>4
    <3> QED
      BY <3>1, <2>1, <1>2 DEF WaitsFor
  <2>2. CASE d # w
    BY <2>2, <1>2, <1>4, <1>6 DEF WaitsFor
  <2> QED
    BY <2>1, <2>2
<1>7. \A n \in DOMAIN req[j] : LookedAt(j, n)' => LookedAt(j, n)
  BY <1>2 DEF LookedAt
<1> QED
  BY <1>2, <1>4, <1>5, <1>6, <1>7, LookInv DEF Looking

LEMMA CheckFenceFailsOrder == ASSUME LInv, OInv, NEW j \in Jobs, CheckFenceFails(j) PROVE OInv'
<1>1. PICK w \in todo[j] :
        todo' = [todo EXCEPT ![j] = @ \ {w}] /\ waiting' = [waiting EXCEPT ![j] = w]
  BY DEF CheckFenceFails
<1>2. /\ pc[j] = "fences" /\ pc' = [pc EXCEPT ![j] = "wait"]
      /\ UNCHANGED <<asked, req, idx, resv, fences, deps, ccb, workVars>>
  BY DEF CheckFenceFails, At, Goto, depVars
<1>3. /\ todo'[j] = todo[j] \ {w} /\ waiting'[j] = w /\ pc'[j] = "wait"
      /\ \A k \in Jobs \ {j} : todo'[k] = todo[k] /\ waiting'[k] = waiting[k]
  BY <1>1, <1>2 DEF OInv, WorkTypes, LInv, LockTypes
<1>4. WorkTypes'
  <2>1. todo' \in [Jobs -> SUBSET Works] /\ waiting' \in [Jobs -> Works \cup {NoWork}]
    BY <1>1 DEF OInv, WorkTypes
  <2> QED
    BY <1>2, <2>1 DEF OInv, WorkTypes
<1>5. \A d \in Works : WaitsFor(j, d) => WaitsFor(j, d)'
  BY <1>2, <1>3 DEF WaitsFor
<1>6. \A n \in DOMAIN req[j] : LookedAt(j, n)' => LookedAt(j, n)
  BY <1>2, <1>3 DEF LookedAt
<1> QED
  BY <1>2, <1>3, <1>4, <1>5, <1>6, LookInv DEF Looking

LEMMA WaitFenceOrder ==
  ASSUME Reliable, LInv, OInv, NEW j \in Jobs, WaitFence(j) PROVE OInv'
<1>1. /\ pc[j] = "wait" /\ pc' = [pc EXCEPT ![j] = "fences"]
      /\ waiting' = [waiting EXCEPT ![j] = NoWork]
      /\ UNCHANGED <<asked, req, idx, resv, fences, todo, deps, ccb, workVars>>
  BY DEF WaitFence, At, Goto, depVars
<1>2. stage[waiting[j]] = "done"
  BY DEF WaitFence, Reliable, Signaled
<1>3. /\ pc'[j] = "fences"
      /\ \A k \in Jobs \ {j} : waiting'[k] = waiting[k]
  BY <1>1 DEF OInv, WorkTypes, LInv, LockTypes
<1>4. WorkTypes'
  <2>1. waiting' \in [Jobs -> Works \cup {NoWork}]
    BY <1>1 DEF OInv, WorkTypes
  <2> QED
    BY <1>1, <2>1 DEF OInv, WorkTypes
<1>5. \A d \in Works : WaitsFor(j, d) => stage[d] = "done" \/ WaitsFor(j, d)'
  BY <1>1, <1>2, <1>3 DEF WaitsFor
<1>6. \A n \in DOMAIN req[j] : LookedAt(j, n)' => LookedAt(j, n)
  BY <1>1, <1>3 DEF LookedAt
<1> QED
  BY <1>1, <1>3, <1>4, <1>5, <1>6, LookInv DEF Looking

LEMMA NextResvOrder == ASSUME LInv, OInv, NEW j \in Jobs, NextResv(j) PROVE OInv'
<1>1. /\ pc[j] = "fences" /\ pc' = [pc EXCEPT ![j] = "check"] /\ todo[j] = {}
      /\ idx' = [idx EXCEPT ![j] = @ + 1]
      /\ UNCHANGED <<asked, req, resv, fences, todo, waiting, deps, ccb, workVars>>
  BY DEF NextResv, At, Goto, Step, checkVars, depVars
<1>2. pc'[j] = "check" /\ idx'[j] = idx[j] + 1 /\ idx[j] \in Nat
  BY <1>1 DEF LInv, LockTypes
<1>3. WorkTypes'
  BY <1>1 DEF OInv, WorkTypes
<1>4. \A d \in Works : WaitsFor(j, d) => WaitsFor(j, d)'
  BY <1>1, <1>2 DEF WaitsFor
<1>5. \A n \in DOMAIN req[j] : LookedAt(j, n)' => LookedAt(j, n)
  BY <1>1, <1>2 DEF LookedAt, LInv, LockTypes, IsArray
<1> QED
  BY <1>1, <1>3, <1>4, <1>5, LookInv DEF Looking

LEMMA GetCheckpointsOrder == ASSUME LInv, OInv, NEW j \in Jobs, GetCheckpoints(j) PROVE OInv'
<1>1. /\ pc[j] = "check" /\ ~(idx[j] <= Len(req[j]))
      /\ UNCHANGED <<asked, req, idx, resv, fences, todo, waiting, ccb, workVars>>
  BY DEF GetCheckpoints, At, InLoop, checkVars
<1>2. CASE deps' = [deps EXCEPT ![j] = {f[2] : f \in fences[j]}] /\ pc' = [pc EXCEPT ![j] = "update"]
  <2>1. fences[j] \subseteq Nat \X Works
    BY DEF OInv, WorkTypes
  <2>2. {f[2] : f \in fences[j]} \subseteq Works
    BY <2>1
  <2>3. WorkTypes'
    <3>1. deps' \in [Jobs -> SUBSET Works]
      BY <1>2, <2>2 DEF OInv, WorkTypes
    <3> QED
      BY <1>1, <3>1 DEF OInv, WorkTypes
  <2>4. /\ deps'[j] = {f[2] : f \in fences[j]} /\ pc'[j] = "update"
        /\ \A k \in Jobs \ {j} : deps'[k] = deps[k]
    BY <1>2 DEF OInv, WorkTypes, LInv, LockTypes
  <2>5. \A d \in Works : WaitsFor(j, d) => WaitsFor(j, d)'
    BY <1>1, <2>4 DEF WaitsFor
  <2>6. \A n \in DOMAIN req[j] : LookedAt(j, n)' => LookedAt(j, n)
    BY <1>1 DEF LookedAt, LInv, LockTypes, IsArray
  <2> QED
    BY <1>1, <1>2, <2>3, <2>4, <2>5, <2>6, LookInv DEF Looking
<1>3. CASE pc' = [pc EXCEPT ![j] = "err_destroy"] /\ deps' = deps
  <2>1. pc'[j] = "err_destroy" /\ \A k \in Jobs \ {j} : pc'[k] = pc[k]
    BY <1>3 DEF LInv, LockTypes
  <2> QED
    BY <1>1, <1>3, <2>1, AsideInv DEF Before, OInv, WorkTypes
<1> QED
  BY <1>2, <1>3 DEF GetCheckpoints, Goto, depVars

LEMMA CreateUpdateOrder == ASSUME LInv, OInv, NEW j \in Jobs, CreateUpdate(j) PROVE OInv'
<1>1. /\ pc[j] = "update"
      /\ UNCHANGED <<asked, req, idx, resv, fences, todo, waiting, deps, ccb, workVars>>
  BY DEF CreateUpdate, At, checkVars, depVars
<1>2. CASE pc' = [pc EXCEPT ![j] = "resolved"]
  <2>1. pc'[j] = "resolved"
    BY <1>2 DEF LInv, LockTypes
  <2>2. WorkTypes'
    BY <1>1 DEF OInv, WorkTypes
  <2>3. \A d \in Works : WaitsFor(j, d) => WaitsFor(j, d)'
    BY <1>1, <2>1 DEF WaitsFor
  <2>4. \A n \in DOMAIN req[j] : LookedAt(j, n)' => LookedAt(j, n)
    BY <1>1 DEF LookedAt
  <2> QED
    BY <1>1, <1>2, <2>2, <2>3, <2>4, LookInv DEF Looking
<1>3. CASE pc' = [pc EXCEPT ![j] = "err_destroy"]
  <2>1. pc'[j] = "err_destroy" /\ \A k \in Jobs \ {j} : pc'[k] = pc[k]
    BY <1>3 DEF LInv, LockTypes
  <2> QED
    BY <1>1, <2>1, AsideInv DEF Before, OInv, WorkTypes
<1> QED
  BY <1>2, <1>3 DEF CreateUpdate, Goto

LEMMA KickSucceededOrder == ASSUME LInv, OInv, NEW j \in Jobs, KickSucceeded(j) PROVE OInv'
<1>1. /\ pc[j] = "kicked" /\ pc' = [pc EXCEPT ![j] = "add"] /\ idx' = [idx EXCEPT ![j] = 1]
      /\ UNCHANGED <<asked, req, resv, fences, todo, waiting, deps, ccb, workVars>>
  BY DEF KickSucceeded, At, Goto, Rewind, checkVars, depVars
<1>2. pc'[j] = "add" /\ idx'[j] = 1
  BY <1>1 DEF LInv, LockTypes
<1>3. OthersStay(j)
  BY <1>1 DEF OthersStay, LInv, LockTypes
<1>4. WorkTypes'
  BY <1>1 DEF OInv, WorkTypes
<1>5. JobInv(j)
  BY DEF OInv
<1>6. AllOf(j)' = AllOf(j)
  BY <1>1 DEF AllOf
<1>7. Asked(j)' /\ Kicked(j)' /\ Latest(j)' /\ Checked(j)'
  BY <1>1, <1>2, <1>5, <1>6
     DEF JobInv, Asked, Kicked, Latest, Checked, LookedAt, Before, UsesOf, Touches, workVars
<1>8. Held(j)'
  BY <1>1, <1>5 DEF JobInv, Held, Promise!Conflict, Chain, BeforeAt, Touches, WritesTo, SameContext, workVars
<1>9. ASSUME NEW p \in Exported, ToAdd(j, p) PROVE ToAdd(j, p)'
  BY <1>1, <1>2, <1>9 DEF ToAdd, AllOf, LInv, LockTypes, IsArray
<1> QED
  BY <1>1, <1>3, <1>4, <1>7, <1>8, <1>9, QuietInv DEF JobInv

-----------------------------------------------------------------------------
(* The works.                                                              *)

LEMMA AskedUses ==
  ASSUME WorkTypes, NEW j \in Jobs, pc[j] # "idle", Asked(j)
  PROVE  /\ UsesOf(j).read \cup UsesOf(j).write = AllOf(j)
         /\ \A n \in DOMAIN req[j] :
              /\ req[j][n].write \in BOOLEAN
              /\ req[j][n].write <=> req[j][n].pmr \in UsesOf(j).write
<1>1. asked[j] \in Seq(Access)
  <2>1. asked[j] \in Requests \cup {<< >>}
    BY DEF WorkTypes
  <2>2. Requests \subseteq Seq(Access) /\ << >> \in Seq(Access)
    BY BufferSyncAssumption, EmptySeq
  <2> QED
    BY <2>1, <2>2
<1>2. \A k \in DOMAIN asked[j] : asked[j][k].write \in BOOLEAN
  <2>1. \A k \in DOMAIN asked[j] : asked[j][k] \in Access
    BY <1>1, LenProperties, ElementOfSeq
  <2> QED
    BY <2>1 DEF Access
<1>3. Tells(req[j], asked[j])
  BY DEF Asked
<1>4. UsesOf(j).read \cup UsesOf(j).write = {asked[j][k].pmr : k \in DOMAIN asked[j]}
  BY <1>2 DEF UsesOf
<1>5. \A n \in DOMAIN req[j] : req[j][n].write <=> req[j][n].pmr \in UsesOf(j).write
  <2> SUFFICES ASSUME NEW n \in DOMAIN req[j]
               PROVE  req[j][n].write <=> req[j][n].pmr \in UsesOf(j).write
    OBVIOUS
  <2>1. req[j][n].write <=> \E k \in DOMAIN asked[j] : asked[j][k].pmr = req[j][n].pmr /\ asked[j][k].write
    BY <1>3 DEF Tells
  <2>2. UsesOf(j).write = {asked[j][k].pmr : k \in {m \in DOMAIN asked[j] : asked[j][m].write = TRUE}}
    BY DEF UsesOf
  <2>3. \A k \in DOMAIN asked[j] : asked[j][k].write <=> asked[j][k].write = TRUE
    BY <1>2
  <2> QED
    BY <2>1, <2>2, <2>3
<1> QED
  BY <1>3, <1>4, <1>5 DEF Tells, AllOf

LEMMA FencesStay ==
  ASSUME OInv, Grows, resv' = resv PROVE FencesTell' /\ HiddenBehind'
<1>1. \A p \in Exported : \A f \in resv[p] :
        f.work \in Works /\ Published(f.work) /\ Touches(f.work, p) /\ (f.write <=> WritesTo(f.work, p))
  BY DEF OInv, WorkTypes, FencesTell
<1>2. FencesTell'
  BY <1>1 DEF FencesTell, Grows, Touches, WritesTo
<1>3. HiddenBehind'
  BY <1>1 DEF OInv, HiddenBehind, Grows
<1> QED
  BY <1>2, <1>3

LEMMA CoveredStays ==
  ASSUME OInv, Grows, NEW v \in Works, NEW p \in Exported, Published(v), Touches(v, p), resv'[p] = resv[p],
         \A k \in Jobs : ToAdd(k, p) => ToAdd(k, p)'
  PROVE  Covered(v, p)'
<1>1. Covered(v, p)
  BY DEF OInv, AllCovered
<1>2. CASE stage[v] = "done"
  BY <1>2 DEF Covered, Grows
<1>3. ASSUME NEW f \in resv[p], BeforeAt(v, f.work, p), WritesTo(v, p) => f.write
      PROVE  Covered(v, p)'
  <2>1. f.work \in Works
    BY DEF OInv, WorkTypes
  <2>2. BeforeAt(v, f.work, p)'
    BY <1>3, <2>1, BeforeAtStays DEF OInv
  <2>3. WritesTo(v, p)' => f.write
    BY <1>3 DEF Grows, WritesTo
  <2> QED
    BY <2>2, <2>3 DEF Covered
<1> QED
  BY <1>1, <1>2, <1>3 DEF Covered

\* The job is the last of its context.
LEMMA KickInOrder ==
  ASSUME PromiseInv, InOrder, NEW j \in Jobs, ~Published(j), NEW u \in Promise!Uses, Publish(j, u),
         ccb' = [ccb EXCEPT ![CtxOf[j]] = Append(@, j)]
  PROVE  InOrder'
<1> DEFINE c == CtxOf[j]
           s == ccb[c]
<1>1. /\ c \in Ctxs /\ s \in Seq(Jobs) /\ Jobs \subseteq Works
  BY BufferSyncAssumption DEF InOrder, Works
<1>2. /\ stage'[j] = "queued"
      /\ before'[j] = {v \in Works : Published(v)}
      /\ \A v \in Works \ {j} : stage'[v] = stage[v] /\ before'[v] = before[v]
  BY <1>1, Publication DEF PromiseInv
<1>3. \A v \in Works : j \notin before[v]
  BY DEF PromiseInv, Ordered, Works
<1>4. /\ ccb'[c] = Append(s, j) /\ \A d \in Ctxs \ {c} : ccb'[d] = ccb[d]
      /\ ccb' \in [Ctxs -> Seq(Jobs)]
  BY <1>1 DEF InOrder
<1>5. /\ Len(s) \in Nat /\ Len(ccb'[c]) = Len(s) + 1
      /\ \A n \in 1..Len(s) : ccb'[c][n] = s[n] /\ s[n] \in Jobs
      /\ ccb'[c][Len(s) + 1] = j
  BY <1>1, <1>4
<1>6. \A d \in Ctxs : \A n \in 1..Len(ccb[d]) : ccb[d][n] \in Jobs /\ ccb[d][n] # j
  <2> SUFFICES ASSUME NEW d \in Ctxs, NEW n \in 1..Len(ccb[d]) PROVE ccb[d][n] \in Jobs /\ ccb[d][n] # j
    OBVIOUS
  <2>1. ccb[d] \in Seq(Jobs) /\ stage[ccb[d][n]] \in {"queued", "running"}
    BY DEF InOrder
  <2> QED
    BY <2>1
<1> HIDE DEF s, c
<1>7. ASSUME NEW d \in Ctxs, NEW n \in 1..Len(ccb'[d])
      PROVE  /\ CtxOf[ccb'[d][n]] = d /\ stage'[ccb'[d][n]] \in {"queued", "running"}
             /\ \A m \in 1..(n - 1) : ccb'[d][m] \in before'[ccb'[d][n]]
  <2>1. CASE d # c
    <3>1. ccb'[d] = ccb[d] /\ ccb[d][n] \in Works \ {j}
      BY <1>1, <1>4, <1>6, <2>1
    <3>2. /\ CtxOf[ccb[d][n]] = d /\ stage[ccb[d][n]] \in {"queued", "running"}
          /\ \A m \in 1..(n - 1) : ccb[d][m] \in before[ccb[d][n]]
      BY <3>1 DEF InOrder
    <3>3. stage'[ccb[d][n]] = stage[ccb[d][n]] /\ before'[ccb[d][n]] = before[ccb[d][n]]
      BY <1>2, <3>1
    <3> QED
      BY <3>1, <3>2, <3>3
  <2>2. CASE d = c /\ n \in 1..Len(s)
    <3>1. s[n] \in Works \ {j} /\ ccb'[d][n] = s[n] /\ \A m \in 1..(n - 1) : ccb'[d][m] = s[m]
      BY <1>1, <1>5, <1>6, <2>2 DEF s
    <3>2. /\ CtxOf[s[n]] = c /\ stage[s[n]] \in {"queued", "running"}
          /\ \A m \in 1..(n - 1) : s[m] \in before[s[n]]
      BY <1>1, <2>2 DEF InOrder, s
    <3> QED
      BY <3>1, <3>2, <1>2, <2>2
  <2>3. CASE d = c /\ n = Len(s) + 1
    <3>1. ccb'[d][n] = j /\ \A m \in 1..(n - 1) : ccb'[d][m] = s[m] /\ m \in 1..Len(s)
      BY <1>5, <2>3
    <3>2. \A m \in 1..Len(s) : s[m] \in Works /\ Published(s[m])
      BY <1>1, <1>5 DEF InOrder, s
    <3>3. CtxOf[j] = c
      BY DEF c
    <3> QED
      BY <3>1, <3>2, <3>3, <1>2, <2>3
  <2>4. n \in 1..Len(s) \/ n = Len(s) + 1 \/ d # c
    BY <1>5
  <2> QED
    BY <2>1, <2>2, <2>3, <2>4
<1>8. ASSUME NEW k \in Jobs, stage'[k] \in {"queued", "running"}
      PROVE  \E n \in 1..Len(Queue(k)') : Queue(k)'[n] = k
  <2>1. CASE k = j
    BY <2>1, <1>5 DEF Queue, c
  <2>2. CASE k # j
    <3>1. PICK n \in 1..Len(ccb[CtxOf[k]]) : ccb[CtxOf[k]][n] = k
      BY <1>8, <1>2, <1>1, <2>2 DEF InOrder, Queue
    <3>2. CtxOf[k] \in Ctxs
      BY BufferSyncAssumption
    <3> QED
      BY <3>1, <3>2, <1>4, <1>5 DEF Queue, s
  <2> QED
    BY <2>1, <2>2
<1>9. ASSUME NEW k \in Jobs, stage'[k] = "running" PROVE Queue(k)'[1] = k
  <2>1. k # j /\ stage[k] = "running" /\ CtxOf[k] \in Ctxs
    BY <1>9, <1>1, <1>2, BufferSyncAssumption
  <2>2. ccb[CtxOf[k]][1] = k /\ \E n \in 1..Len(ccb[CtxOf[k]]) : ccb[CtxOf[k]][n] = k
    BY <2>1 DEF InOrder, Queue
  <2> QED
    BY <2>1, <2>2, <1>4, <1>5 DEF Queue, s
<1>10. ASSUME NEW v \in Jobs, NEW w \in Jobs, v \in before'[w], CtxOf[v] = CtxOf[w],
              stage'[w] \in {"running", "done"}
       PROVE  stage'[v] = "done"
  BY <1>1, <1>2, <1>3, <1>10 DEF InOrder
<1> QED
  BY <1>4, <1>7, <1>8, <1>9, <1>10 DEF InOrder

\* A job that kicks has locked what it uses, and nothing in between used it.
LEMMA KickOrder ==
  ASSUME LInv, OInv, NEW j \in Jobs, Kick(j) PROVE OInv' /\ Promise!AbsPublish(j)
<1>1. /\ pc[j] = "resolved" /\ pc' = [pc EXCEPT ![j] = "kicked"] /\ Publish(j, UsesOf(j))
      /\ ccb' = [ccb EXCEPT ![CtxOf[j]] = Append(@, j)]
      /\ UNCHANGED <<asked, req, idx, lockVars, resv, fences, todo, waiting, deps>>
  BY DEF Kick, At, Goto, checkVars, depVars
<1>2. /\ JobInv(j) /\ PromiseInv /\ WorkTypes /\ InOrder /\ j \in Works
      /\ pc'[j] = "kicked" /\ \A k \in Jobs \ {j} : pc'[k] = pc[k]
  BY <1>1 DEF OInv, Works, LInv, LockTypes
<1>3. stage[j] = "none"
  BY <1>1, <1>2 DEF JobInv, Kicked, Before
<1>4. /\ UsesOf(j).read \cup UsesOf(j).write = AllOf(j)
      /\ \A n \in DOMAIN req[j] : req[j][n].write <=> req[j][n].pmr \in UsesOf(j).write
  BY <1>1, <1>2, AskedUses DEF JobInv
<1>5. AllOf(j) \subseteq Exported
  BY <1>1 DEF LInv, Settled, Holds, Mine
<1>6. UsesOf(j) \in Promise!Uses
  <2>1. UsesOf(j).read \subseteq Exported /\ UsesOf(j).write \subseteq Exported
    BY <1>4, <1>5
  <2> QED
    BY <2>1 DEF UsesOf, Promise!Uses
<1>7. PICK u \in Promise!Uses : u = UsesOf(j)
  BY <1>6
<1>8. /\ OrderTypes' /\ stage'[j] = "queued" /\ uses'[j] = u
      /\ before'[j] = {v \in Works : Published(v)}
      /\ \A v \in Works \ {j} :
           stage'[v] = stage[v] /\ before'[v] = before[v] /\ uses'[v] = uses[v]
  BY <1>1, <1>2, <1>3, <1>7, Publication DEF PromiseInv
<1>9. PromiseInv' /\ Promise!AbsPublish(j)
  BY <1>1, <1>2, <1>3, <1>7, PublishKeeps DEF Promise!AbsPublish, Publish
<1>10. Grows
  BY <1>3, <1>8 DEF Grows
<1>11. InOrder'
  BY <1>1, <1>2, <1>3, <1>7, KickInOrder
<1>12. WorkTypes'
  BY <1>1, <1>2 DEF WorkTypes
<1>13. FencesTell' /\ HiddenBehind'
  BY <1>1, <1>10, FencesStay
<1>14. \A p \in Exported : Touches(j, p)' <=> p \in AllOf(j)
  BY <1>4, <1>7, <1>8 DEF Touches
<1>15. AllCovered'
  <2> SUFFICES ASSUME NEW v \in Works, NEW p \in Exported, Published(v)', Touches(v, p)'
               PROVE  Covered(v, p)'
    BY DEF AllCovered
  <2>1. CASE v = j
    BY <2>1, <1>1, <1>2, <1>14 DEF Covered, ToAdd, AllOf
  <2>2. CASE v # j
    <3>1. ASSUME NEW k \in Jobs, ToAdd(k, p) PROVE ToAdd(k, p)'
      BY <3>1, <1>1, <1>2 DEF ToAdd, AllOf
    <3>2. Published(v) /\ Touches(v, p)
      BY <2>2, <1>8 DEF Touches
    <3> QED
      BY <3>1, <3>2, <1>1, <1>10, CoveredStays
  <2> QED
    BY <2>1, <2>2
<1>16. JobInv(j)'
  <2>1. Asked(j)' /\ Checked(j)'
    BY <1>1, <1>2 DEF JobInv, Asked, Checked, LookedAt
  <2>2. Kicked(j)'
    BY <1>1, <1>2, <1>7, <1>8 DEF Kicked, Before, UsesOf
  <2>3. Latest(j)'
    BY <1>8 DEF Latest
  <2>4. Held(j)'
    <3> SUFFICES ASSUME NEW v \in Works, v \in before'[j], Promise!Conflict(v, j)'
                 PROVE  stage'[v] = "done" \/ \E d \in deps'[j] : \E p \in Exported : Chain(v, d, p)'
      BY DEF Held
    <3>1. v # j /\ Published(v) /\ uses'[v] = uses[v] /\ stage'[v] = stage[v] /\ uses[v] \in Promise!Uses
      BY <1>2, <1>3, <1>8 DEF PromiseInv, OrderTypes
    <3>2. PICK p \in Exported : /\ Touches(v, p) /\ p \in AllOf(j)
                                /\ WritesTo(v, p) \/ p \in UsesOf(j).write
      BY <3>1, <1>4, <1>5, <1>7, <1>8 DEF Promise!Conflict, Promise!Uses, Touches, WritesTo
    <3>3. PICK n \in DOMAIN req[j] : p = req[j][n].pmr
      BY <3>2 DEF AllOf
    <3>4. LookedAt(j, n) /\ Enough(j, n)
      BY <1>1, <1>2 DEF LookedAt, JobInv, Checked
    <3>5. stage[v] = "done" \/ \E d \in Works : WaitsFor(j, d) /\ Chain(v, d, p)
      BY <3>1, <3>2, <3>3, <3>4, <1>4 DEF Enough
    <3>6. ASSUME NEW d \in Works, WaitsFor(j, d), Chain(v, d, p)
          PROVE  d \in deps'[j] /\ Chain(v, d, p)'
      BY <3>1, <3>6, <1>1, <1>2, <1>10, ChainStays DEF WaitsFor
    <3> QED
      BY <3>1, <3>5, <3>6
  <2> QED
    BY <2>1, <2>2, <2>3, <2>4 DEF JobInv
<1>17. ASSUME NEW k \in Jobs \ {j} PROVE JobInv(k)'
  <2>1. OthersStay(j)
    BY <1>1, <1>2 DEF OthersStay
  <2>2. k \in Works /\ stage'[k] = stage[k]
    BY <1>8 DEF Works
  <2>3. ASSUME NEW v \in Works, NEW p \in Exported, Touches(v, p)', p \in AllOf(k), pc[k] \in Holding,
               Published(v)'
        PROVE  Published(v)
    <3>1. CASE v = j
      <4>1. p \in AllOf(j) /\ pc[j] \in Holding
        BY <3>1, <2>3, <1>1, <1>14
      <4> QED
        BY <4>1, <2>3, LockedFor
    <3>2. CASE v # j
      BY <3>2, <2>3, <1>8
    <3> QED
      BY <3>1, <3>2
  <2> QED
    BY <2>1, <2>2, <2>3, <1>10, OtherJob
<1> QED
  BY <1>9, <1>11, <1>12, <1>13, <1>15, <1>16, <1>17 DEF OInv

LEMMA StartOrder ==
  ASSUME LInv, OInv, NEW j \in Jobs, Start(j) PROVE OInv' /\ Promise!AbsStart(j)
<1>1. /\ stage[j] = "queued" /\ Head(ccb[CtxOf[j]]) = j /\ \A w \in deps[j] : stage[w] = "done"
      /\ stage' = [stage EXCEPT ![j] = "running"]
      /\ UNCHANGED <<pc, asked, req, idx, lockVars, resv, fences, todo, waiting, deps, ccb, uses, before>>
  BY DEF Start, Signaled, checkVars, depVars
<1>2. /\ JobInv(j) /\ PromiseInv /\ WorkTypes /\ InOrder /\ j \in Works
      /\ stage'[j] = "running" /\ \A v \in Works \ {j} : stage'[v] = stage[v]
      /\ deps[j] \subseteq Works
  BY <1>1 DEF OInv, Works, WorkTypes, PromiseInv, OrderTypes
<1>3. Promise!AbsStart(j)
  <2> SUFFICES ASSUME NEW v \in before[j], Promise!Conflict(v, j) PROVE stage[v] = "done"
    BY <1>1 DEF Promise!AbsStart
  <2>1. v \in Works
    BY <1>2 DEF PromiseInv, OrderTypes
  <2>2. stage[v] = "done" \/ \E d \in deps[j] : \E p \in Exported : Chain(v, d, p)
    BY <1>1, <1>2, <2>1 DEF JobInv, Held
  <2> QED
    BY <1>1, <1>2, <2>1, <2>2, ChainDone
<1>4. PromiseInv'
  BY <1>2, <1>3, StartKeeps
<1>5. Grows
  BY <1>1, <1>2 DEF Grows
<1>6. InOrder'
  <2> DEFINE s == ccb[CtxOf[j]]
  <2>1. PICK n \in 1..Len(s) : s[n] = j
    BY <1>1, <1>2 DEF InOrder, Queue
  <2>2. s \in Seq(Jobs)
    BY BufferSyncAssumption, <1>2 DEF InOrder
  <2>3. s[1] = j
    BY <2>1, <2>2, <1>1
  <2>4. ASSUME NEW v \in Jobs, v \in before[j], CtxOf[v] = CtxOf[j] PROVE stage[v] = "done"
    <3> SUFFICES ASSUME stage[v] \in {"queued", "running"} PROVE FALSE
      BY <1>2, <2>4 DEF PromiseInv, OrderTypes, Ordered, Works
    <3>1. PICK m \in 1..Len(s) : s[m] = v
      BY <1>2, <2>4 DEF InOrder, Queue
    <3>2. v \in Works /\ j \notin before[v]
      BY <1>2, <2>4 DEF PromiseInv, Ordered, Works
    <3>3. v # j
      BY <3>2, <2>4
    <3>4. m # 1 /\ 1 \in 1..(m - 1)
      BY <3>1, <3>3, <2>3
    <3>5. s[1] \in before[s[m]]
      BY <3>4, <1>2, BufferSyncAssumption DEF InOrder
    <3> QED
      BY <3>1, <3>2, <3>5, <2>3
  <2>5. \A k \in Jobs : k \in Works
    BY DEF Works
  <2>6. \A c \in Ctxs : \A m \in 1..Len(ccb[c]) : ccb[c][m] \in Jobs
    BY <1>2, ElementOfSeq DEF InOrder
  <2>7. \A v, w \in Jobs :
          v \in before[w] /\ CtxOf[v] = CtxOf[w] /\ stage'[w] \in {"running", "done"}
            => stage'[v] = "done"
    <3> SUFFICES ASSUME NEW v \in Jobs, NEW w \in Jobs, v \in before[w], CtxOf[v] = CtxOf[w],
                        stage'[w] \in {"running", "done"}
                 PROVE  stage'[v] = "done"
      OBVIOUS
    <3>1. stage[v] = "done"
      BY <1>2, <2>4, <2>5 DEF InOrder
    <3> QED
      BY <3>1, <1>1, <1>2, <2>5
  <2>8. \A k \in Jobs : stage'[k] \in {"queued", "running"} => stage[k] \in {"queued", "running"}
    BY <1>1, <1>2, <2>5
  <2>9. \A k \in Jobs : stage'[k] = "running" => Queue(k)[1] = k
    BY <1>2, <2>3, <2>5 DEF InOrder, Queue
  <2>10. \A c \in Ctxs : \A m \in 1..Len(ccb[c]) : stage'[ccb[c][m]] \in {"queued", "running"}
    BY <1>1, <1>2, <2>5, <2>6 DEF InOrder
  <2> QED
    BY <1>1, <1>2, <2>7, <2>8, <2>9, <2>10 DEF InOrder, Queue
<1>7. WorkTypes'
  BY <1>1, <1>2 DEF WorkTypes
<1>8. FencesTell' /\ HiddenBehind'
  BY <1>1, <1>5, FencesStay
<1>9. \A v \in Works : Published(v)' <=> Published(v)
  BY <1>1, <1>2
<1>10. AllCovered'
  <2> SUFFICES ASSUME NEW v \in Works, NEW p \in Exported, Published(v), Touches(v, p)
               PROVE  Covered(v, p)'
    BY <1>1, <1>9 DEF AllCovered, Touches
  <2> QED
    BY <1>1, <1>5, CoveredStays DEF ToAdd, AllOf
<1>11. JobInv(j)'
  <2>1. Asked(j)' /\ Kicked(j)' /\ Latest(j)' /\ Held(j)'
    BY <1>1, <1>2, <1>9 DEF JobInv, Asked, Kicked, Latest, Held, Touches, UsesOf, AllOf
  <2>2. ~(pc[j] \in Before)
    BY <1>1, <1>2 DEF JobInv, Kicked
  <2>3. Checked(j)'
    BY <1>1, <2>2 DEF Checked, LookedAt, Before
  <2> QED
    BY <2>1, <2>3 DEF JobInv
<1>12. ASSUME NEW k \in Jobs \ {j} PROVE JobInv(k)'
  <2>1. OthersStay(j)
    BY <1>1 DEF OthersStay
  <2>2. k \in Works /\ stage'[k] = stage[k]
    BY <1>2 DEF Works
  <2> QED
    BY <2>1, <2>2, <1>5, <1>9, OtherJob
<1> QED
  BY <1>3, <1>4, <1>6, <1>7, <1>8, <1>10, <1>11, <1>12 DEF OInv

LEMMA FinishOrder ==
  ASSUME LInv, OInv, NEW j \in Jobs, Finish(j) PROVE OInv' /\ Promise!AbsFinish(j)
<1> DEFINE c == CtxOf[j]
           s == ccb[c]
<1>1. /\ stage[j] = "running" /\ stage' = [stage EXCEPT ![j] = "done"]
      /\ ccb' = [ccb EXCEPT ![c] = Tail(@)]
      /\ UNCHANGED <<pc, asked, req, idx, lockVars, resv, fences, todo, waiting, deps, uses, before>>
  BY DEF Finish, checkVars
<1>2. /\ JobInv(j) /\ PromiseInv /\ WorkTypes /\ InOrder /\ j \in Works
      /\ stage'[j] = "done" /\ \A v \in Works \ {j} : stage'[v] = stage[v]
      /\ c \in Ctxs /\ s \in Seq(Jobs)
  <2>1. JobInv(j) /\ PromiseInv /\ WorkTypes /\ InOrder
    BY DEF OInv
  <2>2. j \in Works /\ c \in Ctxs
    BY BufferSyncAssumption DEF Works
  <2>3. s \in Seq(Jobs)
    BY <2>1, <2>2 DEF InOrder
  <2>4. DOMAIN stage = Works
    BY <2>1 DEF PromiseInv, OrderTypes
  <2>5. stage'[j] = "done" /\ \A v \in Works \ {j} : stage'[v] = stage[v]
    BY <1>1, <2>2, <2>4
  <2> QED
    BY <2>1, <2>2, <2>3, <2>5
<1>3. Promise!AbsFinish(j)
  BY <1>1 DEF Promise!AbsFinish
<1>4. PromiseInv'
  BY <1>2, <1>3, FinishKeeps
<1>5. Grows
  BY <1>1, <1>2 DEF Grows
<1>6. InOrder'
  <2>1. PICK n \in 1..Len(s) : s[n] = j
    BY <1>1, <1>2 DEF InOrder, Queue
  <2>2. s[1] = j /\ s # << >>
    BY <1>1, <1>2, <2>1 DEF InOrder, Queue
  <2>3. /\ Tail(s) \in Seq(Jobs) /\ Len(Tail(s)) = Len(s) - 1 /\ Len(s) \in Nat
        /\ \A m \in 1..Len(Tail(s)) : Tail(s)[m] = s[m + 1]
    BY <1>2, <2>2, HeadTailProperties
  <2>4. /\ ccb'[c] = Tail(s) /\ \A d \in Ctxs \ {c} : ccb'[d] = ccb[d]
        /\ ccb' \in [Ctxs -> Seq(Jobs)]
    BY <1>1, <1>2, <2>3 DEF InOrder
  <2>5. \A m \in 1..Len(s) : /\ s[m] \in Jobs /\ CtxOf[s[m]] = c /\ stage[s[m]] \in {"queued", "running"}
                             /\ \A k \in 1..(m - 1) : s[k] \in before[s[m]]
    BY <1>2, ElementOfSeq DEF InOrder
  <2>6. \A m \in 2..Len(s) : s[m] # j
    <3> SUFFICES ASSUME NEW m \in 2..Len(s), s[m] = j PROVE FALSE
      OBVIOUS
    <3>1. s[1] \in before[s[m]]
      BY <2>5
    <3> QED
      BY <3>1, <2>2, <1>2 DEF PromiseInv, Ordered
  <2>7. \A k \in Jobs : k \in Works /\ CtxOf[k] \in Ctxs
    BY BufferSyncAssumption DEF Works
  <2> HIDE DEF s, c
  <2>8. ASSUME NEW d \in Ctxs, NEW m \in 1..Len(ccb'[d])
        PROVE  /\ CtxOf[ccb'[d][m]] = d /\ stage'[ccb'[d][m]] \in {"queued", "running"}
               /\ \A k \in 1..(m - 1) : ccb'[d][k] \in before'[ccb'[d][m]]
    <3>1. CASE d # c
      <4>1. ccb'[d] = ccb[d] /\ ccb[d] \in Seq(Jobs)
        BY <3>1, <2>4, <1>2 DEF InOrder
      <4>2. ccb[d][m] \in Jobs
        BY <4>1, ElementOfSeq
      <4>3. CtxOf[ccb[d][m]] = d
        BY <4>1, <1>2 DEF InOrder
      <4>4. ccb[d][m] # j
        BY <4>3, <3>1 DEF c
      <4> QED
        BY <4>1, <4>2, <4>4, <2>7, <1>1, <1>2 DEF InOrder
    <3>2. CASE d = c
      <4>1. m + 1 \in 2..Len(s) /\ ccb'[d][m] = s[m + 1]
        BY <3>2, <2>3, <2>4
      <4>2. \A k \in 1..(m - 1) : ccb'[d][k] = s[k + 1] /\ k + 1 \in 1..((m + 1) - 1)
        BY <3>2, <2>3, <2>4
      <4>3. s[m + 1] \in Works \ {j}
        BY <4>1, <2>5, <2>6, <2>7
      <4>4. m + 1 \in 1..Len(s)
        BY <4>1
      <4>5. CtxOf[s[m + 1]] = c /\ stage'[s[m + 1]] \in {"queued", "running"}
        BY <4>3, <4>4, <2>5, <1>2
      <4>6. \A k \in 1..(m - 1) : s[k + 1] \in before[s[m + 1]]
        BY <4>2, <4>4, <2>5
      <4> QED
        BY <3>2, <4>1, <4>2, <4>5, <4>6, <1>1
    <3> QED
      BY <3>1, <3>2
  <2>9. ASSUME NEW k \in Jobs, stage'[k] \in {"queued", "running"}
        PROVE  \E m \in 1..Len(Queue(k)') : Queue(k)'[m] = k
    <3>1. k # j /\ stage[k] \in {"queued", "running"}
      BY <2>9, <2>7, <1>2
    <3>2. PICK m \in 1..Len(ccb[CtxOf[k]]) : ccb[CtxOf[k]][m] = k
      BY <3>1, <1>2 DEF InOrder, Queue
    <3>3. CASE CtxOf[k] # c
      BY <3>2, <3>3, <2>4, <2>7 DEF Queue
    <3>4. CASE CtxOf[k] = c
      <4>1. m # 1 /\ m - 1 \in 1..Len(Tail(s)) /\ Tail(s)[m - 1] = k
        BY <3>1, <3>2, <3>4, <2>2, <2>3 DEF s
      <4> QED
        BY <4>1, <3>4, <2>4 DEF Queue
    <3> QED
      BY <3>3, <3>4
  <2>10. ASSUME NEW k \in Jobs, stage'[k] = "running" PROVE Queue(k)'[1] = k
    <3>1. k # j /\ stage[k] = "running"
      BY <2>10, <2>7, <1>2
    <3>2. ccb[CtxOf[k]][1] = k
      BY <3>1, <1>2 DEF InOrder, Queue
    <3>3. CtxOf[k] # c
      BY <3>1, <3>2, <2>2 DEF s
    <3> QED
      BY <3>2, <3>3, <2>4, <2>7 DEF Queue
  <2>11. ASSUME NEW v \in Jobs, NEW w \in Jobs, v \in before[w], CtxOf[v] = CtxOf[w],
                stage'[w] \in {"running", "done"}
         PROVE  stage'[v] = "done"
    <3>1. stage[w] \in {"running", "done"}
      BY <2>11, <2>7, <1>1, <1>2
    <3>2. stage[v] = "done"
      BY <3>1, <2>11, <1>2 DEF InOrder
    <3> QED
      BY <3>2, <2>7, <1>2
  <2> QED
    BY <1>1, <2>4, <2>8, <2>9, <2>10, <2>11 DEF InOrder
<1>7. WorkTypes'
  BY <1>1, <1>2 DEF WorkTypes
<1>8. FencesTell' /\ HiddenBehind'
  BY <1>1, <1>5, FencesStay
<1>9. \A v \in Works : Published(v)' <=> Published(v)
  BY <1>1, <1>2
<1>10. AllCovered'
  <2> SUFFICES ASSUME NEW v \in Works, NEW p \in Exported, Published(v), Touches(v, p)
               PROVE  Covered(v, p)'
    BY <1>1, <1>9 DEF AllCovered, Touches
  <2> QED
    BY <1>1, <1>5, CoveredStays DEF ToAdd, AllOf
<1>11. JobInv(j)'
  <2>1. Asked(j)' /\ Kicked(j)' /\ Latest(j)' /\ Held(j)'
    BY <1>1, <1>2, <1>9 DEF JobInv, Asked, Kicked, Latest, Held, Touches, UsesOf, AllOf
  <2>2. ~(pc[j] \in Before)
    BY <1>1, <1>2 DEF JobInv, Kicked
  <2>3. Checked(j)'
    BY <1>1, <2>2 DEF Checked, LookedAt, Before
  <2> QED
    BY <2>1, <2>3 DEF JobInv
<1>12. ASSUME NEW k \in Jobs \ {j} PROVE JobInv(k)'
  <2>1. OthersStay(j)
    BY <1>1 DEF OthersStay
  <2>2. k \in Works /\ stage'[k] = stage[k]
    BY <1>2 DEF Works
  <2> QED
    BY <2>1, <2>2, <1>5, <1>9, OtherJob
<1> QED
  BY <1>3, <1>4, <1>6, <1>7, <1>8, <1>10, <1>11, <1>12 DEF OInv

\* A new fence takes over from those it replaces: they are signalled, or of the
\* same context, or their works came before.
LEMMA FenceJoins ==
  ASSUME OInv, Grows, NEW w \in Works, NEW p \in Exported, NEW write \in BOOLEAN,
         \A v \in Works \ {w} : Published(v)' => Published(v),
         \A v \in Works \ {w} : Published(v) /\ Touches(v, p) => v \in before'[w],
         ~Published(w) => \A q \in Exported : Touches(w, q)' => q = p,
         Published(w)', Touches(w, p)', WritesTo(w, p)' <=> write,
         NEW out \in Replaced(p, w, write),
         resv' = [resv EXCEPT ![p] = (@ \ out) \cup {[work |-> w, write |-> write]}],
         \A k \in Jobs : \A q \in Exported : ToAdd(k, q) => ToAdd(k, q)' \/ (k = w /\ q = p)
  PROVE  FencesTell' /\ AllCovered' /\ HiddenBehind'
<1> DEFINE new == [work |-> w, write |-> write]
<1>1. /\ PromiseInv /\ InOrder /\ WorkTypes /\ FencesTell /\ HiddenBehind
      /\ resv'[p] = (resv[p] \ out) \cup {new} /\ \A q \in Exported \ {p} : resv'[q] = resv[q]
      /\ new.work = w /\ new.write = write
  BY DEF OInv, WorkTypes
<1> HIDE DEF new
<1>2. \A q \in Exported : \A f \in resv[q] :
        f.work \in Works /\ Published(f.work) /\ Touches(f.work, q) /\ (f.write <=> WritesTo(f.work, q))
  BY <1>1 DEF WorkTypes, FencesTell
<1>3. FencesTell'
  <2> SUFFICES ASSUME NEW q \in Exported, NEW f \in resv'[q]
               PROVE  Published(f.work)' /\ Touches(f.work, q)' /\ (f.write <=> WritesTo(f.work, q)')
    BY DEF FencesTell
  <2>1. CASE f \in resv[q]
    BY <2>1, <1>2 DEF Grows, Touches, WritesTo
  <2>2. CASE q = p /\ f = new
    BY <2>2, <1>1
  <2> QED
    BY <1>1, <2>1, <2>2
<1>4. ASSUME NEW f \in out, stage[f.work] # "done"
      PROVE  \/ SameContext(f.work, w) /\ (write \/ ~f.write)
             \/ ~UsageApi /\ write
  BY <1>4 DEF Replaced, Signaled
<1>5. out \subseteq resv[p] /\ (~UsageApi /\ write => out = resv[p])
  BY DEF Replaced
<1>6. AllCovered'
  <2> SUFFICES ASSUME NEW v \in Works, NEW q \in Exported, Published(v)', Touches(v, q)'
               PROVE  Covered(v, q)'
    BY DEF AllCovered
  <2>1. CASE v = w /\ q = p
    <3>1. BeforeAt(v, new.work, q)' /\ (WritesTo(v, q)' => new.write) /\ new \in resv'[q]
      BY <2>1, <1>1 DEF BeforeAt
    <3> QED
      BY <3>1 DEF Covered
  <2>2. CASE ~(v = w /\ q = p)
    <3>1. Published(v) /\ Touches(v, q)
      BY <2>2 DEF Grows, Touches
    <3>2. Covered(v, q)
      BY <3>1 DEF OInv, AllCovered
    <3>3. CASE stage[v] = "done"
      BY <3>3 DEF Covered, Grows
    <3>4. CASE v \in Jobs /\ ToAdd(v, q)
      BY <3>4, <2>2 DEF Covered
    <3>5. ASSUME NEW f \in resv[q], BeforeAt(v, f.work, q), WritesTo(v, q) => f.write
          PROVE  Covered(v, q)'
      <4>1. f.work \in Works /\ BeforeAt(v, f.work, q)' /\ (WritesTo(v, q)' => f.write)
        BY <1>1, <1>2, <3>1, <3>5, BeforeAtStays DEF Grows, WritesTo
      <4>2. CASE f \in resv'[q]
        BY <4>1, <4>2 DEF Covered
      <4>3. CASE f \notin resv'[q]
        <5>1. q = p /\ f \in out /\ v # w
          BY <4>3, <2>2, <1>1
        <5>2. v \in before'[w] /\ Touches(v, p)'
          BY <5>1, <3>1 DEF Grows, Touches
        <5>3. CASE stage[f.work] = "done"
          <6>1. stage[v] = "done"
            BY <5>3, <4>1, <3>5, <1>1, DoneBefore
          <6> QED
            BY <6>1, <3>3
        <5>4. CASE write
          <6>1. BeforeAt(v, new.work, p)' /\ new.write
            BY <5>2, <5>4, <1>1 DEF BeforeAt
          <6> QED
            BY <6>1, <5>1, <1>1 DEF Covered
        <5>5. CASE stage[f.work] # "done" /\ ~write
          <6>1. SameContext(f.work, w) /\ ~f.write
            BY <5>1, <5>5, <1>4
          <6>2. ~WritesTo(v, p) /\ ~WritesTo(f.work, p)
            BY <6>1, <5>1, <3>5, <1>2
          <6>3. SameContext(v, w)
            BY <6>1, <6>2, <5>1, <3>5 DEF BeforeAt, SameContext
          <6>4. BeforeAt(v, new.work, p)' /\ ~WritesTo(v, p)'
            BY <5>2, <6>2, <6>3, <3>1, <1>1 DEF BeforeAt, SameContext, Grows, WritesTo
          <6> QED
            BY <6>4, <5>1, <1>1 DEF Covered
        <5> QED
          BY <5>3, <5>4, <5>5
      <4> QED
        BY <4>2, <4>3
    <3> QED
      BY <3>2, <3>3, <3>4, <3>5 DEF Covered
  <2> QED
    BY <2>1, <2>2
<1>7. HiddenBehind'
  <2> SUFFICES ASSUME ~UsageApi, NEW q \in Exported, NEW e \in resv'[q], NEW s \in resv'[q], e.write, ~s.write
               PROVE  e.work \in before'[s.work]
    BY DEF HiddenBehind
  <2>1. CASE e \in resv[q] /\ s \in resv[q]
    BY <2>1, <1>1, <1>2 DEF HiddenBehind, Grows
  <2>2. CASE q = p /\ e = new
    BY <2>2, <1>1, <1>5
  <2>3. CASE q = p /\ s = new /\ e \in resv[q]
    <3>1. e.work \in Works /\ Published(e.work) /\ Touches(e.work, p) /\ WritesTo(e.work, p)
      BY <2>3, <1>2
    <3>2. e.work # w
      BY <3>1, <2>3, <1>1 DEF Grows, WritesTo
    <3> QED
      BY <3>1, <3>2, <2>3, <1>1
  <2> QED
    BY <1>1, <2>1, <2>2, <2>3
<1> QED
  BY <1>3, <1>6, <1>7

LEMMA AddFenceOrder == ASSUME LInv, OInv, NEW j \in Jobs, AddFence(j) PROVE OInv'
<1>1. /\ pc[j] = "add" /\ idx[j] <= Len(req[j]) /\ pc' = pc /\ idx' = [idx EXCEPT ![j] = @ + 1]
      /\ UNCHANGED <<asked, req, lockVars, fences, todo, waiting, deps, ccb, workVars>>
  BY DEF AddFence, At, InLoop, Step, checkVars, depVars
<1>2. /\ JobInv(j) /\ PromiseInv /\ WorkTypes /\ InOrder /\ j \in Works
      /\ idx'[j] = idx[j] + 1 /\ idx[j] \in DOMAIN req[j]
      /\ \A k \in Jobs \ {j} : idx'[k] = idx[k]
  BY <1>1 DEF OInv, Works, LInv, LockTypes, IsArray
<1>3. Here(j) \in AllOf(j) /\ AllOf(j) = Mine(j)
  BY <1>1, <1>2 DEF Here, AllOf, LInv, Settled, Holds
<1>4. /\ UsesOf(j).read \cup UsesOf(j).write = AllOf(j)
      /\ Writes(j) \in BOOLEAN
      /\ Writes(j) <=> Here(j) \in UsesOf(j).write
  BY <1>1, <1>2, AskedUses DEF JobInv, Here, Writes
<1>5. Published(j) /\ uses[j] = UsesOf(j)
  BY <1>1, <1>2 DEF JobInv, Kicked
<1>6. PICK p \in Exported : p = Here(j)
  BY <1>3 DEF Mine
<1>7. PICK write \in BOOLEAN : write = Writes(j)
  BY <1>4
<1>8. PICK out \in Replaced(p, j, write) :
        resv' = [resv EXCEPT ![p] = (@ \ out) \cup {[work |-> j, write |-> write]}]
  BY <1>6, <1>7 DEF AddFence
<1>9. Grows
  BY <1>1 DEF Grows, workVars
<1>10. \A v \in Works \ {j} : Published(v) /\ Touches(v, p) => v \in before'[j]
  BY <1>1, <1>2, <1>3, <1>6 DEF JobInv, Latest, workVars
<1>11. Published(j)' /\ Touches(j, p)' /\ (WritesTo(j, p)' <=> write)
  BY <1>1, <1>3, <1>4, <1>5, <1>6, <1>7 DEF Touches, WritesTo, workVars
<1>12. ASSUME NEW k \in Jobs, NEW q \in Exported, ToAdd(k, q)
       PROVE  ToAdd(k, q)' \/ (k = j /\ q = p)
  <2>1. CASE k # j
    BY <2>1, <1>1, <1>2, <1>12 DEF ToAdd, AllOf
  <2>2. CASE k = j
    <3>1. PICK n \in idx[j]..Len(req[j]) : req[j][n].pmr = q
      BY <2>2, <1>1, <1>12 DEF ToAdd
    <3>2. n = idx[j] => q = p
      BY <3>1, <1>6 DEF Here
    <3>3. n # idx[j] => n \in (idx[j] + 1)..Len(req[j])
      BY <3>1 DEF LInv, LockTypes, IsArray
    <3> QED
      BY <2>2, <3>1, <3>2, <3>3, <1>1, <1>2 DEF ToAdd
  <2> QED
    BY <2>1, <2>2
<1>13. FencesTell' /\ AllCovered' /\ HiddenBehind'
  BY <1>1, <1>2, <1>5, <1>8, <1>9, <1>10, <1>11, <1>12, FenceJoins DEF workVars
<1>14. PromiseInv' /\ InOrder'
  BY <1>1, <1>2, QuietKeeps DEF InOrder, Queue, workVars
<1>15. WorkTypes'
  <2>1. (resv[p] \ out) \cup {[work |-> j, write |-> write]} \subseteq [work : Works, write : BOOLEAN]
    BY <1>2 DEF WorkTypes
  <2>2. resv' \in [Exported -> SUBSET [work : Works, write : BOOLEAN]]
    BY <2>1, <1>2, <1>8 DEF WorkTypes
  <2> QED
    BY <2>2, <1>1, <1>2 DEF WorkTypes
<1>16. JobInv(j)'
  <2>1. Asked(j)' /\ Kicked(j)' /\ Latest(j)'
    BY <1>1, <1>2 DEF JobInv, Asked, Kicked, Latest, Touches, UsesOf, AllOf, workVars
  <2>2. Checked(j)'
    BY <1>1 DEF Checked, LookedAt
  <2>3. Held(j)'
    BY <1>1, <1>2 DEF JobInv, Held, Promise!Conflict, Chain, BeforeAt, Touches, WritesTo, SameContext, workVars
  <2> QED
    BY <2>1, <2>2, <2>3 DEF JobInv
<1>17. ASSUME NEW k \in Jobs \ {j} PROVE JobInv(k)'
  BY <1>1, <1>2, <1>9, OtherJob DEF OthersStay, workVars
<1> QED
  BY <1>13, <1>14, <1>15, <1>16, <1>17 DEF OInv

\* Another driver can add its fence only while no kick has the buffer locked.
LEMMA ForeignPublishOrder ==
  ASSUME LInv, OInv, NEW w \in Foreign, ForeignPublish(w) PROVE OInv' /\ Promise!AbsPublish(w)
<1>1. /\ stage[w] = "none"
      /\ UNCHANGED <<pc, asked, req, idx, lockVars, fences, todo, waiting, deps, ccb>>
  BY DEF ForeignPublish, checkVars, depVars
<1>2. PICK a \in ForeignUses :
        /\ held[a.pmr] = NoJob
        /\ Publish(w, [read |-> IF a.write THEN {} ELSE {a.pmr}, write |-> IF a.write THEN {a.pmr} ELSE {}])
        /\ \E out \in Replaced(a.pmr, w, a.write) :
             resv' = [resv EXCEPT ![a.pmr] = (@ \ out) \cup {[work |-> w, write |-> a.write]}]
  BY DEF ForeignPublish
<1>3. a \in [pmr : Exported, write : BOOLEAN]
  BY BufferSyncAssumption
<1>4. PICK p \in Exported : p = a.pmr
  BY <1>3
<1>5. PICK write \in BOOLEAN : write = a.write
  BY <1>3
<1>6. PICK u \in Promise!Uses :
        u = [read |-> IF write THEN {} ELSE {p}, write |-> IF write THEN {p} ELSE {}]
  BY DEF Promise!Uses
<1>7. PICK out \in Replaced(p, w, write) :
        resv' = [resv EXCEPT ![p] = (@ \ out) \cup {[work |-> w, write |-> write]}]
  BY <1>2, <1>4, <1>5
<1>8. held[p] = NoJob /\ Publish(w, u)
  BY <1>2, <1>4, <1>5, <1>6
<1>9. /\ PromiseInv /\ WorkTypes /\ InOrder /\ w \in Works /\ w \notin Jobs /\ NoJob \notin Jobs
  BY BufferSyncAssumption DEF OInv, Works
<1>10. /\ OrderTypes' /\ stage'[w] = "queued" /\ uses'[w] = u
       /\ before'[w] = {v \in Works : Published(v)}
       /\ \A v \in Works \ {w} :
            stage'[v] = stage[v] /\ before'[v] = before[v] /\ uses'[v] = uses[v]
  BY <1>1, <1>8, <1>9, Publication DEF PromiseInv
<1>11. PromiseInv' /\ Promise!AbsPublish(w)
  BY <1>1, <1>8, <1>9, PublishKeeps DEF Promise!AbsPublish, Publish
<1>12. Grows
  BY <1>1, <1>10 DEF Grows
<1>13. \A q \in Exported : (Touches(w, q)' <=> q = p) /\ (WritesTo(w, q)' <=> q = p /\ write)
  BY <1>6, <1>10 DEF Touches, WritesTo
<1>14. FencesTell' /\ AllCovered' /\ HiddenBehind'
  <2>1. \A k \in Jobs : \A q \in Exported : ToAdd(k, q) => ToAdd(k, q)'
    BY <1>1 DEF ToAdd, AllOf
  <2> QED
    BY <2>1, <1>7, <1>9, <1>10, <1>12, <1>13, FenceJoins
<1>15. InOrder'
  <2>1. \A k \in Jobs : k \in Works \ {w} /\ stage'[k] = stage[k] /\ before'[k] = before[k]
    BY <1>9, <1>10 DEF Works
  <2>2. \A c \in Ctxs : \A n \in 1..Len(ccb[c]) : ccb[c][n] \in Jobs
    BY <1>9, ElementOfSeq DEF InOrder
  <2>3. \A c \in Ctxs : \A n \in 1..Len(ccb[c]) :
          /\ CtxOf[ccb[c][n]] = c /\ stage'[ccb[c][n]] \in {"queued", "running"}
          /\ \A m \in 1..(n - 1) : ccb[c][m] \in before'[ccb[c][n]]
    BY <2>1, <2>2, <1>9 DEF InOrder
  <2> QED
    BY <2>1, <2>3, <1>1, <1>9, SMTT(30) DEF InOrder, Queue
<1>16. WorkTypes'
  <2>1. (resv[p] \ out) \cup {[work |-> w, write |-> write]} \subseteq [work : Works, write : BOOLEAN]
    BY <1>9 DEF WorkTypes
  <2>2. resv' \in [Exported -> SUBSET [work : Works, write : BOOLEAN]]
    BY <2>1, <1>7, <1>9 DEF WorkTypes
  <2> QED
    BY <2>2, <1>1, <1>9 DEF WorkTypes
<1>17. ASSUME NEW k \in Jobs PROVE JobInv(k)'
  <2>1. OthersStay(w) /\ k \in Jobs \ {w}
    BY <1>1, <1>9 DEF OthersStay
  <2>2. stage'[k] = stage[k]
    BY <2>1, <1>10 DEF Works
  <2>3. ASSUME NEW v \in Works, NEW q \in Exported, Published(v)', Touches(v, q)', q \in AllOf(k), pc[k] \in Holding
        PROVE  Published(v)
    <3>1. CASE v = w
      <4>1. held[q] = k
        BY <2>3, LockedFor
      <4> QED
        BY <4>1, <3>1, <2>3, <1>8, <1>9, <1>13
    <3>2. CASE v # w
      BY <3>2, <2>3, <1>10
    <3> QED
      BY <3>1, <3>2
  <2> QED
    BY <2>1, <2>2, <2>3, <1>12, OtherJob
<1> QED
  BY <1>11, <1>14, <1>15, <1>16, <1>17 DEF OInv

LEMMA ForeignRunOrder ==
  ASSUME LInv, OInv, NEW w \in Foreign, ForeignStart(w) \/ ForeignFinish(w) PROVE OInv'
<1>1. /\ UNCHANGED <<pc, asked, req, idx, lockVars, resv, fences, todo, waiting, deps, ccb, uses, before>>
      /\ stage[w] # "none"
      /\ \/ stage' = [stage EXCEPT ![w] = "running"] /\ stage[w] = "queued"
         \/ stage' = [stage EXCEPT ![w] = "done"]
  BY DEF ForeignStart, ForeignFinish, Promise!AbsStart, Promise!AbsFinish, checkVars, depVars
<1>2. /\ PromiseInv /\ WorkTypes /\ InOrder /\ w \in Works /\ w \notin Jobs
  BY BufferSyncAssumption DEF OInv, Works
<1>3. /\ stage'[w] \in {"running", "done"} /\ (stage[w] = "done" => stage'[w] = "done")
      /\ \A v \in Works \ {w} : stage'[v] = stage[v]
  BY <1>1, <1>2 DEF PromiseInv, OrderTypes
<1>4. PromiseInv'
  BY <1>2, StartKeeps, FinishKeeps DEF ForeignStart, ForeignFinish
<1>5. Grows
  BY <1>1, <1>3 DEF Grows
<1>6. \A k \in Jobs : k \in Works \ {w} /\ stage'[k] = stage[k]
  BY <1>2, <1>3 DEF Works
<1>7. InOrder'
  <2>1. \A c \in Ctxs : \A n \in 1..Len(ccb[c]) : ccb[c][n] \in Jobs
    BY <1>2, ElementOfSeq DEF InOrder
  <2>2. \A c \in Ctxs : \A n \in 1..Len(ccb[c]) : stage'[ccb[c][n]] \in {"queued", "running"}
    BY <2>1, <1>2, <1>6 DEF InOrder
  <2> QED
    BY <2>2, <1>1, <1>2, <1>6 DEF InOrder, Queue
<1>8. WorkTypes'
  BY <1>1, <1>2 DEF WorkTypes
<1>9. FencesTell' /\ HiddenBehind'
  BY <1>1, <1>5, FencesStay
<1>10. \A v \in Works : Published(v)' <=> Published(v)
  BY <1>1, <1>3
<1>11. AllCovered'
  <2> SUFFICES ASSUME NEW v \in Works, NEW p \in Exported, Published(v), Touches(v, p)
               PROVE  Covered(v, p)'
    BY <1>1, <1>10 DEF AllCovered, Touches
  <2> QED
    BY <1>1, <1>5, CoveredStays DEF ToAdd, AllOf
<1>12. ASSUME NEW k \in Jobs PROVE JobInv(k)'
  <2>1. OthersStay(w) /\ k \in Jobs \ {w}
    BY <1>1, <1>2 DEF OthersStay
  <2> QED
    BY <2>1, <1>5, <1>6, <1>10, OtherJob
<1> QED
  BY <1>4, <1>7, <1>8, <1>9, <1>11, <1>12 DEF OInv

-----------------------------------------------------------------------------

LEMMA OrderInit == Init => OInv
<1> SUFFICES ASSUME Init PROVE OInv
  OBVIOUS
<1>1. PromiseInv
  BY PromiseInitInv DEF Init
<1>2. WorkTypes
  BY DEF Init, WorkTypes
<1>3. /\ \A w \in Works : stage[w] = "none" /\ before[w] = {}
      /\ \A j \in Jobs : j \in Works /\ pc[j] = "idle" /\ CtxOf[j] \in Ctxs
  BY BufferSyncAssumption DEF Init, Promise!AbsInit, Works
<1>4. InOrder
  <2>1. ccb \in [Ctxs -> Seq(Jobs)] /\ \A c \in Ctxs : ccb[c] = << >>
    BY EmptySeq DEF Init
  <2> QED
    BY <2>1, <1>3, EmptySeq DEF InOrder
<1>5. FencesTell /\ AllCovered /\ HiddenBehind
  BY <1>3 DEF Init, FencesTell, AllCovered, HiddenBehind
<1>6. ASSUME NEW j \in Jobs PROVE JobInv(j)
  BY <1>3 DEF JobInv, Asked, Kicked, Latest, Checked, LookedAt, Held
<1> QED
  BY <1>1, <1>2, <1>4, <1>5, <1>6 DEF OInv

\* Every step keeps the order, and is a step of ImplicitSync or none.
LEMMA OrderStep ==
  ASSUME Reliable, LInv, OInv, [Next]_vars
  PROVE  OInv' /\ [Promise!AbsNext]_(Promise!absVars)
<1>1. ASSUME NEW j \in Jobs, LockStep(j) PROVE OInv' /\ UNCHANGED Promise!absVars
  <2>1. UNCHANGED Promise!absVars
    BY <1>1 DEF LockStep, Resolve, LockCtx, LockResv, LockFails, LockDies, LockUnwind,
                LockSlow, GiveUp, LockDone, workVars, Promise!absVars
  <2> QED
    BY <1>1, <2>1, ResolveOrder, LockOrder DEF LockStep
<1>2. ASSUME NEW j \in Jobs, CheckStep(j) PROVE OInv' /\ UNCHANGED Promise!absVars
  <2>1. UNCHANGED Promise!absVars
    BY <1>2 DEF CheckStep, CountFences, AllocFences, GetFences, CheckFence, CheckFenceFails,
                WaitFence, NextResv, GetCheckpoints, CreateUpdate, ErrDestroy, ErrUnlock,
                workVars, Promise!absVars
  <2> QED
    BY <1>2, <2>1, AsideOrder, GetFencesOrder, CheckFenceOrder, CheckFenceFailsOrder,
       WaitFenceOrder, NextResvOrder, GetCheckpointsOrder, CreateUpdateOrder DEF CheckStep
<1>3. ASSUME NEW j \in Jobs, KickStep(j) PROVE OInv' /\ [Promise!AbsNext]_(Promise!absVars)
  <2>1. CASE Kick(j)
    BY <2>1, KickOrder DEF Promise!AbsNext, Works
  <2>2. CASE ~Kick(j)
    <3>1. UNCHANGED Promise!absVars
      BY <1>3, <2>2 DEF KickStep, KickFails, KickSucceeded, AddFence, AddDone, PutExtra, Destroy,
                        workVars, Promise!absVars
    <3> QED
      BY <1>3, <2>2, <3>1, AsideOrder, KickSucceededOrder, AddFenceOrder DEF KickStep
  <2> QED
    BY <2>1, <2>2
<1>4. ASSUME NEW j \in Jobs, GpuStep(j) PROVE OInv' /\ [Promise!AbsNext]_(Promise!absVars)
  <2>1. CASE Start(j)
    BY <2>1, StartOrder DEF Promise!AbsNext, Works
  <2>2. CASE Finish(j)
    BY <2>2, FinishOrder DEF Promise!AbsNext, Works
  <2>3. CASE Notice(j)
    BY <2>3, StutterInv DEF Notice, checkVars, depVars, workVars, Promise!absVars
  <2> QED
    BY <1>4, <2>1, <2>2, <2>3 DEF GpuStep
<1>5. ASSUME NEW w \in Foreign, ForeignStep(w) PROVE OInv' /\ [Promise!AbsNext]_(Promise!absVars)
  <2>1. CASE ForeignPublish(w)
    BY <2>1, ForeignPublishOrder DEF Promise!AbsNext, Works
  <2>2. CASE ForeignStart(w) \/ ForeignFinish(w)
    BY <2>2, ForeignRunOrder DEF ForeignStart, ForeignFinish, Promise!AbsNext, Works
  <2> QED
    BY <1>5, <2>1, <2>2 DEF ForeignStep
<1>6. CASE UNCHANGED vars
  BY <1>6, StutterInv DEF vars, checkVars, depVars, workVars, Promise!absVars
<1> QED
  BY <1>1, <1>2, <1>3, <1>4, <1>5, <1>6 DEF Next

\* Kicks and the work of other drivers keep the promise of ImplicitSync, for any
\* number of them, of contexts and of buffers, in both generations of the
\* kernel's interface and whatever else fails, as long as no wait is interrupted
\* and the fences can be got: a kick starts only after everything it conflicts
\* with and that was published before it is done.
THEOREM OrderKept == ASSUME Reliable PROVE Spec => KeepsOrder
<1>1. Init => LInv /\ OInv /\ Promise!AbsInit
  BY InitInv, OrderInit DEF Init
<1>2. LInv /\ OInv /\ [Next]_vars => LInv' /\ OInv' /\ [Promise!AbsNext]_(Promise!absVars)
  BY StepInv, OrderStep
<1> QED
  BY <1>1, <1>2, PTL DEF Spec, KeepsOrder, Promise!AbsSpec

\* So a kick and other work never run at once on a buffer one of them writes.
THEOREM KicksExclude == ASSUME Reliable PROVE Spec => []Promise!NoConflictRuns
  BY OrderKept, ConflictsExclude, PTL DEF KeepsOrder

-----------------------------------------------------------------------------
(* What holds whatever fails, waits and get_fences included.               *)

Staged(j) ==
  /\ pc[j] \in Before => ~Published(j)
  /\ pc[j] \in {"kicked", "add"} => Published(j)

BInv ==
  /\ WorkTypes /\ stage \in [Works -> Stages]
  /\ \A j \in Jobs : Asked(j) /\ Staged(j)

LEMMA BaseInit == Init => BInv
  BY DEF Init, BInv, WorkTypes, Asked, Staged, Promise!AbsInit, Works

LEMMA BaseStay ==
  ASSUME LInv, BInv, NEW j \in Jobs, NEW l \in Labels,
         pc' = pc \/ pc' = [pc EXCEPT ![j] = l],
         pc[j] # "idle", l \in Before => pc[j] \in Before,
         l \in {"kicked", "add"} => pc[j] \in {"kicked", "add"},
         UNCHANGED <<asked, req, stage>>, WorkTypes'
  PROVE  BInv'
<1>1. pc'[j] \in {pc[j], l} /\ \A k \in Jobs \ {j} : pc'[k] = pc[k]
  BY DEF LInv, LockTypes
<1>2. ASSUME NEW k \in Jobs PROVE Asked(k)' /\ Staged(k)'
  BY <1>1 DEF BInv, Asked, Staged
<1> QED
  BY <1>2 DEF BInv

\* The steps of a job on its own.
LEMMA BaseJob ==
  ASSUME LInv, BInv, NEW j \in Jobs, ~Resolve(j), LockStep(j) \/ CheckStep(j) PROVE BInv'
<1>1. CASE LockStep(j)
  <2>1. /\ UNCHANGED <<asked, req, stage, resv, fences, todo, waiting, deps>>
        /\ pc[j] \in {"ctx_lock", "lock", "fail", "slow", "give_up"}
        /\ \E l \in {"lock", "fail", "slow", "give_up", "failed", "count"} :
             pc' = pc \/ pc' = [pc EXCEPT ![j] = l]
    BY <1>1 DEF LockStep, LockCtx, LockResv, LockFails, LockDies, LockUnwind, LockSlow, GiveUp,
                LockDone, At, Goto, checkVars, depVars, workVars
  <2>2. WorkTypes'
    BY <2>1 DEF BInv, WorkTypes
  <2> QED
    BY <2>1, <2>2, BaseStay DEF Before
<1>2. CASE CheckStep(j)
  <2>1. /\ UNCHANGED <<asked, req, stage, resv>>
        /\ pc[j] \in Before \ {"idle"}
        /\ \E l \in Labels \ {"kicked", "add"} : pc' = pc \/ pc' = [pc EXCEPT ![j] = l]
    BY <1>2 DEF CheckStep, CountFences, AllocFences, GetFences, CheckFence, CheckFenceFails,
                WaitFence, NextResv, GetCheckpoints, CreateUpdate, ErrDestroy, ErrUnlock,
                At, Goto, checkVars, depVars, workVars, Before
  <2>2. /\ fences[j] \subseteq Nat \X Works /\ idx[j] \in Nat /\ todo[j] \subseteq Works
        /\ \A p, write : p \in Exported => Obtained(p, write) \subseteq Works
    BY DEF BInv, WorkTypes, LInv, LockTypes, Obtained
  <2>3. fences' \in [Jobs -> SUBSET (Nat \X Works)]
    <3>1. CASE CheckFence(j)
      <4>1. PICK w \in todo[j] : fences' = [fences EXCEPT ![j] = @ \cup {<<idx[j], w>>}]
        BY <3>1 DEF CheckFence
      <4>2. fences[j] \cup {<<idx[j], w>>} \subseteq Nat \X Works
        BY <2>2
      <4> QED
        BY <4>1, <4>2 DEF BInv, WorkTypes
    <3>2. CASE ErrDestroy(j)
      BY <3>2 DEF ErrDestroy, BInv, WorkTypes
    <3>3. CASE ~CheckFence(j) /\ ~ErrDestroy(j)
      <4>1. fences' = fences
        BY <1>2, <3>3 DEF CheckStep, CountFences, AllocFences, GetFences, CheckFenceFails,
                WaitFence, NextResv, GetCheckpoints, CreateUpdate, ErrUnlock, checkVars
      <4> QED
        BY <4>1 DEF BInv, WorkTypes
    <3> QED
      BY <3>1, <3>2, <3>3
  <2>4. todo' \in [Jobs -> SUBSET Works]
    <3>1. CASE GetFences(j)
      <4>1. pc[j] = "check" /\ idx[j] \in DOMAIN req[j]
        BY <3>1 DEF GetFences, At, InLoop, LInv, LockTypes, IsArray
      <4>2. Here(j) \in Exported
        BY <4>1 DEF LInv, Settled, Holds, Mine, AllOf, Here
      <4> QED
        BY <3>1, <4>2, <2>2 DEF GetFences, BInv, WorkTypes
    <3>2. CASE CheckFence(j) \/ CheckFenceFails(j)
      BY <3>2, <2>2 DEF CheckFence, CheckFenceFails, BInv, WorkTypes
    <3>3. CASE ~GetFences(j) /\ ~CheckFence(j) /\ ~CheckFenceFails(j)
      <4>1. todo' = todo
        BY <1>2, <3>3 DEF CheckStep, CountFences, AllocFences,
                WaitFence, NextResv, GetCheckpoints, CreateUpdate, ErrDestroy, ErrUnlock, checkVars
      <4> QED
        BY <4>1 DEF BInv, WorkTypes
    <3> QED
      BY <3>1, <3>2, <3>3
  <2>5. waiting' \in [Jobs -> Works \cup {NoWork}]
    <3>1. CASE CheckFenceFails(j) \/ WaitFence(j)
      BY <3>1, <2>2 DEF CheckFenceFails, WaitFence, BInv, WorkTypes
    <3>2. CASE ~CheckFenceFails(j) /\ ~WaitFence(j)
      <4>1. waiting' = waiting
        BY <1>2, <3>2 DEF CheckStep, CountFences, AllocFences, GetFences, CheckFence,
                NextResv, GetCheckpoints, CreateUpdate, ErrDestroy, ErrUnlock, checkVars
      <4> QED
        BY <4>1 DEF BInv, WorkTypes
    <3> QED
      BY <3>1, <3>2
  <2>6. deps' \in [Jobs -> SUBSET Works]
    <3>1. CASE GetCheckpoints(j)
      <4>1. {f[2] : f \in fences[j]} \subseteq Works
        BY <2>2
      <4> QED
        BY <3>1, <4>1 DEF GetCheckpoints, depVars, BInv, WorkTypes
    <3>2. CASE ~GetCheckpoints(j)
      <4>1. deps' = deps
        BY <1>2, <3>2 DEF CheckStep, CountFences, AllocFences, GetFences, CheckFence, CheckFenceFails,
                WaitFence, NextResv, CreateUpdate, ErrDestroy, ErrUnlock, depVars
      <4> QED
        BY <4>1 DEF BInv, WorkTypes
    <3> QED
      BY <3>1, <3>2
  <2>7. WorkTypes'
    BY <2>1, <2>3, <2>4, <2>5, <2>6 DEF BInv, WorkTypes
  <2> QED
    BY <2>1, <2>7, BaseStay
<1> QED
  BY <1>1, <1>2

LEMMA BaseResolve == ASSUME LInv, BInv, NEW j \in Jobs, Resolve(j) PROVE BInv'
<1>1. PICK r \in Requests :
        asked' = [asked EXCEPT ![j] = r] /\ req' = [req EXCEPT ![j] = Filtered(r)]
  BY DEF Resolve
<1>2. /\ pc[j] = "idle" /\ pc' = [pc EXCEPT ![j] = "ctx_lock"]
      /\ UNCHANGED <<resv, fences, todo, waiting, deps, stage>>
  BY DEF Resolve, At, Goto, checkVars, depVars, workVars
<1>3. WorkTypes'
  BY <1>1, <1>2 DEF BInv, WorkTypes
<1>4. pc'[j] = "ctx_lock" /\ \A k \in Jobs \ {j} : pc'[k] = pc[k]
  BY <1>2 DEF LInv, LockTypes
<1>5. /\ req'[j] = Filtered(r) /\ asked'[j] = r
      /\ \A k \in Jobs \ {j} : asked'[k] = asked[k] /\ req'[k] = req[k]
  BY <1>1 DEF LInv, LockTypes, BInv, WorkTypes
<1>6. ASSUME NEW k \in Jobs PROVE Asked(k)' /\ Staged(k)'
  BY <1>2, <1>4, <1>5, FilteredTells DEF BInv, Asked, Staged, Before
<1> QED
  BY <1>2, <1>3, <1>6 DEF BInv

\* The fences of a reservation object stay fences.
LEMMA FenceTypes ==
  ASSUME WorkTypes, NEW p \in Exported, NEW w \in Works, NEW write \in BOOLEAN, NEW out,
         resv' = [resv EXCEPT ![p] = (@ \ out) \cup {[work |-> w, write |-> write]}]
  PROVE  resv' \in [Exported -> SUBSET [work : Works, write : BOOLEAN]]
<1>1. (resv[p] \ out) \cup {[work |-> w, write |-> write]} \subseteq [work : Works, write : BOOLEAN]
  BY DEF WorkTypes
<1> QED
  BY <1>1 DEF WorkTypes

LEMMA BaseKick == ASSUME LInv, BInv, NEW j \in Jobs, KickStep(j) PROVE BInv'
<1>1. CASE Kick(j)
  <2>1. /\ pc[j] = "resolved" /\ pc' = [pc EXCEPT ![j] = "kicked"]
        /\ stage' = [stage EXCEPT ![j] = "queued"]
        /\ UNCHANGED <<asked, req, resv, fences, todo, waiting, deps>>
    BY <1>1 DEF Kick, At, Goto, Publish, checkVars, depVars
  <2>2. /\ pc'[j] = "kicked" /\ \A k \in Jobs \ {j} : pc'[k] = pc[k]
        /\ stage'[j] = "queued" /\ \A k \in Jobs \ {j} : stage'[k] = stage[k]
        /\ stage' \in [Works -> Stages]
    BY <2>1 DEF LInv, LockTypes, BInv, Works
  <2>3. ASSUME NEW k \in Jobs PROVE Asked(k)' /\ Staged(k)'
    BY <2>1, <2>2 DEF BInv, Asked, Staged, Before
  <2> QED
    BY <2>1, <2>2, <2>3 DEF BInv, WorkTypes
<1>2. CASE ~Kick(j)
  <2>1. /\ UNCHANGED <<asked, req, stage, todo, waiting, deps>>
        /\ pc[j] \in {"resolved", "kicked", "add", "put_extra", "destroy"}
        /\ \E l \in {"put_extra", "add", "destroy", "failed", "succeeded"} :
             /\ pc' = pc \/ pc' = [pc EXCEPT ![j] = l]
             /\ l = "add" => pc[j] = "kicked"
    BY <1>2 DEF KickStep, KickFails, KickSucceeded, AddFence, AddDone, PutExtra, Destroy,
                At, Goto, checkVars, depVars, workVars
  <2>2. fences' \in [Jobs -> SUBSET (Nat \X Works)]
    <3>1. fences' = fences \/ fences' = [fences EXCEPT ![j] = {}]
      BY <1>2 DEF KickStep, KickFails, KickSucceeded, AddFence, AddDone, PutExtra, Destroy, checkVars
    <3> QED
      BY <3>1 DEF BInv, WorkTypes
  <2>3. resv' \in [Exported -> SUBSET [work : Works, write : BOOLEAN]]
    <3>1. CASE AddFence(j)
      <4>1. PICK out \in Replaced(Here(j), j, Writes(j)) :
              resv' = [resv EXCEPT ![Here(j)] = (@ \ out) \cup {[work |-> j, write |-> Writes(j)]}]
        BY <3>1 DEF AddFence
      <4> pc[j] = "add" /\ idx[j] \in DOMAIN req[j] /\ Asked(j)
        BY <3>1 DEF AddFence, At, InLoop, LInv, LockTypes, IsArray, BInv
      <4>2. Here(j) \in Exported /\ Writes(j) \in BOOLEAN
        BY DEF LInv, Settled, Holds, Mine, AllOf, Here, Writes, Asked, Tells
      <4> QED
        BY <4>1, <4>2, FenceTypes DEF BInv, Works
    <3>2. CASE ~AddFence(j)
      BY <1>2, <3>2 DEF KickStep, KickFails, KickSucceeded, AddDone, PutExtra, Destroy, BInv, WorkTypes
    <3> QED
      BY <3>1, <3>2
  <2>4. WorkTypes'
    BY <2>1, <2>2, <2>3 DEF BInv, WorkTypes
  <2> QED
    BY <2>1, <2>4, BaseStay DEF Before
<1> QED
  BY <1>1, <1>2

\* Only the stages of works and the fences of other drivers change.
LEMMA BaseElsewhere ==
  ASSUME LInv, BInv, \/ \E j \in Jobs : GpuStep(j)
                     \/ \E w \in Foreign : ForeignStep(w)
                     \/ UNCHANGED vars
  PROVE  BInv'
<1>1. UNCHANGED <<pc, asked, req, fences, todo, waiting, deps>>
  BY DEF GpuStep, Start, Finish, Notice, ForeignStep, ForeignPublish, ForeignStart, ForeignFinish,
         checkVars, depVars, vars
<1>2. \/ stage' = stage
      \/ \E w \in Works : \E s \in {"running", "done"} :
           stage[w] # "none" /\ stage' = [stage EXCEPT ![w] = s]
      \/ \E w \in Foreign : stage' = [stage EXCEPT ![w] = "queued"]
  BY DEF GpuStep, Start, Finish, Notice, ForeignStep, ForeignPublish, Publish, ForeignStart, ForeignFinish,
         Promise!AbsStart, Promise!AbsFinish, vars, workVars, Works
<1>3. stage' \in [Works -> Stages]
  BY <1>2 DEF BInv, Works
<1>4. \A j \in Jobs : j \in Works /\ j \notin Foreign
  BY BufferSyncAssumption DEF Works
<1>5. \A j \in Jobs : Published(j)' <=> Published(j)
  BY <1>2, <1>4 DEF BInv
<1>6. resv' \in [Exported -> SUBSET [work : Works, write : BOOLEAN]]
  <2>1. CASE resv' = resv
    BY <2>1 DEF BInv, WorkTypes
  <2>2. CASE resv' # resv
    <3>1. PICK w \in Foreign : ForeignPublish(w)
      BY <2>2 DEF GpuStep, Start, Finish, Notice, ForeignStep, ForeignStart, ForeignFinish, vars
    <3>2. PICK a \in ForeignUses :
            \E out : resv' = [resv EXCEPT ![a.pmr] = (@ \ out) \cup {[work |-> w, write |-> a.write]}]
      BY <3>1 DEF ForeignPublish
    <3>3. a.pmr \in Exported /\ a.write \in BOOLEAN /\ w \in Works
      BY BufferSyncAssumption DEF Works
    <3> QED
      BY <3>2, <3>3, FenceTypes DEF BInv
  <2> QED
    BY <2>1, <2>2
<1> QED
  BY <1>1, <1>3, <1>5, <1>6 DEF BInv, WorkTypes, Asked, Staged

LEMMA BaseStep == LInv /\ BInv /\ [Next]_vars => BInv'
  BY BaseJob, BaseResolve, BaseKick, BaseElsewhere DEF Next

-----------------------------------------------------------------------------
(* The references.                                                         *)

FencedBy(j) == {p \in Exported : \E f \in resv[p] : f.work = j}
ChecksOf(j) == UNION {{<<k, f>> : f \in {g \in fences[k] : g[2] = j}} : k \in Jobs}

\* Fences of a reservation object and check fences are of published works, and
\* a reservation object has one of each at most.
FencesSound ==
  /\ \A p \in Exported : \A f \in resv[p] :
       Published(f.work) /\ \A g \in resv[p] : f.work = g.work => f = g
  /\ \A j \in Jobs :
       /\ \A f \in fences[j] : Published(f[2])
       /\ \A w \in todo[j] : Published(w)
       /\ IsFiniteSet(fences[j]) /\ IsFiniteSet(FencedBy(j)) /\ IsFiniteSet(ChecksOf(j))

\* Before the first check fence is made, and after the last is destroyed
Unlooked == {"idle", "ctx_lock", "lock", "fail", "slow", "give_up", "count",
             "err_unlock", "failed", "succeeded"}

\* A fence that is looked at next has no check fence yet; an update fence that
\* is added next is not there yet.
Once(j) ==
  /\ pc[j] \in Unlooked => fences[j] = {}
  /\ pc[j] = "check" => \A f \in fences[j] : f[1] < idx[j]
  /\ pc[j] \in {"fences", "wait"} =>
       \A f \in fences[j] : f[1] <= idx[j] /\ (f[1] = idx[j] => f[2] \notin todo[j])
  /\ enabled[j] => pc[j] \notin Before \cup {"kicked"}
  /\ \A p \in Exported : ToAdd(j, p) => p \notin FencedBy(j)

Created(j) ==
  IF pc[j] \in {"resolved", "kicked", "add", "put_extra"} THEN 2
  ELSE IF pc[j] = "destroy" THEN 1 ELSE 0
Counted(j) ==
  refs[j] = Created(j) + (IF enabled[j] THEN 1 ELSE 0) + Cardinality(FencedBy(j)) + Cardinality(ChecksOf(j))

RInv ==
  /\ refs \in [Jobs -> Int] /\ enabled \in [Jobs -> BOOLEAN]
  /\ FencesSound
  /\ \A j \in Jobs : Once(j) /\ Counted(j)

LEMMA Tagged ==
  ASSUME NEW j, NEW F, IsFiniteSet(F)
  PROVE  /\ IsFiniteSet({<<j, f>> : f \in F})
         /\ Cardinality({<<j, f>> : f \in F}) = Cardinality(F)
<1> DEFINE T == {<<j, f>> : f \in F}
           g == [f \in F |-> <<j, f>>]
<1>1. g \in Bijection(F, T)
  BY DEF Bijection, Injection, Surjection, IsInjective
<1> QED
  BY <1>1, FS_Bijection DEF ExistsBijection

\* Where no fence is added or goes, no count changes.
LEMMA SameFences ==
  ASSUME NEW k, UNCHANGED <<resv, fences>>
  PROVE  FencedBy(k)' = FencedBy(k) /\ ChecksOf(k)' = ChecksOf(k)
  BY DEF FencedBy, ChecksOf

LEMMA OnceStays ==
  ASSUME RInv, NEW k \in Jobs, pc'[k] = pc[k], idx'[k] = idx[k], req'[k] = req[k],
         fences'[k] = fences[k], todo'[k] = todo[k], enabled'[k] => enabled[k],
         FencedBy(k)' \subseteq FencedBy(k)
  PROVE  Once(k)'
<1>1. Once(k)
  BY DEF RInv
<1>2. ASSUME NEW p \in Exported, ToAdd(k, p)' PROVE p \notin FencedBy(k)'
  BY <1>1, <1>2 DEF Once, ToAdd, AllOf
<1> QED
  BY <1>1, <1>2 DEF Once

\* A step of a job that moves no reference.
LEMMA RefsStay ==
  ASSUME LInv, BInv, RInv, NEW j \in Jobs, NEW l \in Labels,
         pc' = pc \/ pc' = [pc EXCEPT ![j] = l],
         \A k \in Jobs \ {j} : idx'[k] = idx[k] /\ req'[k] = req[k] /\ todo'[k] = todo[k],
         UNCHANGED <<resv, fences, stage, enabled>>, refs' = refs,
         \A w \in todo'[j] : Published(w),
         Created(j)' = Created(j),
         Once(j)'
  PROVE  RInv'
<1>1. \A k \in Jobs \ {j} : pc'[k] = pc[k]
  BY DEF LInv, LockTypes
<1>2. \A k \in Jobs : FencedBy(k)' = FencedBy(k) /\ ChecksOf(k)' = ChecksOf(k)
  BY SameFences
<1>3. FencesSound'
  BY <1>2 DEF RInv, FencesSound
<1>4. ASSUME NEW k \in Jobs PROVE Once(k)' /\ Counted(k)'
  <2>1. Once(k) /\ Counted(k)
    BY DEF RInv
  <2>2. Created(k)' = Created(k)
    BY <1>1 DEF Created
  <2>3. Counted(k)'
    BY <2>1, <2>2, <1>2 DEF Counted
  <2> QED
    BY <2>3, <1>1, <1>2, OnceStays
<1> QED
  BY <1>3, <1>4 DEF RInv

LEMMA RefsInit == Init => RInv
<1> SUFFICES ASSUME Init PROVE RInv
  OBVIOUS
<1>1. ASSUME NEW j \in Jobs PROVE FencedBy(j) = {} /\ ChecksOf(j) = {}
  BY DEF Init, FencedBy, ChecksOf
<1>2. FencesSound
  BY <1>1, FS_EmptySet DEF Init, FencesSound
<1>3. ASSUME NEW j \in Jobs PROVE Once(j) /\ Counted(j)
  <2>1. Cardinality(FencedBy(j)) = 0 /\ Cardinality(ChecksOf(j)) = 0
    BY <1>1, FS_EmptySet
  <2> QED
    BY <1>1, <2>1 DEF Init, Once, Counted, Created, ToAdd
<1> QED
  BY <1>2, <1>3 DEF Init, RInv

LEMMA LockRefs == ASSUME LInv, BInv, RInv, NEW j \in Jobs, LockStep(j) PROVE RInv'
<1>1. /\ pc[j] \in {"idle", "ctx_lock", "lock", "fail", "slow", "give_up"}
      /\ \E l \in {"ctx_lock", "lock", "fail", "slow", "give_up", "failed", "count"} :
           pc' = pc \/ pc' = [pc EXCEPT ![j] = l]
      /\ UNCHANGED <<resv, fences, todo, stage, refs, enabled>>
  BY DEF LockStep, Resolve, LockCtx, LockResv, LockFails, LockDies, LockUnwind, LockSlow, GiveUp, LockDone,
         At, Goto, checkVars, workVars, fenceVars
<1>2. pc'[j] \in {"idle", "ctx_lock", "lock", "fail", "slow", "give_up", "failed", "count"}
  BY <1>1 DEF LInv, LockTypes
<1>3. \A k \in Jobs \ {j} : idx'[k] = idx[k] /\ req'[k] = req[k]
  BY DEF LockStep, Resolve, LockCtx, LockResv, LockFails, LockDies, LockUnwind, LockSlow, GiveUp, LockDone,
         Step, Rewind, LInv, LockTypes
<1>4. Created(j)' = Created(j)
  BY <1>1, <1>2 DEF Created
<1>5. Once(j)'
  BY <1>1, <1>2 DEF RInv, Once, ToAdd, Unlooked, Before
<1>6. \A w \in todo'[j] : Published(w)
  BY <1>1 DEF RInv, FencesSound
<1> QED
  BY <1>1, <1>3, <1>4, <1>5, <1>6, RefsStay

\* Looking at fences without making check fences.
LEMMA LookRefs ==
  ASSUME LInv, BInv, RInv, NEW j \in Jobs,
         \/ CountFences(j) \/ AllocFences(j) \/ GetFences(j) \/ CheckFenceFails(j)
         \/ WaitFence(j) \/ NextResv(j) \/ GetCheckpoints(j) \/ ErrUnlock(j)
  PROVE  RInv'
<1>1. /\ pc[j] \in {"count", "check", "fences", "wait", "err_unlock"}
      /\ UNCHANGED <<resv, fences, stage, refs, enabled, req>>
  BY DEF CountFences, AllocFences, GetFences, CheckFenceFails, WaitFence, NextResv, GetCheckpoints, ErrUnlock,
         At, checkVars, workVars, fenceVars
<1>2. PICK l \in {"check", "fences", "wait", "update", "failed", "err_destroy", "err_unlock"} :
        pc' = pc \/ pc' = [pc EXCEPT ![j] = l]
  BY DEF CountFences, AllocFences, GetFences, CheckFenceFails, WaitFence, NextResv, GetCheckpoints, ErrUnlock, Goto
<1>3. pc'[j] \in {"count", "check", "fences", "wait", "update", "failed", "err_destroy", "err_unlock"}
  BY <1>1, <1>2 DEF LInv, LockTypes
<1>4. \A k \in Jobs \ {j} : idx'[k] = idx[k] /\ todo'[k] = todo[k]
  <2>1. \A k \in Jobs \ {j} : idx'[k] = idx[k]
    BY DEF CountFences, AllocFences, GetFences, CheckFenceFails, WaitFence, NextResv, GetCheckpoints, ErrUnlock,
           Step, Rewind, LInv, LockTypes
  <2>2. \A k \in Jobs \ {j} : todo'[k] = todo[k]
    BY DEF CountFences, AllocFences, GetFences, CheckFenceFails, WaitFence, NextResv, GetCheckpoints, ErrUnlock,
           checkVars, BInv, WorkTypes
  <2> QED
    BY <2>1, <2>2
<1>5. Created(j)' = Created(j)
  BY <1>1, <1>3 DEF Created
<1>6. \A w \in todo'[j] : Published(w)
  <2>1. CASE GetFences(j)
    <3>1. pc[j] = "check" /\ idx[j] \in DOMAIN req[j]
      BY <2>1 DEF GetFences, At, InLoop, LInv, LockTypes, IsArray
    <3>2. Here(j) \in Exported
      BY <3>1 DEF LInv, Settled, Holds, Mine, AllOf, Here
    <3>3. \A w \in Obtained(Here(j), Writes(j)) : Published(w)
      BY <3>2 DEF Obtained, RInv, FencesSound
    <3>4. todo'[j] \in {Obtained(Here(j), Writes(j)), {}, todo[j]}
      BY <2>1 DEF GetFences, BInv, WorkTypes
    <3> QED
      BY <3>3, <3>4 DEF RInv, FencesSound
  <2>2. CASE ~GetFences(j)
    <3>1. todo'[j] \subseteq todo[j]
      BY <2>2 DEF CountFences, AllocFences, CheckFenceFails, WaitFence, NextResv, GetCheckpoints, ErrUnlock,
                  checkVars, BInv, WorkTypes
    <3> QED
      BY <3>1 DEF RInv, FencesSound
  <2> QED
    BY <2>1, <2>2
<1>7. Once(j)'
  <2>1. \A p \in Exported : ~ToAdd(j, p)'
    BY <1>3 DEF ToAdd
  <2>2. ~enabled[j]
    BY <1>1, <1>3 DEF RInv, Once, Before
  <2>3. Once(j) /\ idx[j] \in Nat /\ \A f \in fences[j] : f[1] \in Nat
    BY DEF RInv, LInv, LockTypes, BInv, WorkTypes
  <2>4. CASE CountFences(j)
    <3>1. pc'[j] = "count" /\ fences[j] = {}
      BY <2>4, <2>3 DEF CountFences, At, Once, Unlooked
    <3> QED
      BY <3>1, <1>1, <2>1, <2>2 DEF Once
  <2>5. CASE AllocFences(j)
    <3>1. pc'[j] \in {"check", "err_unlock"} /\ fences[j] = {}
      BY <2>5, <2>3 DEF AllocFences, At, Goto, Once, Unlooked, LInv, LockTypes
    <3> QED
      BY <3>1, <1>1, <2>1, <2>2 DEF Once, Unlooked
  <2>6. CASE GetFences(j)
    <3>1. pc[j] = "check" /\ pc'[j] \in {"fences", "err_destroy"} /\ idx' = idx
      BY <2>6 DEF GetFences, At, Goto, LInv, LockTypes
    <3> QED
      BY <3>1, <1>1, <2>1, <2>2, <2>3 DEF Once, Unlooked
  <2>7. CASE CheckFenceFails(j)
    <3>1. pc[j] = "fences" /\ pc'[j] = "wait" /\ idx' = idx /\ todo'[j] \subseteq todo[j]
      BY <2>7 DEF CheckFenceFails, At, Goto, LInv, LockTypes, BInv, WorkTypes
    <3> QED
      BY <3>1, <1>1, <2>1, <2>2, <2>3 DEF Once, Unlooked
  <2>8. CASE WaitFence(j)
    <3>1. pc[j] = "wait" /\ pc'[j] = "fences" /\ idx' = idx /\ todo' = todo
      BY <2>8 DEF WaitFence, At, Goto, LInv, LockTypes
    <3> QED
      BY <3>1, <1>1, <2>1, <2>2, <2>3 DEF Once, Unlooked
  <2>9. CASE NextResv(j)
    <3>1. pc[j] = "fences" /\ pc'[j] = "check" /\ idx'[j] = idx[j] + 1
      BY <2>9 DEF NextResv, At, Goto, Step, LInv, LockTypes
    <3>2. \A f \in fences[j] : f[1] < idx[j] + 1
      BY <3>1, <2>3 DEF Once
    <3> QED
      BY <3>1, <3>2, <1>1, <2>1, <2>2, <2>3 DEF Once, Unlooked
  <2>10. CASE GetCheckpoints(j)
    <3>1. pc'[j] \in {"update", "err_destroy"}
      BY <2>10 DEF GetCheckpoints, Goto, LInv, LockTypes
    <3> QED
      BY <3>1, <1>1, <2>1, <2>2 DEF Once, Unlooked
  <2>11. CASE ErrUnlock(j)
    <3>1. pc'[j] = "failed" /\ fences[j] = {}
      BY <2>11, <2>3 DEF ErrUnlock, At, Goto, Once, Unlooked, LInv, LockTypes
    <3> QED
      BY <3>1, <1>1, <2>1, <2>2 DEF Once, Unlooked
  <2> QED
    BY <2>4, <2>5, <2>6, <2>7, <2>8, <2>9, <2>10, <2>11
<1> QED
  BY <1>1, <1>2, <1>4, <1>5, <1>6, <1>7, RefsStay

\* A step that moves no fence: the count is right if the references of the
\* creator and of software signalling are.
LEMMA RefsMove ==
  ASSUME RInv, UNCHANGED <<resv, fences>>,
         \A w \in Works : Published(w) => Published(w)',
         WorkTypes, \A k \in Jobs : \A w \in todo'[k] : w \in todo[k],
         refs' \in [Jobs -> Int], enabled' \in [Jobs -> BOOLEAN],
         \A k \in Jobs :
           refs'[k] - Created(k)' - (IF enabled'[k] THEN 1 ELSE 0)
             = refs[k] - Created(k) - (IF enabled[k] THEN 1 ELSE 0),
         \A k \in Jobs : Once(k)'
  PROVE  RInv'
<1>1. \A k \in Jobs : FencedBy(k)' = FencedBy(k) /\ ChecksOf(k)' = ChecksOf(k)
  BY SameFences
<1>2. FencesSound'
  <2>1. \A p \in Exported : \A f \in resv'[p] :
          Published(f.work)' /\ \A g \in resv'[p] : f.work = g.work => f = g
    <3>1. \A p \in Exported : \A f \in resv[p] : f.work \in Works
      BY DEF WorkTypes
    <3> QED
      BY <3>1 DEF RInv, FencesSound
  <2>2. ASSUME NEW k \in Jobs
        PROVE  (\A f \in fences'[k] : Published(f[2])') /\ (\A w \in todo'[k] : Published(w)')
    <3>1. (\A f \in fences[k] : f[2] \in Works) /\ todo[k] \subseteq Works
      BY DEF WorkTypes
    <3> QED
      BY <3>1 DEF RInv, FencesSound
  <2>3. \A k \in Jobs : IsFiniteSet(fences[k])' /\ IsFiniteSet(FencedBy(k))' /\ IsFiniteSet(ChecksOf(k))'
    BY <1>1 DEF RInv, FencesSound
  <2> QED
    BY <2>1, <2>2, <2>3 DEF FencesSound
<1>3. ASSUME NEW k \in Jobs PROVE Counted(k)'
  <2>1. /\ Cardinality(FencedBy(k)) \in Nat /\ Cardinality(ChecksOf(k)) \in Nat
        /\ Created(k) \in Int /\ Created(k)' \in Int
    BY FS_CardinalityType DEF RInv, FencesSound, Created
  <2>2. Cardinality(FencedBy(k)') = Cardinality(FencedBy(k)) /\ Cardinality(ChecksOf(k)') = Cardinality(ChecksOf(k))
    BY <1>1
  <2>3. Counted(k) /\ refs[k] \in Int /\ refs'[k] \in Int
    BY DEF RInv
  <2> QED
    BY <2>1, <2>2, <2>3 DEF Counted
<1> QED
  BY <1>2, <1>3 DEF RInv

\* A job that is not published has no fence anywhere.
LEMMA Unfenced ==
  ASSUME BInv, RInv, NEW j \in Jobs, ~Published(j) PROVE FencedBy(j) = {} /\ ChecksOf(j) = {}
<1>1. FencedBy(j) = {}
  BY DEF RInv, FencesSound, FencedBy
<1>2. \A k \in Jobs : {g \in fences[k] : g[2] = j} = {}
  BY DEF RInv, FencesSound
<1> QED
  BY <1>1, <1>2 DEF ChecksOf

LEMMA CheckFenceRefs == ASSUME LInv, BInv, RInv, NEW j \in Jobs, CheckFence(j) PROVE RInv'
<1>1. PICK w \in todo[j] :
        /\ todo' = [todo EXCEPT ![j] = @ \ {w}]
        /\ fences' = [fences EXCEPT ![j] = @ \cup {<<idx[j], w>>}]
        /\ refs' = [k \in Jobs |-> IF k = w THEN refs[k] + 1 ELSE refs[k]]
  BY DEF CheckFence
<1>2. pc[j] = "fences" /\ UNCHANGED <<pc, req, idx, resv, enabled, stage>>
  BY DEF CheckFence, At, workVars
<1> DEFINE new == <<idx[j], w>>
<1>3. /\ fences'[j] = fences[j] \cup {new} /\ todo'[j] = todo[j] \ {w}
      /\ \A k \in Jobs \ {j} : fences'[k] = fences[k] /\ todo'[k] = todo[k]
  BY <1>1 DEF BInv, WorkTypes
<1>4. new \notin fences[j] /\ w \in Works /\ idx[j] \in Nat
  BY <1>2 DEF RInv, Once, BInv, WorkTypes, LInv, LockTypes
<1>5. \A k \in Jobs : FencedBy(k)' = FencedBy(k)
  BY <1>2 DEF FencedBy
<1>6. ASSUME NEW k \in Jobs
      PROVE  /\ IsFiniteSet(ChecksOf(k)')
             /\ Cardinality(ChecksOf(k)') = Cardinality(ChecksOf(k)) + (IF k = w THEN 1 ELSE 0)
  <2>0. IsFiniteSet(ChecksOf(k)) /\ Cardinality(ChecksOf(k)) \in Nat
    BY FS_CardinalityType DEF RInv, FencesSound
  <2>1. CASE k = w
    <3>1. ChecksOf(k)' = ChecksOf(k) \cup {<<j, new>>}
      BY <1>3, <2>1 DEF ChecksOf
    <3>2. <<j, new>> \notin ChecksOf(k)
      BY <1>4 DEF ChecksOf
    <3> HIDE DEF new
    <3> QED
      BY <2>0, <2>1, <3>1, <3>2, FS_AddElement
  <2>2. CASE k # w
    <3>1. ChecksOf(k)' = ChecksOf(k)
      BY <1>3, <2>2 DEF ChecksOf
    <3> QED
      BY <2>0, <2>2, <3>1
  <2> QED
    BY <2>1, <2>2
<1>7. FencesSound'
  <2>1. ASSUME NEW k \in Jobs PROVE IsFiniteSet(fences[k])' /\ \A f \in fences'[k] : Published(f[2])
    <3>1. IsFiniteSet(fences[j] \cup {new})
      BY FS_AddElement DEF RInv, FencesSound
    <3>2. Published(w) /\ new[2] = w
      BY DEF RInv, FencesSound
    <3> QED
      BY <1>3, <3>1, <3>2 DEF RInv, FencesSound
  <2>2. \A k \in Jobs : \A v \in todo'[k] : Published(v)
    BY <1>3 DEF RInv, FencesSound
  <2> QED
    BY <1>2, <1>5, <1>6, <2>1, <2>2 DEF RInv, FencesSound
<1>8. refs' \in [Jobs -> Int]
  BY <1>1 DEF RInv
<1>9. ASSUME NEW k \in Jobs PROVE Once(k)' /\ Counted(k)'
  <2>1. Counted(k)'
    <3>1. refs'[k] = refs[k] + (IF k = w THEN 1 ELSE 0)
      BY <1>1 DEF RInv
    <3>2. Cardinality(FencedBy(k)') = Cardinality(FencedBy(k)) /\ Created(k)' = Created(k)
      BY <1>5, <1>2 DEF Created
    <3>3. /\ Cardinality(FencedBy(k)) \in Nat /\ Cardinality(ChecksOf(k)) \in Nat
          /\ Created(k) \in Int /\ refs[k] \in Int /\ Counted(k)
      BY FS_CardinalityType DEF RInv, FencesSound, Created
    <3> QED
      BY <1>2, <1>6, <3>1, <3>2, <3>3 DEF Counted
  <2>2. CASE k = j
    <3>1. \A f \in fences'[j] : f[1] <= idx[j] /\ (f[1] = idx[j] => f[2] \notin todo'[j])
      BY <1>2, <1>3, <1>4 DEF RInv, Once
    <3>2. \A p \in Exported : ~ToAdd(j, p)'
      BY <1>2 DEF ToAdd
    <3>3. enabled'[j] => pc'[j] \notin Before \cup {"kicked"}
      BY <1>2 DEF RInv, Once
    <3>4. Once(j)'
      BY <1>2, <3>1, <3>2, <3>3 DEF Once, Unlooked
    <3> QED
      BY <2>1, <2>2, <3>4
  <2>3. CASE k # j
    <3>1. /\ pc'[k] = pc[k] /\ idx'[k] = idx[k] /\ req'[k] = req[k] /\ enabled'[k] = enabled[k]
          /\ fences'[k] = fences[k] /\ todo'[k] = todo[k]
      BY <1>2, <1>3, <2>3
    <3> QED
      BY <1>5, <2>1, <3>1, OnceStays
  <2> QED
    BY <2>1, <2>2, <2>3
<1> QED
  BY <1>2, <1>7, <1>8, <1>9 DEF RInv

\* Destroying the check fences of a job.
LEMMA DestroyRefs ==
  ASSUME LInv, BInv, RInv, NEW j \in Jobs, ErrDestroy(j) \/ Destroy(j) PROVE RInv'
<1>1. /\ pc[j] \in {"err_destroy", "destroy"}
      /\ fences' = [fences EXCEPT ![j] = {}]
      /\ UNCHANGED <<req, idx, resv, enabled, stage, todo>>
      /\ refs' = [k \in Jobs |-> Undestroyed(j, k) - (IF k = j /\ pc[j] = "destroy" THEN 1 ELSE 0)]
      /\ pc' = [pc EXCEPT ![j] = IF pc[j] = "err_destroy" THEN "err_unlock"
                                 ELSE IF stage[j] = "none" THEN "failed" ELSE "succeeded"]
  <2>1. CASE ErrDestroy(j)
    <3>1. \A k \in Jobs : Undestroyed(j, k) - 0 = Undestroyed(j, k)
      <4>1. ASSUME NEW k \in Jobs PROVE Undestroyed(j, k) \in Int
        <5> DEFINE F == {f \in fences[j] : f[2] = k}
        <5>1. Cardinality(F) \in Nat
          BY FS_Subset, FS_CardinalityType DEF RInv, FencesSound
        <5> QED
          BY <5>1 DEF Undestroyed, RInv
      <4> QED
        BY <4>1
    <3> QED
      BY <2>1, <3>1 DEF ErrDestroy, At, Goto, workVars
  <2>2. CASE Destroy(j)
    BY <2>2 DEF Destroy, At, Goto, workVars
  <2> QED
    BY <2>1, <2>2
<1>2. /\ pc'[j] \in {"err_unlock", "failed", "succeeded"} /\ \A k \in Jobs \ {j} : pc'[k] = pc[k]
      /\ fences'[j] = {} /\ \A k \in Jobs \ {j} : fences'[k] = fences[k]
  BY <1>1 DEF LInv, LockTypes, BInv, WorkTypes
<1>3. \A k \in Jobs : FencedBy(k)' = FencedBy(k)
  BY <1>1 DEF FencedBy
<1>4. ASSUME NEW k \in Jobs
      PROVE  /\ IsFiniteSet(ChecksOf(k)')
             /\ Undestroyed(j, k) \in Int
             /\ Undestroyed(j, k) - Cardinality(ChecksOf(k)') = refs[k] - Cardinality(ChecksOf(k))
  <2> DEFINE F == {f \in fences[j] : f[2] = k}
             T == {<<j, f>> : f \in F}
  <2>1. IsFiniteSet(F) /\ Cardinality(F) \in Nat
    BY FS_Subset, FS_CardinalityType DEF RInv, FencesSound
  <2>2. ChecksOf(k)' = ChecksOf(k) \ T
    BY <1>2 DEF ChecksOf
  <2>3. ChecksOf(k) \cap T = T
    BY DEF ChecksOf
  <2>4. IsFiniteSet(ChecksOf(k)) /\ Cardinality(ChecksOf(k)) \in Nat /\ refs[k] \in Int
    BY FS_CardinalityType DEF RInv, FencesSound
  <2>5. Undestroyed(j, k) = refs[k] - Cardinality(F)
    BY DEF Undestroyed
  <2> HIDE DEF F
  <2>6. Cardinality(T) = Cardinality(F)
    BY <2>1, Tagged
  <2> HIDE DEF T
  <2>7. IsFiniteSet(ChecksOf(k) \ T) /\ Cardinality(ChecksOf(k) \ T) = Cardinality(ChecksOf(k)) - Cardinality(T)
    BY <2>3, <2>4, FS_Difference
  <2> QED
    BY <2>1, <2>2, <2>4, <2>5, <2>6, <2>7
<1>5. FencesSound'
  <2>1. ASSUME NEW k \in Jobs PROVE IsFiniteSet(fences[k])' /\ \A f \in fences'[k] : Published(f[2])
    BY <1>2, FS_EmptySet DEF RInv, FencesSound
  <2> QED
    BY <1>1, <1>3, <1>4, <2>1 DEF RInv, FencesSound
<1>6. refs' \in [Jobs -> Int]
  BY <1>1, <1>4
<1>7. ASSUME NEW k \in Jobs PROVE Once(k)' /\ Counted(k)'
  <2>1. Counted(k)'
    <3>1. refs'[k] = Undestroyed(j, k) + Created(k)' - Created(k)
      <4>1. refs'[k] = Undestroyed(j, k) - (IF k = j /\ pc[j] = "destroy" THEN 1 ELSE 0) /\ Undestroyed(j, k) \in Int
        BY <1>1, <1>4
      <4> QED
        BY <4>1, <1>1, <1>2 DEF Created
    <3>2. Cardinality(FencedBy(k)') = Cardinality(FencedBy(k))
      BY <1>3
    <3>3. /\ Cardinality(FencedBy(k)) \in Nat /\ Cardinality(ChecksOf(k)) \in Nat /\ Cardinality(ChecksOf(k)') \in Nat
          /\ Created(k) \in Int /\ Created(k)' \in Int /\ refs[k] \in Int /\ Counted(k)
      BY <1>4, FS_CardinalityType DEF RInv, FencesSound, Created
    <3> QED
      BY <1>1, <1>4, <3>1, <3>2, <3>3 DEF Counted
  <2>2. CASE k = j
    <3>1. \A p \in Exported : ~ToAdd(j, p)'
      BY <1>2 DEF ToAdd
    <3>2. enabled[j] => pc'[j] \notin Before \cup {"kicked"}
      BY <1>1, <1>2 DEF RInv, Once, Before, LInv, LockTypes
    <3>3. Once(j)'
      BY <1>1, <1>2, <3>1, <3>2 DEF Once, Unlooked
    <3> QED
      BY <2>1, <2>2, <3>3
  <2>3. CASE k # j
    <3>1. /\ pc'[k] = pc[k] /\ idx'[k] = idx[k] /\ req'[k] = req[k] /\ enabled'[k] = enabled[k]
          /\ fences'[k] = fences[k] /\ todo'[k] = todo[k]
      BY <1>1, <1>2, <2>3
    <3> QED
      BY <1>3, <2>1, <3>1, OnceStays
  <2> QED
    BY <2>1, <2>2, <2>3
<1> QED
  BY <1>1, <1>5, <1>6, <1>7 DEF RInv

LEMMA CreateRefs == ASSUME LInv, BInv, RInv, NEW j \in Jobs, CreateUpdate(j) PROVE RInv'
<1>1. /\ pc[j] = "update" /\ UNCHANGED <<req, idx, resv, fences, todo, enabled, stage>>
      /\ \/ refs' = [refs EXCEPT ![j] = 2] /\ pc' = [pc EXCEPT ![j] = "resolved"]
         \/ refs' = refs /\ pc' = [pc EXCEPT ![j] = "err_destroy"]
  BY DEF CreateUpdate, At, Goto, checkVars, workVars
<1>2. pc'[j] \in {"resolved", "err_destroy"} /\ \A k \in Jobs \ {j} : pc'[k] = pc[k]
  BY <1>1 DEF LInv, LockTypes
<1>3. refs[j] = 0
  <2>1. FencedBy(j) = {} /\ ChecksOf(j) = {}
    BY <1>1, Unfenced DEF BInv, Staged, Before
  <2>2. Cardinality(FencedBy(j)) = 0 /\ Cardinality(ChecksOf(j)) = 0
    BY <2>1, FS_EmptySet
  <2>3. Counted(j) /\ ~enabled[j] /\ refs[j] \in Int
    BY <1>1 DEF RInv, Once, Before
  <2> QED
    BY <1>1, <2>2, <2>3 DEF Counted, Created
<1>4. refs' \in [Jobs -> Int]
  BY <1>1 DEF RInv
<1>5. ASSUME NEW k \in Jobs
      PROVE  /\ refs'[k] - Created(k)' - (IF enabled'[k] THEN 1 ELSE 0)
                  = refs[k] - Created(k) - (IF enabled[k] THEN 1 ELSE 0)
             /\ Once(k)'
  <2>1. CASE k = j
    <3>1. \A p \in Exported : ~ToAdd(j, p)'
      BY <1>2 DEF ToAdd
    <3>2. ~enabled'[j]
      BY <1>1 DEF RInv, Once, Before
    <3>3. Once(j)'
      BY <1>2, <3>1, <3>2 DEF Once, Unlooked
    <3>4. refs'[j] = Created(j)' /\ refs[j] = Created(j)
      BY <1>1, <1>3 DEF Created, LInv, LockTypes, RInv
    <3> QED
      BY <2>1, <1>1, <3>3, <3>4 DEF Created
  <2>2. CASE k # j
    <3>1. pc'[k] = pc[k] /\ refs'[k] = refs[k]
      BY <1>1, <1>2, <2>2 DEF RInv
    <3>2. FencedBy(k)' = FencedBy(k)
      BY <1>1 DEF FencedBy
    <3>3. Once(k)'
      BY <1>1, <3>1, <3>2, OnceStays
    <3> QED
      BY <1>1, <3>1, <3>3 DEF Created
  <2> QED
    BY <2>1, <2>2
<1> QED
  BY <1>1, <1>4, <1>5, RefsMove DEF RInv, BInv

\* The steps of a kick that leave its reservation objects' fences as they are.
LEMMA KickRefs ==
  ASSUME LInv, BInv, RInv, NEW j \in Jobs,
         \/ Kick(j) \/ KickFails(j) \/ KickSucceeded(j) \/ AddDone(j) \/ PutExtra(j)
  PROVE  RInv'
<1>1. /\ UNCHANGED <<req, resv, fences, todo>>
      /\ pc[j] \in {"resolved", "kicked", "add", "put_extra"}
      /\ \/ stage' = stage
         \/ stage' = [stage EXCEPT ![j] = "queued"]
  BY DEF Kick, KickFails, KickSucceeded, AddDone, PutExtra, At, Publish, checkVars, workVars
<1>2. PICK l \in {"kicked", "put_extra", "add", "destroy"} : pc' = [pc EXCEPT ![j] = l]
  BY DEF Kick, KickFails, KickSucceeded, AddDone, PutExtra, Goto
<1>3. pc'[j] = l /\ \A k \in Jobs \ {j} : pc'[k] = pc[k] /\ idx'[k] = idx[k]
  BY <1>2 DEF Kick, KickFails, KickSucceeded, AddDone, PutExtra, Rewind, LInv, LockTypes
<1>4. \A w \in Works : Published(w) => Published(w)'
  BY <1>1 DEF BInv, Works
<1>5. /\ refs' \in [Jobs -> Int] /\ enabled' \in [Jobs -> BOOLEAN]
      /\ \A k \in Jobs \ {j} : refs'[k] = refs[k] /\ enabled'[k] = enabled[k]
      /\ refs'[j] - Created(j)' - (IF enabled'[j] THEN 1 ELSE 0)
           = refs[j] - Created(j) - (IF enabled[j] THEN 1 ELSE 0)
  <2>1. refs \in [Jobs -> Int] /\ enabled \in [Jobs -> BOOLEAN]
    BY DEF RInv
  <2>2. CASE Kick(j) \/ KickFails(j) \/ AddDone(j)
    <3>1. UNCHANGED <<refs, enabled>> /\ pc'[j] \in {"kicked", "put_extra"}
      BY <1>2, <2>2 DEF Kick, KickFails, AddDone, Goto, fenceVars, LInv, LockTypes
    <3> QED
      BY <1>1, <2>1, <3>1 DEF Created
  <2>3. CASE KickSucceeded(j)
    <3>1. pc[j] = "kicked" /\ pc'[j] = "add"
      BY <2>3 DEF KickSucceeded, At, Goto, LInv, LockTypes
    <3>2. ~enabled[j]
      BY <3>1 DEF RInv, Once
    <3>3. \/ UNCHANGED <<refs, enabled>>
          \/ refs' = [refs EXCEPT ![j] = @ + 1] /\ enabled' = [enabled EXCEPT ![j] = TRUE]
      BY <2>3 DEF KickSucceeded, fenceVars
    <3>4. Created(j) = 2 /\ Created(j)' = 2
      BY <3>1 DEF Created
    <3>5. CASE UNCHANGED <<refs, enabled>>
      BY <2>1, <3>4, <3>5
    <3>6. CASE refs' = [refs EXCEPT ![j] = @ + 1] /\ enabled' = [enabled EXCEPT ![j] = TRUE]
      <4>1. refs'[j] = refs[j] + 1 /\ enabled'[j] = TRUE /\ refs[j] \in Int /\ enabled[j] = FALSE
        BY <2>1, <3>2, <3>6
      <4> QED
        BY <2>1, <3>4, <3>6, <4>1
    <3> QED
      BY <3>3, <3>5, <3>6
  <2>4. CASE PutExtra(j)
    <3>1. /\ pc[j] = "put_extra" /\ pc'[j] = "destroy"
          /\ refs' = [refs EXCEPT ![j] = @ - 1] /\ enabled' = enabled
      BY <2>4 DEF PutExtra, At, Goto, LInv, LockTypes
    <3> QED
      BY <2>1, <3>1 DEF Created
  <2> QED
    BY <2>2, <2>3, <2>4
<1>6. \A k \in Jobs : FencedBy(k)' = FencedBy(k)
  BY <1>1 DEF FencedBy
<1>7. Once(j)'
  <2>2. CASE Kick(j)
    <3>1. pc[j] = "resolved" /\ l = "kicked" /\ enabled' = enabled
      BY <1>2, <1>3, <2>2 DEF Kick, At, Goto, fenceVars, LInv, LockTypes
    <3>2. ~enabled[j] /\ FencedBy(j) = {}
      BY <3>1, Unfenced DEF RInv, Once, Before, BInv, Staged
    <3> QED
      BY <1>3, <1>6, <3>1, <3>2 DEF Once, Unlooked
  <2>3. CASE KickSucceeded(j)
    <3>1. pc[j] = "kicked" /\ l = "add" /\ idx'[j] = 1
      BY <1>2, <1>3, <2>3 DEF KickSucceeded, At, Goto, Rewind, LInv, LockTypes
    <3>2. \A p \in Exported : ToAdd(j, p)' => ToAdd(j, p)
      BY <1>1, <1>3, <3>1 DEF ToAdd, AllOf, LInv, LockTypes, IsArray
    <3>3. \A p \in Exported : ToAdd(j, p)' => p \notin FencedBy(j)'
      BY <1>6, <3>2 DEF RInv, Once
    <3> QED
      BY <1>3, <3>1, <3>3 DEF Once, Unlooked, Before
  <2>4. CASE KickFails(j) \/ AddDone(j) \/ PutExtra(j)
    <3>1. l \in {"put_extra", "destroy"}
      BY <1>2, <1>3, <2>4 DEF KickFails, AddDone, PutExtra, Goto, LInv, LockTypes
    <3>2. \A p \in Exported : ~ToAdd(j, p)'
      BY <1>3, <3>1 DEF ToAdd
    <3> QED
      BY <1>3, <3>1, <3>2 DEF Once, Unlooked, Before
  <2> QED
    BY <2>2, <2>3, <2>4
<1>8. ASSUME NEW k \in Jobs
      PROVE  /\ refs'[k] - Created(k)' - (IF enabled'[k] THEN 1 ELSE 0)
                  = refs[k] - Created(k) - (IF enabled[k] THEN 1 ELSE 0)
             /\ Once(k)'
  <2>1. CASE k = j
    BY <2>1, <1>5, <1>7
  <2>2. CASE k # j
    <3>1. pc'[k] = pc[k] /\ idx'[k] = idx[k] /\ refs'[k] = refs[k] /\ enabled'[k] = enabled[k]
      BY <1>3, <1>5, <2>2
    <3>2. Once(k)'
      BY <1>1, <1>6, <3>1, OnceStays
    <3>3. Created(k)' = Created(k)
      BY <3>1 DEF Created
    <3> QED
      BY <3>1, <3>2, <3>3
  <2> QED
    BY <2>1, <2>2
<1> QED
  BY <1>1, <1>4, <1>5, <1>8, RefsMove DEF BInv

\* The GPU, other drivers' progress, and nothing at all.
LEMMA GpuRefs ==
  ASSUME LInv, BInv, RInv,
         \/ \E j \in Jobs : GpuStep(j)
         \/ \E w \in Foreign : ForeignStart(w) \/ ForeignFinish(w)
         \/ UNCHANGED vars
  PROVE  RInv'
<1>1. UNCHANGED <<pc, req, idx, resv, fences, todo>>
  BY DEF GpuStep, Start, Finish, Notice, ForeignStart, ForeignFinish, checkVars, vars
<1>2. \/ stage' = stage
      \/ \E w \in Works : \E s \in {"running", "done"} : stage' = [stage EXCEPT ![w] = s]
  BY DEF GpuStep, Start, Finish, Notice, ForeignStart, ForeignFinish, vars, workVars,
         Promise!AbsStart, Promise!AbsFinish, Works
<1>3. \A w \in Works : Published(w) => Published(w)'
  BY <1>2 DEF BInv
<1>4. \/ UNCHANGED <<refs, enabled>>
      \/ \E j \in Jobs : /\ enabled[j] /\ enabled' = [enabled EXCEPT ![j] = FALSE]
                         /\ refs' = [refs EXCEPT ![j] = @ - 1]
  BY DEF GpuStep, Start, Finish, Notice, ForeignStart, ForeignFinish, fenceVars, vars
<1>5. /\ refs' \in [Jobs -> Int] /\ enabled' \in [Jobs -> BOOLEAN]
      /\ \A k \in Jobs : refs'[k] - (IF enabled'[k] THEN 1 ELSE 0) = refs[k] - (IF enabled[k] THEN 1 ELSE 0)
      /\ \A k \in Jobs : enabled'[k] => enabled[k]
  <2>1. refs \in [Jobs -> Int] /\ enabled \in [Jobs -> BOOLEAN]
    BY DEF RInv
  <2>2. CASE UNCHANGED <<refs, enabled>>
    BY <2>1, <2>2
  <2>3. CASE ~UNCHANGED <<refs, enabled>>
    <3>1. PICK j \in Jobs : /\ enabled[j] /\ enabled' = [enabled EXCEPT ![j] = FALSE]
                           /\ refs' = [refs EXCEPT ![j] = @ - 1]
      BY <1>4, <2>3
    <3>2. refs'[j] = refs[j] - 1 /\ enabled'[j] = FALSE /\ enabled[j] = TRUE /\ refs[j] \in Int
      BY <2>1, <3>1
    <3>3. \A k \in Jobs \ {j} : refs'[k] = refs[k] /\ enabled'[k] = enabled[k]
      BY <2>1, <3>1
    <3> QED
      BY <2>1, <3>1, <3>2, <3>3
  <2> QED
    BY <2>2, <2>3
<1>6. ASSUME NEW k \in Jobs
      PROVE  /\ refs'[k] - Created(k)' - (IF enabled'[k] THEN 1 ELSE 0)
                  = refs[k] - Created(k) - (IF enabled[k] THEN 1 ELSE 0)
             /\ Once(k)'
  <2>1. Created(k)' = Created(k) /\ Created(k) \in Int
    BY <1>1 DEF Created
  <2>2. FencedBy(k)' = FencedBy(k)
    BY <1>1 DEF FencedBy
  <2>3. Once(k)'
    BY <1>1, <1>5, <2>2, OnceStays
  <2> QED
    BY <1>5, <2>1, <2>3 DEF RInv
<1> QED
  BY <1>1, <1>3, <1>5, <1>6, RefsMove DEF BInv

Gone(out, k) == {f \in out : f.work = k}

\* A reservation object has one fence of a work at most: a fence that goes
\* takes one reference with it.
LEMMA OneFence ==
  ASSUME RInv, NEW p \in Exported, NEW out \in SUBSET resv[p], NEW k
  PROVE  Cardinality(Gone(out, k)) = IF \E f \in out : f.work = k THEN 1 ELSE 0
<1>1. CASE \E f \in out : f.work = k
  <2>1. PICK f \in out : f.work = k
    BY <1>1
  <2>2. Gone(out, k) = {f}
    BY <2>1 DEF RInv, FencesSound, Gone
  <2> QED
    BY <1>1, <2>2, FS_Singleton
<1>2. CASE ~\E f \in out : f.work = k
  <2>1. Gone(out, k) = {}
    BY <1>2 DEF Gone
  <2> QED
    BY <1>2, <2>1, FS_EmptySet
<1> QED
  BY <1>1, <1>2

\* A fence joins a reservation object and may replace others there.
Joins(p, w, write, out) ==
  resv' = [resv EXCEPT ![p] = (@ \ out) \cup {[work |-> w, write |-> write]}]

LEMMA FenceReplaces ==
  ASSUME BInv, RInv, NEW p \in Exported, NEW w \in Works, NEW write \in BOOLEAN,
         NEW out \in SUBSET resv[p], p \notin FencedBy(w),
         Joins(p, w, write, out), NEW k \in Jobs
  PROVE  /\ IsFiniteSet(FencedBy(k)')
         /\ Cardinality(FencedBy(k)')
              = Cardinality(FencedBy(k)) + (IF k = w THEN 1 ELSE 0) - Cardinality(Gone(out, k))
<1>1. /\ resv'[p] = (resv[p] \ out) \cup {[work |-> w, write |-> write]}
      /\ \A q \in Exported \ {p} : resv'[q] = resv[q]
  BY DEF BInv, WorkTypes, Joins
<1>2. IsFiniteSet(FencedBy(k)) /\ Cardinality(FencedBy(k)) \in Nat
  BY FS_CardinalityType DEF RInv, FencesSound
<1>3. CASE k = w
  <2>1. FencedBy(k)' = FencedBy(k) \cup {p}
    <3>1. [work |-> w, write |-> write].work = k /\ [work |-> w, write |-> write] \in resv'[p]
      BY <1>1, <1>3
    <3>2. \E f \in resv'[p] : f.work = k
      BY <3>1
    <3>3. \A q \in Exported \ {p} : resv'[q] = resv[q]
      BY <1>1
    <3> QED
      BY <3>2, <3>3 DEF FencedBy
  <2>2. Cardinality(Gone(out, k)) = 0
    <3>1. ~\E f \in out : f.work = k
      BY <1>3 DEF FencedBy
    <3> QED
      BY <3>1, OneFence
  <2>3. IsFiniteSet(FencedBy(k) \cup {p}) /\ Cardinality(FencedBy(k) \cup {p}) = Cardinality(FencedBy(k)) + 1
    BY <1>2, <1>3, FS_AddElement
  <2> QED
    BY <1>2, <1>3, <2>1, <2>2, <2>3
<1>4. CASE k # w /\ \E f \in out : f.work = k
  <2>1. FencedBy(k)' = FencedBy(k) \ {p} /\ p \in FencedBy(k)
    <3>1. PICK f \in out : f.work = k
      BY <1>4
    <3>2. ~\E g \in resv'[p] : g.work = k
      BY <1>1, <1>4, <3>1 DEF RInv, FencesSound
    <3> QED
      BY <1>1, <3>1, <3>2 DEF FencedBy
  <2>2. Cardinality(Gone(out, k)) = 1
    BY <1>4, OneFence
  <2>3. IsFiniteSet(FencedBy(k) \ {p}) /\ Cardinality(FencedBy(k) \ {p}) = Cardinality(FencedBy(k)) - 1
    BY <1>2, <2>1, FS_RemoveElement
  <2> QED
    BY <1>2, <1>4, <2>1, <2>2, <2>3
<1>5. CASE k # w /\ ~\E f \in out : f.work = k
  <2>1. FencedBy(k)' = FencedBy(k)
    BY <1>1, <1>5 DEF FencedBy
  <2>2. Cardinality(Gone(out, k)) = 0
    BY <1>5, OneFence
  <2> QED
    BY <1>2, <1>5, <2>1, <2>2
<1> QED
  BY <1>3, <1>4, <1>5

\* The references follow.
LEMMA FenceMoves ==
  ASSUME BInv, RInv, NEW p \in Exported, NEW w \in Works, NEW write \in BOOLEAN,
         NEW out \in SUBSET resv[p], p \notin FencedBy(w), Published(w)',
         \A v \in Works : Published(v) => Published(v)',
         Joins(p, w, write, out),
         refs' = [k \in Jobs |-> refs[k] + (IF k = w THEN 1 ELSE 0) - Cardinality(Gone(out, k))],
         UNCHANGED <<pc, fences, todo, enabled>>,
         \A k \in Jobs : Once(k)'
  PROVE  RInv'
<1>1. ASSUME NEW k \in Jobs PROVE FencedBy(k)' = FencedBy(k)' /\ ChecksOf(k)' = ChecksOf(k)
  BY DEF ChecksOf
<1>2. FencesSound'
  <2>1. ASSUME NEW q \in Exported, NEW f \in resv'[q]
        PROVE  Published(f.work)' /\ \A g \in resv'[q] : f.work = g.work => f = g
    <3> DEFINE n == [work |-> w, write |-> write]
    <3>1. \A r \in resv[q] : r.work \in Works
      BY DEF BInv, WorkTypes
    <3>2. CASE q # p
      <4>1. resv'[q] = resv[q]
        BY <3>2 DEF BInv, WorkTypes, Joins
      <4> QED
        BY <3>1, <4>1 DEF RInv, FencesSound
    <3>3. CASE q = p
      <4>1. resv'[p] = (resv[p] \ out) \cup {n}
        BY DEF BInv, WorkTypes, Joins
      <4>2. \A r \in resv[p] : r.work # w
        BY DEF FencedBy
      <4>3. n.work = w
        OBVIOUS
      <4>4. f = n \/ f \in resv[p]
        BY <3>3, <4>1
      <4>5. Published(f.work)'
        BY <3>1, <3>3, <4>3, <4>4 DEF RInv, FencesSound
      <4>6. ASSUME NEW g \in resv'[q], f.work = g.work PROVE f = g
        <5>1. g = n \/ g \in resv[p]
          BY <3>3, <4>1
        <5> HIDE DEF n
        <5> QED
          BY <4>2, <4>3, <4>4, <4>6, <5>1 DEF RInv, FencesSound
      <4> QED
        BY <4>5, <4>6
    <3> QED
      BY <3>2, <3>3
  <2>2. ASSUME NEW k \in Jobs
        PROVE  (\A f \in fences'[k] : Published(f[2])') /\ (\A v \in todo'[k] : Published(v)')
    <3>1. (\A f \in fences[k] : f[2] \in Works) /\ todo[k] \subseteq Works
      BY DEF BInv, WorkTypes
    <3> QED
      BY <3>1 DEF RInv, FencesSound
  <2>3. \A k \in Jobs : IsFiniteSet(fences[k])' /\ IsFiniteSet(ChecksOf(k))'
    BY <1>1 DEF RInv, FencesSound
  <2>4. \A k \in Jobs : IsFiniteSet(FencedBy(k))'
    BY FenceReplaces
  <2> QED
    BY <2>1, <2>2, <2>3, <2>4 DEF FencesSound
<1>3. ASSUME NEW k \in Jobs
      PROVE  Counted(k)' /\ refs'[k] \in Int
  <2>1. refs'[k] = refs[k] + (IF k = w THEN 1 ELSE 0) - Cardinality(Gone(out, k))
    BY DEF RInv
  <2>2. Cardinality(FencedBy(k)')
          = Cardinality(FencedBy(k)) + (IF k = w THEN 1 ELSE 0) - Cardinality(Gone(out, k))
    BY FenceReplaces
  <2>3. Cardinality(Gone(out, k)) \in {0, 1}
    BY OneFence
  <2>4. Cardinality(ChecksOf(k)') = Cardinality(ChecksOf(k)) /\ Created(k)' = Created(k)
    BY <1>1 DEF Created
  <2>5. /\ Cardinality(FencedBy(k)) \in Nat /\ Cardinality(ChecksOf(k)) \in Nat
        /\ Created(k) \in Int /\ refs[k] \in Int /\ Counted(k)
    BY FS_CardinalityType DEF RInv, FencesSound, Created
  <2> QED
    BY <2>1, <2>2, <2>3, <2>4, <2>5 DEF Counted
<1>4. refs' \in [Jobs -> Int]
  BY <1>3
<1> QED
  BY <1>2, <1>3, <1>4 DEF RInv

LEMMA ReplacedOf ==
  ASSUME NEW p, NEW w, NEW write, NEW out \in Replaced(p, w, write) PROVE out \in SUBSET resv[p]
  BY DEF Replaced

LEMMA FencedLess ==
  ASSUME BInv, NEW p \in Exported, NEW w \in Works, NEW write, NEW out,
         Joins(p, w, write, out), NEW k \in Jobs, k # w
  PROVE  FencedBy(k)' \subseteq FencedBy(k)
  BY DEF BInv, WorkTypes, FencedBy, Joins

LEMMA AddFenceRefs == ASSUME LInv, BInv, RInv, NEW j \in Jobs, AddFence(j) PROVE RInv'
<1>1. PICK out \in Replaced(Here(j), j, Writes(j)) :
        /\ resv' = [resv EXCEPT ![Here(j)] = (@ \ out) \cup {[work |-> j, write |-> Writes(j)]}]
        /\ refs' = [k \in Jobs |->
                     refs[k] + (IF k = j THEN 1 ELSE 0) - Cardinality(Gone(out, k))]
  BY DEF AddFence, Gone
<1>2. /\ pc[j] = "add" /\ idx[j] \in DOMAIN req[j] /\ idx[j] \in Nat /\ Len(req[j]) \in Nat
      /\ UNCHANGED <<pc, req, fences, todo, enabled, stage>> /\ Tells(req[j], asked[j])
      /\ DOMAIN req[j] = 1..Len(req[j])
  BY DEF AddFence, At, InLoop, LInv, LockTypes, IsArray, BInv, Asked, checkVars, workVars
<1>3. idx'[j] = idx[j] + 1 /\ \A k \in Jobs \ {j} : idx'[k] = idx[k]
  BY DEF AddFence, Step, LInv, LockTypes
<1>4. PICK p \in Exported : p = Here(j)
  BY <1>2 DEF LInv, Settled, Holds, Mine, AllOf, Here
<1>5. PICK write \in BOOLEAN : write = Writes(j)
  BY <1>2 DEF Writes, Tells
<1>6. /\ out \in SUBSET resv[p] /\ j \in Works /\ Published(j)
      /\ Joins(p, j, write, out)
  BY <1>1, <1>2, <1>4, <1>5, ReplacedOf DEF BInv, Staged, Works, Joins
<1>7. p \notin FencedBy(j)
  BY <1>2, <1>4 DEF RInv, Once, ToAdd, Here
<1>8. ASSUME NEW k \in Jobs PROVE Once(k)'
  <2>1. CASE k = j
    <3>1. ASSUME NEW q \in Exported, ToAdd(j, q)' PROVE q \notin FencedBy(j)'
      <4>1. PICK n \in (idx[j] + 1)..Len(req[j]) : req[j][n].pmr = q
        BY <1>2, <1>3, <3>1 DEF ToAdd
      <4>2. q # p
        BY <1>2, <1>4, <4>1 DEF Tells, Here
      <4>3. q \notin FencedBy(j)
        BY <1>2, <4>1 DEF RInv, Once, ToAdd
      <4>4. resv'[q] = resv[q]
        BY <1>6, <4>2 DEF BInv, WorkTypes, Joins
      <4> QED
        BY <4>3, <4>4 DEF FencedBy
    <3>2. Once(j)'
      BY <1>2, <3>1 DEF RInv, Once, Unlooked, Before
    <3> QED
      BY <2>1, <3>2
  <2>2. CASE k # j
    <3>1. FencedBy(k)' \subseteq FencedBy(k)
      BY <1>6, <2>2, FencedLess
    <3> QED
      BY <1>2, <1>3, <2>2, <3>1, OnceStays
  <2> QED
    BY <2>1, <2>2
<1>9. Published(j)' /\ \A v \in Works : Published(v) => Published(v)'
  BY <1>2, <1>6
<1> QED
  BY <1>1, <1>2, <1>6, <1>7, <1>8, <1>9, FenceMoves

LEMMA ForeignPublishRefs ==
  ASSUME LInv, BInv, RInv, NEW w \in Foreign, ForeignPublish(w) PROVE RInv'
<1>1. PICK u \in ForeignUses : \E out \in Replaced(u.pmr, w, u.write) :
        /\ Joins(u.pmr, w, u.write, out)
        /\ refs' = [k \in Jobs |-> refs[k] - Cardinality(Gone(out, k))]
  BY DEF ForeignPublish, Gone, Joins
<1>2. PICK out \in Replaced(u.pmr, w, u.write) :
        /\ Joins(u.pmr, w, u.write, out)
        /\ refs' = [k \in Jobs |-> refs[k] - Cardinality(Gone(out, k))]
  BY <1>1
<1>3. /\ u.pmr \in Exported /\ u.write \in BOOLEAN /\ w \in Works /\ w \notin Jobs
      /\ out \in SUBSET resv[u.pmr]
  BY BufferSyncAssumption, ReplacedOf DEF Works
<1>4. /\ ~Published(w) /\ UNCHANGED <<pc, req, idx, fences, todo, enabled>>
      /\ stage' = [stage EXCEPT ![w] = "queued"]
  BY DEF ForeignPublish, Publish, checkVars
<1>5. u.pmr \notin FencedBy(w)
  BY <1>4 DEF RInv, FencesSound, FencedBy
<1>6. refs' = [k \in Jobs |-> refs[k] + (IF k = w THEN 1 ELSE 0) - Cardinality(Gone(out, k))]
  <2>1. ASSUME NEW k \in Jobs
        PROVE  refs[k] - Cardinality(Gone(out, k))
                 = refs[k] + (IF k = w THEN 1 ELSE 0) - Cardinality(Gone(out, k))
    <3>1. refs[k] \in Int
      BY DEF RInv
    <3>2. Cardinality(Gone(out, k)) \in {0, 1}
      BY <1>3, OneFence
    <3> QED
      BY <1>3, <3>1, <3>2
  <2> QED
    BY <1>2, <2>1
<1>7. Published(w)' /\ \A v \in Works : Published(v) => Published(v)'
  BY <1>3, <1>4 DEF BInv
<1>8. ASSUME NEW k \in Jobs PROVE Once(k)'
  <2>1. FencedBy(k)' \subseteq FencedBy(k)
    BY <1>2, <1>3, FencedLess
  <2> QED
    BY <1>4, <2>1, OnceStays
<1> QED
  BY <1>2, <1>3, <1>4, <1>5, <1>6, <1>7, <1>8, FenceMoves

LEMMA RefsStep == LInv /\ BInv /\ RInv /\ [Next]_vars => RInv'
<1> SUFFICES ASSUME LInv, BInv, RInv, [Next]_vars PROVE RInv'
  OBVIOUS
<1>1. CASE \E j \in Jobs : LockStep(j)
  BY <1>1, LockRefs
<1>2. CASE \E j \in Jobs : CheckStep(j)
  BY <1>2, LookRefs, CheckFenceRefs, CreateRefs, DestroyRefs DEF CheckStep
<1>3. CASE \E j \in Jobs : KickStep(j)
  BY <1>3, KickRefs, AddFenceRefs, DestroyRefs DEF KickStep
<1>4. CASE (\E j \in Jobs : GpuStep(j)) \/ UNCHANGED vars
  BY <1>4, GpuRefs
<1>5. CASE \E w \in Foreign : ForeignStep(w)
  BY <1>5, ForeignPublishRefs, GpuRefs DEF ForeignStep
<1> QED
  BY <1>1, <1>2, <1>3, <1>4, <1>5 DEF Next

\* The references on an update fence are those of its creator, of software
\* signalling, of the reservation objects it is in and of the check fences made
\* of it, whatever fails: none is put twice, none is left behind.
THEOREM RefsAlwaysBalanced == Spec => []RefsBalanced
<1>1. RInv => RefsBalanced
  <2> SUFFICES ASSUME RInv, NEW j \in Jobs
               PROVE  /\ refs[j] =
                           (IF pc[j] \in {"resolved", "kicked", "add", "put_extra"} THEN 2 ELSE 0)
                           + (IF At(j, "destroy") THEN 1 ELSE 0)
                           + (IF enabled[j] THEN 1 ELSE 0)
                           + Cardinality(FencedBy(j)) + Cardinality(ChecksOf(j))
                      /\ pc[j] \in {"err_unlock", "failed", "succeeded"} => fences[j] = {}
    BY DEF RefsBalanced, FencedBy, ChecksOf
  <2>1. Counted(j) /\ Cardinality(FencedBy(j)) \in Nat /\ Cardinality(ChecksOf(j)) \in Nat
    BY FS_CardinalityType DEF RInv, FencesSound
  <2>2. pc[j] \in {"err_unlock", "failed", "succeeded"} => fences[j] = {}
    BY DEF RInv, Once, Unlooked
  <2> QED
    BY <2>1, <2>2 DEF Counted, Created, At
<1> QED
  BY <1>1, InitInv, StepInv, BaseInit, BaseStep, RefsInit, RefsStep, PTL DEF Spec

-----------------------------------------------------------------------------
(* The array of check fences.                                              *)

\* A fence of the object of the PMR f[1], for f[2], is one to wait for.
Finds(j, f) ==
  /\ f[1] \in DOMAIN req[j]
  /\ \E p \in Exported : \E write \in BOOLEAN :
       p = req[j][f[1]].pmr /\ write = req[j][f[1]].write /\ f[2] \in Obtained(p, write)

\* What the array has, or will have, to hold: all that is found before the place
\* the first look is at, what is left of the place the second look is at, and
\* all that is found after it.
Due(j) ==
  {f \in Nat \X Works :
     \/ pc[j] = "count" /\ f[1] < idx[j] /\ Finds(j, f)
     \/ pc[j] = "check" /\ idx[j] <= f[1] /\ Finds(j, f)
     \/ pc[j] \in {"fences", "wait"} /\ idx[j] < f[1] /\ Finds(j, f)
     \/ pc[j] \in {"fences", "wait"} /\ f[1] = idx[j] /\ f[2] \in todo[j]
     \/ pc[j] = "wait" /\ f = <<idx[j], waiting[j]>>}

Fits(j) ==
  /\ fence_count[j] \in Nat
  /\ IsFiniteSet(fences[j] \cup Due(j)) /\ Cardinality(fences[j] \cup Due(j)) <= fence_count[j]
  /\ pc[j] = "wait" => waiting[j] \in Works /\ <<idx[j], waiting[j]>> \notin fences[j]

FInv == DOMAIN fence_count = Jobs /\ \A j \in Jobs : Fits(j)

LEMMA FitsLess ==
  ASSUME NEW j, Fits(j), fence_count'[j] = fence_count[j],
         (fences[j] \cup Due(j))' \subseteq fences[j] \cup Due(j),
         pc'[j] = "wait" => waiting'[j] \in Works /\ <<idx'[j], waiting'[j]>> \notin fences'[j]
  PROVE  Fits(j)'
<1> DEFINE S == fences[j] \cup Due(j)
           T == fences'[j] \cup Due(j)'
<1>1. T \in SUBSET S /\ IsFiniteSet(S) /\ Cardinality(S) <= fence_count[j] /\ fence_count[j] \in Nat
  BY DEF Fits
<1> HIDE DEF S, T
<1>2. IsFiniteSet(T) /\ Cardinality(T) <= Cardinality(S) /\ Cardinality(S) \in Nat /\ Cardinality(T) \in Nat
  BY <1>1, FS_Subset, FS_CardinalityType
<1>3. IsFiniteSet(T) /\ Cardinality(T) <= fence_count[j]
  BY <1>1, <1>2
<1> QED
  BY <1>1, <1>3 DEF Fits, T

\* Where nothing is looked for.
LEMMA FitsAlone ==
  ASSUME NEW j, Fits(j), fence_count'[j] = fence_count[j], fences'[j] \subseteq fences[j],
         pc'[j] \notin {"count", "check", "fences", "wait"}
  PROVE  Fits(j)'
<1>1. Due(j)' = {}
  BY DEF Due
<1> QED
  BY <1>1, FitsLess

\* Nobody adds a fence to an object that is locked, and what is signalled stays so.
LEMMA FindsStay ==
  ASSUME LInv, BInv, NEW j \in Jobs, pc[j] \in Holding, req'[j] = req[j],
         \A p \in Exported : p \in AllOf(j) => resv'[p] = resv[p],
         \A w \in Works : stage[w] = "done" => stage'[w] = "done",
         NEW f, Finds(j, f)'
  PROVE  Finds(j, f)
<1>1. PICK p \in Exported, write \in BOOLEAN :
        p = req[j][f[1]].pmr /\ write = req[j][f[1]].write /\ f[2] \in Obtained(p, write)'
  BY DEF Finds
<1>2. f[1] \in DOMAIN req[j]
  BY DEF Finds
<1>3. resv'[p] = resv[p]
  BY <1>1, <1>2 DEF AllOf
<1>4. \A g \in resv[p] : g.work \in Works
  BY DEF BInv, WorkTypes
<1>5. f[2] \in Obtained(p, write)
  <2> DEFINE Excl == {g.work : g \in {h \in resv[p] : h.write}}
             Shared == {g.work : g \in {h \in resv[p] : ~h.write}}
             Both == Excl \cup (IF write THEN Shared ELSE {})
  <2>1. CASE UsageApi
    <3>1. Obtained(p, write) = {w \in Both : stage[w] # "done"}
      BY <2>1 DEF Obtained, Signaled
    <3>2. Obtained(p, write)' = {w \in Both : stage'[w] # "done"}
      BY <1>3, <2>1 DEF Obtained, Signaled
    <3>3. Both \subseteq Works
      BY <1>4
    <3> HIDE DEF Both
    <3> QED
      BY <1>1, <3>1, <3>2, <3>3
  <2>2. CASE ~UsageApi
    <3>1. Obtained(p, write)' = Obtained(p, write)
      BY <1>3, <2>2 DEF Obtained
    <3> QED
      BY <1>1, <3>1
  <2> QED
    BY <2>1, <2>2
<1> QED
  BY <1>1, <1>2, <1>5 DEF Finds

\* What others do.
LEMMA FitsAside ==
  ASSUME LInv, BInv, NEW j \in Jobs, Fits(j),
         pc'[j] = pc[j], idx'[j] = idx[j], req'[j] = req[j], fences'[j] = fences[j],
         todo'[j] = todo[j], waiting'[j] = waiting[j], fence_count'[j] = fence_count[j],
         \A p \in Exported : held[p] = j => resv'[p] = resv[p],
         \A w \in Works : stage[w] = "done" => stage'[w] = "done"
  PROVE  Fits(j)'
<1>1. CASE pc[j] \in {"count", "check", "fences", "wait"}
  <2>1. \A p \in Exported : p \in AllOf(j) => resv'[p] = resv[p]
    BY <1>1, LockedFor
  <2>2. \A f : Finds(j, f)' => Finds(j, f)
    BY <1>1, <2>1, FindsStay
  <2>3. ASSUME NEW f \in Due(j)' PROVE f \in Due(j)
    BY <2>2, <2>3 DEF Due
  <2> QED
    BY <2>3, FitsLess DEF Fits
<1>2. CASE pc[j] \notin {"count", "check", "fences", "wait"}
  BY <1>2, FitsAlone
<1> QED
  BY <1>1, <1>2

LEMMA FindsSame == ASSUME NEW j, NEW f, UNCHANGED <<req, resv, stage>> PROVE Finds(j, f)' <=> Finds(j, f)
  BY DEF Finds, Obtained, Signaled

LEMMA CountFits ==
  ASSUME LInv, BInv, FInv, "get_fences" \notin Faults, NEW j \in Jobs, CountFences(j)
  PROVE  Fits(j)'
<1>1. /\ pc[j] = "count" /\ idx[j] \in DOMAIN req[j] /\ idx[j] \in Nat
      /\ UNCHANGED <<pc, req, resv, fences, todo, waiting, stage>>
      /\ idx'[j] = idx[j] + 1 /\ Asked(j)
  BY DEF CountFences, At, InLoop, Step, workVars, LInv, LockTypes, IsArray, BInv
<1>2. PICK p \in Exported : p = Here(j)
  BY <1>1 DEF LInv, Settled, Holds, Mine, AllOf, Here
<1>3. PICK write \in BOOLEAN : write = Writes(j)
  BY <1>1 DEF Writes, Asked, Tells
<1> DEFINE got == Obtained(p, write)
           new == {<<idx[j], w>> : w \in got}
           old == fences[j] \cup Due(j)
           now == fences'[j] \cup Due(j)'
<1>4. IsFiniteSet(got) /\ Cardinality(got) \in Nat
  <2>1. got \subseteq Works
    BY DEF Obtained, BInv, WorkTypes
  <2> HIDE DEF got
  <2> QED
    BY <2>1, BufferSyncAssumption, FS_Subset, FS_CardinalityType
<1>5. fence_count'[j] = fence_count[j] + Cardinality(got)
  BY <1>2, <1>3 DEF CountFences, FInv
<1>6. now \subseteq old \cup new
  <2>1. \A f : Finds(j, f)' <=> Finds(j, f)
    BY <1>1, FindsSame
  <2>2. ASSUME NEW f \in Due(j)', f \notin Due(j) PROVE f \in new
    <3>1. f \in Nat \X Works /\ f[1] = idx[j] /\ Finds(j, f)
      BY <1>1, <2>1, <2>2 DEF Due
    <3>2. f[2] \in got
      BY <1>2, <1>3, <3>1 DEF Finds, Here, Writes
    <3>3. f = <<idx[j], f[2]>>
      BY <3>1
    <3> QED
      BY <3>2, <3>3
  <2> QED
    BY <1>1, <2>2
<1> HIDE DEF got
<1>7. IsFiniteSet(new) /\ Cardinality(new) = Cardinality(got)
  BY <1>4, Tagged
<1>8. IsFiniteSet(old) /\ Cardinality(old) \in Nat /\ Cardinality(old) <= fence_count[j] /\ fence_count[j] \in Nat
  BY FS_CardinalityType DEF FInv, Fits
<1> HIDE DEF new, old, now
<1>9. IsFiniteSet(old \cup new) /\ Cardinality(old \cup new) <= Cardinality(old) + Cardinality(new)
  <2>1. IsFiniteSet(old \cap new) /\ Cardinality(old \cap new) \in Nat
    BY <1>8, FS_Subset, FS_CardinalityType
  <2>2. /\ IsFiniteSet(old \cup new)
        /\ Cardinality(old \cup new) = Cardinality(old) + Cardinality(new) - Cardinality(old \cap new)
    BY <1>7, <1>8, FS_Union
  <2> QED
    BY <1>4, <1>7, <1>8, <2>1, <2>2
<1>10. IsFiniteSet(now) /\ Cardinality(now) <= Cardinality(old \cup new) /\ Cardinality(now) \in Nat
       /\ Cardinality(old \cup new) \in Nat
  BY <1>6, <1>9, FS_Subset, FS_CardinalityType
<1>11. Cardinality(now) <= fence_count'[j] /\ fence_count'[j] \in Nat
  BY <1>4, <1>5, <1>7, <1>8, <1>9, <1>10
<1> QED
  BY <1>1, <1>10, <1>11 DEF Fits, now

\* The second look: what it finds is what was due.
LEMMA LookFits ==
  ASSUME LInv, BInv, RInv, FInv, NEW j \in Jobs, "get_fences" \notin Faults,
         \/ AllocFences(j) \/ GetFences(j) \/ CheckFence(j) \/ CheckFenceFails(j) \/ WaitFence(j) \/ NextResv(j)
  PROVE  Fits(j)'
<1>1. /\ pc[j] \in {"count", "check", "fences", "wait"} /\ UNCHANGED <<req, resv, fence_count, stage>>
      /\ Fits(j) /\ idx[j] \in Nat /\ todo[j] \subseteq Works /\ Asked(j)
  BY DEF AllocFences, GetFences, CheckFence, CheckFenceFails, WaitFence, NextResv, At, workVars, checkVars,
         FInv, LInv, LockTypes, BInv, WorkTypes
<1>2. \A f : Finds(j, f)' <=> Finds(j, f)
  BY <1>1, FindsSame
<1>3. CASE AllocFences(j)
  <2>1. /\ pc[j] = "count" /\ pc'[j] \in {"check", "err_unlock"} /\ idx'[j] = 1 /\ UNCHANGED <<fences>>
        /\ \A n \in DOMAIN req[j] : n < idx[j] /\ n >= 1
    BY <1>3 DEF AllocFences, At, Goto, Rewind, InLoop, LInv, LockTypes, IsArray, checkVars
  <2>2. ASSUME NEW f \in Due(j)' PROVE f \in Due(j)
    BY <1>2, <2>1, <2>2 DEF Due, Finds
  <2> QED
    BY <1>1, <2>1, <2>2, FitsLess
<1>4. CASE GetFences(j)
  <2>1. CASE pc'[j] = "err_destroy"
    <3>1. UNCHANGED fences
      BY <1>4 DEF GetFences
    <3> QED
      BY <1>1, <2>1, <3>1, FitsAlone
  <2>2. CASE pc'[j] # "err_destroy"
    <3>1. /\ pc[j] = "check" /\ idx[j] \in DOMAIN req[j] /\ pc'[j] = "fences"
          /\ UNCHANGED <<idx, fences>> /\ todo'[j] = Obtained(Here(j), Writes(j))
      BY <1>4, <2>2 DEF GetFences, At, Goto, InLoop, LInv, LockTypes, IsArray, BInv, WorkTypes
    <3>2. PICK p \in Exported : p = Here(j)
      BY <3>1 DEF LInv, Settled, Holds, Mine, AllOf, Here
    <3>3. PICK write \in BOOLEAN : write = Writes(j)
      BY <1>1, <3>1 DEF Writes, Asked, Tells
    <3>4. ASSUME NEW f, f[1] = idx[j], f[2] \in todo'[j] PROVE Finds(j, f)
      BY <3>1, <3>2, <3>3, <3>4 DEF Finds, Here, Writes
    <3>5. ASSUME NEW f \in Due(j)' PROVE f \in Due(j)
      BY <1>1, <1>2, <3>1, <3>4, <3>5 DEF Due
    <3> QED
      BY <1>1, <3>1, <3>5, FitsLess
  <2> QED
    BY <2>1, <2>2
<1>5. CASE CheckFence(j)
  <2>1. PICK w \in todo[j] : todo'[j] = todo[j] \ {w} /\ fences'[j] = fences[j] \cup {<<idx[j], w>>}
    BY <1>5 DEF CheckFence, BInv, WorkTypes
  <2>2. pc[j] = "fences" /\ UNCHANGED <<pc, idx>>
    BY <1>5 DEF CheckFence, At
  <2>3. <<idx[j], w>> \in Due(j)
    BY <1>1, <2>1, <2>2 DEF Due
  <2>4. ASSUME NEW f \in Due(j)' PROVE f \in Due(j)
    BY <1>2, <2>1, <2>2, <2>4 DEF Due
  <2> QED
    BY <1>1, <2>1, <2>2, <2>3, <2>4, FitsLess
<1>6. CASE CheckFenceFails(j)
  <2>1. PICK w \in todo[j] : todo'[j] = todo[j] \ {w} /\ waiting'[j] = w
    BY <1>6 DEF CheckFenceFails, BInv, WorkTypes
  <2>2. pc[j] = "fences" /\ pc'[j] = "wait" /\ UNCHANGED <<idx, fences>>
    BY <1>6 DEF CheckFenceFails, At, Goto, LInv, LockTypes
  <2>3. <<idx[j], w>> \notin fences[j] /\ w \in Works
    BY <1>1, <2>1, <2>2 DEF RInv, Once
  <2>4. ASSUME NEW f \in Due(j)' PROVE f \in Due(j)
    BY <1>1, <1>2, <2>1, <2>2, <2>4 DEF Due
  <2> QED
    BY <1>1, <2>1, <2>2, <2>3, <2>4, FitsLess
<1>7. CASE WaitFence(j)
  <2>1. pc[j] = "wait" /\ pc'[j] = "fences" /\ UNCHANGED <<idx, fences, todo>>
    BY <1>7 DEF WaitFence, At, Goto, LInv, LockTypes
  <2>2. ASSUME NEW f \in Due(j)' PROVE f \in Due(j)
    BY <1>2, <2>1, <2>2 DEF Due
  <2> QED
    BY <1>1, <2>1, <2>2, FitsLess
<1>8. CASE NextResv(j)
  <2>1. pc[j] = "fences" /\ pc'[j] = "check" /\ UNCHANGED <<fences, todo>> /\ idx'[j] = idx[j] + 1
    BY <1>8 DEF NextResv, At, Goto, Step, LInv, LockTypes, checkVars
  <2>2. ASSUME NEW f \in Due(j)' PROVE f \in Due(j)
    BY <1>1, <1>2, <2>1, <2>2 DEF Due
  <2> QED
    BY <1>1, <2>1, <2>2, FitsLess
<1> QED
  BY <1>3, <1>4, <1>5, <1>6, <1>7, <1>8

\* Every other step of a job.
LEMMA OtherwiseFits ==
  ASSUME LInv, BInv, FInv, NEW j \in Jobs,
         \/ LockStep(j) \/ KickStep(j) \/ GetCheckpoints(j) \/ CreateUpdate(j) \/ ErrDestroy(j) \/ ErrUnlock(j)
  PROVE  Fits(j)'
<1>1. fence_count'[j] = fence_count[j] /\ fences'[j] \subseteq fences[j] /\ Fits(j)
  BY DEF LockStep, Resolve, LockCtx, LockResv, LockFails, LockDies, LockUnwind, LockSlow, GiveUp, LockDone,
         KickStep, Kick, KickFails, KickSucceeded, AddFence, AddDone, PutExtra, Destroy,
         GetCheckpoints, CreateUpdate, ErrDestroy, ErrUnlock, checkVars, FInv, BInv, WorkTypes
<1>2. CASE LockDone(j)
  <2>1. pc'[j] = "count" /\ idx'[j] = 1 /\ req'[j] = req[j]
    BY <1>2 DEF LockDone, Goto, Rewind, LInv, LockTypes
  <2>2. DOMAIN req[j] = 1..Len(req[j]) /\ Len(req[j]) \in Nat
    BY DEF LInv, LockTypes, IsArray
  <2>3. Due(j)' = {}
    BY <2>1, <2>2 DEF Due, Finds
  <2> QED
    BY <1>1, <2>1, <2>3, FitsLess
<1>3. CASE ~LockDone(j)
  <2>1. pc'[j] \notin {"count", "check", "fences", "wait"}
    <3>1. CASE LockStep(j)
      BY <1>3, <3>1 DEF LockStep, Resolve, LockCtx, LockResv, LockFails, LockDies, LockUnwind, LockSlow, GiveUp,
                        At, Goto, LInv, LockTypes
    <3>2. CASE KickStep(j)
      BY <3>2 DEF KickStep, Kick, KickFails, KickSucceeded, AddFence, AddDone, PutExtra, Destroy,
                  At, Goto, LInv, LockTypes
    <3>3. CASE GetCheckpoints(j) \/ CreateUpdate(j) \/ ErrDestroy(j) \/ ErrUnlock(j)
      BY <3>3 DEF GetCheckpoints, CreateUpdate, ErrDestroy, ErrUnlock, Goto, LInv, LockTypes
    <3> QED
      BY <3>1, <3>2, <3>3
  <2> QED
    BY <1>1, <2>1, FitsAlone
<1> QED
  BY <1>2, <1>3

\* Nobody touches what another job has locked, or is doing.
LEMMA Aside ==
  ASSUME LInv, BInv, NEW j \in Jobs, NEW k \in Jobs \ {j}, LockStep(k) \/ CheckStep(k) \/ KickStep(k)
  PROVE  /\ pc'[j] = pc[j] /\ idx'[j] = idx[j] /\ req'[j] = req[j]
         /\ DOMAIN fence_count = Jobs => fence_count'[j] = fence_count[j]
         /\ fences'[j] = fences[j] /\ todo'[j] = todo[j] /\ waiting'[j] = waiting[j]
         /\ \A p \in Exported : held[p] = j => resv'[p] = resv[p]
         /\ \A w \in Works : stage[w] = "done" => stage'[w] = "done"
<1>1. pc'[j] = pc[j] /\ idx'[j] = idx[j] /\ req'[j] = req[j]
  <2>1. CASE LockStep(k)
    BY <2>1 DEF LockStep, Resolve, LockCtx, LockResv, LockFails, LockDies, LockUnwind, LockSlow, GiveUp, LockDone,
                Goto, Step, Rewind, LInv, LockTypes
  <2>2. CASE CheckStep(k)
    BY <2>2 DEF CheckStep, CountFences, AllocFences, GetFences, CheckFence, CheckFenceFails, WaitFence, NextResv,
                GetCheckpoints, CreateUpdate, ErrDestroy, ErrUnlock, Goto, Step, Rewind, LInv, LockTypes
  <2>3. CASE KickStep(k)
    BY <2>3 DEF KickStep, Kick, KickFails, KickSucceeded, AddFence, AddDone, PutExtra, Destroy,
                Goto, Step, Rewind, LInv, LockTypes
  <2> QED
    BY <2>1, <2>2, <2>3
<1>2. /\ DOMAIN fence_count = Jobs => fence_count'[j] = fence_count[j]
      /\ fences'[j] = fences[j] /\ todo'[j] = todo[j] /\ waiting'[j] = waiting[j]
  <2>1. CASE LockStep(k) \/ KickStep(k)
    BY <2>1 DEF LockStep, Resolve, LockCtx, LockResv, LockFails, LockDies, LockUnwind, LockSlow, GiveUp, LockDone,
                KickStep, Kick, KickFails, KickSucceeded, AddFence, AddDone, PutExtra, Destroy,
                checkVars, BInv, WorkTypes
  <2>2. CASE CheckStep(k)
    BY <2>2 DEF CheckStep, CountFences, AllocFences, GetFences, CheckFence, CheckFenceFails, WaitFence, NextResv,
                GetCheckpoints, CreateUpdate, ErrDestroy, ErrUnlock, checkVars, BInv, WorkTypes
  <2> QED
    BY <2>1, <2>2
<1>3. \A p \in Exported : held[p] = j => resv'[p] = resv[p]
  <2>1. CASE AddFence(k)
    <3>1. \E out : resv' = [resv EXCEPT ![Here(k)] = (@ \ out) \cup {[work |-> k, write |-> Writes(k)]}]
      BY <2>1 DEF AddFence
    <3>2. pc[k] = "add" /\ idx[k] \in DOMAIN req[k]
      BY <2>1 DEF AddFence, At, InLoop, LInv, LockTypes, IsArray
    <3>3. held[Here(k)] = k
      BY <3>2 DEF LInv, Settled, Holds, Mine, AllOf, Here
    <3>4. ASSUME NEW p \in Exported, held[p] = j PROVE resv'[p] = resv[p]
      BY <3>1, <3>3, <3>4 DEF BInv, WorkTypes
    <3> QED
      BY <3>4
  <2>2. CASE ~AddFence(k)
    <3>1. resv' = resv
      BY <2>2 DEF LockStep, Resolve, LockCtx, LockResv, LockFails, LockDies, LockUnwind, LockSlow, GiveUp, LockDone,
                  CheckStep, CountFences, AllocFences, GetFences, CheckFence, CheckFenceFails, WaitFence, NextResv,
                  GetCheckpoints, CreateUpdate, ErrDestroy, ErrUnlock,
                  KickStep, Kick, KickFails, KickSucceeded, AddDone, PutExtra, Destroy
    <3> QED
      BY <3>1
  <2> QED
    BY <2>1, <2>2
<1>4. \A w \in Works : stage[w] = "done" => stage'[w] = "done"
  <2>1. CASE Kick(k)
    <3>1. pc[k] = "resolved" /\ stage' = [stage EXCEPT ![k] = "queued"]
      BY <2>1 DEF Kick, At, Publish
    <3>2. stage[k] # "done"
      BY <3>1 DEF BInv, Staged, Before
    <3> QED
      BY <3>1, <3>2 DEF BInv
  <2>2. CASE ~Kick(k)
    <3>1. stage' = stage
      BY <2>2 DEF LockStep, Resolve, LockCtx, LockResv, LockFails, LockDies, LockUnwind, LockSlow, GiveUp, LockDone,
                  CheckStep, CountFences, AllocFences, GetFences, CheckFence, CheckFenceFails, WaitFence, NextResv,
                  GetCheckpoints, CreateUpdate, ErrDestroy, ErrUnlock,
                  KickStep, KickFails, KickSucceeded, AddFence, AddDone, PutExtra, Destroy, workVars
    <3> QED
      BY <3>1
  <2> QED
    BY <2>1, <2>2
<1> QED
  BY <1>1, <1>2, <1>3, <1>4

LEMMA ElsewhereFits ==
  ASSUME LInv, BInv, FInv, NEW j \in Jobs,
         \/ \E k \in Jobs : GpuStep(k)
         \/ \E w \in Foreign : ForeignStep(w)
         \/ UNCHANGED vars
  PROVE  Fits(j)'
<1>1. UNCHANGED <<pc, idx, req, fences, todo, waiting, fence_count>>
  BY DEF GpuStep, Start, Finish, Notice, ForeignStep, ForeignPublish, ForeignStart, ForeignFinish, checkVars, vars
<1>2. \A p \in Exported : held[p] = j => resv'[p] = resv[p]
  <2>1. CASE resv' # resv
    <3>1. PICK w \in Foreign : ForeignPublish(w)
      BY <2>1 DEF GpuStep, Start, Finish, Notice, ForeignStep, ForeignStart, ForeignFinish, vars
    <3>2. PICK u \in ForeignUses : /\ held[u.pmr] = NoJob
            /\ \E out : resv' = [resv EXCEPT ![u.pmr] = (@ \ out) \cup {[work |-> w, write |-> u.write]}]
      BY <3>1 DEF ForeignPublish
    <3>3. NoJob # j
      BY BufferSyncAssumption
    <3>4. ASSUME NEW p \in Exported, held[p] = j PROVE resv'[p] = resv[p]
      BY <3>2, <3>3, <3>4 DEF BInv, WorkTypes
    <3> QED
      BY <3>4
  <2> QED
    BY <2>1
<1>3. \A w \in Works : stage[w] = "done" => stage'[w] = "done"
  BY DEF GpuStep, Start, Finish, Notice, ForeignStep, ForeignPublish, Publish, ForeignStart, ForeignFinish,
         Promise!AbsStart, Promise!AbsFinish, vars, workVars, Works, BInv
<1> QED
  BY <1>1, <1>2, <1>3, FitsAside DEF FInv

LEMMA FitsStep ==
  ASSUME LInv, BInv, RInv, FInv, [Next]_vars, "get_fences" \notin Faults PROVE FInv'
<1>1. DOMAIN fence_count' = Jobs
  BY ZenonT(40) DEF Next, LockStep, Resolve, LockCtx, LockResv, LockFails, LockDies, LockUnwind, LockSlow, GiveUp, LockDone,
         CheckStep, CountFences, AllocFences, GetFences, CheckFence, CheckFenceFails, WaitFence, NextResv,
         GetCheckpoints, CreateUpdate, ErrDestroy, ErrUnlock,
         KickStep, Kick, KickFails, KickSucceeded, AddFence, AddDone, PutExtra, Destroy,
         GpuStep, Start, Finish, Notice, ForeignStep, ForeignPublish, ForeignStart, ForeignFinish,
         checkVars, vars, FInv
<1>2. ASSUME NEW j \in Jobs PROVE Fits(j)'
  <2>1. CASE \E k \in Jobs : LockStep(k) \/ CheckStep(k) \/ KickStep(k)
    <3>1. PICK k \in Jobs : LockStep(k) \/ CheckStep(k) \/ KickStep(k)
      BY <2>1
    <3>2. CASE k = j
      BY <3>1, <3>2, CountFits, LookFits, OtherwiseFits DEF CheckStep
    <3>3. CASE k # j
      BY <3>1, <3>3, Aside, FitsAside DEF FInv
    <3> QED
      BY <3>2, <3>3
  <2>2. CASE ~\E k \in Jobs : LockStep(k) \/ CheckStep(k) \/ KickStep(k)
    BY <2>2, ElsewhereFits DEF Next
  <2> QED
    BY <2>1, <2>2
<1> QED
  BY <1>1, <1>2 DEF FInv

LEMMA FitsInit == Init => FInv
<1> SUFFICES ASSUME Init, NEW j \in Jobs PROVE Fits(j)
  BY DEF FInv, Init
<1> DEFINE S == fences[j] \cup Due(j)
<1>1. S = {}
  BY DEF Init, Due
<1>2. pc[j] = "idle" /\ fence_count[j] = 0
  BY DEF Init
<1>3. IsFiniteSet({}) /\ Cardinality({}) = 0
  BY FS_EmptySet
<1> HIDE DEF S
<1>4. IsFiniteSet(S) /\ Cardinality(S) <= fence_count[j]
  BY <1>1, <1>2, <1>3
<1> QED
  BY <1>2, <1>4 DEF Fits, S

\* The check fences never overrun the array that the first look at the fences
\* sized, though fences are signalled and kicks fail meanwhile: buffers a job
\* has locked gain no fence.  Assumed is that neither look runs out of memory.
THEOREM FencesAlwaysFit == ASSUME "get_fences" \notin Faults PROVE Spec => []FencesFit
<1>1. LInv /\ BInv /\ RInv /\ FInv => FencesFit
  <2> SUFFICES ASSUME LInv, BInv, RInv, FInv, NEW j \in Jobs
               PROVE  /\ Cardinality(fences[j]) <= fence_count[j]
                      /\ pc[j] = "wait" => Cardinality(fences[j]) < fence_count[j]
    BY DEF FencesFit, At
  <2> DEFINE S == fences[j] \cup Due(j)
             new == <<idx[j], waiting[j]>>
  <2>1. IsFiniteSet(S) /\ Cardinality(S) <= fence_count[j] /\ fence_count[j] \in Nat /\ fences[j] \in SUBSET S
    BY DEF FInv, Fits
  <2>2. pc[j] = "wait" => new \notin fences[j] /\ fences[j] \cup {new} \in SUBSET S
    <3>1. ASSUME pc[j] = "wait" PROVE new \notin fences[j] /\ new \in Due(j)
      BY <3>1 DEF FInv, Fits, Due, LInv, LockTypes
    <3> QED
      BY <3>1
  <2> HIDE DEF S, new
  <2>3. /\ Cardinality(fences[j]) <= Cardinality(S) /\ Cardinality(S) \in Nat /\ Cardinality(fences[j]) \in Nat
        /\ IsFiniteSet(fences[j])
    BY <2>1, FS_Subset, FS_CardinalityType
  <2>4. ASSUME pc[j] = "wait" PROVE Cardinality(fences[j]) + 1 <= Cardinality(S)
    <3>1. Cardinality(fences[j] \cup {new}) = Cardinality(fences[j]) + 1
      BY <2>2, <2>3, <2>4, FS_AddElement
    <3>2. Cardinality(fences[j] \cup {new}) <= Cardinality(S)
      BY <2>1, <2>2, <2>4, FS_Subset
    <3> QED
      BY <3>1, <3>2
  <2> QED
    BY <2>1, <2>3, <2>4
<1>2. LInv /\ BInv /\ RInv /\ FInv /\ [Next]_vars => FInv'
  BY FitsStep
<1> QED
  BY <1>1, <1>2, InitInv, StepInv, BaseInit, BaseStep, RefsInit, RefsStep, FitsInit, PTL DEF Spec
=============================================================================
