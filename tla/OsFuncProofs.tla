----------------------------- MODULE OsFuncProofs -----------------------------
(***************************************************************************)
(* Proofs about what osfunc.c does beside the services core: the transfer  *)
(* of a DMA engine (OsDma) and the periodic timers (OsTimer).              *)
(*                                                                         *)
(* OsDma, for any number of transfers, pages and attempts to stop the      *)
(* engine.  That nobody finds the request freed is proved for every fault  *)
(* but a thread that cannot be started and a first transfer without pages; *)
(* what is said about pages also needs the faults left out after which the *)
(* code loses count of them.  The argument: the cleanup thread is told     *)
(* once, by the last callback or by a caller that gives up, and it is      *)
(* there whenever a transfer was prepared; so until then the request is    *)
(* whole, and then nobody else is at it.                                   *)
(*                                                                         *)
(* OsTimer, for any number of slots and any set of users, under the        *)
(* assumption that module makes of its constants.  The argument follows    *)
(* the user of a timer through OSDisableTimer.  With bActive cleared no    *)
(* execution that begins can reach the callback; when the first flush has  *)
(* returned, no older one is left that could arm the timer; when           *)
(* del_timer_sync has returned, nothing queues the work any more; so the   *)
(* executions the second flush counts are all there are.                   *)
(***************************************************************************)
EXTENDS OsDma, OsTimer, FiniteSetTheorems, TLAPS

One(b) == IF b THEN 1 ELSE 0

Awake == thread \in {"unpin", "serve", "free", "tell", "done"}
Told == thread \in {"free", "tell", "done"}
Issued == \E i \in Index : engine[i] # "idle"
Finished == \A i \in Index : engine[i] = "done"
Flying == {i \in Index : engine[i] = "flying"}

(* The caller has given up and wound the request down.                     *)
Wound == pc = "over" /\ ~bSucceed /\ data # "none"

Types ==
  /\ pc \in {"start", "next", "sparse", "arm", "issue", "wait", "force", "terminate", "wind", "over"}
  /\ asked \in 0 .. NumDMA /\ retries \in 0 .. Retries
  /\ data \in {"none", "live", "freed"}
  /\ uiCount \in 0 .. NumDMA /\ uiRefCount \in Int
  /\ bSucceed \in BOOLEAN /\ bAdvanceTimeline \in BOOLEAN
  /\ pbIsSparse \in [Index -> BOOLEAN]
  /\ uiNumValidPages \in [Index -> 0 .. MaxPages] /\ puiNumPages \in [Index -> 0 .. MaxPages]
  /\ valid_idx \in 0 .. MaxPages
  /\ pc = "sparse" => uiCount < NumDMA /\ valid_idx < uiNumValidPages[uiCount]
  /\ pages \in [Index -> SUBSET Slots]
  /\ pins \in [Index -> [Slots -> Int]]
  /\ mapped \in [Index -> SUBSET Chunks]
  /\ thread \in {"none", "new", "succeed", "wait", "unpin", "serve", "free", "tell", "done"}
  /\ saw_succeed \in BOOLEAN /\ saw_sync \in BOOLEAN
  /\ start_cleanup \in Int
  /\ has_sync \in BOOLEAN /\ sync \in {"none", "waited", "done"}
  /\ engine \in [Index -> {"idle", "flying", "last", "done"}]

(* The faults the caller and the thread survive, and those after which the *)
(* pages are still counted.                                                *)
ThreadStarts == Faults \cap {"thread", "empty"} = {}
PagesCounted == Faults \cap {"late", "pin_some"} = {}

(* The caller.                                                             *)
Counts ==
  /\ asked = uiCount
  /\ pc \in {"arm", "issue", "wait"} => uiCount = NumDMA
  /\ thread = "none" <=> uiCount = 0
  /\ pc = "start" => uiCount = 0
  /\ pc = "start" => data = "none"
  /\ data = "none" => pc \in {"start", "over"} /\ uiCount = 0 /\ ~bSucceed
Submitted ==
  /\ pc \in {"arm", "issue", "wait"} => bSucceed
  /\ pc \notin {"arm", "issue", "wait", "over"} => ~bSucceed
  /\ Issued <=> pc = "wait" \/ (pc = "over" /\ bSucceed)
  /\ Issued => uiCount = NumDMA /\ \A i \in Index : engine[i] # "idle"
Retrying ==
  /\ pc = "terminate" => retries < Retries
  /\ pc \notin {"terminate", "wind", "over"} \/ bSucceed => retries = 0
  /\ \/ pc \in {"arm", "issue", "wait", "terminate", "wind"}
     \/ pc = "over" /\ data # "none"
     => bAdvanceTimeline = (retries < Retries)

(* The engine: the callback that finds itself the last notifies.           *)
Callbacks ==
  /\ pc = "issue" => uiRefCount = NumDMA
  /\ Issued => uiRefCount = Cardinality(Flying)
  /\ \A i, j \in Index : engine[i] = "last" =>
       engine[j] # "flying" /\ (engine[j] = "last" => i = j)

(* The thread is told once.                                                *)
Notified ==
  /\ start_cleanup \in {0, 1}
  /\ start_cleanup + One(Awake) = One(Finished \/ (Wound /\ uiCount > 0))
Ended ==
  /\ served = IF Told \/ (Wound /\ uiCount = 0) THEN <<retries < Retries>> ELSE <<>>
  /\ data = "freed" <=> thread \in {"tell", "done"} \/ (Wound /\ uiCount = 0)

Waiter ==
  /\ has_sync => thread = "done" \/ sync = "waited"
  /\ ~has_sync => sync = "none"
  /\ saw_sync => has_sync
  /\ pc \notin {"issue", "wait", "over"} => ~has_sync

Control ==
  Types /\ Counts /\ Submitted /\ Retrying /\ Callbacks /\ Notified /\ Ended /\ Waiter

(* The pages: a slot that points to a page has one reference on it, from   *)
(* the preparation of its transfer until the thread has unpinned it.       *)
Pinned(i) == \A s \in Slots : pins[i][s] = One(s \in pages[i])
Unpinned(i) == mapped[i] = {} /\ \A s \in Slots : pins[i][s] = 0
Preparing(i) == pc = "sparse" /\ i = uiCount
ToCome(i) == (i >= uiCount /\ pc \in {"start", "next"}) \/ (i > uiCount /\ pc = "sparse")
Emptied == thread \in {"serve", "free", "tell", "done"}
PagesOK(i) ==
  /\ i < uiCount /\ ~Emptied =>
       /\ Pinned(i) /\ pages[i] # {} /\ mapped[i] # {}
       /\ \A s \in Slots : Held(i, s) <=> s \in pages[i]
  /\ i < uiCount /\ Emptied => Unpinned(i)
  /\ i >= uiCount /\ ~Preparing(i) => Unpinned(i)
  /\ ToCome(i) => pages[i] = {} /\ ~pbIsSparse[i]
  /\ Preparing(i) =>
       Pinned(i) /\ pages[i] \subseteq 0 .. 2 * valid_idx - 1 /\ pbIsSparse[i]
Pages == \A i \in Index : PagesOK(i)

LEMMA IndexFacts ==
  /\ 0 \in Index /\ Index = 0 .. NumDMA - 1 /\ NumDMA \in Nat /\ NumDMA > 0
  /\ MaxPages \in Nat /\ MaxPages > 0 /\ Retries \in Nat /\ Retries > 0
  /\ IsFiniteSet(Index) /\ Cardinality(Index) = NumDMA
<1>1. /\ NumDMA \in Nat /\ NumDMA > 0 /\ MaxPages \in Nat /\ MaxPages > 0
      /\ Retries \in Nat /\ Retries > 0 /\ 0 \in Index
  BY DmaAssumption DEF Index
<1>2. IsFiniteSet(Index) /\ Cardinality(Index) = NumDMA
  BY <1>1, FS_Interval DEF Index
<1> QED
  BY <1>1, <1>2 DEF Index

LEMMA ControlInit == Init => Control
<1> SUFFICES ASSUME Init PROVE Control
  OBVIOUS
<1> USE IndexFacts
<1>1. Types
  <2>1. /\ pc = "start" /\ asked \in 0 .. NumDMA /\ retries \in 0 .. Retries
        /\ uiCount \in 0 .. NumDMA /\ uiRefCount \in Int /\ valid_idx \in 0 .. MaxPages
        /\ data = "none" /\ thread = "none" /\ start_cleanup \in Int /\ sync = "none"
    BY DEF Init
  <2>2. /\ bSucceed \in BOOLEAN /\ bAdvanceTimeline \in BOOLEAN /\ has_sync \in BOOLEAN
        /\ saw_succeed \in BOOLEAN /\ saw_sync \in BOOLEAN
    BY Zenon DEF Init
  <2>3. /\ pbIsSparse \in [Index -> BOOLEAN] /\ pages \in [Index -> SUBSET Slots]
        /\ mapped \in [Index -> SUBSET Chunks]
        /\ engine \in [Index -> {"idle", "flying", "last", "done"}]
    BY DEF Init
  <2>4. /\ uiNumValidPages \in [Index -> 0 .. MaxPages] /\ puiNumPages \in [Index -> 0 .. MaxPages]
        /\ pins \in [Index -> [Slots -> Int]]
    BY DEF Init
  <2> QED
    BY <2>1, <2>2, <2>3, <2>4 DEF Types
<1>2. ~Issued /\ ~Finished
  BY DEF Init, Issued, Finished
<1>3. Counts
  BY DEF Init, Counts
<1>4. Submitted
  BY <1>2 DEF Init, Submitted
<1>5. Retrying
  BY DEF Init, Retrying
<1>6. Callbacks
  BY <1>2 DEF Init, Callbacks
<1>7. Notified
  BY <1>2 DEF Init, Notified, One, Awake, Wound
<1>8. Ended
  BY DEF Init, Ended, Told, Wound
<1>9. Waiter
  BY DEF Init, Waiter
<1> QED
  BY <1>1, <1>3, <1>4, <1>5, <1>6, <1>7, <1>8, <1>9 DEF Control

-----------------------------------------------------------------------------
(* What two of the steps do when threads can be started.                   *)
LEMMA PreparedDoes ==
  ASSUME ThreadStarts, Prepared
  PROVE  /\ thread' = IF asked = 0 THEN "new" ELSE thread
         /\ uiCount' = uiCount + 1 /\ asked' = asked + 1 /\ pc' = "next"
BY DEF ThreadStarts, Prepared, StartThread, bFirst

LEMMA SparseBeginDoes ==
  ASSUME ThreadStarts, Types, SparseBegin
  PROVE  /\ pc' \in {"sparse", "force"} /\ asked' = asked /\ valid_idx' = 0
         /\ \E n \in 1 .. MaxPages : uiNumValidPages' = [uiNumValidPages EXCEPT ![uiCount] = n]
<1>1. PICK n \in 0 .. MaxPages :
        /\ n = 0 => "empty" \in Faults
        /\ uiNumValidPages' = [uiNumValidPages EXCEPT ![uiCount] = n]
        /\ IF n = 0 THEN pc' = "next" /\ asked' = asked + 1
           ELSE \/ pc' = "sparse" /\ UNCHANGED asked
                \/ "nomem" \in Faults /\ GiveUp /\ UNCHANGED asked
  BY DEF SparseBegin
<1>2. n # 0 /\ n \in 1 .. MaxPages
  BY <1>1, IndexFacts DEF ThreadStarts
<1>3. pc' \in {"sparse", "force"} /\ asked' = asked
  BY <1>1, <1>2 DEF GiveUp
<1> QED
  BY <1>1, <1>2, <1>3 DEF SparseBegin

LEMMA TypesStep ==
  ASSUME ThreadStarts, Types, Counts, Retrying, [Next]_vars
  PROVE  Types'
<1> USE IndexFacts DEF Types, Counts
<1>1. CASE OSDmaAllocData
  BY <1>1 DEF OSDmaAllocData, prepVars, pageVars, threadVars, syncVars, flagVars
<1>2. CASE OSDmaPrepareTransfer
  <2>1. /\ uiCount \in Index /\ pc' = "next" /\ uiCount' \in 0 .. NumDMA /\ asked' \in 0 .. NumDMA
        /\ thread' \in {"new", thread}
    BY <1>2, PreparedDoes DEF OSDmaPrepareTransfer, Asking, Index
  <2>2. PICK n \in 1 .. MaxPages :
          /\ pages' = [pages EXCEPT ![uiCount] = 0 .. n - 1]
          /\ pins' = [pins EXCEPT ![uiCount] = [s \in Slots |-> IF s < n THEN 1 ELSE 0]]
          /\ puiNumPages' = [puiNumPages EXCEPT ![uiCount] = n]
    BY <1>2 DEF OSDmaPrepareTransfer
  <2>3. pages' \in [Index -> SUBSET Slots]
    <3>1. 0 .. n - 1 \subseteq Slots
      BY DEF Slots
    <3> QED
      BY <2>1, <2>2, <3>1
  <2>4. pins' \in [Index -> [Slots -> Int]]
    BY <2>1, <2>2
  <2>5. puiNumPages' \in [Index -> 0 .. MaxPages]
    BY <2>1, <2>2
  <2>6. mapped' \in [Index -> SUBSET Chunks]
    <3>1. {0} \subseteq Chunks
      BY DEF Chunks
    <3>2. mapped' = [mapped EXCEPT ![uiCount] = {0}]
      BY <1>2 DEF OSDmaPrepareTransfer
    <3> QED
      BY <2>1, <3>1, <3>2
  <2>7. UNCHANGED <<retries, data, uiRefCount, flagVars, pbIsSparse, uiNumValidPages, valid_idx,
                    saw_succeed, saw_sync, start_cleanup, syncVars, engine>>
    BY <1>2 DEF OSDmaPrepareTransfer
  <2> QED
    BY <2>1, <2>3, <2>4, <2>5, <2>6, <2>7 DEF flagVars, syncVars
<1>3. CASE PrepareFails
  <2>1. pins' \in [Index -> [Slots -> Int]]
    <3>1. CASE UNCHANGED pins
      BY <3>1
    <3>2. ASSUME NEW n \in 1 .. MaxPages - 1,
                 pins' = [pins EXCEPT ![uiCount] = [s \in Slots |-> IF s < n THEN 1 ELSE 0]]
          PROVE  pins' \in [Index -> [Slots -> Int]]
      <4>1. [s \in Slots |-> IF s < n THEN 1 ELSE 0] \in [Slots -> Int]
        OBVIOUS
      <4> QED
        BY <3>2, <4>1
    <3> QED
      BY <1>3, <3>1, <3>2 DEF PrepareFails
  <2> QED
    BY <1>3, <2>1 DEF PrepareFails, GiveUp, flagVars, prepVars, threadVars, syncVars
<1>4. CASE SparseBegin
  <2>1. PICK n \in 1 .. MaxPages : uiNumValidPages' = [uiNumValidPages EXCEPT ![uiCount] = n]
    BY <1>4, SparseBeginDoes
  <2>2. uiCount \in Index
    BY <1>4 DEF SparseBegin, Asking, Index
  <2>3. uiNumValidPages' \in [Index -> 0 .. MaxPages] /\ uiNumValidPages'[uiCount] > 0
    BY <2>1, <2>2
  <2>4. pbIsSparse' \in [Index -> BOOLEAN]
    BY <1>4 DEF SparseBegin
  <2>5. UNCHANGED <<retries, data, uiCount, uiRefCount, flagVars, puiNumPages, pageVars, threadVars,
                    start_cleanup, syncVars, engine>>
    BY <1>4 DEF SparseBegin
  <2>6. pc' \in {"sparse", "force"} /\ asked' = asked /\ valid_idx' = 0
    BY <1>4, SparseBeginDoes
  <2> QED
    BY <2>2, <2>3, <2>4, <2>5, <2>6, SMTT(30) DEF flagVars, pageVars, threadVars, syncVars, Index
<1>5. CASE SparsePage
  <2>1. uiCount \in Index /\ valid_idx + 1 \in 1 .. MaxPages /\ pc = "sparse"
        /\ uiNumValidPages[uiCount] \in 0 .. MaxPages
    BY <1>5 DEF SparsePage, Index
  <2>2. /\ valid_idx' = valid_idx + 1
        /\ puiNumPages' = [puiNumPages EXCEPT ![uiCount] = valid_idx + 1]
        /\ mapped' = [mapped EXCEPT ![uiCount] = @ \cup {valid_idx}]
    BY <1>5 DEF SparsePage
  <2>3. PICK k \in 1 .. 2 :
          /\ pages' = [pages EXCEPT ![uiCount] = @ \cup SlotsOf(valid_idx, k)]
          /\ pins' = [pins EXCEPT ![uiCount] = Pin(SlotsOf(valid_idx, k))]
    BY <1>5 DEF SparsePage
  <2>4. SlotsOf(valid_idx, k) \subseteq Slots
    <3>1. 2 * valid_idx \in Nat /\ 2 * valid_idx + k - 1 \in Int
          /\ 2 * valid_idx + k - 1 <= 2 * MaxPages - 1 /\ 2 * MaxPages - 1 \in Int
      BY <2>1
    <3> QED
      BY <3>1 DEF SlotsOf, Slots
  <2>5. pages' \in [Index -> SUBSET Slots] /\ pins' \in [Index -> [Slots -> Int]]
    BY <2>1, <2>3, <2>4, SMTT(30) DEF Pin
  <2>6. puiNumPages' \in [Index -> 0 .. MaxPages] /\ mapped' \in [Index -> SUBSET Chunks]
    BY <2>1, <2>2 DEF Chunks
  <2>7. UNCHANGED <<retries, data, uiRefCount, flagVars, pbIsSparse, uiNumValidPages,
                    saw_succeed, saw_sync, start_cleanup, syncVars, engine>>
    BY <1>5 DEF SparsePage
  <2>8. CASE valid_idx + 1 = uiNumValidPages[uiCount]
    <3>1. /\ thread' \in {"new", thread} /\ pc' = "next" /\ uiCount' = uiCount + 1
          /\ asked' = asked + 1
      BY <1>5, <2>8, PreparedDoes DEF SparsePage
    <3> QED
      BY <2>1, <2>2, <2>5, <2>6, <2>7, <3>1 DEF flagVars, syncVars, Index
  <2>9. CASE valid_idx + 1 # uiNumValidPages[uiCount]
    <3>1. UNCHANGED <<pc, asked, thread, uiCount>>
      BY <1>5, <2>9 DEF SparsePage
    <3> QED
      BY <2>1, <2>2, <2>5, <2>6, <2>7, <2>9, <3>1 DEF flagVars, syncVars
  <2> QED
    BY <2>8, <2>9
<1>6. CASE SparseFails
  <2>1. pins' \in [Index -> [Slots -> Int]]
    <3>1. uiCount \in Index
      BY <1>6 DEF SparseFails, Index
    <3>2. ASSUME NEW P, NEW s \in Slots
          PROVE  PutLast(P, s) \in Int /\ PutRewind(P, s) \in Int
      BY DEF PutLast, PutRewind
    <3>3. ASSUME NEW P, NEW s \in Slots PROVE Pin(P)[s] \in Int
      BY <3>1 DEF Pin
    <3>4. ASSUME NEW P, NEW Q
          PROVE  [s \in Slots |-> Pin(Q)[s] - PutLast(P, s) - PutRewind(P, s)] \in [Slots -> Int]
      BY <3>2, <3>3
    <3>5. ASSUME NEW P, NEW Q
          PROVE  [s \in Slots |-> Pin(Q)[s] - PutRewind(P, s)] \in [Slots -> Int]
      BY <3>2, <3>3
    <3>6. [s \in Slots |-> pins[uiCount][s] - PutRewind(pages[uiCount], s)] \in [Slots -> Int]
      BY <3>1, <3>2
    <3>7. ASSUME NEW k \in 1 .. 2,
                 pins' = [pins EXCEPT ![uiCount] =
                   [s \in Slots |-> Pin(SlotsOf(valid_idx, k))[s]
                      - PutLast(pages[uiCount] \cup SlotsOf(valid_idx, k), s)
                      - PutRewind(pages[uiCount] \cup SlotsOf(valid_idx, k), s)]]
          PROVE  pins' \in [Index -> [Slots -> Int]]
      <4> DEFINE P == pages[uiCount] \cup SlotsOf(valid_idx, k)
                 f == [s \in Slots |-> Pin(SlotsOf(valid_idx, k))[s] - PutLast(P, s) - PutRewind(P, s)]
      <4> HIDE DEF P
      <4>1. f \in [Slots -> Int]
        BY <3>2, <3>3, SMTT(30)
      <4>2. pins' = [pins EXCEPT ![uiCount] = f]
        BY <3>7 DEF P
      <4> HIDE DEF f
      <4> QED
        BY <3>1, <4>1, <4>2
    <3>8. CASE pins' = [pins EXCEPT ![uiCount] =
                 [s \in Slots |-> @[s] - PutRewind(pages[uiCount], s)]]
      BY <3>1, <3>6, <3>8
    <3>9. CASE pins' = [pins EXCEPT ![uiCount] =
                 [s \in Slots |-> Pin({2 * valid_idx})[s]
                                    - PutRewind(pages[uiCount] \cup {2 * valid_idx}, s)]]
      BY <3>1, <3>5, <3>9
    <3> QED
      BY <1>6, <3>7, <3>8, <3>9 DEF SparseFails
  <2>2. pages' \in [Index -> SUBSET Slots] /\ mapped' \in [Index -> SUBSET Chunks]
    BY <1>6 DEF SparseFails
  <2> QED
    BY <1>6, <2>1, <2>2 DEF SparseFails, GiveUp, flagVars, prepVars, threadVars, syncVars
<1>7. CASE Submit \/ Arm \/ Issue \/ SubmitReturns
  <2>1. engine' \in [Index -> {"idle", "flying", "last", "done"}]
    BY <1>7 DEF Submit, Arm, Issue, SubmitReturns
  <2>2. /\ bSucceed' \in BOOLEAN /\ bAdvanceTimeline' \in BOOLEAN /\ has_sync' \in BOOLEAN
        /\ saw_succeed' \in BOOLEAN /\ saw_sync' \in BOOLEAN
    BY <1>7 DEF Submit, Arm, Issue, SubmitReturns, flagVars, syncVars, threadVars
  <2>3. sync' \in {"none", "waited", "done"} /\ pc' \in {"arm", "issue", "wait", "over"}
        /\ uiRefCount' \in Int
    BY <1>7 DEF Submit, Arm, Issue, SubmitReturns, syncVars
  <2> QED
    BY <1>7, <2>1, <2>2, <2>3
       DEF Submit, Arm, Issue, SubmitReturns, prepVars, pageVars, threadVars
<1>8. CASE ForceMark
  <2>1. bSucceed' \in BOOLEAN /\ bAdvanceTimeline' \in BOOLEAN
    BY <1>8, Zenon DEF ForceMark
  <2> QED
    BY <1>8, <2>1 DEF ForceMark, prepVars, pageVars, threadVars, syncVars
<1>9. CASE Terminate
  <2>1. bAdvanceTimeline' \in BOOLEAN
    BY <1>9, Zenon DEF Terminate
  <2>2. retries' \in 0 .. Retries /\ pc' \in {"terminate", "wind"}
    BY <1>9 DEF Terminate, Retrying
  <2> QED
    BY <1>9, <2>1, <2>2 DEF Terminate, prepVars, pageVars, threadVars, syncVars
<1>10. CASE Wind
  <2>1. start_cleanup' \in Int /\ data' \in {data, "freed"} /\ pc' = "over"
    BY <1>10 DEF Wind
  <2> QED
    BY <1>10, <2>1, SMTT(30) DEF Wind, flagVars, prepVars, pageVars, threadVars, syncVars
<1>11. ASSUME NEW i \in Index, Callback(i) PROVE Types'
  <2>1. uiRefCount' \in Int /\ engine' \in [Index -> {"idle", "flying", "last", "done"}]
    BY <1>11 DEF Callback
  <2> QED
    BY <1>11, <2>1 DEF Callback, callerVars, flagVars, prepVars, pageVars, threadVars, syncVars
<1>12. ASSUME NEW i \in Index, CallbackNotifies(i) PROVE Types'
  <2>1. start_cleanup' \in Int /\ engine' \in [Index -> {"idle", "flying", "last", "done"}]
    BY <1>12 DEF CallbackNotifies
  <2> QED
    BY <1>12, <2>1
       DEF CallbackNotifies, callerVars, flagVars, prepVars, pageVars, threadVars, syncVars
<1>13. CASE CleanupThread
  <2>1. UNCHANGED <<callerVars, uiCount, uiRefCount, flagVars, prepVars, pages, has_sync, engine>>
    BY <1>13
       DEF CleanupThread, ThreadReadsSucceed, ThreadReadsSync, ThreadWakes, ThreadUnpins,
           ThreadServes, ThreadFrees, ThreadTells, syncVars, pageVars
  <2>2. pins' \in [Index -> [Slots -> Int]] /\ mapped' \in [Index -> SUBSET Chunks]
    <3>1. CASE UNCHANGED pageVars
      BY <3>1 DEF pageVars
    <3>2. CASE ThreadUnpins
      <4>1. [i \in Index |-> [s \in Slots |->
               pins[i][s] - (IF i < uiCount /\ Held(i, s) THEN 1 ELSE 0)]] \in [Index -> [Slots -> Int]]
        OBVIOUS
      <4>2. [i \in Index |-> IF i < uiCount THEN {} ELSE mapped[i]] \in [Index -> SUBSET Chunks]
        OBVIOUS
      <4> QED
        BY <3>2, <4>1, <4>2 DEF ThreadUnpins
    <3> QED
      BY <1>13, <3>1, <3>2
         DEF CleanupThread, ThreadReadsSucceed, ThreadReadsSync, ThreadWakes, ThreadServes,
             ThreadFrees, ThreadTells
  <2>3. saw_succeed' \in BOOLEAN /\ saw_sync' \in BOOLEAN
    BY <1>13, Zenon
       DEF CleanupThread, ThreadReadsSucceed, ThreadReadsSync, ThreadWakes, ThreadUnpins,
           ThreadServes, ThreadFrees, ThreadTells
  <2>4. start_cleanup' \in Int /\ data' \in {data, "freed"} /\ sync' \in {sync, "done"}
    BY <1>13
       DEF CleanupThread, ThreadReadsSucceed, ThreadReadsSync, ThreadWakes, ThreadUnpins,
           ThreadServes, ThreadFrees, ThreadTells, syncVars
  <2>5. thread' \in {"succeed", "wait", "unpin", "serve", "free", "tell", "done"}
    BY <1>13
       DEF CleanupThread, ThreadReadsSucceed, ThreadReadsSync, ThreadWakes, ThreadUnpins,
           ThreadServes, ThreadFrees, ThreadTells
  <2> QED
    BY <2>1, <2>2, <2>3, <2>4, <2>5 DEF callerVars, flagVars, prepVars
<1>14. CASE UNCHANGED vars
  BY <1>14 DEF vars, callerVars, flagVars, prepVars, pageVars, threadVars, syncVars
<1> QED
  BY <1>1, <1>2, <1>3, <1>4, <1>5, <1>6, <1>7, <1>8, <1>9, <1>10, <1>11,
     <1>12, <1>13, <1>14 DEF Next, Caller, Engine

-----------------------------------------------------------------------------
(* What the steps of the preparation do to what is not a page.             *)
PrepareStep ==
  OSDmaPrepareTransfer \/ PrepareFails \/ SparseBegin \/ SparsePage \/ SparseFails

LEMMA PrepareDoes ==
  ASSUME ThreadStarts, Types, Counts, PrepareStep
  PROVE  /\ pc \in {"next", "sparse"} /\ asked < NumDMA
         /\ \/ /\ pc' = "next" /\ uiCount' = uiCount + 1 /\ asked' = asked + 1
               /\ thread' = IF asked = 0 THEN "new" ELSE thread
            \/ pc' \in {"sparse", "force"} /\ UNCHANGED <<uiCount, asked, thread>>
         /\ UNCHANGED <<retries, data, uiRefCount, bSucceed, bAdvanceTimeline, saw_succeed, saw_sync,
                        start_cleanup, has_sync, sync, engine, served>>
<1> USE IndexFacts DEF flagVars, syncVars, threadVars
<1>1. CASE OSDmaPrepareTransfer
  BY <1>1, PreparedDoes DEF OSDmaPrepareTransfer, Asking
<1>2. CASE PrepareFails
  BY <1>2 DEF PrepareFails, Asking, GiveUp
<1>3. CASE SparseBegin
  BY <1>3, SparseBeginDoes DEF SparseBegin, Asking
<1>4. CASE SparsePage
  <2>1. pc = "sparse" /\ asked < NumDMA
    BY <1>4 DEF SparsePage, Types, Counts
  <2>2. UNCHANGED <<retries, data, uiRefCount, bSucceed, bAdvanceTimeline, saw_succeed, saw_sync,
                    start_cleanup, has_sync, sync, engine, served>>
    BY <1>4 DEF SparsePage
  <2>3. CASE Prepared
    BY <2>1, <2>2, <2>3, PreparedDoes
  <2>4. CASE UNCHANGED <<pc, asked, thread, uiCount>>
    BY <2>1, <2>2, <2>4
  <2> QED
    BY <1>4, <2>3, <2>4 DEF SparsePage
<1>5. CASE SparseFails
  BY <1>5 DEF SparseFails, GiveUp, Types, Counts
<1> QED
  BY <1>1, <1>2, <1>3, <1>4, <1>5 DEF PrepareStep

(* A thread that has woken finds the caller returned or waiting, and a     *)
(* transfer prepared.                                                      *)
LEMMA AwakeFacts ==
  ASSUME Types, Counts, Submitted, Notified, Awake
  PROVE  /\ pc \in {"wait", "over"} /\ uiCount > 0 /\ data # "none" /\ start_cleanup = 0
         /\ Finished \/ Wound
<1>1. uiCount > 0 /\ data # "none"
  BY DEF Types, Counts, Awake
<1>2. start_cleanup = 0 /\ (Finished \/ Wound)
  BY DEF Notified, One
<1>3. Finished => Issued
  BY IndexFacts DEF Finished, Issued
<1>4. pc \in {"wait", "over"}
  BY <1>2, <1>3 DEF Submitted, Wound
<1> QED
  BY <1>1, <1>2, <1>4

LEMMA CountsStep ==
  ASSUME ThreadStarts, Control, [Next]_vars
  PROVE  Counts'
<1> USE IndexFacts DEF Counts
<1>0. Types /\ Counts /\ Submitted /\ Notified
  BY DEF Control
<1>1. CASE OSDmaAllocData
  BY <1>0, <1>1 DEF OSDmaAllocData, threadVars, flagVars, Submitted
<1>2. CASE PrepareStep
  <2>1. pc \in {"next", "sparse"} /\ UNCHANGED data /\ data # "none"
    BY <1>0, <1>2, PrepareDoes
  <2>2. CASE /\ pc' = "next" /\ uiCount' = uiCount + 1 /\ asked' = asked + 1
             /\ thread' = IF asked = 0 THEN "new" ELSE thread
    BY <1>0, <2>1, <2>2 DEF Types
  <2>3. CASE pc' \in {"sparse", "force"} /\ UNCHANGED <<uiCount, asked, thread>>
    BY <1>0, <2>1, <2>3
  <2> QED
    BY <1>0, <1>2, <2>2, <2>3, PrepareDoes
<1>3. CASE Submit \/ Arm \/ Issue \/ SubmitReturns
  BY <1>0, <1>3 DEF Submit, Arm, Issue, SubmitReturns, threadVars, flagVars, Types
<1>4. CASE ForceMark \/ Terminate
  BY <1>0, <1>4 DEF ForceMark, Terminate, threadVars, Types
<1>5. CASE Wind
  BY <1>0, <1>5 DEF Wind, threadVars, flagVars, Types
<1>6. ASSUME NEW i \in Index, Callback(i) \/ CallbackNotifies(i) PROVE Counts'
  BY <1>0, <1>6 DEF Callback, CallbackNotifies, callerVars, threadVars, flagVars
<1>7. CASE CleanupThread
  BY <1>0, <1>7
     DEF CleanupThread, ThreadReadsSucceed, ThreadReadsSync, ThreadWakes, ThreadUnpins,
         ThreadServes, ThreadFrees, ThreadTells, callerVars, flagVars
<1>8. CASE UNCHANGED vars
  BY <1>0, <1>8 DEF vars, callerVars, flagVars, threadVars
<1> QED
  BY <1>1, <1>2, <1>3, <1>4, <1>5, <1>6, <1>7, <1>8 DEF Next, Caller, Engine, PrepareStep

LEMMA SubmittedStep ==
  ASSUME ThreadStarts, Control, [Next]_vars
  PROVE  Submitted'
<1> USE IndexFacts DEF Submitted
<1>0. Types /\ Counts /\ Submitted
  BY DEF Control
<1>1. engine' = engine => Issued' = Issued
  BY DEF Issued
<1>2. CASE OSDmaAllocData
  BY <1>0, <1>1, <1>2 DEF OSDmaAllocData, flagVars
<1>3. CASE PrepareStep
  BY <1>0, <1>1, <1>3, PrepareDoes
<1>4. CASE Submit \/ Arm \/ SubmitReturns
  BY <1>0, <1>1, <1>4 DEF Submit, Arm, SubmitReturns, flagVars, Counts
<1>5. CASE Issue
  <2>1. \A i \in Index : engine'[i] = "flying"
    BY <1>0, <1>5 DEF Issue, Counts, Index
  <2>2. Issued'
    BY <2>1 DEF Issued
  <2> QED
    BY <1>0, <1>5, <2>1, <2>2 DEF Issue, Counts, flagVars
<1>6. CASE ForceMark \/ Terminate \/ Wind
  BY <1>0, <1>1, <1>6 DEF ForceMark, Terminate, Wind, flagVars
<1>7. ASSUME NEW i \in Index, Callback(i) \/ CallbackNotifies(i) PROVE Submitted'
  <2>1. Issued /\ Issued' /\ \A j \in Index : engine[j] # "idle" => engine'[j] # "idle"
    BY <1>0, <1>7 DEF Issued, Callback, CallbackNotifies, Types
  <2> QED
    BY <1>0, <1>7, <2>1 DEF Callback, CallbackNotifies, callerVars, flagVars
<1>8. CASE CleanupThread
  BY <1>0, <1>1, <1>8
     DEF CleanupThread, ThreadReadsSucceed, ThreadReadsSync, ThreadWakes, ThreadUnpins,
         ThreadServes, ThreadFrees, ThreadTells, callerVars, flagVars
<1>9. CASE UNCHANGED vars
  BY <1>0, <1>1, <1>9 DEF vars, callerVars, flagVars
<1> QED
  BY <1>2, <1>3, <1>4, <1>5, <1>6, <1>7, <1>8, <1>9 DEF Next, Caller, Engine, PrepareStep

LEMMA RetryingStep ==
  ASSUME ThreadStarts, Control, [Next]_vars
  PROVE  Retrying'
<1> USE IndexFacts DEF Retrying
<1>0. Types /\ Counts /\ Submitted /\ Retrying
  BY DEF Control
<1>1. CASE OSDmaAllocData
  BY <1>0, <1>1 DEF OSDmaAllocData, flagVars, Submitted, Counts
<1>2. CASE PrepareStep
  <2>1. retries = 0 /\ UNCHANGED <<retries, bSucceed>> /\ ~bSucceed
    BY <1>0, <1>2, PrepareDoes DEF Submitted
  <2>2. pc' \in {"next", "sparse", "force"}
    BY <1>0, <1>2, PrepareDoes
  <2> QED
    BY <2>1, <2>2
<1>3. CASE Submit
  <2>1. retries = 0 /\ UNCHANGED retries /\ pc' = "arm"
    BY <1>0, <1>3 DEF Submit
  <2>2. bAdvanceTimeline' <=> retries' < Retries
    BY <1>3, <2>1 DEF Submit
  <2> QED
    BY <2>1, <2>2
<1>4. CASE Arm \/ Issue \/ SubmitReturns
  <2>1. /\ UNCHANGED <<retries, bAdvanceTimeline, bSucceed, data>> /\ bSucceed
        /\ pc \in {"arm", "issue", "wait"} /\ pc' \in {"issue", "wait", "over"}
    BY <1>0, <1>4 DEF Arm, Issue, SubmitReturns, flagVars, Submitted
  <2> QED
    BY <1>0, <2>1
<1>5. CASE ForceMark
  <2>1. retries = 0 /\ UNCHANGED retries /\ pc' = "terminate" /\ ~bSucceed'
    BY <1>0, <1>5 DEF ForceMark
  <2>2. bAdvanceTimeline' <=> retries' < Retries
    BY <1>5, <2>1 DEF ForceMark
  <2> QED
    BY <2>1, <2>2
<1>6. CASE Terminate
  <2>0. /\ pc = "terminate" /\ UNCHANGED bSucceed /\ ~bSucceed /\ retries < Retries
        /\ retries \in Nat
    BY <1>0, <1>6 DEF Terminate, Submitted, Types
  <2>1. bAdvanceTimeline <=> retries < Retries
    BY <1>0, <2>0
  <2>2. CASE pc' = "wind" /\ UNCHANGED <<retries, bAdvanceTimeline>>
    BY <2>0, <2>1, <2>2
  <2>3. CASE /\ retries' = retries + 1
             /\ IF retries' = Retries
                THEN bAdvanceTimeline' = FALSE /\ pc' = "wind"
                ELSE UNCHANGED <<bAdvanceTimeline, pc>>
    <3>1. CASE retries' = Retries
      <4>1. ~(retries' < Retries) /\ pc' = "wind" /\ ~bSucceed'
        BY <2>0, <2>3, <3>1
      <4>2. bAdvanceTimeline' = FALSE
        BY <2>3, <3>1
      <4>3. bAdvanceTimeline' <=> retries' < Retries
        BY <4>1, <4>2
      <4>4. bAdvanceTimeline' \in BOOLEAN
        BY <4>2
      <4> QED
        BY <4>1, <4>3, <4>4
    <3>2. CASE retries' # Retries
      <4>1. retries' < Retries /\ pc' = "terminate" /\ UNCHANGED bAdvanceTimeline
        BY <2>0, <2>3, <3>2
      <4> QED
        BY <2>0, <2>1, <4>1
    <3> QED
      BY <3>1, <3>2
  <2> QED
    BY <1>6, <2>2, <2>3 DEF Terminate
<1>7. CASE Wind
  <2>1. /\ pc = "wind" /\ pc' = "over" /\ UNCHANGED <<retries, bSucceed, bAdvanceTimeline>>
        /\ ~bSucceed
    BY <1>0, <1>7 DEF Wind, flagVars, Submitted
  <2>2. bAdvanceTimeline = (retries < Retries)
    BY <1>0, <2>1
  <2> QED
    BY <2>1, <2>2
<1>8. ASSUME NEW i \in Index, Callback(i) \/ CallbackNotifies(i) PROVE Retrying'
  BY <1>0, <1>8 DEF Callback, CallbackNotifies, callerVars, flagVars
<1>9. CASE CleanupThread
  <2>1. UNCHANGED <<pc, retries, bSucceed, bAdvanceTimeline>>
    BY <1>9
       DEF CleanupThread, ThreadReadsSucceed, ThreadReadsSync, ThreadWakes, ThreadUnpins,
           ThreadServes, ThreadFrees, ThreadTells, callerVars, flagVars
  <2>2. data # "none"
    BY <1>0, <1>9
       DEF CleanupThread, ThreadReadsSucceed, ThreadReadsSync, ThreadWakes, ThreadUnpins,
           ThreadServes, ThreadFrees, ThreadTells, Counts
  <2> QED
    BY <1>0, <2>1, <2>2
<1>10. CASE UNCHANGED vars
  BY <1>0, <1>10 DEF vars, callerVars, flagVars
<1> QED
  BY <1>1, <1>2, <1>3, <1>4, <1>5, <1>6, <1>7, <1>8, <1>9, <1>10
     DEF Next, Caller, Engine, PrepareStep

LEMMA CallbacksStep ==
  ASSUME ThreadStarts, Control, [Next]_vars
  PROVE  Callbacks'
<1> USE IndexFacts DEF Callbacks
<1>0. Types /\ Counts /\ Submitted /\ Callbacks
  BY DEF Control
<1>1. ASSUME engine' = engine PROVE Issued' = Issued /\ Flying' = Flying
  BY <1>1 DEF Issued, Flying
<1>2. IsFiniteSet(Flying) /\ Cardinality(Flying) \in Nat
  BY FS_Subset, FS_CardinalityType DEF Flying
<1>3. CASE engine' = engine /\ uiRefCount' = uiRefCount /\ (pc' = "issue" => pc = "issue")
  BY <1>0, <1>1, <1>3
<1>4. CASE Arm
  BY <1>0, <1>1, <1>4 DEF Arm, Submitted, Counts
<1>5. CASE Issue
  <2>1. /\ \A i \in Index : engine'[i] = "flying"
        /\ UNCHANGED uiRefCount /\ uiRefCount = NumDMA /\ pc' # "issue"
    BY <1>0, <1>5 DEF Issue, Counts, Index
  <2>2. Flying' = Index
    BY <2>1 DEF Flying
  <2> QED
    BY <2>1, <2>2
<1>6. ASSUME NEW i \in Index, Callback(i) PROVE Callbacks'
  <2>1. /\ engine[i] = "flying" /\ uiRefCount' = uiRefCount - 1 /\ UNCHANGED pc
        /\ engine' = [engine EXCEPT ![i] = IF uiRefCount' = 0 THEN "last" ELSE "done"]
    BY <1>6 DEF Callback, callerVars
  <2>2. Issued /\ i \in Flying /\ \A j \in Index : engine[j] # "last"
    BY <1>0, <2>1 DEF Issued, Flying
  <2>3. Flying' = Flying \ {i}
    BY <1>0, <2>1 DEF Flying, Types
  <2>4. Cardinality(Flying') = uiRefCount'
    BY <1>0, <1>2, <2>1, <2>2, <2>3, FS_RemoveElement
  <2>5. pc # "issue"
    BY <1>0, <2>2 DEF Submitted
  <2>6. CASE uiRefCount' = 0
    <3>1. Flying' = {}
      BY <1>2, <2>3, <2>4, <2>6, FS_EmptySet, FS_Subset
    <3>2. \A j \in Index : engine'[j] # "flying" /\ (engine'[j] = "last" => j = i)
      BY <1>0, <2>1, <2>2, <3>1 DEF Flying, Types
    <3> QED
      BY <2>1, <2>4, <2>5, <3>2
  <2>7. CASE uiRefCount' # 0
    <3>1. \A j \in Index : engine'[j] # "last"
      BY <1>0, <2>1, <2>2, <2>7 DEF Types
    <3> QED
      BY <2>1, <2>4, <2>5, <3>1
  <2> QED
    BY <2>6, <2>7
<1>7. ASSUME NEW i \in Index, CallbackNotifies(i) PROVE Callbacks'
  <2>1. /\ engine[i] = "last" /\ UNCHANGED <<pc, uiRefCount>>
        /\ engine' = [engine EXCEPT ![i] = "done"]
    BY <1>7 DEF CallbackNotifies, callerVars
  <2>2. Flying' = Flying /\ Issued
    BY <1>0, <2>1 DEF Flying, Issued, Types
  <2>3. pc # "issue"
    BY <1>0, <2>2 DEF Submitted
  <2>4. \A j \in Index : engine'[j] # "last"
    BY <1>0, <2>1 DEF Types
  <2> QED
    BY <1>0, <2>1, <2>2, <2>3, <2>4
<1>8. CASE OSDmaAllocData \/ Submit \/ SubmitReturns \/ ForceMark \/ Terminate \/ Wind
  BY <1>3, <1>8 DEF OSDmaAllocData, Submit, SubmitReturns, ForceMark, Terminate, Wind
<1>9. CASE PrepareStep
  BY <1>0, <1>3, <1>9, PrepareDoes
<1>10. CASE CleanupThread \/ UNCHANGED vars
  BY <1>3, <1>10
     DEF CleanupThread, ThreadReadsSucceed, ThreadReadsSync, ThreadWakes, ThreadUnpins,
         ThreadServes, ThreadFrees, ThreadTells, callerVars, vars
<1> QED
  BY <1>4, <1>5, <1>6, <1>7, <1>8, <1>9, <1>10 DEF Next, Caller, Engine, PrepareStep

LEMMA NotifiedStep ==
  ASSUME ThreadStarts, Control, [Next]_vars
  PROVE  Notified'
<1> USE IndexFacts
<1>0. Types /\ Counts /\ Submitted /\ Callbacks /\ Notified
  BY DEF Control
<1>1. Finished => Issued /\ bSucceed /\ pc \in {"wait", "over"}
  BY <1>0 DEF Finished, Issued, Submitted
<1>2. ASSUME start_cleanup' = start_cleanup, Awake' <=> Awake, Finished' <=> Finished,
             Wound' /\ uiCount' > 0 <=> Wound /\ uiCount > 0
      PROVE  Notified'
  BY <1>0, <1>2 DEF Notified, One
<1>3. ASSUME engine' = engine PROVE Finished' <=> Finished
  BY <1>3 DEF Finished
<1>4. CASE OSDmaAllocData
  <2>1. ~Wound /\ ~Wound'
    BY <1>0, <1>4 DEF OSDmaAllocData, Wound, Counts, flagVars
  <2>2. UNCHANGED <<start_cleanup, thread, engine>>
    BY <1>4 DEF OSDmaAllocData, threadVars
  <2> QED
    BY <1>2, <1>3, <2>1, <2>2 DEF Awake
<1>5. CASE PrepareStep
  <2>1. ~Wound /\ ~Wound'
    BY <1>0, <1>5, PrepareDoes DEF Wound
  <2>2. UNCHANGED <<start_cleanup, engine>> /\ (Awake' <=> Awake)
    BY <1>0, <1>5, PrepareDoes DEF Awake, Counts
  <2> QED
    BY <1>2, <1>3, <2>1, <2>2
<1>6. CASE Submit \/ Arm \/ SubmitReturns \/ ForceMark \/ Terminate
  <2>1. ~Wound /\ ~Wound'
    BY <1>0, <1>6 DEF Submit, Arm, SubmitReturns, ForceMark, Terminate, Wound, Submitted, flagVars
  <2>2. UNCHANGED <<start_cleanup, thread, engine>>
    BY <1>6 DEF Submit, Arm, SubmitReturns, ForceMark, Terminate, threadVars
  <2> QED
    BY <1>2, <1>3, <2>1, <2>2 DEF Awake
<1>7. CASE Issue
  <2>1. ~Wound /\ ~Wound' /\ ~Finished
    BY <1>0, <1>1, <1>7 DEF Issue, Wound, Submitted, flagVars
  <2>2. engine'[0] = "flying"
    BY <1>0, <1>7 DEF Issue, Counts
  <2>3. ~Finished'
    BY <2>2 DEF Finished
  <2> QED
    BY <1>2, <1>7, <2>1, <2>3 DEF Issue, Awake, threadVars
<1>8. CASE Wind
  <2>1. /\ pc = "wind" /\ data # "none" /\ ~bSucceed /\ UNCHANGED <<bSucceed, uiCount, thread, engine>>
        /\ ~Finished /\ ~Wound /\ pc' = "over" /\ data' \in {data, "freed"}
        /\ start_cleanup' = IF uiCount > 0 THEN start_cleanup + 1 ELSE start_cleanup
    BY <1>0, <1>1, <1>8 DEF Wind, Wound, Submitted, Counts, flagVars, threadVars
  <2>2. Wound' /\ ~Finished' /\ (Awake' <=> Awake)
    BY <1>3, <2>1 DEF Wound, Awake
  <2>3. ~Awake /\ start_cleanup = 0
    BY <1>0, <2>1, AwakeFacts DEF Notified, One
  <2> QED
    BY <2>1, <2>2, <2>3 DEF Notified, One
<1>9. ASSUME NEW i \in Index, Callback(i) PROVE Notified'
  <2>1. /\ engine[i] = "flying" /\ uiRefCount' = uiRefCount - 1
        /\ UNCHANGED <<pc, data, uiCount, bSucceed, thread, start_cleanup>>
        /\ engine' = [engine EXCEPT ![i] = IF uiRefCount' = 0 THEN "last" ELSE "done"]
    BY <1>9 DEF Callback, callerVars, flagVars, threadVars
  <2>2. ~Finished
    BY <2>1 DEF Finished
  <2>3. ~Finished'
    <3>1. CASE uiRefCount' = 0
      <4>1. engine'[i] = "last"
        BY <1>0, <2>1, <3>1 DEF Types
      <4> QED
        BY <4>1 DEF Finished
    <3>2. CASE uiRefCount' # 0
      <4>1. Issued /\ i \in Flying /\ IsFiniteSet(Flying)
        BY <2>1, FS_Subset DEF Issued, Flying
      <4>2. Cardinality(Flying \ {i}) # 0
        BY <1>0, <2>1, <3>2, <4>1, FS_RemoveElement DEF Callbacks
      <4>3. Flying \ {i} # {}
        BY <4>2, FS_EmptySet
      <4>4. PICK j \in Index : j # i /\ engine[j] = "flying"
        BY <4>3 DEF Flying
      <4>5. engine'[j] = "flying"
        BY <1>0, <2>1, <4>4 DEF Types
      <4> QED
        BY <4>5 DEF Finished
    <3> QED
      BY <3>1, <3>2
  <2> QED
    BY <1>2, <2>1, <2>2, <2>3 DEF Awake, Wound
<1>10. ASSUME NEW i \in Index, CallbackNotifies(i) PROVE Notified'
  <2>1. /\ engine[i] = "last" /\ start_cleanup' = start_cleanup + 1
        /\ UNCHANGED <<pc, data, uiCount, bSucceed, thread>>
        /\ engine' = [engine EXCEPT ![i] = "done"]
    BY <1>10 DEF CallbackNotifies, callerVars, flagVars, threadVars
  <2>2. Issued /\ ~Finished
    BY <2>1 DEF Issued, Finished
  <2>3. ~Wound /\ ~Wound'
    BY <1>0, <2>1, <2>2 DEF Submitted, Wound
  <2>4. Finished'
    BY <1>0, <2>1, <2>2 DEF Finished, Callbacks, Submitted, Types
  <2>5. ~Awake /\ start_cleanup = 0
    BY <1>0, <2>2, <2>3, AwakeFacts DEF Notified, One
  <2>6. ~Awake'
    BY <2>1, <2>5 DEF Awake
  <2> QED
    BY <2>1, <2>4, <2>5, <2>6 DEF Notified, One
<1>11. CASE ThreadWakes
  <2>1. thread = "wait" /\ thread' = "unpin" /\ start_cleanup > 0 /\ start_cleanup' = start_cleanup - 1
        /\ UNCHANGED <<pc, data, uiCount, bSucceed, engine>>
    BY <1>11 DEF ThreadWakes, callerVars, flagVars
  <2>2. ~Awake /\ Awake' /\ start_cleanup = 1
    BY <1>0, <2>1 DEF Awake, Notified
  <2>3. (Finished' <=> Finished) /\ (Wound' <=> Wound)
    BY <1>3, <2>1 DEF Wound
  <2> QED
    BY <1>0, <2>1, <2>2, <2>3 DEF Notified, One
<1>12. CASE /\ CleanupThread /\ ~ThreadWakes
  <2>1. UNCHANGED <<pc, uiCount, bSucceed, engine, start_cleanup>> /\ (Awake' <=> Awake)
        /\ data' \in {data, "freed"} /\ thread # "none"
    BY <1>12
       DEF CleanupThread, ThreadReadsSucceed, ThreadReadsSync, ThreadUnpins,
           ThreadServes, ThreadFrees, ThreadTells, Awake, callerVars, flagVars
  <2>2. data # "none"
    BY <1>0, <2>1 DEF Counts
  <2>3. Wound' <=> Wound
    BY <2>1, <2>2 DEF Wound
  <2> QED
    BY <1>2, <1>3, <2>1, <2>3
<1>13. CASE UNCHANGED vars
  BY <1>2, <1>3, <1>13 DEF vars, callerVars, flagVars, threadVars, Awake, Wound
<1> QED
  BY <1>4, <1>5, <1>6, <1>7, <1>8, <1>9, <1>10, <1>11, <1>12, <1>13
     DEF Next, Caller, Engine, PrepareStep

LEMMA EndedStep ==
  ASSUME ThreadStarts, Control, [Next]_vars
  PROVE  Ended'
<1> USE IndexFacts
<1>0. Types /\ Counts /\ Submitted /\ Retrying /\ Notified /\ Ended
  BY DEF Control
<1>1. Told => Awake
  BY DEF Told, Awake
<1>2. ASSUME served' = served, retries' = retries, Told' <=> Told,
             Wound' /\ uiCount' = 0 <=> Wound /\ uiCount = 0, data' = data,
             thread' \in {"tell", "done"} <=> thread \in {"tell", "done"}
      PROVE  Ended'
  BY <1>0, <1>2 DEF Ended
<1>3. CASE OSDmaAllocData
  <2>1. ~Wound /\ ~Wound' /\ thread = "none" /\ UNCHANGED <<thread, served, retries>>
    BY <1>0, <1>3 DEF OSDmaAllocData, Wound, Counts, flagVars, threadVars
  <2>2. served = <<>> /\ data' # "freed"
    BY <1>0, <1>3, <2>1 DEF OSDmaAllocData, Ended, Told, Counts
  <2> QED
    BY <2>1, <2>2 DEF Ended, Told
<1>4. CASE PrepareStep
  <2>1. ~Wound /\ ~Wound'
    BY <1>0, <1>4, PrepareDoes DEF Wound
  <2>2. UNCHANGED <<served, retries, data>> /\ (Told' <=> Told)
        /\ (thread' \in {"tell", "done"} <=> thread \in {"tell", "done"})
    BY <1>0, <1>4, PrepareDoes DEF Told, Counts
  <2> QED
    BY <1>2, <2>1, <2>2
<1>5. CASE Submit \/ Arm \/ Issue \/ SubmitReturns \/ ForceMark
  <2>1. ~Wound /\ ~Wound'
    BY <1>0, <1>5 DEF Submit, Arm, Issue, SubmitReturns, ForceMark, Wound, Submitted, flagVars
  <2>2. UNCHANGED <<served, retries, data, thread>>
    BY <1>5 DEF Submit, Arm, Issue, SubmitReturns, ForceMark, threadVars
  <2> QED
    BY <1>2, <2>1, <2>2 DEF Told
<1>6. CASE Terminate
  <2>1. pc = "terminate" /\ pc' # "over" /\ UNCHANGED <<served, data, thread>>
    BY <1>6 DEF Terminate, threadVars
  <2>2. ~Wound /\ ~Wound' /\ ~Told /\ ~Told' /\ ~Awake
    BY <1>0, <1>1, <2>1, AwakeFacts DEF Wound, Told
  <2> QED
    BY <1>0, <2>1, <2>2 DEF Ended
<1>7. CASE Wind
  <2>1. /\ pc = "wind" /\ pc' = "over" /\ ~bSucceed /\ data # "none"
        /\ UNCHANGED <<thread, retries, uiCount, bSucceed>>
    BY <1>0, <1>7 DEF Wind, Submitted, Counts, threadVars, flagVars
  <2>2. ~Awake /\ ~Told /\ ~Told' /\ ~Wound /\ thread \notin {"tell", "done"}
    BY <1>0, <1>1, <2>1, AwakeFacts DEF Wound, Told, Awake
  <2>3. served = <<>> /\ data = "live"
    BY <1>0, <2>1, <2>2 DEF Ended, Types
  <2>4. CASE uiCount > 0
    <3>1. UNCHANGED <<data, served>> /\ uiCount' # 0
      BY <1>7, <2>1, <2>4 DEF Wind
    <3> QED
      BY <2>1, <2>2, <2>3, <3>1 DEF Ended
  <2>5. CASE uiCount = 0
    <3>1. data' = "freed" /\ served' = <<bAdvanceTimeline>> /\ uiCount' = 0
      BY <1>7, <2>1, <2>3, <2>5 DEF Wind
    <3>2. bAdvanceTimeline = (retries < Retries)
      BY <1>0, <2>1 DEF Retrying
    <3>3. served' = <<retries' < Retries>> /\ Wound'
      BY <2>1, <3>1, <3>2 DEF Wound
    <3> QED
      BY <3>1, <3>3 DEF Ended
  <2> QED
    BY <1>0, <2>4, <2>5 DEF Types
<1>8. ASSUME NEW i \in Index, Callback(i) \/ CallbackNotifies(i) PROVE Ended'
  BY <1>2, <1>8 DEF Callback, CallbackNotifies, callerVars, flagVars, threadVars, Told, Wound
<1>9. CASE ThreadReadsSucceed \/ ThreadReadsSync \/ ThreadWakes \/ ThreadUnpins
  BY <1>2, <1>9
     DEF ThreadReadsSucceed, ThreadReadsSync, ThreadWakes, ThreadUnpins, callerVars, flagVars, Told, Wound
<1>10. CASE ThreadServes
  <2>1. /\ thread = "serve" /\ thread' = "free" /\ served' = Append(served, bAdvanceTimeline)
        /\ UNCHANGED <<retries, data, uiCount>>
    BY <1>10 DEF ThreadServes, callerVars
  <2>2. uiCount > 0 /\ data # "none" /\ (pc = "wait" \/ pc = "over")
    BY <1>0, <2>1, AwakeFacts DEF Awake
  <2>3. served = <<>> /\ data # "freed"
    BY <1>0, <2>1, <2>2 DEF Ended, Told, Types
  <2>4. bAdvanceTimeline = (retries < Retries)
    BY <1>0, <2>2 DEF Retrying
  <2>5. served' = <<retries' < Retries>>
    BY <2>1, <2>3, <2>4
  <2> QED
    BY <2>1, <2>2, <2>3, <2>5 DEF Ended, Told
<1>11. CASE ThreadFrees
  <2>1. /\ thread = "free" /\ thread' = "tell" /\ data' = "freed"
        /\ UNCHANGED <<served, retries>>
    BY <1>11 DEF ThreadFrees, callerVars
  <2> QED
    BY <1>0, <2>1 DEF Ended, Told
<1>12. CASE ThreadTells
  <2>1. thread = "tell" /\ thread' = "done" /\ UNCHANGED <<served, retries, data>>
    BY <1>12 DEF ThreadTells, callerVars
  <2> QED
    BY <1>0, <2>1 DEF Ended, Told
<1>13. CASE UNCHANGED vars
  BY <1>2, <1>13 DEF vars, callerVars, flagVars, threadVars, Told, Wound
<1> QED
  BY <1>3, <1>4, <1>5, <1>6, <1>7, <1>8, <1>9, <1>10, <1>11, <1>12, <1>13
     DEF Next, Caller, Engine, CleanupThread, PrepareStep

LEMMA WaiterStep ==
  ASSUME ThreadStarts, Control, [Next]_vars
  PROVE  Waiter'
<1> USE DEF Waiter
<1>0. Types /\ Counts /\ Submitted /\ Notified /\ Waiter
  BY DEF Control
<1>1. CASE PrepareStep
  BY <1>0, <1>1, PrepareDoes
<1>2. CASE OSDmaAllocData \/ Submit \/ ForceMark \/ Terminate \/ Wind
  BY <1>0, <1>2 DEF OSDmaAllocData, Submit, ForceMark, Terminate, Wind, syncVars, threadVars
<1>3. CASE Arm
  <2>1. ~saw_sync /\ UNCHANGED saw_sync /\ pc' = "issue"
        /\ sync' = IF has_sync' THEN "waited" ELSE "none"
    BY <1>0, <1>3 DEF Arm, threadVars
  <2> QED
    BY <2>1
<1>4. CASE Issue
  BY <1>0, <1>4 DEF Issue, syncVars, threadVars
<1>5. CASE SubmitReturns
  BY <1>0, <1>5 DEF SubmitReturns, syncVars, threadVars
<1>6. ASSUME NEW i \in Index, Callback(i) \/ CallbackNotifies(i) PROVE Waiter'
  BY <1>0, <1>6 DEF Callback, CallbackNotifies, callerVars, syncVars, threadVars
<1>7. CASE CleanupThread
  BY <1>0, <1>7
     DEF CleanupThread, ThreadReadsSucceed, ThreadReadsSync, ThreadWakes, ThreadUnpins,
         ThreadServes, ThreadFrees, ThreadTells, callerVars, syncVars
<1>8. CASE UNCHANGED vars
  BY <1>0, <1>8 DEF vars, callerVars, syncVars, threadVars
<1> QED
  BY <1>1, <1>2, <1>3, <1>4, <1>5, <1>6, <1>7, <1>8 DEF Next, Caller, Engine, PrepareStep

LEMMA ControlStep ==
  ASSUME ThreadStarts, Control, [Next]_vars
  PROVE  Control'
<1>1. Types'
  BY TypesStep DEF Control
<1> QED
  BY <1>1, CountsStep, SubmittedStep, RetryingStep, CallbacksStep, NotifiedStep, EndedStep, WaiterStep
     DEF Control

LEMMA ControlAlways ==
  ASSUME ThreadStarts
  PROVE  Spec => []Control
<1>1. Init => Control
  BY ControlInit
<1>2. Control /\ [Next]_vars => Control'
  BY ControlStep
<1> QED
  BY <1>1, <1>2, PTL DEF Spec

(* Whoever is about to use the data of a request finds it (osfunc.c:2240): *)
(* the caller, a callback that is under way, and the cleanup thread up to  *)
(* the free.  A thread that completes sync_completion finds the caller     *)
(* still waiting for it.                                                   *)
THEOREM DmaDataLives ==
  ASSUME ThreadStarts
  PROVE  Spec => []NothingDangles
<1>1. ASSUME Control PROVE NothingDangles
  <2>0. Types /\ Counts /\ Submitted /\ Notified /\ Ended /\ Waiter
    BY <1>1 DEF Control
  <2>1. Finished => Issued
    BY IndexFacts DEF Finished, Issued
  <2>2. ASSUME pc \in {"next", "sparse", "arm", "issue", "force", "terminate", "wind"}
        PROVE  data = "live"
    <3>1. data # "none" /\ ~Awake /\ ~Wound
      BY <2>0, <2>2, AwakeFacts DEF Counts, Wound
    <3> QED
      BY <2>0, <3>1 DEF Ended, Awake, Types
  <2>3. ASSUME NEW i \in Index, engine[i] \in {"flying", "last"} PROVE data = "live"
    <3>1. Issued /\ ~Finished
      BY <2>3 DEF Issued, Finished
    <3>2. ~Wound /\ uiCount = NumDMA
      BY <2>0, <3>1 DEF Submitted, Wound
    <3>3. ~Awake
      BY <2>0, <3>1, <3>2, AwakeFacts
    <3> QED
      BY <2>0, <3>2, <3>3, IndexFacts DEF Ended, Awake, Types, Counts
  <2>4. ASSUME thread \in {"new", "succeed", "wait", "unpin", "serve", "free"} PROVE data = "live"
    BY <2>0, <2>4 DEF Ended, Types, Counts
  <2>5. thread = "tell" /\ saw_sync /\ saw_succeed => sync = "waited"
    BY <2>0 DEF Waiter
  <2> QED
    BY <2>2, <2>3, <2>4, <2>5 DEF NothingDangles, DataInUse
<1> QED
  BY <1>1, ControlAlways, PTL


-----------------------------------------------------------------------------
(* The pages.                                                              *)
LEMMA PagesInit == Init => Pages
BY IndexFacts DEF Init, Pages, PagesOK, Pinned, Unpinned, Preparing, ToCome, Emptied, Index

(* Every transfer but the one that is prepared is as it was.               *)
LEMMA OtherPages ==
  ASSUME Pages, Types,
         NEW i \in Index, i # uiCount,
         uiCount' = uiCount \/ (uiCount' = uiCount + 1 /\ pc' = "next"),
         pc \in {"next", "sparse"}, pc' \in {"next", "sparse", "force"},
         UNCHANGED <<pages[i], pins[i], mapped[i], pbIsSparse[i], puiNumPages[i]>>,
         ~Emptied, ~Emptied'
  PROVE  PagesOK(i)'
<1>1. PagesOK(i)
  BY DEF Pages
<1>2. i \in Int /\ uiCount \in Int
  BY IndexFacts DEF Index, Types
<1>3. (Pinned(i)' <=> Pinned(i)) /\ (Unpinned(i)' <=> Unpinned(i))
  BY DEF Pinned, Unpinned
<1>4. \A s \in Slots : Held(i, s)' <=> Held(i, s)
  BY DEF Held
<1>5. CASE i < uiCount
  <2>1. ~(i >= uiCount') /\ ~Preparing(i)' /\ ~ToCome(i)'
    BY <1>2, <1>5 DEF Preparing, ToCome
  <2>2. Pinned(i)' /\ pages'[i] # {} /\ mapped'[i] # {}
    BY <1>1, <1>3, <1>5 DEF PagesOK
  <2>3. \A s \in Slots : Held(i, s)' <=> s \in pages'[i]
    BY <1>1, <1>4, <1>5 DEF PagesOK
  <2> QED
    BY <2>1, <2>2, <2>3 DEF PagesOK
<1>6. CASE i > uiCount
  <2>1. i >= uiCount' /\ ~Preparing(i) /\ ToCome(i) /\ i >= uiCount
    BY <1>2, <1>6 DEF Preparing, ToCome
  <2>2. Unpinned(i)' /\ pages'[i] = {} /\ ~pbIsSparse'[i]
    BY <1>1, <1>3, <2>1 DEF PagesOK
  <2>3. Pinned(i)'
    BY <2>2 DEF Pinned, Unpinned, One
  <2>4. ~Preparing(i)'
    BY <1>2, <1>6 DEF Preparing
  <2>5. ~(i < uiCount')
    BY <1>2, <2>1
  <2> QED
    BY <2>2, <2>4, <2>5 DEF PagesOK
<1> QED
  BY <1>2, <1>5, <1>6

(* Steps that leave the pages alone.                                       *)
LEMMA SamePages ==
  ASSUME Pages, UNCHANGED <<uiCount, prepVars, pageVars>>, Emptied' <=> Emptied,
         pc' \in {"start", "next"} => pc \in {"start", "next"},
         pc' = "sparse" <=> pc = "sparse"
  PROVE  Pages'
<1> SUFFICES ASSUME NEW i \in Index PROVE PagesOK(i)'
  BY DEF Pages
<1>1. PagesOK(i)
  BY DEF Pages
<1> QED
  BY <1>1 DEF PagesOK, Pinned, Unpinned, Preparing, ToCome, Held, prepVars, pageVars

LEMMA PagesStep ==
  ASSUME ThreadStarts, PagesCounted, Control, Pages, [Next]_vars
  PROVE  Pages'
<1> USE IndexFacts
<1>0. Types /\ Counts /\ Submitted /\ Notified
  BY DEF Control
<1>1. Emptied => Awake
  BY DEF Emptied, Awake
<1>2. ASSUME PrepareStep PROVE ~Emptied /\ ~Emptied' /\ uiCount \in Index
  <2>1. pc \in {"next", "sparse"} /\ uiCount \in Index
    BY <1>0, <1>2, PrepareDoes DEF Types, Counts, Index
  <2>2. ~Emptied
    BY <1>0, <1>1, <2>1, AwakeFacts
  <2> QED
    BY <1>0, <1>2, <2>1, <2>2, PrepareDoes DEF Emptied
<1>3. CASE OSDmaPrepareTransfer
  <2>1. /\ ~Emptied /\ ~Emptied' /\ uiCount \in Index /\ pc = "next" /\ pc' = "next"
        /\ uiCount' = uiCount + 1 /\ UNCHANGED pbIsSparse
        /\ mapped' = [mapped EXCEPT ![uiCount] = {0}]
    BY <1>2, <1>3, PreparedDoes DEF PrepareStep, OSDmaPrepareTransfer, Asking
  <2>2. PICK n \in 1 .. MaxPages :
          /\ pages' = [pages EXCEPT ![uiCount] = 0 .. n - 1]
          /\ pins' = [pins EXCEPT ![uiCount] = [s \in Slots |-> IF s < n THEN 1 ELSE 0]]
          /\ puiNumPages' = [puiNumPages EXCEPT ![uiCount] = n]
    BY <1>3 DEF OSDmaPrepareTransfer
  <2>3. ASSUME NEW i \in Index, i # uiCount PROVE PagesOK(i)'
    <3>1. UNCHANGED <<pages[i], pins[i], mapped[i], pbIsSparse[i], puiNumPages[i]>>
      BY <1>0, <2>1, <2>2, <2>3 DEF Types
    <3> QED
      BY <1>0, <2>1, <2>3, <3>1, OtherPages
  <2>4. ASSUME NEW i \in Index, i = uiCount PROVE PagesOK(i)'
    <3>1. i < uiCount' /\ ~Preparing(i)' /\ ~ToCome(i)'
      BY <2>1, <2>4 DEF Preparing, ToCome, Index
    <3>2. pages'[i] = 0 .. n - 1 /\ puiNumPages'[i] = n /\ mapped'[i] = {0}
          /\ pins'[i] = [s \in Slots |-> IF s < n THEN 1 ELSE 0]
      BY <1>0, <2>1, <2>2, <2>4 DEF Types
    <3>3. \A s \in Slots : s \in pages'[i] <=> s < n
      BY <3>2 DEF Slots
    <3>4. Pinned(i)'
      BY <3>2, <3>3 DEF Pinned, One
    <3>5. ~pbIsSparse'[i]
      <4>1. ToCome(i)
        BY <2>1, <2>4 DEF ToCome, Index
      <4> QED
        BY <2>1, <4>1 DEF Pages, PagesOK
    <3>6. \A s \in Slots : Held(i, s)' <=> s \in pages'[i]
      BY <3>2, <3>3, <3>5 DEF Held
    <3>7. 0 \in pages'[i] /\ 0 \in mapped'[i]
      BY <3>2
    <3> QED
      BY <2>1, <3>1, <3>4, <3>6, <3>7 DEF PagesOK
  <2> QED
    BY <2>3, <2>4 DEF Pages
<1>4. CASE PrepareFails
  <2>1. UNCHANGED <<uiCount, prepVars, pageVars>> /\ pc = "next" /\ pc' = "force"
    BY <1>4 DEF PrepareFails, Asking, GiveUp, PagesCounted, pageVars
  <2> QED
    BY <1>2, <1>4, <2>1, SamePages DEF PrepareStep
<1>5. CASE SparseBegin
  <2>1. /\ ~Emptied /\ ~Emptied' /\ uiCount \in Index /\ pc = "next" /\ pc' \in {"sparse", "force"}
        /\ UNCHANGED <<uiCount, pages, pins, mapped, puiNumPages>> /\ valid_idx' = 0
        /\ pbIsSparse' = [pbIsSparse EXCEPT ![uiCount] = TRUE]
    BY <1>0, <1>2, <1>5, SparseBeginDoes DEF PrepareStep, SparseBegin, Asking, pageVars
  <2>2. ASSUME NEW i \in Index, i # uiCount PROVE PagesOK(i)'
    <3>1. UNCHANGED <<pages[i], pins[i], mapped[i], pbIsSparse[i], puiNumPages[i]>>
      BY <1>0, <2>1, <2>2 DEF Types
    <3> QED
      BY <1>0, <2>1, <2>2, <3>1, OtherPages
  <2>3. ASSUME NEW i \in Index, i = uiCount PROVE PagesOK(i)'
    <3>1. i \in Int /\ uiCount' = i /\ ToCome(i) /\ ~Preparing(i)
      BY <2>1, <2>3 DEF ToCome, Preparing, Index
    <3>2. Unpinned(i) /\ pages[i] = {}
      BY <2>1, <3>1 DEF Pages, PagesOK
    <3>3. Unpinned(i)' /\ pages'[i] = {} /\ Pinned(i)'
      BY <2>1, <3>2 DEF Unpinned, Pinned, One
    <3>4. pbIsSparse'[i]
      BY <1>0, <2>1, <2>3 DEF Types
    <3>5. ~ToCome(i)'
      BY <2>1, <3>1 DEF ToCome
    <3> QED
      BY <3>1, <3>3, <3>4, <3>5 DEF PagesOK
  <2> QED
    BY <2>1, <2>2, <2>3 DEF Pages
<1>6. CASE SparsePage
  <2>1. /\ ~Emptied /\ ~Emptied' /\ uiCount \in Index /\ pc = "sparse" /\ pc' \in {"sparse", "next"}
        /\ mapped' = [mapped EXCEPT ![uiCount] = @ \cup {valid_idx}]
        /\ valid_idx' = valid_idx + 1
        /\ puiNumPages' = [puiNumPages EXCEPT ![uiCount] = valid_idx + 1]
        /\ UNCHANGED pbIsSparse
    BY <1>2, <1>6 DEF PrepareStep, SparsePage, Prepared
  <2>2. \/ uiCount' = uiCount + 1 /\ pc' = "next"
        \/ uiCount' = uiCount /\ pc' = "sparse"
    BY <1>6 DEF SparsePage, Prepared
  <2>3. PICK k \in 1 .. 2 :
          /\ pages' = [pages EXCEPT ![uiCount] = @ \cup SlotsOf(valid_idx, k)]
          /\ pins' = [pins EXCEPT ![uiCount] = Pin(SlotsOf(valid_idx, k))]
    BY <1>6 DEF SparsePage
  <2>4. ASSUME NEW i \in Index, i # uiCount PROVE PagesOK(i)'
    <3>1. UNCHANGED <<pages[i], pins[i], mapped[i], pbIsSparse[i], puiNumPages[i]>>
      BY <1>0, <2>1, <2>3, <2>4 DEF Types
    <3> QED
      BY <1>0, <2>1, <2>2, <2>4, <3>1, OtherPages
  <2>5. ASSUME NEW i \in Index, i = uiCount PROVE PagesOK(i)'
    <3> DEFINE S == SlotsOf(valid_idx, k)
    <3>1. Preparing(i) /\ Pinned(i) /\ pages[i] \subseteq 0 .. 2 * valid_idx - 1 /\ pbIsSparse[i]
      BY <2>1, <2>5 DEF Preparing, Pages, PagesOK
    <3>2. pages'[i] = pages[i] \cup S /\ pins'[i] = Pin(S) /\ puiNumPages'[i] = valid_idx + 1
          /\ mapped'[i] # {}
      BY <1>0, <2>1, <2>3, <2>5 DEF Types
    <3>3. valid_idx \in Nat /\ i \in Int
      BY <1>0, <2>5 DEF Types
    <3>4. /\ S # {} /\ S \subseteq 0 .. 2 * (valid_idx + 1) - 1
          /\ \A s \in S : s \notin pages[i]
      BY <3>1, <3>3 DEF SlotsOf
    <3> HIDE DEF S
    <3>5. Pinned(i)'
      <4> SUFFICES ASSUME NEW s \in Slots PROVE Pin(S)[s] = One(s \in pages'[i])
        BY <3>2 DEF Pinned
      <4>1. pins[i][s] = One(s \in pages[i])
        BY <3>1 DEF Pinned
      <4>2. Pin(S)[s] = pins[i][s] + (IF s \in S THEN 1 ELSE 0)
        BY <2>5 DEF Pin
      <4>3. s \in pages'[i] <=> s \in pages[i] \/ s \in S
        BY <3>2
      <4>4. CASE s \in S
        BY <3>4, <4>1, <4>2, <4>3, <4>4 DEF One
      <4>5. CASE s \notin S
        BY <4>1, <4>2, <4>3, <4>5 DEF One
      <4> QED
        BY <4>4, <4>5
    <3>6. pages'[i] # {} /\ pages'[i] \subseteq 0 .. 2 * valid_idx' - 1
      <4>1. 0 .. 2 * valid_idx - 1 \subseteq 0 .. 2 * (valid_idx + 1) - 1
        BY <3>3
      <4>2. valid_idx' = valid_idx + 1
        BY <2>1
      <4> QED
        BY <3>1, <3>2, <3>4, <4>1, <4>2
    <3>7. \A s \in Slots : Held(i, s)' <=> s \in pages'[i]
      BY <2>1, <3>1, <3>2, <3>3, <3>6 DEF Held
    <3>8. ~ToCome(i)'
      BY <2>1, <2>2, <2>5, <3>3 DEF ToCome
    <3>9. CASE uiCount' = uiCount + 1 /\ pc' = "next"
      <4>1. ~(i >= uiCount') /\ ~Preparing(i)'
        BY <2>5, <3>3, <3>9 DEF Preparing
      <4>2. pages'[i] # {} /\ mapped'[i] # {}
        BY <3>2, <3>6
      <4> QED
        BY <2>1, <3>5, <3>7, <3>8, <4>1, <4>2 DEF PagesOK
    <3>10. CASE uiCount' = uiCount /\ pc' = "sparse"
      <4>1. ~(i < uiCount') /\ Preparing(i)' /\ pbIsSparse'[i]
        BY <2>1, <2>5, <3>1, <3>3, <3>10 DEF Preparing
      <4> QED
        BY <3>5, <3>6, <3>8, <4>1 DEF PagesOK
    <3> QED
      BY <2>2, <3>9, <3>10
  <2> QED
    BY <2>4, <2>5 DEF Pages
<1>7. CASE SparseFails
  <2>1. /\ ~Emptied /\ ~Emptied' /\ uiCount \in Index /\ pc = "sparse" /\ pc' = "force"
        /\ valid_idx = 0 /\ UNCHANGED <<uiCount, pbIsSparse, puiNumPages, valid_idx>>
        /\ pages' = [pages EXCEPT ![uiCount] = {}]
        /\ mapped' = [mapped EXCEPT ![uiCount] = {}]
    <3>1. valid_idx = 0
      BY <1>0, <1>7 DEF SparseFails, PagesCounted, Types
    <3>2. ~Emptied /\ ~Emptied' /\ uiCount \in Index
      BY <1>2, <1>7 DEF PrepareStep
    <3> QED
      BY <1>7, <3>1, <3>2 DEF SparseFails, GiveUp, prepVars
  <2>2. pages[uiCount] = {} /\ \A s \in Slots : pins[uiCount][s] = 0
    <3>1. Preparing(uiCount)
      BY <2>1 DEF Preparing
    <3>2. Pinned(uiCount) /\ pages[uiCount] \subseteq 0 .. 2 * valid_idx - 1
      BY <2>1, <3>1 DEF Pages, PagesOK
    <3>3. pages[uiCount] = {}
      BY <2>1, <3>2
    <3> QED
      BY <3>2, <3>3 DEF Pinned, One
  <2>3. PICK f : /\ pins' = [pins EXCEPT ![uiCount] = f]
                 /\ \A s \in Slots : f[s] = 0
    <3>1. ASSUME NEW P, NEW s PROVE PutRewind(P, s) = 0
      BY <2>1 DEF PutRewind
    <3>2. ASSUME NEW k \in 1 .. 2,
                 pins' = [pins EXCEPT ![uiCount] =
                   [s \in Slots |-> Pin(SlotsOf(valid_idx, k))[s]
                      - PutLast(pages[uiCount] \cup SlotsOf(valid_idx, k), s)
                      - PutRewind(pages[uiCount] \cup SlotsOf(valid_idx, k), s)]]
          PROVE  \E f : /\ pins' = [pins EXCEPT ![uiCount] = f]
                        /\ \A s \in Slots : f[s] = 0
      <4> DEFINE S == SlotsOf(valid_idx, k)
                 P == pages[uiCount] \cup S
                 f == [s \in Slots |-> Pin(S)[s] - PutLast(P, s) - PutRewind(P, s)]
      <4>1. \A s \in Slots : s \in S <=> s = 0 \/ (s = 1 /\ 1 \in S)
        BY <2>1 DEF SlotsOf, Slots
      <4>2. P = S
        BY <2>2
      <4> HIDE DEF P, S
      <4>3. ASSUME NEW s \in Slots PROVE f[s] = 0
        <5>1. Pin(S)[s] = IF s \in S THEN 1 ELSE 0
          BY <2>2 DEF Pin
        <5>2. PutLast(P, s) = IF s \in S THEN 1 ELSE 0
          BY <2>1, <4>1, <4>2 DEF PutLast
        <5> QED
          BY <3>1, <5>1, <5>2
      <4>4. pins' = [pins EXCEPT ![uiCount] = f]
        BY <3>2 DEF P, S
      <4> QED
        BY <4>3, <4>4
    <3>3. ASSUME pins' = [pins EXCEPT ![uiCount] =
                   [s \in Slots |-> @[s] - PutRewind(pages[uiCount], s)]]
          PROVE  \E f : /\ pins' = [pins EXCEPT ![uiCount] = f]
                        /\ \A s \in Slots : f[s] = 0
      <4> DEFINE f == [s \in Slots |-> pins[uiCount][s] - PutRewind(pages[uiCount], s)]
      <4>1. \A s \in Slots : f[s] = 0
        BY <2>2, <3>1
      <4>2. pins' = [pins EXCEPT ![uiCount] = f]
        BY <1>0, <2>1, <3>3 DEF Types
      <4> QED
        BY <4>1, <4>2
    <3> QED
      BY <1>7, <3>2, <3>3 DEF SparseFails, PagesCounted
  <2>4. ASSUME NEW i \in Index, i # uiCount PROVE PagesOK(i)'
    <3>1. UNCHANGED <<pages[i], pins[i], mapped[i], pbIsSparse[i], puiNumPages[i]>>
      BY <1>0, <2>1, <2>3, <2>4 DEF Types
    <3> QED
      BY <1>0, <2>1, <2>4, <3>1, OtherPages
  <2>5. ASSUME NEW i \in Index, i = uiCount PROVE PagesOK(i)'
    <3>1. Unpinned(i)'
      BY <1>0, <2>1, <2>3, <2>5 DEF Types, Unpinned
    <3>2. ~Preparing(i)' /\ ~ToCome(i)' /\ ~(i < uiCount')
      BY <1>0, <2>1, <2>5 DEF Preparing, ToCome, Types
    <3> QED
      BY <2>1, <3>1, <3>2 DEF PagesOK
  <2> QED
    BY <2>1, <2>4, <2>5 DEF Pages
<1>8. CASE OSDmaAllocData \/ Submit \/ Arm \/ Issue \/ SubmitReturns \/ ForceMark \/ Terminate \/ Wind
  <2>1. UNCHANGED <<uiCount, prepVars, pageVars, thread>>
    BY <1>8 DEF OSDmaAllocData, Submit, Arm, Issue, SubmitReturns, ForceMark, Terminate, Wind, threadVars
  <2>2. pc # "sparse" /\ pc' # "sparse" /\ (pc' \in {"start", "next"} => pc \in {"start", "next"})
    BY <1>8 DEF OSDmaAllocData, Submit, Arm, Issue, SubmitReturns, ForceMark, Terminate, Wind
  <2> QED
    BY <2>1, <2>2, SamePages DEF Emptied
<1>9. ASSUME NEW i \in Index, Callback(i) \/ CallbackNotifies(i) PROVE Pages'
  BY <1>9, SamePages DEF Callback, CallbackNotifies, callerVars, threadVars, Emptied
<1>10. CASE ThreadUnpins
  <2>1. /\ thread = "unpin" /\ thread' = "serve" /\ UNCHANGED <<pc, uiCount, prepVars, pages>>
        /\ pins' = [i \in Index |-> [s \in Slots |->
                      pins[i][s] - (IF i < uiCount /\ Held(i, s) THEN 1 ELSE 0)]]
        /\ mapped' = [i \in Index |-> IF i < uiCount THEN {} ELSE mapped[i]]
    BY <1>10 DEF ThreadUnpins, callerVars
  <2>2. pc \in {"wait", "over"}
    BY <1>0, <2>1, AwakeFacts DEF Awake
  <2>3. ~Emptied /\ Emptied'
    BY <2>1 DEF Emptied
  <2> SUFFICES ASSUME NEW i \in Index PROVE PagesOK(i)'
    BY DEF Pages
  <2>4. ~Preparing(i) /\ ~Preparing(i)' /\ ~ToCome(i)' /\ i \in Int /\ uiCount \in Int
    BY <1>0, <2>1, <2>2 DEF Preparing, ToCome, Index, Types
  <2>5. CASE i < uiCount
    <3>1. Pinned(i) /\ \A s \in Slots : Held(i, s) <=> s \in pages[i]
      BY <2>3, <2>5 DEF Pages, PagesOK
    <3>2. Unpinned(i)'
      BY <2>1, <2>5, <3>1 DEF Unpinned, Pinned, One
    <3> QED
      BY <2>3, <2>4, <3>2 DEF PagesOK
  <2>6. CASE i >= uiCount
    <3>1. Unpinned(i)
      BY <2>4, <2>6 DEF Pages, PagesOK
    <3>2. Unpinned(i)'
      BY <2>1, <2>4, <2>6, <3>1 DEF Unpinned
    <3> QED
      BY <2>3, <2>4, <3>2 DEF PagesOK
  <2> QED
    BY <2>4, <2>5, <2>6
<1>11. CASE ThreadReadsSucceed \/ ThreadReadsSync \/ ThreadWakes \/ ThreadServes \/ ThreadFrees \/ ThreadTells
  BY <1>11, SamePages
     DEF ThreadReadsSucceed, ThreadReadsSync, ThreadWakes, ThreadServes, ThreadFrees, ThreadTells,
         callerVars, Emptied
<1>12. CASE UNCHANGED vars
  BY <1>12, SamePages DEF vars, callerVars, threadVars, Emptied
<1> QED
  BY <1>3, <1>4, <1>5, <1>6, <1>7, <1>8, <1>9, <1>10, <1>11, <1>12
     DEF Next, Caller, Engine, CleanupThread

LEMMA PagesAlways ==
  ASSUME ThreadStarts, PagesCounted
  PROVE  Spec => [](Control /\ Pages)
<1>1. Init => Control /\ Pages
  BY ControlInit, PagesInit
<1>2. Control /\ Pages /\ [Next]_vars => (Control /\ Pages)'
  BY ControlStep, PagesStep
<1> QED
  BY <1>1, <1>2, PTL DEF Spec

(* The engine works on pinned and mapped pages of a request that has not   *)
(* been served: the thread does not wake before the last callback          *)
(* (osfunc.c:2154).                                                        *)
THEOREM DmaHoldsPages ==
  ASSUME ThreadStarts, PagesCounted
  PROVE  Spec => []BusyPagesHeld
<1>1. ASSUME Control, Pages PROVE BusyPagesHeld
  <2>0. Types /\ Counts /\ Submitted /\ Notified /\ Ended
    BY <1>1 DEF Control
  <2> SUFFICES ASSUME NEW i \in Index, engine[i] = "flying"
               PROVE  /\ pages[i] # {} /\ \A s \in pages[i] : pins[i][s] = 1
                      /\ mapped[i] # {}
                      /\ served = <<>>
    BY DEF BusyPagesHeld, Busy
  <2>1. Issued /\ ~Finished
    BY DEF Issued, Finished
  <2>2. ~Wound /\ uiCount = NumDMA
    BY <2>0, <2>1 DEF Submitted, Wound
  <2>3. ~Awake
    BY <2>0, <2>1, <2>2, AwakeFacts
  <2>4. served = <<>>
    BY <2>0, <2>2, <2>3 DEF Ended, Told, Awake
  <2>5. i < uiCount /\ ~Emptied
    BY <2>2, <2>3, IndexFacts DEF Emptied, Awake
  <2>6. Pinned(i) /\ pages[i] # {} /\ mapped[i] # {}
    BY <1>1, <2>5 DEF Pages, PagesOK
  <2>7. pages[i] \subseteq Slots
    BY <2>0 DEF Types
  <2> QED
    BY <2>4, <2>6, <2>7 DEF Pinned, One
<1> QED
  BY <1>1, PagesAlways, PTL

(* When the request is over the server has been told once, and every page  *)
(* and mapping has been given back once, by the thread or by the caller.   *)
THEOREM DmaGivesBack ==
  ASSUME ThreadStarts, PagesCounted
  PROVE  Spec => []GivenBack
<1>1. ASSUME Control, Pages PROVE GivenBack
  <2>0. Types /\ Counts /\ Submitted /\ Notified /\ Ended
    BY <1>1 DEF Control
  <2> SUFFICES ASSUME data = "freed"
               PROVE  /\ served = <<retries < Retries>>
                      /\ \A i \in Index : Unpinned(i)
    BY DEF GivenBack, Over, Unpinned
  <2>1. thread \in {"tell", "done"} \/ (Wound /\ uiCount = 0)
    BY <2>0 DEF Ended
  <2>2. served = <<retries < Retries>>
    BY <2>0, <2>1 DEF Ended, Told
  <2>3. pc \in {"wait", "over"}
    BY <2>0, <2>1, AwakeFacts DEF Awake, Wound
  <2>4. ASSUME NEW i \in Index PROVE Unpinned(i)
    <3>1. ~Preparing(i) /\ i \in Nat /\ uiCount \in Nat
      BY <2>0, <2>3 DEF Preparing, Index, Types
    <3>2. CASE i < uiCount
      <4>1. Emptied
        BY <2>1, <3>1, <3>2 DEF Emptied
      <4> QED
        BY <1>1, <3>2, <4>1 DEF Pages, PagesOK
    <3>3. CASE i >= uiCount
      BY <1>1, <3>1, <3>3 DEF Pages, PagesOK
    <3> QED
      BY <3>1, <3>2, <3>3
  <2> QED
    BY <2>2, <2>4
<1> QED
  BY <1>1, PagesAlways, PTL

-----------------------------------------------------------------------------
(* The timers.                                                             *)

(* An execution that has seen bActive set and will arm the timer.          *)
Armer(t) == running[t] \in {"call", "arm"}

Chained(t) ==
  pending[t] \/ firing[t] \/ queued[t] \/ running[t] \in {"test", "call", "arm"}

(* A slot is in use exactly when one user holds it.                        *)
Owned ==
  /\ \A u \in Users : handle[u] = None <=> user_pc[u] = Idle
  /\ \A u, v \in Users : handle[u] = handle[v] /\ handle[u] # None => u = v
  /\ \A t \in Timers : bInUse[t] <=> \E u \in Users : handle[u] = t

(* What is true of slot t while the user u who holds it is at its place.   *)
QuietHeld(u, t) == user_pc[u] \in {"setup", Off, "arm"} => Quiet(t)
Data(u, t) == user_pc[u] \notin {Idle, "setup"} => pvData[t] = u
Active(u, t) == user_pc[u] \in {"arm", On} => bActive[t]
Inactive(u, t) == user_pc[u] \in Disabling => ~bActive[t]
Alive(u, t) == user_pc[u] = On => Chained(t)
ArmerAwaited(u, t) == user_pc[u] = "wait1" /\ Armer(t) => awaited[u][t] # 0
NoArmer(u, t) == user_pc[u] \in {"delete", "flush2", "wait2"} => ~Armer(t)
Deleted(u, t) == user_pc[u] \in {"flush2", "wait2"} => ~pending[t] /\ ~firing[t]
AllAwaited(u, t) == user_pc[u] = "wait2" => awaited[u][t] = Executions(t)

HeldOK(u, t) ==
  /\ QuietHeld(u, t) /\ Data(u, t) /\ Active(u, t) /\ Inactive(u, t)
  /\ Alive(u, t) /\ ArmerAwaited(u, t) /\ NoArmer(u, t) /\ Deleted(u, t)
  /\ AllAwaited(u, t)

AllHeldOK == \A u \in Users, t \in Timers : handle[u] = t => HeldOK(u, t)

FreeQuiet == \A t \in Timers : ~bInUse[t] => Quiet(t)

(* At most one stage of a chain.                                           *)
Single(t) ==
  /\ ~(pending[t] /\ firing[t]) /\ ~(pending[t] /\ queued[t])
  /\ ~(firing[t] /\ queued[t])
  /\ running[t] \in {"test", "call", "arm"} =>
       ~pending[t] /\ ~firing[t] /\ ~queued[t]
AllSingle == \A t \in Timers : Single(t)

IInv == TimerTypeOK /\ Owned /\ AllHeldOK /\ FreeQuiet /\ AllSingle

-----------------------------------------------------------------------------
(* A user and a slot that a step does not touch keep what holds of them.   *)
SameSlot(t) ==
  /\ bActive'[t] = bActive[t] /\ pvData'[t] = pvData[t]
  /\ pending'[t] = pending[t] /\ firing'[t] = firing[t]
  /\ queued'[t] = queued[t] /\ running'[t] = running[t]

LEMMA HeldFrame ==
  ASSUME NEW u \in Users, NEW t \in Timers, HeldOK(u, t), SameSlot(t),
         user_pc'[u] = user_pc[u], awaited'[u][t] = awaited[u][t]
  PROVE  HeldOK(u, t)'
BY DEF HeldOK, SameSlot, QuietHeld, Data, Active, Inactive, Alive, ArmerAwaited,
       NoArmer, Deleted, AllAwaited, Quiet, Works, Chained, Armer, Executions

LEMMA InitIInv == TimerInit => IInv
<1> SUFFICES ASSUME TimerInit PROVE IInv
  OBVIOUS
<1>1. TimerTypeOK
  BY DEF TimerInit, TimerTypeOK, Idle, Off, On, Enabling, Disabling
<1>2. Owned
  BY TimerAssumption DEF TimerInit, Owned, Idle, Timers
<1>3. AllHeldOK
  BY TimerAssumption DEF TimerInit, AllHeldOK, Timers
<1>4. FreeQuiet /\ AllSingle
  BY DEF TimerInit, FreeQuiet, AllSingle, Single, Quiet, Works
<1> QED
  BY <1>1, <1>2, <1>3, <1>4 DEF IInv

LEMMA TypeStep == TimerTypeOK /\ [TimerNext]_timerVars => TimerTypeOK'
<1> SUFFICES ASSUME TimerTypeOK, [TimerNext]_timerVars PROVE TimerTypeOK'
  OBVIOUS
<1> USE DEF TimerTypeOK, Idle, Off, On, Enabling, Disabling
<1>1. ASSUME NEW u \in Users, UserStep(u) PROVE TimerTypeOK'
  <2>1. CASE AddTimer(u)
    BY <2>1 DEF AddTimer, kernelVars
  <2>2. CASE SetUpTimer(u)
    BY <2>2 DEF SetUpTimer
  <2>3. CASE OSRemoveTimer(u)
    BY <2>3 DEF OSRemoveTimer, kernelVars
  <2>4. CASE EnableTimer(u)
    BY <2>4 DEF EnableTimer, kernelVars
  <2>5. CASE AddKernelTimer(u)
    BY <2>5 DEF AddKernelTimer, slotVars
  <2>6. CASE DisableTimer(u)
    BY <2>6 DEF DisableTimer, kernelVars
  <2>7. CASE FirstFlush(u)
    <3>1. CASE FlushStart(u, "flush1", "wait1")
      BY <3>1 DEF FlushStart, slotVars, kernelVars, Executions
    <3>2. CASE FlushReturns(u, "wait1", "delete")
      BY <3>2 DEF FlushReturns, slotVars, kernelVars
    <3> QED
      BY <2>7, <3>1, <3>2 DEF FirstFlush
  <2>8. CASE DeleteTimer(u)
    BY <2>8 DEF DeleteTimer, slotVars
  <2>9. CASE SecondFlush(u)
    BY <2>9 DEF SecondFlush, FlushStart, slotVars, kernelVars, Executions
  <2>10. CASE DisableReturns(u)
    BY <2>10 DEF DisableReturns, FlushReturns, slotVars, kernelVars
  <2> QED
    BY <1>1, <2>1, <2>2, <2>3, <2>4, <2>5, <2>6, <2>7, <2>8, <2>9, <2>10 DEF UserStep
<1>2. ASSUME NEW t \in Timers, TimerStep(t) PROVE TimerTypeOK'
  <2>1. CASE Expire(t)
    BY <2>1 DEF Expire, userVars, slotVars
  <2>2. CASE OSTimerCallbackWrapper(t)
    BY <2>2 DEF OSTimerCallbackWrapper, userVars, slotVars
  <2>3. CASE WorkStart(t)
    BY <2>3 DEF WorkStart, userVars, slotVars
  <2>4. CASE TestActive(t)
    BY <2>4 DEF TestActive, userVars, slotVars
  <2>5. CASE CallBack(t)
    BY <2>5 DEF CallBack, userVars, slotVars
  <2>6. CASE ArmAgain(t)
    BY <2>6 DEF ArmAgain, userVars, slotVars
  <2>7. CASE WorkEnds(t)
    BY <2>7 DEF WorkEnds, userVars, slotVars
  <2> QED
    BY <1>2, <2>1, <2>2, <2>3, <2>4, <2>5, <2>6, <2>7 DEF TimerStep, WorkStep
<1>3. CASE UNCHANGED timerVars
  BY <1>3 DEF timerVars
<1> QED
  BY <1>1, <1>2, <1>3 DEF TimerNext

-----------------------------------------------------------------------------
(* A user's step that keeps the table of slots only has to be checked for  *)
(* this user and the slot it holds.                                        *)
LEMMA UserFrame ==
  ASSUME IInv, TimerTypeOK', NEW u0 \in Users, NEW t0 \in Timers, handle[u0] = t0,
         handle' = handle, bInUse' = bInUse, user_pc'[u0] # Idle,
         \A u \in Users : u # u0 => user_pc'[u] = user_pc[u] /\ awaited'[u] = awaited[u],
         \A t \in Timers : t # t0 => SameSlot(t),
         HeldOK(u0, t0)', Single(t0)'
  PROVE  IInv'
<1>1. user_pc[u0] # Idle /\ bInUse[t0]
  BY TimerAssumption DEF IInv, Owned, Timers
<1>2. Owned'
  BY <1>1 DEF IInv, Owned
<1>3. AllHeldOK'
  <2> SUFFICES ASSUME NEW u \in Users, NEW t \in Timers, handle[u] = t, u # u0
               PROVE  HeldOK(u, t)'
    BY DEF AllHeldOK
  <2>1. t # t0 /\ HeldOK(u, t)
    BY TimerAssumption DEF IInv, Owned, AllHeldOK, Timers
  <2> QED
    BY <2>1, HeldFrame
<1>4. FreeQuiet'
  BY <1>1 DEF IInv, FreeQuiet, SameSlot, Quiet, Works
<1>5. AllSingle'
  BY DEF IInv, AllSingle, Single, SameSlot
<1> QED
  BY <1>2, <1>3, <1>4, <1>5 DEF IInv

(* A step of a timer or its work, which is in use, only has to be checked  *)
(* for this slot.                                                          *)
LEMMA TimerFrame ==
  ASSUME IInv, TimerTypeOK', NEW t0 \in Timers, ~Quiet(t0),
         UNCHANGED userVars, bInUse' = bInUse,
         \A t \in Timers : t # t0 =>
           SameSlot(t) /\ \A u \in Users : awaited'[u][t] = awaited[u][t],
         \A u \in Users : handle[u] = t0 => HeldOK(u, t0)',
         Single(t0)'
  PROVE  IInv'
<1>1. bInUse[t0]
  BY DEF IInv, FreeQuiet
<1>2. Owned'
  BY DEF IInv, Owned, userVars
<1>3. AllHeldOK'
  <2> SUFFICES ASSUME NEW u \in Users, NEW t \in Timers, handle[u] = t, t # t0
               PROVE  HeldOK(u, t)'
    BY DEF AllHeldOK, userVars
  <2>1. HeldOK(u, t) /\ user_pc'[u] = user_pc[u]
    BY DEF IInv, AllHeldOK, userVars
  <2> QED
    BY <2>1, HeldFrame
<1>4. FreeQuiet'
  BY <1>1 DEF FreeQuiet, IInv, SameSlot, Quiet, Works
<1>5. AllSingle'
  BY DEF IInv, AllSingle, Single, SameSlot
<1> QED
  BY <1>2, <1>3, <1>4, <1>5 DEF IInv

-----------------------------------------------------------------------------
(* OSAddTimer's slot is quiet because it was free.                         *)
LEMMA AddTimerStep ==
  ASSUME IInv, TimerTypeOK', NEW u0 \in Users, AddTimer(u0) PROVE IInv'
<1> PICK t0 \in Timers : /\ IsFirstFree(t0)
                         /\ bInUse' = [bInUse EXCEPT ![t0] = TRUE]
                         /\ handle' = [handle EXCEPT ![u0] = t0]
  BY DEF AddTimer
<1>1. ~bInUse[t0] /\ Quiet(t0) /\ user_pc[u0] = Idle /\ handle[u0] = None
  BY DEF IsFirstFree, IInv, FreeQuiet, AddTimer, Owned
<1>2. /\ user_pc' = [user_pc EXCEPT ![u0] = "setup"] /\ UNCHANGED awaited
      /\ \A t \in Timers : SameSlot(t)
  BY DEF AddTimer, kernelVars, SameSlot
<1>3. \A u \in Users : handle[u] # t0
  BY <1>1 DEF IInv, Owned
<1>4. t0 # None
  BY TimerAssumption DEF Timers
<1>5. Owned'
  <2>1. \A u \in Users : /\ handle'[u] = IF u = u0 THEN t0 ELSE handle[u]
                         /\ user_pc'[u] = IF u = u0 THEN "setup" ELSE user_pc[u]
    BY <1>2 DEF IInv, TimerTypeOK
  <2>2. \A t \in Timers : bInUse'[t] = IF t = t0 THEN TRUE ELSE bInUse[t]
    BY DEF IInv, TimerTypeOK
  <2>3. \A u \in Users : handle'[u] = None <=> user_pc'[u] = Idle
    BY <1>4, <2>1 DEF IInv, Owned, Idle
  <2>4. \A u, v \in Users : handle'[u] = handle'[v] /\ handle'[u] # None => u = v
    BY <1>3, <2>1 DEF IInv, Owned
  <2>5. ASSUME NEW t \in Timers PROVE bInUse'[t] <=> \E u \in Users : handle'[u] = t
    <3>1. CASE t = t0
      BY <2>1, <2>2, <3>1
    <3>2. CASE t # t0
      <4>1. \A u \in Users : handle'[u] = t <=> handle[u] = t
        BY <1>1, <1>4, <2>1, <3>2, TimerAssumption DEF Timers
      <4>2. bInUse[t] <=> \E u \in Users : handle[u] = t
        BY DEF IInv, Owned
      <4> QED
        BY <2>2, <3>2, <4>1, <4>2
    <3> QED
      BY <3>1, <3>2
  <2> QED
    BY <2>3, <2>4, <2>5 DEF Owned
<1>6. AllHeldOK'
  <2> SUFFICES ASSUME NEW u \in Users, NEW t \in Timers, handle'[u] = t
               PROVE  HeldOK(u, t)'
    BY DEF AllHeldOK
  <2>1. CASE u = u0
    <3>1. t = t0 /\ user_pc'[u] = "setup" /\ Quiet(t)'
      BY <1>1, <1>2, <2>1 DEF IInv, TimerTypeOK, SameSlot, Quiet, Works
    <3> QED
      BY <3>1 DEF HeldOK, QuietHeld, Data, Active, Inactive, Alive, ArmerAwaited,
        NoArmer, Deleted, AllAwaited, On, Off, Disabling
  <2>2. CASE u # u0
    <3>1. HeldOK(u, t) /\ user_pc'[u] = user_pc[u] /\ awaited'[u][t] = awaited[u][t]
      BY <1>2, <2>2 DEF IInv, AllHeldOK, TimerTypeOK
    <3> QED
      BY <1>2, <3>1, HeldFrame
  <2> QED
    BY <2>1, <2>2
<1>7. FreeQuiet' /\ AllSingle'
  <2>1. \A t \in Timers : bInUse'[t] \in BOOLEAN /\ (~bInUse'[t] => ~bInUse[t])
    BY DEF IInv, TimerTypeOK
  <2>2. \A t \in Timers : Single(t) /\ (~bInUse[t] => Quiet(t))
    BY DEF IInv, FreeQuiet, AllSingle
  <2>3. \A t \in Timers : (Quiet(t) => Quiet(t)') /\ (Single(t) => Single(t)')
    BY <1>2 DEF Quiet, Works, Single, SameSlot
  <2> QED
    BY <2>1, <2>2, <2>3 DEF FreeQuiet, AllSingle
<1> QED
  BY <1>5, <1>6, <1>7 DEF IInv

(* OSRemoveTimer frees a slot that is quiet.                               *)
LEMMA RemoveTimerStep ==
  ASSUME IInv, TimerTypeOK', NEW u0 \in Users, OSRemoveTimer(u0) PROVE IInv'
<1> DEFINE t0 == handle[u0]
<1>1. /\ user_pc[u0] = Off /\ t0 # None /\ t0 \in Timers
      /\ \A u \in Users : handle[u] = t0 => u = u0
  BY DEF OSRemoveTimer, IInv, Owned, TimerTypeOK, Off, Idle
<1>2. /\ user_pc' = [user_pc EXCEPT ![u0] = Idle] /\ UNCHANGED awaited
      /\ bInUse' = [bInUse EXCEPT ![t0] = FALSE]
      /\ handle' = [handle EXCEPT ![u0] = None]
      /\ \A t \in Timers : SameSlot(t)
  BY DEF OSRemoveTimer, kernelVars, SameSlot
<1>3. Quiet(t0)
  BY <1>1 DEF IInv, AllHeldOK, HeldOK, QuietHeld
<1> HIDE DEF t0
<1>4. Owned'
  <2>1. \A u \in Users : /\ handle'[u] = IF u = u0 THEN None ELSE handle[u]
                         /\ user_pc'[u] = IF u = u0 THEN Idle ELSE user_pc[u]
    BY <1>2 DEF IInv, TimerTypeOK
  <2>2. \A t \in Timers : bInUse'[t] = IF t = t0 THEN FALSE ELSE bInUse[t]
    BY <1>2 DEF IInv, TimerTypeOK
  <2>3. \A u \in Users : handle'[u] = None <=> user_pc'[u] = Idle
    BY <2>1 DEF IInv, Owned
  <2>4. \A u, v \in Users : handle'[u] = handle'[v] /\ handle'[u] # None => u = v
    BY <2>1 DEF IInv, Owned
  <2>5. ASSUME NEW t \in Timers PROVE bInUse'[t] <=> \E u \in Users : handle'[u] = t
    <3>1. t # None
      BY TimerAssumption DEF Timers
    <3>2. \A u \in Users : handle'[u] = t <=> handle[u] = t /\ t # t0
      BY <1>1, <2>1, <3>1 DEF t0
    <3>3. bInUse[t] <=> \E u \in Users : handle[u] = t
      BY DEF IInv, Owned
    <3> QED
      BY <2>2, <3>2, <3>3
  <2> QED
    BY <2>3, <2>4, <2>5 DEF Owned
<1>5. AllHeldOK'
  <2> SUFFICES ASSUME NEW u \in Users, NEW t \in Timers, handle'[u] = t
               PROVE  HeldOK(u, t)'
    BY DEF AllHeldOK
  <2>1. u # u0 /\ handle[u] = t
    BY <1>2, TimerAssumption DEF IInv, TimerTypeOK, Timers
  <2>2. HeldOK(u, t) /\ user_pc'[u] = user_pc[u] /\ awaited'[u][t] = awaited[u][t]
    BY <1>2, <2>1 DEF IInv, AllHeldOK, TimerTypeOK
  <2> QED
    BY <1>2, <2>2, HeldFrame
<1>6. FreeQuiet' /\ AllSingle'
  <2>1. \A t \in Timers : ~bInUse'[t] => ~bInUse[t] \/ t = t0
    BY <1>2 DEF IInv, TimerTypeOK
  <2>2. \A t \in Timers : Single(t) /\ (~bInUse[t] \/ t = t0 => Quiet(t))
    BY <1>3 DEF IInv, FreeQuiet, AllSingle
  <2>3. \A t \in Timers : (Quiet(t) => Quiet(t)') /\ (Single(t) => Single(t)')
    BY <1>2 DEF Quiet, Works, Single, SameSlot
  <2> QED
    BY <2>1, <2>2, <2>3 DEF FreeQuiet, AllSingle
<1> QED
  BY <1>4, <1>5, <1>6 DEF IInv

LEMMA Holder ==
  ASSUME IInv, NEW u \in Users, user_pc[u] # Idle
  PROVE  handle[u] \in Timers /\ HeldOK(u, handle[u]) /\ Single(handle[u])
BY DEF IInv, Owned, TimerTypeOK, AllHeldOK, AllSingle

(* The slot stays quiet; from here on the user is its data. *)
LEMMA SetUpTimerStep ==
  ASSUME IInv, TimerTypeOK', NEW u0 \in Users, SetUpTimer(u0) PROVE IInv'
<1>0. user_pc[u0] = "setup" /\ user_pc[u0] # Idle
  BY DEF SetUpTimer, Idle, Off, On
<1> PICK t0 \in Timers : t0 = handle[u0]
  BY <1>0, Holder
<1>1. user_pc[u0] = "setup" /\ HeldOK(u0, t0) /\ Single(t0)
  BY <1>0, Holder
<1>2. /\ handle' = handle /\ bInUse' = bInUse
      /\ \A u \in Users : u # u0 => user_pc'[u] = user_pc[u] /\ awaited'[u] = awaited[u]
      /\ \A t \in Timers : t # t0 => SameSlot(t)
  BY <1>1 DEF SetUpTimer, slotVars, kernelVars, SameSlot, IInv, TimerTypeOK
<1>3. /\ user_pc'[u0] = Off
      /\ bActive'[t0] = FALSE
      /\ pvData'[t0] = u0
      /\ pending'[t0] = FALSE
      /\ firing'[t0] = firing[t0]
      /\ queued'[t0] = queued[t0]
      /\ running'[t0] = running[t0]
      /\ awaited'[u0] = awaited[u0]
  BY <1>1 DEF SetUpTimer, slotVars, kernelVars, IInv, TimerTypeOK
<1>4. HeldOK(u0, t0)'
  BY <1>1, <1>2, <1>3 DEF HeldOK, QuietHeld, Data, Active, Inactive, Alive, ArmerAwaited,
    NoArmer, Deleted, AllAwaited, Quiet, Works, Chained, Armer, Executions,
    Idle, Off, On, Disabling
<1>5. Single(t0)'
  BY <1>1, <1>3 DEF Single, HeldOK, QuietHeld, Quiet, Works
<1>6. user_pc'[u0] # Idle
  BY <1>3 DEF Idle, Off, On
<1> QED
  BY <1>1, <1>2, <1>4, <1>5, <1>6, UserFrame

(* bActive goes up while the slot is quiet. *)
LEMMA EnableTimerStep ==
  ASSUME IInv, TimerTypeOK', NEW u0 \in Users, EnableTimer(u0) PROVE IInv'
<1>0. user_pc[u0] = Off /\ user_pc[u0] # Idle
  BY DEF EnableTimer, Idle, Off, On
<1> PICK t0 \in Timers : t0 = handle[u0]
  BY <1>0, Holder
<1>1. user_pc[u0] = Off /\ HeldOK(u0, t0) /\ Single(t0)
  BY <1>0, Holder
<1>2. /\ handle' = handle /\ bInUse' = bInUse
      /\ \A u \in Users : u # u0 => user_pc'[u] = user_pc[u] /\ awaited'[u] = awaited[u]
      /\ \A t \in Timers : t # t0 => SameSlot(t)
  BY <1>1 DEF EnableTimer, slotVars, kernelVars, SameSlot, IInv, TimerTypeOK
<1>3. /\ user_pc'[u0] = "arm"
      /\ bActive'[t0] = TRUE
      /\ pvData'[t0] = pvData[t0]
      /\ pending'[t0] = pending[t0]
      /\ firing'[t0] = firing[t0]
      /\ queued'[t0] = queued[t0]
      /\ running'[t0] = running[t0]
      /\ awaited'[u0] = awaited[u0]
  BY <1>1 DEF EnableTimer, slotVars, kernelVars, IInv, TimerTypeOK
<1>4. HeldOK(u0, t0)'
  BY <1>1, <1>2, <1>3 DEF HeldOK, QuietHeld, Data, Active, Inactive, Alive, ArmerAwaited,
    NoArmer, Deleted, AllAwaited, Quiet, Works, Chained, Armer, Executions,
    Idle, Off, On, Disabling
<1>5. Single(t0)'
  BY <1>1, <1>3 DEF Single, HeldOK, QuietHeld, Quiet, Works
<1>6. user_pc'[u0] # Idle
  BY <1>3 DEF Idle, Off, On
<1> QED
  BY <1>1, <1>2, <1>4, <1>5, <1>6, UserFrame

(* The quiet timer gets its one chain. *)
LEMMA AddKernelTimerStep ==
  ASSUME IInv, TimerTypeOK', NEW u0 \in Users, AddKernelTimer(u0) PROVE IInv'
<1>0. user_pc[u0] = "arm" /\ user_pc[u0] # Idle
  BY DEF AddKernelTimer, Idle, Off, On
<1> PICK t0 \in Timers : t0 = handle[u0]
  BY <1>0, Holder
<1>1. user_pc[u0] = "arm" /\ HeldOK(u0, t0) /\ Single(t0)
  BY <1>0, Holder
<1>2. /\ handle' = handle /\ bInUse' = bInUse
      /\ \A u \in Users : u # u0 => user_pc'[u] = user_pc[u] /\ awaited'[u] = awaited[u]
      /\ \A t \in Timers : t # t0 => SameSlot(t)
  BY <1>1 DEF AddKernelTimer, slotVars, kernelVars, SameSlot, IInv, TimerTypeOK
<1>3. /\ user_pc'[u0] = On
      /\ bActive'[t0] = bActive[t0]
      /\ pvData'[t0] = pvData[t0]
      /\ pending'[t0] = TRUE
      /\ firing'[t0] = firing[t0]
      /\ queued'[t0] = queued[t0]
      /\ running'[t0] = running[t0]
      /\ awaited'[u0] = awaited[u0]
  BY <1>1 DEF AddKernelTimer, slotVars, kernelVars, IInv, TimerTypeOK
<1>4. HeldOK(u0, t0)'
  BY <1>1, <1>2, <1>3 DEF HeldOK, QuietHeld, Data, Active, Inactive, Alive, ArmerAwaited,
    NoArmer, Deleted, AllAwaited, Quiet, Works, Chained, Armer, Executions,
    Idle, Off, On, Disabling
<1>5. Single(t0)'
  BY <1>1, <1>3 DEF Single, HeldOK, QuietHeld, Quiet, Works
<1>6. user_pc'[u0] # Idle
  BY <1>3 DEF Idle, Off, On
<1> QED
  BY <1>1, <1>2, <1>4, <1>5, <1>6, UserFrame

(* Nothing but bActive changes. *)
LEMMA DisableTimerStep ==
  ASSUME IInv, TimerTypeOK', NEW u0 \in Users, DisableTimer(u0) PROVE IInv'
<1>0. user_pc[u0] = On /\ user_pc[u0] # Idle
  BY DEF DisableTimer, Idle, Off, On
<1> PICK t0 \in Timers : t0 = handle[u0]
  BY <1>0, Holder
<1>1. user_pc[u0] = On /\ HeldOK(u0, t0) /\ Single(t0)
  BY <1>0, Holder
<1>2. /\ handle' = handle /\ bInUse' = bInUse
      /\ \A u \in Users : u # u0 => user_pc'[u] = user_pc[u] /\ awaited'[u] = awaited[u]
      /\ \A t \in Timers : t # t0 => SameSlot(t)
  BY <1>1 DEF DisableTimer, slotVars, kernelVars, SameSlot, IInv, TimerTypeOK
<1>3. /\ user_pc'[u0] = "flush1"
      /\ bActive'[t0] = FALSE
      /\ pvData'[t0] = pvData[t0]
      /\ pending'[t0] = pending[t0]
      /\ firing'[t0] = firing[t0]
      /\ queued'[t0] = queued[t0]
      /\ running'[t0] = running[t0]
      /\ awaited'[u0] = awaited[u0]
  BY <1>1 DEF DisableTimer, slotVars, kernelVars, IInv, TimerTypeOK
<1>4. HeldOK(u0, t0)'
  BY <1>1, <1>2, <1>3 DEF HeldOK, QuietHeld, Data, Active, Inactive, Alive, ArmerAwaited,
    NoArmer, Deleted, AllAwaited, Quiet, Works, Chained, Armer, Executions,
    Idle, Off, On, Disabling
<1>5. Single(t0)'
  BY <1>1, <1>3 DEF Single, HeldOK, QuietHeld, Quiet, Works
<1>6. user_pc'[u0] # Idle
  BY <1>3 DEF Idle, Off, On
<1> QED
  BY <1>1, <1>2, <1>4, <1>5, <1>6, UserFrame

(* An execution that will arm the timer is awaited. *)
LEMMA FirstFlushStartStep ==
  ASSUME IInv, TimerTypeOK', NEW u0 \in Users, FlushStart(u0, "flush1", "wait1") PROVE IInv'
<1>0. user_pc[u0] = "flush1" /\ user_pc[u0] # Idle
  BY DEF FlushStart, Idle, Off, On
<1> PICK t0 \in Timers : t0 = handle[u0]
  BY <1>0, Holder
<1>1. user_pc[u0] = "flush1" /\ HeldOK(u0, t0) /\ Single(t0)
  BY <1>0, Holder
<1>2. /\ handle' = handle /\ bInUse' = bInUse
      /\ \A u \in Users : u # u0 => user_pc'[u] = user_pc[u] /\ awaited'[u] = awaited[u]
      /\ \A t \in Timers : t # t0 => SameSlot(t)
  BY <1>1 DEF FlushStart, slotVars, kernelVars, SameSlot, IInv, TimerTypeOK
<1>3. /\ user_pc'[u0] = "wait1"
      /\ bActive'[t0] = bActive[t0]
      /\ pvData'[t0] = pvData[t0]
      /\ pending'[t0] = pending[t0]
      /\ firing'[t0] = firing[t0]
      /\ queued'[t0] = queued[t0]
      /\ running'[t0] = running[t0]
      /\ awaited'[u0] = [t \in Timers |-> Executions(t)]
  BY <1>1 DEF FlushStart, slotVars, kernelVars, IInv, TimerTypeOK
<1>4. HeldOK(u0, t0)'
  BY <1>1, <1>2, <1>3 DEF HeldOK, QuietHeld, Data, Active, Inactive, Alive, ArmerAwaited,
    NoArmer, Deleted, AllAwaited, Quiet, Works, Chained, Armer, Executions,
    Idle, Off, On, Disabling
<1>5. Single(t0)'
  BY <1>1, <1>3 DEF Single, HeldOK, QuietHeld, Quiet, Works
<1>6. user_pc'[u0] # Idle
  BY <1>3 DEF Idle, Off, On
<1> QED
  BY <1>1, <1>2, <1>4, <1>5, <1>6, UserFrame

(* No execution is left that would arm the timer. *)
LEMMA FirstFlushEndStep ==
  ASSUME IInv, TimerTypeOK', NEW u0 \in Users, FlushReturns(u0, "wait1", "delete") PROVE IInv'
<1>0. user_pc[u0] = "wait1" /\ user_pc[u0] # Idle
  BY DEF FlushReturns, Flushed, Idle, Off, On
<1> PICK t0 \in Timers : t0 = handle[u0]
  BY <1>0, Holder
<1>1. user_pc[u0] = "wait1" /\ HeldOK(u0, t0) /\ Single(t0)
  BY <1>0, Holder
<1>2. /\ handle' = handle /\ bInUse' = bInUse
      /\ \A u \in Users : u # u0 => user_pc'[u] = user_pc[u] /\ awaited'[u] = awaited[u]
      /\ \A t \in Timers : t # t0 => SameSlot(t)
  BY <1>1 DEF FlushReturns, Flushed, slotVars, kernelVars, SameSlot, IInv, TimerTypeOK
<1>3. /\ user_pc'[u0] = "delete"
      /\ bActive'[t0] = bActive[t0]
      /\ pvData'[t0] = pvData[t0]
      /\ pending'[t0] = pending[t0]
      /\ firing'[t0] = firing[t0]
      /\ queued'[t0] = queued[t0]
      /\ running'[t0] = running[t0]
      /\ awaited'[u0] = awaited[u0]
      /\ awaited[u0][t0] = 0
  BY <1>1 DEF FlushReturns, Flushed, slotVars, kernelVars, IInv, TimerTypeOK
<1>4. HeldOK(u0, t0)'
  BY <1>1, <1>2, <1>3 DEF HeldOK, QuietHeld, Data, Active, Inactive, Alive, ArmerAwaited,
    NoArmer, Deleted, AllAwaited, Quiet, Works, Chained, Armer, Executions,
    Idle, Off, On, Disabling
<1>5. Single(t0)'
  BY <1>1, <1>3 DEF Single, HeldOK, QuietHeld, Quiet, Works
<1>6. user_pc'[u0] # Idle
  BY <1>3 DEF Idle, Off, On
<1> QED
  BY <1>1, <1>2, <1>4, <1>5, <1>6, UserFrame

(* The timer is neither pending nor in its function. *)
LEMMA DeleteTimerStep ==
  ASSUME IInv, TimerTypeOK', NEW u0 \in Users, DeleteTimer(u0) PROVE IInv'
<1>0. user_pc[u0] = "delete" /\ user_pc[u0] # Idle
  BY DEF DeleteTimer, Idle, Off, On
<1> PICK t0 \in Timers : t0 = handle[u0]
  BY <1>0, Holder
<1>1. user_pc[u0] = "delete" /\ HeldOK(u0, t0) /\ Single(t0)
  BY <1>0, Holder
<1>2. /\ handle' = handle /\ bInUse' = bInUse
      /\ \A u \in Users : u # u0 => user_pc'[u] = user_pc[u] /\ awaited'[u] = awaited[u]
      /\ \A t \in Timers : t # t0 => SameSlot(t)
  BY <1>1 DEF DeleteTimer, slotVars, kernelVars, SameSlot, IInv, TimerTypeOK
<1>3. /\ user_pc'[u0] = "flush2"
      /\ bActive'[t0] = bActive[t0]
      /\ pvData'[t0] = pvData[t0]
      /\ pending'[t0] = FALSE
      /\ firing'[t0] = firing[t0]
      /\ queued'[t0] = queued[t0]
      /\ running'[t0] = running[t0]
      /\ awaited'[u0] = awaited[u0]
      /\ ~firing[t0]
  BY <1>1 DEF DeleteTimer, slotVars, kernelVars, IInv, TimerTypeOK
<1>4. HeldOK(u0, t0)'
  BY <1>1, <1>2, <1>3 DEF HeldOK, QuietHeld, Data, Active, Inactive, Alive, ArmerAwaited,
    NoArmer, Deleted, AllAwaited, Quiet, Works, Chained, Armer, Executions,
    Idle, Off, On, Disabling
<1>5. Single(t0)'
  BY <1>1, <1>3 DEF Single, HeldOK, QuietHeld, Quiet, Works
<1>6. user_pc'[u0] # Idle
  BY <1>3 DEF Idle, Off, On
<1> QED
  BY <1>1, <1>2, <1>4, <1>5, <1>6, UserFrame

(* All executions are awaited. *)
LEMMA SecondFlushStep ==
  ASSUME IInv, TimerTypeOK', NEW u0 \in Users, SecondFlush(u0) PROVE IInv'
<1>0. user_pc[u0] = "flush2" /\ user_pc[u0] # Idle
  BY DEF SecondFlush, FlushStart, Idle, Off, On
<1> PICK t0 \in Timers : t0 = handle[u0]
  BY <1>0, Holder
<1>1. user_pc[u0] = "flush2" /\ HeldOK(u0, t0) /\ Single(t0)
  BY <1>0, Holder
<1>2. /\ handle' = handle /\ bInUse' = bInUse
      /\ \A u \in Users : u # u0 => user_pc'[u] = user_pc[u] /\ awaited'[u] = awaited[u]
      /\ \A t \in Timers : t # t0 => SameSlot(t)
  BY <1>1 DEF SecondFlush, FlushStart, slotVars, kernelVars, SameSlot, IInv, TimerTypeOK
<1>3. /\ user_pc'[u0] = "wait2"
      /\ bActive'[t0] = bActive[t0]
      /\ pvData'[t0] = pvData[t0]
      /\ pending'[t0] = pending[t0]
      /\ firing'[t0] = firing[t0]
      /\ queued'[t0] = queued[t0]
      /\ running'[t0] = running[t0]
      /\ awaited'[u0] = [t \in Timers |-> Executions(t)]
  BY <1>1 DEF SecondFlush, FlushStart, slotVars, kernelVars, IInv, TimerTypeOK
<1>4. HeldOK(u0, t0)'
  BY <1>1, <1>2, <1>3 DEF HeldOK, QuietHeld, Data, Active, Inactive, Alive, ArmerAwaited,
    NoArmer, Deleted, AllAwaited, Quiet, Works, Chained, Armer, Executions,
    Idle, Off, On, Disabling
<1>5. Single(t0)'
  BY <1>1, <1>3 DEF Single, HeldOK, QuietHeld, Quiet, Works
<1>6. user_pc'[u0] # Idle
  BY <1>3 DEF Idle, Off, On
<1> QED
  BY <1>1, <1>2, <1>4, <1>5, <1>6, UserFrame

(* All executions were awaited, and none is left. *)
LEMMA DisableReturnsStep ==
  ASSUME IInv, TimerTypeOK', NEW u0 \in Users, DisableReturns(u0) PROVE IInv'
<1>0. user_pc[u0] = "wait2" /\ user_pc[u0] # Idle
  BY DEF DisableReturns, FlushReturns, Flushed, Idle, Off, On
<1> PICK t0 \in Timers : t0 = handle[u0]
  BY <1>0, Holder
<1>1. user_pc[u0] = "wait2" /\ HeldOK(u0, t0) /\ Single(t0)
  BY <1>0, Holder
<1>2. /\ handle' = handle /\ bInUse' = bInUse
      /\ \A u \in Users : u # u0 => user_pc'[u] = user_pc[u] /\ awaited'[u] = awaited[u]
      /\ \A t \in Timers : t # t0 => SameSlot(t)
  BY <1>1 DEF DisableReturns, FlushReturns, Flushed, slotVars, kernelVars, SameSlot, IInv, TimerTypeOK
<1>3. /\ user_pc'[u0] = Off
      /\ bActive'[t0] = bActive[t0]
      /\ pvData'[t0] = pvData[t0]
      /\ pending'[t0] = pending[t0]
      /\ firing'[t0] = firing[t0]
      /\ queued'[t0] = queued[t0]
      /\ running'[t0] = running[t0]
      /\ awaited'[u0] = awaited[u0]
      /\ awaited[u0][t0] = 0
      /\ queued[t0] \in BOOLEAN
  BY <1>1 DEF DisableReturns, FlushReturns, Flushed, slotVars, kernelVars, IInv, TimerTypeOK
<1>4. HeldOK(u0, t0)'
  BY <1>1, <1>2, <1>3 DEF HeldOK, QuietHeld, Data, Active, Inactive, Alive, ArmerAwaited,
    NoArmer, Deleted, AllAwaited, Quiet, Works, Chained, Armer, Executions,
    Idle, Off, On, Disabling
<1>5. Single(t0)'
  BY <1>1, <1>3 DEF Single, HeldOK, QuietHeld, Quiet, Works
<1>6. user_pc'[u0] # Idle
  BY <1>3 DEF Idle, Off, On
<1> QED
  BY <1>1, <1>2, <1>4, <1>5, <1>6, UserFrame

-----------------------------------------------------------------------------

(* The chain goes from the timer to the soft interrupt, *)
LEMMA ExpireStep ==
  ASSUME IInv, TimerTypeOK', NEW t0 \in Timers, Expire(t0) PROVE IInv'
<1>1. pending[t0] /\ ~Quiet(t0) /\ Single(t0)
  BY DEF Expire, IInv, AllSingle, Quiet, Works
<1>2. /\ UNCHANGED userVars /\ bInUse' = bInUse
      /\ \A t \in Timers : t # t0 =>
           SameSlot(t) /\ \A u \in Users : awaited'[u][t] = awaited[u][t]
  BY DEF Expire, slotVars, SameSlot, IInv, TimerTypeOK
<1>3. /\ bActive'[t0] = bActive[t0] /\ pvData'[t0] = pvData[t0]
      /\ pending'[t0] = FALSE
      /\ firing'[t0] = TRUE
      /\ queued'[t0] = queued[t0]
      /\ running'[t0] = running[t0]
      /\ \A u \in Users : awaited'[u][t0] = awaited[u][t0]
  BY DEF Expire, slotVars, IInv, TimerTypeOK
<1>4. ASSUME NEW u \in Users, handle[u] = t0 PROVE HeldOK(u, t0)'
  <2>1. HeldOK(u, t0) /\ user_pc'[u] = user_pc[u] /\ awaited[u][t0] \in 0 .. 2
    BY <1>2, <1>4 DEF IInv, AllHeldOK, userVars, TimerTypeOK
  <2> QED
    BY <1>1, <1>3, <2>1 DEF HeldOK, QuietHeld, Data, Active, Inactive, Alive, ArmerAwaited,
      NoArmer, Deleted, AllAwaited, Quiet, Works, Chained, Armer, Executions,
      Idle, Off, On, Disabling
<1>5. Single(t0)'
  BY <1>1, <1>3 DEF Single
<1> QED
  BY <1>1, <1>2, <1>4, <1>5, TimerFrame

(* to the queue, *)
LEMMA WrapperStep ==
  ASSUME IInv, TimerTypeOK', NEW t0 \in Timers, OSTimerCallbackWrapper(t0) PROVE IInv'
<1>1. firing[t0] /\ ~Quiet(t0) /\ Single(t0)
  BY DEF OSTimerCallbackWrapper, IInv, AllSingle, Quiet, Works
<1>2. /\ UNCHANGED userVars /\ bInUse' = bInUse
      /\ \A t \in Timers : t # t0 =>
           SameSlot(t) /\ \A u \in Users : awaited'[u][t] = awaited[u][t]
  BY DEF OSTimerCallbackWrapper, slotVars, SameSlot, IInv, TimerTypeOK
<1>3. /\ bActive'[t0] = bActive[t0] /\ pvData'[t0] = pvData[t0]
      /\ pending'[t0] = pending[t0]
      /\ firing'[t0] = FALSE
      /\ queued'[t0] = TRUE
      /\ running'[t0] = running[t0]
      /\ \A u \in Users : awaited'[u][t0] = awaited[u][t0]
  BY DEF OSTimerCallbackWrapper, slotVars, IInv, TimerTypeOK
<1>4. ASSUME NEW u \in Users, handle[u] = t0 PROVE HeldOK(u, t0)'
  <2>1. HeldOK(u, t0) /\ user_pc'[u] = user_pc[u] /\ awaited[u][t0] \in 0 .. 2
    BY <1>2, <1>4 DEF IInv, AllHeldOK, userVars, TimerTypeOK
  <2> QED
    BY <1>1, <1>3, <2>1 DEF HeldOK, QuietHeld, Data, Active, Inactive, Alive, ArmerAwaited,
      NoArmer, Deleted, AllAwaited, Quiet, Works, Chained, Armer, Executions,
      Idle, Off, On, Disabling
<1>5. Single(t0)'
  BY <1>1, <1>3 DEF Single
<1> QED
  BY <1>1, <1>2, <1>4, <1>5, TimerFrame

(* and to the work, with the same number of executions. *)
LEMMA WorkStartStep ==
  ASSUME IInv, TimerTypeOK', NEW t0 \in Timers, WorkStart(t0) PROVE IInv'
<1>1. queued[t0] /\ running[t0] = "no" /\ ~Quiet(t0) /\ Single(t0)
  BY DEF WorkStart, IInv, AllSingle, Quiet, Works
<1>2. /\ UNCHANGED userVars /\ bInUse' = bInUse
      /\ \A t \in Timers : t # t0 =>
           SameSlot(t) /\ \A u \in Users : awaited'[u][t] = awaited[u][t]
  BY DEF WorkStart, slotVars, SameSlot, IInv, TimerTypeOK
<1>3. /\ bActive'[t0] = bActive[t0] /\ pvData'[t0] = pvData[t0]
      /\ pending'[t0] = pending[t0]
      /\ firing'[t0] = firing[t0]
      /\ queued'[t0] = FALSE
      /\ running'[t0] = "test"
      /\ \A u \in Users : awaited'[u][t0] = awaited[u][t0]
  BY DEF WorkStart, slotVars, IInv, TimerTypeOK
<1>4. ASSUME NEW u \in Users, handle[u] = t0 PROVE HeldOK(u, t0)'
  <2>1. HeldOK(u, t0) /\ user_pc'[u] = user_pc[u] /\ awaited[u][t0] \in 0 .. 2
    BY <1>2, <1>4 DEF IInv, AllHeldOK, userVars, TimerTypeOK
  <2> QED
    BY <1>1, <1>3, <2>1 DEF HeldOK, QuietHeld, Data, Active, Inactive, Alive, ArmerAwaited,
      NoArmer, Deleted, AllAwaited, Quiet, Works, Chained, Armer, Executions,
      Idle, Off, On, Disabling
<1>5. Single(t0)'
  BY <1>1, <1>3 DEF Single
<1> QED
  BY <1>1, <1>2, <1>4, <1>5, TimerFrame

(* While a user disables, bActive is down and the chain ends here. *)
LEMMA TestActiveStep ==
  ASSUME IInv, TimerTypeOK', NEW t0 \in Timers, TestActive(t0) PROVE IInv'
<1>1. running[t0] = "test" /\ ~Quiet(t0) /\ Single(t0)
  BY DEF TestActive, IInv, AllSingle, Quiet, Works
<1>2. /\ UNCHANGED userVars /\ bInUse' = bInUse
      /\ \A t \in Timers : t # t0 =>
           SameSlot(t) /\ \A u \in Users : awaited'[u][t] = awaited[u][t]
  BY DEF TestActive, slotVars, SameSlot, IInv, TimerTypeOK
<1>3. /\ bActive'[t0] = bActive[t0] /\ pvData'[t0] = pvData[t0]
      /\ pending'[t0] = pending[t0]
      /\ firing'[t0] = firing[t0]
      /\ queued'[t0] = queued[t0]
      /\ running'[t0] = (IF bActive[t0] THEN "call" ELSE "out")
      /\ \A u \in Users : awaited'[u][t0] = awaited[u][t0]
  BY DEF TestActive, slotVars, IInv, TimerTypeOK
<1>4. ASSUME NEW u \in Users, handle[u] = t0 PROVE HeldOK(u, t0)'
  <2>1. HeldOK(u, t0) /\ user_pc'[u] = user_pc[u] /\ awaited[u][t0] \in 0 .. 2
    BY <1>2, <1>4 DEF IInv, AllHeldOK, userVars, TimerTypeOK
  <2> QED
    BY <1>1, <1>3, <2>1 DEF HeldOK, QuietHeld, Data, Active, Inactive, Alive, ArmerAwaited,
      NoArmer, Deleted, AllAwaited, Quiet, Works, Chained, Armer, Executions,
      Idle, Off, On, Disabling
<1>5. Single(t0)'
  BY <1>1, <1>3 DEF Single
<1> QED
  BY <1>1, <1>2, <1>4, <1>5, TimerFrame

(* The callback itself changes nothing here. *)
LEMMA CallBackStep ==
  ASSUME IInv, TimerTypeOK', NEW t0 \in Timers, CallBack(t0) PROVE IInv'
<1>1. running[t0] = "call" /\ ~Quiet(t0) /\ Single(t0)
  BY DEF CallBack, IInv, AllSingle, Quiet, Works
<1>2. /\ UNCHANGED userVars /\ bInUse' = bInUse
      /\ \A t \in Timers : t # t0 =>
           SameSlot(t) /\ \A u \in Users : awaited'[u][t] = awaited[u][t]
  BY DEF CallBack, slotVars, SameSlot, IInv, TimerTypeOK
<1>3. /\ bActive'[t0] = bActive[t0] /\ pvData'[t0] = pvData[t0]
      /\ pending'[t0] = pending[t0]
      /\ firing'[t0] = firing[t0]
      /\ queued'[t0] = queued[t0]
      /\ running'[t0] = "arm"
      /\ \A u \in Users : awaited'[u][t0] = awaited[u][t0]
  BY DEF CallBack, slotVars, IInv, TimerTypeOK
<1>4. ASSUME NEW u \in Users, handle[u] = t0 PROVE HeldOK(u, t0)'
  <2>1. HeldOK(u, t0) /\ user_pc'[u] = user_pc[u] /\ awaited[u][t0] \in 0 .. 2
    BY <1>2, <1>4 DEF IInv, AllHeldOK, userVars, TimerTypeOK
  <2> QED
    BY <1>1, <1>3, <2>1 DEF HeldOK, QuietHeld, Data, Active, Inactive, Alive, ArmerAwaited,
      NoArmer, Deleted, AllAwaited, Quiet, Works, Chained, Armer, Executions,
      Idle, Off, On, Disabling
<1>5. Single(t0)'
  BY <1>1, <1>3 DEF Single
<1> QED
  BY <1>1, <1>2, <1>4, <1>5, TimerFrame

(* The chain goes back to the timer; its execution was awaited. *)
LEMMA ArmAgainStep ==
  ASSUME IInv, TimerTypeOK', NEW t0 \in Timers, ArmAgain(t0) PROVE IInv'
<1>1. running[t0] = "arm" /\ ~Quiet(t0) /\ Single(t0)
  BY DEF ArmAgain, IInv, AllSingle, Quiet, Works
<1>2. /\ UNCHANGED userVars /\ bInUse' = bInUse
      /\ \A t \in Timers : t # t0 =>
           SameSlot(t) /\ \A u \in Users : awaited'[u][t] = awaited[u][t]
  BY DEF ArmAgain, slotVars, SameSlot, IInv, TimerTypeOK
<1>3. /\ bActive'[t0] = bActive[t0] /\ pvData'[t0] = pvData[t0]
      /\ pending'[t0] = TRUE
      /\ firing'[t0] = firing[t0]
      /\ queued'[t0] = queued[t0]
      /\ running'[t0] = "out"
      /\ \A u \in Users : awaited'[u][t0] = awaited[u][t0]
  BY DEF ArmAgain, slotVars, IInv, TimerTypeOK
<1>4. ASSUME NEW u \in Users, handle[u] = t0 PROVE HeldOK(u, t0)'
  <2>1. HeldOK(u, t0) /\ user_pc'[u] = user_pc[u] /\ awaited[u][t0] \in 0 .. 2
    BY <1>2, <1>4 DEF IInv, AllHeldOK, userVars, TimerTypeOK
  <2> QED
    BY <1>1, <1>3, <2>1 DEF HeldOK, QuietHeld, Data, Active, Inactive, Alive, ArmerAwaited,
      NoArmer, Deleted, AllAwaited, Quiet, Works, Chained, Armer, Executions,
      Idle, Off, On, Disabling
<1>5. Single(t0)'
  BY <1>1, <1>3 DEF Single
<1> QED
  BY <1>1, <1>2, <1>4, <1>5, TimerFrame

(* One execution less, and one less to await. *)
LEMMA WorkEndsStep ==
  ASSUME IInv, TimerTypeOK', NEW t0 \in Timers, WorkEnds(t0) PROVE IInv'
<1>1. running[t0] = "out" /\ ~Quiet(t0) /\ Single(t0)
  BY DEF WorkEnds, IInv, AllSingle, Quiet, Works
<1>2. /\ UNCHANGED userVars /\ bInUse' = bInUse
      /\ \A t \in Timers : t # t0 =>
           SameSlot(t) /\ \A u \in Users : awaited'[u][t] = awaited[u][t]
  BY DEF WorkEnds, slotVars, SameSlot, IInv, TimerTypeOK
<1>3. /\ bActive'[t0] = bActive[t0] /\ pvData'[t0] = pvData[t0]
      /\ pending'[t0] = pending[t0]
      /\ firing'[t0] = firing[t0]
      /\ queued'[t0] = queued[t0]
      /\ running'[t0] = "no"
      /\ \A u \in Users : awaited'[u][t0] = IF awaited[u][t0] = 0 THEN 0 ELSE awaited[u][t0] - 1
  BY DEF WorkEnds, slotVars, IInv, TimerTypeOK
<1>4. ASSUME NEW u \in Users, handle[u] = t0 PROVE HeldOK(u, t0)'
  <2>1. HeldOK(u, t0) /\ user_pc'[u] = user_pc[u] /\ awaited[u][t0] \in 0 .. 2
    BY <1>2, <1>4 DEF IInv, AllHeldOK, userVars, TimerTypeOK
  <2> QED
    BY <1>1, <1>3, <2>1 DEF HeldOK, QuietHeld, Data, Active, Inactive, Alive, ArmerAwaited,
      NoArmer, Deleted, AllAwaited, Quiet, Works, Chained, Armer, Executions,
      Idle, Off, On, Disabling
<1>5. Single(t0)'
  BY <1>1, <1>3 DEF Single
<1> QED
  BY <1>1, <1>2, <1>4, <1>5, TimerFrame

-----------------------------------------------------------------------------
LEMMA IInvStep == IInv /\ [TimerNext]_timerVars => IInv'
<1> SUFFICES ASSUME IInv, [TimerNext]_timerVars PROVE IInv'
  OBVIOUS
<1>1. TimerTypeOK'
  BY TypeStep DEF IInv
<1>2. ASSUME NEW u \in Users, UserStep(u) PROVE IInv'
  <2>1. CASE FirstFlush(u)
    BY <1>1, <2>1, FirstFlushStartStep, FirstFlushEndStep DEF FirstFlush
  <2> QED
    BY <1>1, <1>2, <2>1, AddTimerStep, SetUpTimerStep, RemoveTimerStep,
      EnableTimerStep, AddKernelTimerStep, DisableTimerStep, DeleteTimerStep,
      SecondFlushStep, DisableReturnsStep DEF UserStep
<1>3. ASSUME NEW t \in Timers, TimerStep(t) PROVE IInv'
  BY <1>1, <1>3, ExpireStep, WrapperStep, WorkStartStep, TestActiveStep,
    CallBackStep, ArmAgainStep, WorkEndsStep DEF TimerStep, WorkStep
<1>4. CASE UNCHANGED timerVars
  BY <1>4 DEF timerVars, IInv, TimerTypeOK, Owned, AllHeldOK, HeldOK, QuietHeld, Data,
    Active, Inactive, Alive, ArmerAwaited, NoArmer, Deleted, AllAwaited, Quiet,
    Works, Chained, Armer, Executions, FreeQuiet, AllSingle, Single
<1> QED
  BY <1>2, <1>3, <1>4 DEF TimerNext

LEMMA Invariant == TimerSpec => []IInv
BY InitIInv, IInvStep, PTL DEF TimerSpec

(* In every reachable state of any number of timers and users the          *)
(* variables have their types.                                             *)
THEOREM TimerTypes == TimerSpec => []TimerTypeOK
<1>1. IInv => TimerTypeOK
  BY DEF IInv
<1> QED
  BY <1>1, Invariant, PTL

(* OSDisableTimer and the reuse of slots: a timer that is not enabled is   *)
(* quiet, and callbacks run only for a user who enabled the timer.         *)
THEOREM DisabledIsQuiet == TimerSpec => []QuietAfterDisable
<1>1. IInv => QuietAfterDisable
  <2> SUFFICES ASSUME IInv PROVE QuietAfterDisable
    OBVIOUS
  <2>1. \A t \in Timers : ~bInUse[t] => Quiet(t)
    BY DEF IInv, FreeQuiet
  <2>2. ASSUME NEW u \in Users, user_pc[u] \in {"setup", Off, "arm"}
        PROVE  Quiet(handle[u])
    BY <2>2, Holder DEF HeldOK, QuietHeld, Idle, Off
  <2>3. ASSUME NEW t \in Timers, running[t] = "call"
        PROVE  /\ handle[CalledFor(t)] = t
               /\ user_pc[CalledFor(t)] \in {On} \cup Disabling
    <3>1. PICK u \in Users : handle[u] = t
      BY <2>1, <2>3 DEF Quiet, Works, IInv, Owned
    <3>2. t # None
      BY TimerAssumption DEF Timers
    <3>3. HeldOK(u, t) /\ user_pc[u] # Idle
      BY <3>1, <3>2 DEF IInv, Owned, AllHeldOK
    <3>4. user_pc[u] \notin {"setup", Off, "arm"}
      BY <2>2, <2>3, <3>1 DEF Quiet, Works
    <3>5. user_pc[u] \in {On} \cup Disabling
      BY <3>3, <3>4 DEF IInv, TimerTypeOK, Enabling
    <3> QED
      BY <3>1, <3>3, <3>4, <3>5 DEF HeldOK, Data, CalledFor
  <2> QED
    BY <2>1, <2>2, <2>3 DEF QuietAfterDisable
<1> QED
  BY <1>1, Invariant, PTL

(* OSTimerCallbackWrapper and OSTimerCallbackBody: the chain of expiry,    *)
(* work and re-arming is never doubled, and never lost while enabled.      *)
THEOREM ChainIsOne == TimerSpec => []OneChain
<1>1. IInv => OneChain
  <2> SUFFICES ASSUME IInv PROVE OneChain
    OBVIOUS
  <2>1. ASSUME NEW t \in Timers PROVE Cardinality(Stages(t)) \leq 1
    <3>1. Single(t)
      BY DEF IInv, AllSingle
    <3>2. \A a, b \in Stages(t) : a = b
      <4> SUFFICES ASSUME NEW a \in Stages(t), NEW b \in Stages(t) PROVE a = b
        OBVIOUS
      <4>1. \A s \in Stages(t) :
              \/ s = "pending" /\ pending[t]
              \/ s = "firing" /\ firing[t]
              \/ s = "queued" /\ queued[t]
              \/ s = "running" /\ running[t] \in {"test", "call", "arm"}
        BY DEF Stages
      <4> QED
        BY <3>1, <4>1 DEF Single
    <3>3. CASE Stages(t) = {}
      <4>1. Cardinality({}) = 0
        BY FS_EmptySet
      <4> QED
        BY <3>3, <4>1
    <3>4. CASE Stages(t) # {}
      <4>1. PICK a \in Stages(t) : TRUE
        BY <3>4
      <4>2. Stages(t) = {a}
        BY <3>2, <4>1
      <4>3. Cardinality({a}) = 1
        BY FS_Singleton
      <4> QED
        BY <4>2, <4>3
    <3> QED
      BY <3>3, <3>4
  <2>2. ASSUME NEW u \in Users, user_pc[u] = On PROVE Stages(handle[u]) # {}
    <3>1. Chained(handle[u])
      BY <2>2, Holder DEF HeldOK, Alive, On, Idle
    <3> QED
      BY <3>1 DEF Chained, Stages
  <2> QED
    BY <2>1, <2>2 DEF OneChain
<1> QED
  BY <1>1, Invariant, PTL
=============================================================================
