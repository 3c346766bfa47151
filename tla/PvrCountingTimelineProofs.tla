---------------------- MODULE PvrCountingTimelineProofs ---------------------
(***************************************************************************)
(* Proofs about PvrCountingTimeline, for any threads, fences and number of *)
(* handles: what waiters are promised is kept, and nothing is used after   *)
(* it is gone.                                                             *)
(*                                                                         *)
(* The argument is a chain of counts.  The file is open as long as a call  *)
(* holds it, the timeline lives as long as file or handles do, a fence as  *)
(* long as its creator, the list or a user has it, and the context as long *)
(* as the timeline or a fence.  So whoever defines a point does it before  *)
(* force_complete, and the values of the fences are those of SwTimeline.   *)
(***************************************************************************)
EXTENDS PvrCountingTimeline, FiniteSetTheorems, TLAPS

One(b) == IF b THEN 1 ELSE 0

(* The file: the descriptor and the calls in progress hold it.             *)
Holders == {t \in Threads : has_file[t]}
Files ==
  /\ IsFiniteSet(Holders)
  /\ file_refs = Cardinality(Holders) + One(fd_open)
  /\ closing = "no" <=> file_refs > 0
  /\ \A t \in Threads : /\ pc[t] = "idle" => ~has_file[t]
                        /\ pc[t] \notin {"idle", "sync_file"} => has_file[t]

(* The timeline: the file until it is closed, and the handles hold it.     *)
Lives ==
  /\ kref = handles + One(closing # "done")
  /\ destroying = "no" <=> kref > 0
  /\ registered <=> destroying \in {"no", "unregister"}
  /\ dumping => registered

(* A fence: its creator holds it, with the list's reference as well before *)
(* it is on the list, then the list and a user.                            *)
Created(f) == \E t \in Threads : fence_of[t] = f
Pending(f) == \E t \in Threads : fence_of[t] = f /\ pc[t] = "point"
RefsOf(f) ==
  One(Created(f)) + One(Pending(f)) + One(f \in active_fences) + users[f]

Creators ==
  /\ \A t \in Threads : fence_of[t] # NoFence <=> pc[t] \in {"point", "sync_file"}
  /\ \A t, u \in Threads : fence_of[t] = fence_of[u] /\ fence_of[t] # NoFence => t = u

Held(f) ==
  /\ refcount[f] = RefsOf(f)
  /\ refcount[f] > 0 => rel[f] = "none"
  /\ refcount[f] = 0 /\ rel[f] = "none" => value[f] = 0
  /\ Created(f) => users[f] = 0
  /\ Created(f) => (Pending(f) <=> value[f] = 0)
Fresh(f) ==
  value[f] = 0 => ~signaled[f] /\ f \notin active_fences /\ users[f] = 0
FencesHeld == \A f \in Fences : Held(f) /\ Fresh(f)

(* The values are the points up to the last, each of one fence; fences on  *)
(* the list are those that have not signalled.                             *)
Values ==
  /\ current_value < next_value
  /\ \A f \in Fences : value[f] < next_value
  /\ \A v \in 1 .. next_value - 1 : \E f \in Fences : value[f] = v
  /\ SignalledExactly
  /\ \A f \in Fences : value[f] > 0 => (f \in active_fences <=> ~signaled[f])

(* The context: the timeline and the fences that are not released hold it; *)
(* it counts the fences whose release has not begun.                       *)
Unreleased == {f \in Fences : refcount[f] > 0 \/ rel[f] \in {"count", "kref"}}
Counted == {f \in Fences : refcount[f] > 0 \/ rel[f] = "count"}
Context ==
  /\ IsFiniteSet(Unreleased) /\ IsFiniteSet(Counted)
  /\ ctx_kref = Cardinality(Unreleased) + One(destroying # "freed")
  /\ ctx_freed <=> ctx_kref = 0
  /\ fence_count = Cardinality(Counted)

(* TypeOK, but that counts are not negative, which the others imply.       *)
Types ==
  /\ fd_open \in BOOLEAN /\ file_refs \in Int
  /\ closing \in {"no", "force", "put", "done"} /\ handles \in 0..MaxHandles
  /\ kref \in Int /\ registered \in BOOLEAN /\ dumping \in BOOLEAN
  /\ destroying \in {"no", "unregister", "context", "freed"}
  /\ current_value \in Nat /\ next_value \in Nat
  /\ active_fences \subseteq Fences
  /\ ctx_kref \in Int /\ ctx_freed \in BOOLEAN /\ fence_count \in Int
  /\ value \in [Fences -> Nat]
  /\ refcount \in [Fences -> Int] /\ users \in [Fences -> 0..1]
  /\ signaled \in [Fences -> BOOLEAN]
  /\ rel \in [Fences -> {"none", "count", "kref", "freed"}]
  /\ pc \in [Threads -> {"idle", "sw_fence", "point", "sync_file", "inc", "return"}]
  /\ fence_of \in [Threads -> Fences \cup {NoFence}]
  /\ has_file \in [Threads -> BOOLEAN]

IInv ==
  /\ Types /\ Files /\ Lives /\ Creators /\ FencesHeld /\ Values /\ Context

LEMMA InitIInv == Init => IInv
<1> SUFFICES ASSUME Init PROVE IInv
  OBVIOUS
<1> USE CountingAssumption DEF Init
<1>1. Types
  <2>1. /\ fd_open \in BOOLEAN /\ file_refs \in Int
        /\ closing \in {"no", "force", "put", "done"} /\ handles \in 0..MaxHandles
    OBVIOUS
  <2>4. /\ kref \in Int /\ destroying \in {"no", "unregister", "context", "freed"}
        /\ current_value \in Nat /\ next_value \in Nat
        /\ active_fences \subseteq Fences
        /\ ctx_kref \in Int /\ fence_count \in Int
    OBVIOUS
  <2>5. registered \in BOOLEAN /\ dumping \in BOOLEAN /\ ctx_freed \in BOOLEAN
    BY Zenon
  <2>2. /\ value \in [Fences -> Nat]
        /\ refcount \in [Fences -> Int] /\ users \in [Fences -> 0..1]
        /\ signaled \in [Fences -> BOOLEAN]
        /\ rel \in [Fences -> {"none", "count", "kref", "freed"}]
    OBVIOUS
  <2>3. /\ pc \in [Threads -> {"idle", "sw_fence", "point", "sync_file", "inc", "return"}]
        /\ fence_of \in [Threads -> Fences \cup {NoFence}]
        /\ has_file \in [Threads -> BOOLEAN]
    OBVIOUS
  <2> QED
    BY <2>1, <2>2, <2>3, <2>4, <2>5, Zenon DEF Types
<1>2. Files
  <2>1. Holders = {}
    BY DEF Holders
  <2> QED
    BY <2>1, FS_EmptySet DEF Files, One
<1>3. Lives
  BY DEF Lives, One
<1>4. Creators
  BY DEF Creators
<1>5. FencesHeld
  BY DEF FencesHeld, Held, Fresh, RefsOf, One, Created, Pending
<1>6. Values
  BY DEF Values, SignalledExactly
<1>7. Context
  <2>1. Unreleased = {} /\ Counted = {}
    BY DEF Unreleased, Counted
  <2> QED
    BY <2>1, FS_EmptySet DEF Context, One
<1> QED
  BY <1>1, <1>2, <1>3, <1>4, <1>5, <1>6, <1>7 DEF IInv

-----------------------------------------------------------------------------
LEMMA PutTypes ==
  ASSUME Types, NEW F, PutFences(F)
  PROVE  refcount' \in [Fences -> Int] /\ rel' \in [Fences -> {"none", "count", "kref", "freed"}]
BY DEF Types, PutFences

LEMMA SignalTypes ==
  ASSUME Types, NEW S, SignalAll(S)
  PROVE  /\ refcount' \in [Fences -> Int] /\ active_fences' \subseteq Fences
         /\ rel' \in [Fences -> {"none", "count", "kref", "freed"}]
         /\ signaled' \in [Fences -> BOOLEAN]
<1>1. active_fences' \subseteq Fences /\ signaled' \in [Fences -> BOOLEAN]
  BY DEF Types, SignalAll
<1> QED
  BY <1>1, PutTypes DEF SignalAll

(* What an advance does.                                                   *)
LEMMA IncDoes ==
  ASSUME Types, Inc
  PROVE  \/ /\ current_value = next_value - 1
            /\ UNCHANGED <<current_value, active_fences, signaled, refcount, rel>>
         \/ /\ current_value # next_value - 1 /\ current_value' = current_value + 1
            /\ SignalAll({f \in active_fences : value[f] <= current_value + 1})
<1>1. CASE current_value = next_value - 1
  BY <1>1 DEF Inc
<1>2. CASE current_value # next_value - 1
  <2>1. current_value' = current_value + 1
    BY <1>2 DEF Inc
  <2> QED
    BY <1>2, <2>1 DEF Inc
<1> QED
  BY <1>1, <1>2

LEMMA TypeStep == Types /\ Creators /\ [Next]_vars => Types'
<1> SUFFICES ASSUME Types, Creators, [Next]_vars PROVE Types'
  OBVIOUS
<1> USE DEF Types
<1>1. ASSUME NEW t \in Threads, ThreadNext(t) PROVE Types'
  <2>1. CASE CreateBegin(t)
    BY <2>1 DEF CreateBegin, lifeVars, countVars, ctxVars, fenceVars
  <2>2. CASE SwFenceCreate(t)
    BY <2>2 DEF SwFenceCreate, fileVars, lifeVars, countVars
  <2>3. CASE SwFenceFails(t)
    BY <2>3 DEF SwFenceFails, fileVars, lifeVars, countVars, ctxVars, fenceVars
  <2>4. CASE AddPoint(t)
    <3>1. fence_of[t] \in Fences
      BY <2>4 DEF AddPoint, Creators
    <3> QED
      BY <2>4, <3>1 DEF AddPoint, fileVars, lifeVars, ctxVars, fenceVars
  <2>5. CASE SyncFile(t)
    BY <2>5 DEF SyncFile, PutFences, fileVars, lifeVars, countVars, ctxVars
  <2>6. CASE Fput(t)
    BY <2>6 DEF Fput, FilePut, lifeVars, countVars, ctxVars, fenceVars
  <2>7. CASE IncBegin(t)
    BY <2>7 DEF IncBegin, lifeVars, countVars, ctxVars, fenceVars
  <2>8. CASE SwInc(t)
    <3>1. /\ current_value' \in Nat /\ active_fences' \subseteq Fences
          /\ signaled' \in [Fences -> BOOLEAN] /\ refcount' \in [Fences -> Int]
          /\ rel' \in [Fences -> {"none", "count", "kref", "freed"}]
      BY <2>8, IncDoes, SignalTypes DEF SwInc
    <3> QED
      BY <2>8, <3>1 DEF SwInc, fileVars, lifeVars, ctxVars
  <2> QED
    BY <1>1, <2>1, <2>2, <2>3, <2>4, <2>5, <2>6, <2>7, <2>8 DEF ThreadNext
<1>2. ASSUME NEW f \in Fences, FenceNext(f) PROVE Types'
  <2>1. CASE UserPut(f)
    BY <2>1 DEF UserPut, PutFences, fileVars, lifeVars, countVars, ctxVars, callVars
  <2>2. CASE ReleaseCount(f)
    BY <2>2 DEF ReleaseCount, fileVars, lifeVars, countVars, callVars
  <2>3. CASE ReleaseKref(f)
    BY <2>3 DEF ReleaseKref, CtxPut, fileVars, lifeVars, countVars, callVars
  <2> QED
    BY <1>2, <2>1, <2>2, <2>3 DEF FenceNext
<1>3. CASE HandleNext
  <2>1. CASE TimelineGet
    BY <2>1, CountingAssumption DEF TimelineGet, countVars, ctxVars, fenceVars, callVars
  <2>2. CASE TimelineAdvance
    <3>1. /\ current_value' \in Nat /\ active_fences' \subseteq Fences
          /\ signaled' \in [Fences -> BOOLEAN] /\ refcount' \in [Fences -> Int]
          /\ rel' \in [Fences -> {"none", "count", "kref", "freed"}]
      BY <2>2, IncDoes, SignalTypes DEF TimelineAdvance
    <3> QED
      BY <2>2, <3>1 DEF TimelineAdvance, fileVars, lifeVars, ctxVars, callVars
  <2>3. CASE TimelineRelease
    BY <2>3, CountingAssumption
       DEF TimelineRelease, TimelinePut, countVars, ctxVars, fenceVars, callVars
  <2> QED
    BY <1>3, <2>1, <2>2, <2>3 DEF HandleNext
<1>4. CASE LifeNext
  <2>1. CASE CloseFd
    <3>1. /\ file_refs' \in Int /\ closing' \in {"no", "force", "put", "done"}
          /\ fd_open' = FALSE
      BY <2>1 DEF CloseFd, FilePut
    <3> QED
      BY <2>1, <3>1 DEF CloseFd, lifeVars, countVars, ctxVars, fenceVars, callVars
  <2>2. CASE ForceComplete
    BY <2>2, SignalTypes DEF ForceComplete, lifeVars, ctxVars, callVars
  <2>3. CASE ClosePut
    BY <2>3 DEF ClosePut, TimelinePut, countVars, ctxVars, fenceVars, callVars
  <2>4. CASE Unregister
    BY <2>4 DEF Unregister, fileVars, countVars, ctxVars, fenceVars, callVars
  <2>5. CASE DestroyContext
    BY <2>5 DEF DestroyContext, CtxPut, fileVars, countVars, fenceVars, callVars
  <2> QED
    BY <1>4, <2>1, <2>2, <2>3, <2>4, <2>5 DEF LifeNext
<1>5. CASE DumpNext
  BY <1>5 DEF DumpNext, DumpBegin, DumpEnd, fileVars, countVars, ctxVars, fenceVars, callVars
<1>6. CASE UNCHANGED vars
  BY <1>6 DEF vars, fileVars, lifeVars, countVars, ctxVars, fenceVars, callVars
<1> QED
  BY <1>1, <1>2, <1>3, <1>4, <1>5, <1>6 DEF Next

-----------------------------------------------------------------------------
(* The file.                                                               *)
LEMMA OneType == ASSUME NEW b PROVE One(b) \in {0, 1} /\ (b <=> One(b) = 1)
BY DEF One

(* A step that leaves the file and who holds it alone.                     *)
LEMMA FilesFrame ==
  ASSUME Types, Files, UNCHANGED <<fd_open, file_refs, closing, has_file>>,
         \A t \in Threads : /\ pc'[t] = "idle" => ~has_file[t]
                            /\ pc'[t] \notin {"idle", "sync_file"} => has_file[t]
  PROVE  Files'
<1>1. Holders' = Holders
  BY DEF Holders
<1> QED
  BY <1>1 DEF Files

LEMMA FilesTake ==
  ASSUME Types, Files, NEW t \in Threads, NEW where \in {"sw_fence", "inc"}, pc[t] = "idle", fd_open,
         pc' = [pc EXCEPT ![t] = where], has_file' = [has_file EXCEPT ![t] = TRUE],
         file_refs' = file_refs + 1, UNCHANGED <<fd_open, closing>>
  PROVE  Files'
<1>1. ~has_file[t]
  BY DEF Files
<1>2. t \notin Holders /\ Holders' = Holders \cup {t}
  BY <1>1 DEF Holders, Types
<1>3. /\ IsFiniteSet(Holders') /\ Cardinality(Holders') = Cardinality(Holders) + 1
      /\ Cardinality(Holders) \in Nat
  BY <1>2, FS_AddElement, FS_CardinalityType DEF Files
<1>4. file_refs' = Cardinality(Holders') + One(fd_open')
  BY <1>3, OneType DEF Files
<1>5. closing' = "no" <=> file_refs' > 0
  <2>1. file_refs > 0 /\ file_refs' > 0
    BY <1>3 DEF Files, One
  <2> QED
    BY <2>1 DEF Files
<1>6. \A u \in Threads : /\ pc'[u] = "idle" => ~has_file'[u]
                         /\ pc'[u] \notin {"idle", "sync_file"} => has_file'[u]
  BY DEF Files, Types
<1> QED
  BY <1>3, <1>4, <1>5, <1>6 DEF Files

LEMMA FilesStep == Types /\ Files /\ [Next]_vars => Files'
<1> SUFFICES ASSUME Types, Files, [Next]_vars PROVE Files'
  OBVIOUS
<1>1. ASSUME NEW t \in Threads, ThreadNext(t) PROVE Files'
  <2>1. CASE CreateBegin(t)
    BY <2>1, FilesTake DEF CreateBegin
  <2>2. CASE IncBegin(t)
    BY <2>2, FilesTake DEF IncBegin
  <2>3. CASE SwFenceCreate(t) \/ SwFenceFails(t) \/ AddPoint(t) \/ SwInc(t)
    <3>1. PICK where \in {"point", "return", "sync_file"} :
            pc[t] \in {"sw_fence", "point", "inc"} /\ pc' = [pc EXCEPT ![t] = where]
      BY <2>3 DEF SwFenceCreate, SwFenceFails, AddPoint, SwInc
    <3>2. UNCHANGED <<fd_open, file_refs, closing, has_file>>
      BY <2>3 DEF SwFenceCreate, SwFenceFails, AddPoint, SwInc, fileVars
    <3>3. \A u \in Threads : /\ pc'[u] = "idle" => ~has_file[u]
                             /\ pc'[u] \notin {"idle", "sync_file"} => has_file[u]
      BY <3>1 DEF Files, Types
    <3> QED
      BY <3>2, <3>3, FilesFrame
  <2>4. CASE SyncFile(t)
    <3>1. UNCHANGED <<fd_open, file_refs, closing, has_file>>
      BY <2>4 DEF SyncFile, fileVars
    <3>2. \A u \in Threads : /\ pc'[u] = "idle" => ~has_file[u]
                             /\ pc'[u] \notin {"idle", "sync_file"} => has_file[u]
      BY <2>4 DEF SyncFile, Files, Types
    <3> QED
      BY <3>1, <3>2, FilesFrame
  <2>5. CASE Fput(t)
    <3>1. t \in Holders /\ Holders' = Holders \ {t}
      BY <2>5 DEF Fput, Holders, Types
    <3>2. /\ IsFiniteSet(Holders') /\ Cardinality(Holders') = Cardinality(Holders) - 1
          /\ Cardinality(Holders') \in Nat /\ Cardinality(Holders) \in Nat
      BY <3>1, FS_RemoveElement, FS_CardinalityType DEF Files
    <3>3. /\ file_refs' = file_refs - 1 /\ fd_open' = fd_open
          /\ closing' = IF file_refs = 1 THEN "force" ELSE closing
      BY <2>5 DEF Fput, FilePut
    <3>4. file_refs' = Cardinality(Holders') + One(fd_open') /\ file_refs > 0
      <4>1. One(fd_open) \in {0, 1} /\ One(fd_open') = One(fd_open)
        BY <3>3, OneType
      <4> QED
        BY <3>2, <3>3, <4>1 DEF Files
    <3>5. closing' = "no" <=> file_refs' > 0
      <4>1. closing = "no"
        BY <3>4 DEF Files
      <4>2. file_refs' > 0 <=> file_refs # 1
        BY <3>3, <3>4 DEF Types
      <4> QED
        BY <3>3, <4>1, <4>2
    <3>6. \A u \in Threads : /\ pc'[u] = "idle" => ~has_file'[u]
                             /\ pc'[u] \notin {"idle", "sync_file"} => has_file'[u]
      BY <2>5 DEF Fput, Files, Types
    <3> QED
      BY <3>2, <3>4, <3>5, <3>6 DEF Files
  <2> QED
    BY <1>1, <2>1, <2>2, <2>3, <2>4, <2>5 DEF ThreadNext
<1>2. CASE CloseFd
  <2>1. /\ file_refs' = file_refs - 1 /\ fd_open /\ fd_open' = FALSE
        /\ closing' = IF file_refs = 1 THEN "force" ELSE closing
        /\ UNCHANGED <<has_file, pc>>
    BY <1>2 DEF CloseFd, FilePut, callVars
  <2>2. Holders' = Holders /\ Cardinality(Holders) \in Nat
    BY <2>1, FS_CardinalityType DEF Holders, Files
  <2>3. file_refs' = Cardinality(Holders') + One(fd_open') /\ file_refs > 0
    BY <2>1, <2>2 DEF Files, One
  <2>4. closing' = "no" <=> file_refs' > 0
    <3>1. closing = "no"
      BY <2>3 DEF Files
    <3>2. file_refs' > 0 <=> file_refs # 1
      BY <2>1, <2>3 DEF Types
    <3> QED
      BY <2>1, <3>1, <3>2
  <2> QED
    BY <2>1, <2>2, <2>3, <2>4 DEF Files
<1>3. CASE ForceComplete \/ ClosePut
  <2>1. /\ closing # "no" /\ closing' # "no"
        /\ UNCHANGED <<fd_open, file_refs, has_file, pc>>
    BY <1>3 DEF ForceComplete, ClosePut, callVars
  <2>2. Holders' = Holders
    BY <2>1 DEF Holders
  <2> QED
    BY <2>1, <2>2 DEF Files
<1>4. ASSUME UNCHANGED <<fd_open, file_refs, closing, has_file, pc>> PROVE Files'
  BY <1>4, FilesFrame DEF Files
<1>5. ASSUME NEW f \in Fences, FenceNext(f) PROVE Files'
  BY <1>4, <1>5 DEF FenceNext, UserPut, ReleaseCount, ReleaseKref, fileVars, callVars
<1>6. CASE HandleNext
  BY <1>4, <1>6 DEF HandleNext, TimelineGet, TimelineAdvance, TimelineRelease, fileVars, callVars
<1>7. CASE Unregister \/ DestroyContext \/ DumpNext
  BY <1>4, <1>7
     DEF Unregister, DestroyContext, DumpNext, DumpBegin, DumpEnd, fileVars, callVars
<1>8. CASE UNCHANGED vars
  BY <1>4, <1>8 DEF vars, fileVars, callVars
<1> QED
  BY <1>1, <1>2, <1>3, <1>5, <1>6, <1>7, <1>8 DEF Next, LifeNext

-----------------------------------------------------------------------------
(* The timeline.                                                           *)
LEMMA LivesStep == Types /\ Files /\ Lives /\ [Next]_vars => Lives'
<1> SUFFICES ASSUME Types, Files, Lives, [Next]_vars PROVE Lives'
  OBVIOUS
<1>1. ASSUME UNCHANGED <<kref, registered, dumping, destroying, handles>>,
             (closing' = "done") <=> (closing = "done")
      PROVE  Lives'
  <2>1. One((closing # "done")') = One(closing # "done")
    BY <1>1 DEF One
  <2> QED
    BY <1>1, <2>1 DEF Lives
<1>2. ASSUME NEW t \in Threads, ThreadNext(t) PROVE Lives'
  <2>1. CASE Fput(t)
    <3>1. closing = "no" \/ closing' = closing
      <4>1. t \in Holders
        BY <2>1 DEF Fput, Holders
      <4>2. Cardinality(Holders) > 0
        BY <4>1, FS_EmptySet, FS_CardinalityType DEF Files
      <4>3. file_refs > 0
        BY <4>2, FS_CardinalityType, OneType DEF Files
      <4> QED
        BY <4>3 DEF Files
    <3>2. /\ UNCHANGED <<kref, registered, dumping, destroying, handles>>
          /\ closing' \in {closing, "force"}
      BY <2>1 DEF Fput, FilePut, lifeVars
    <3> QED
      BY <1>1, <3>1, <3>2
  <2>2. CASE ~Fput(t)
    <3>1. UNCHANGED <<kref, registered, dumping, destroying, handles, closing>>
      BY <1>2, <2>2
         DEF ThreadNext, CreateBegin, SwFenceCreate, SwFenceFails, AddPoint, SyncFile, IncBegin,
             SwInc, fileVars, lifeVars
    <3> QED
      BY <1>1, <3>1
  <2> QED
    BY <2>1, <2>2
<1>3. ASSUME NEW f \in Fences, FenceNext(f) PROVE Lives'
  <2>1. UNCHANGED <<kref, registered, dumping, destroying, handles, closing>>
    BY <1>3 DEF FenceNext, UserPut, ReleaseCount, ReleaseKref, fileVars, lifeVars
  <2> QED
    BY <1>1, <2>1
<1>4. CASE HandleNext
  <2>1. CASE TimelineGet
    <3>1. closing = "no"
      BY <2>1, FS_CardinalityType DEF TimelineGet, Files, One
    <3> QED
      BY <2>1, <3>1 DEF TimelineGet, Lives, Types, One
  <2>2. CASE TimelineAdvance
    BY <2>2, <1>1 DEF TimelineAdvance, fileVars, lifeVars
  <2>3. CASE TimelineRelease
    BY <2>3, CountingAssumption DEF TimelineRelease, TimelinePut, Lives, Types, One
  <2> QED
    BY <1>4, <2>1, <2>2, <2>3 DEF HandleNext
<1>5. CASE LifeNext
  <2>1. CASE CloseFd
    <3>1. /\ fd_open /\ closing' \in {closing, "force"}
          /\ UNCHANGED <<kref, registered, dumping, destroying, handles>>
      BY <2>1 DEF CloseFd, FilePut, lifeVars
    <3>2. closing = "no"
      BY <3>1, FS_CardinalityType DEF Files, One
    <3> QED
      BY <1>1, <3>1, <3>2
  <2>2. CASE ForceComplete
    BY <2>2, <1>1 DEF ForceComplete, lifeVars
  <2>3. CASE ClosePut
    BY <2>3, CountingAssumption DEF ClosePut, TimelinePut, Lives, Types, One
  <2>4. CASE Unregister
    BY <2>4 DEF Unregister, Lives, fileVars, Types
  <2>5. CASE DestroyContext
    BY <2>5 DEF DestroyContext, Lives, fileVars, Types
  <2> QED
    BY <1>5, <2>1, <2>2, <2>3, <2>4, <2>5 DEF LifeNext
<1>6. CASE DumpNext
  BY <1>6 DEF DumpNext, DumpBegin, DumpEnd, Lives, fileVars
<1>7. CASE UNCHANGED vars
  BY <1>1, <1>7 DEF vars, fileVars, lifeVars
<1> QED
  BY <1>2, <1>3, <1>4, <1>5, <1>6, <1>7 DEF Next

-----------------------------------------------------------------------------
(* The fences.                                                             *)

(* A fence without references is nobody's.                                 *)
LEMMA Unreferenced ==
  ASSUME Types, NEW f \in Fences, Held(f), refcount[f] = 0
  PROVE  ~Created(f) /\ ~Pending(f) /\ f \notin active_fences /\ users[f] = 0
<1>1. One(Created(f)) + One(Pending(f)) + One(f \in active_fences) + users[f] = 0
  BY DEF Held, RefsOf
<1>2. users[f] \in {0, 1}
  BY DEF Types
<1>3. /\ One(Created(f)) \in {0, 1} /\ One(Pending(f)) \in {0, 1}
      /\ One(f \in active_fences) \in {0, 1}
  BY OneType
<1>4. One(Created(f)) = 0 /\ One(Pending(f)) = 0 /\ One(f \in active_fences) = 0 /\ users[f] = 0
  BY <1>1, <1>2, <1>3
<1> QED
  BY <1>4 DEF One

(* A call that is not about to define or publish a point moves on.         *)
LEMMA PassBy ==
  ASSUME Types, Creators, NEW t \in Threads, NEW where, UNCHANGED fence_of,
         pc' = [pc EXCEPT ![t] = where],
         \/ pc[t] \notin {"point", "sync_file"} /\ where \notin {"point", "sync_file"}
         \/ pc[t] = where
  PROVE  Creators' /\ \A f \in Fences : (Created(f)' <=> Created(f)) /\ (Pending(f)' <=> Pending(f))
<1>1. \A u \in Threads : pc'[u] = pc[u] \/ (u = t /\ fence_of[u] = NoFence /\ pc[u] # "point")
  BY DEF Types, Creators
<1>2. Creators'
  BY DEF Creators, Types
<1>3. \A f \in Fences : Created(f)' <=> Created(f)
  BY DEF Created
<1>4. \A u \in Threads : (pc'[u] = "point") <=> (pc[u] = "point")
  BY DEF Types
<1>5. \A f \in Fences : Pending(f)' <=> Pending(f)
  BY <1>4 DEF Pending
<1> QED
  BY <1>2, <1>3, <1>5

LEMMA PassesBy ==
  ASSUME Types, Creators, NEW t \in Threads,
         CreateBegin(t) \/ SwFenceFails(t) \/ Fput(t) \/ IncBegin(t) \/ SwInc(t)
  PROVE  Creators' /\ \A f \in Fences : (Created(f)' <=> Created(f)) /\ (Pending(f)' <=> Pending(f))
<1> DEFINE where == pc'[t]
<1>1. /\ pc' = [pc EXCEPT ![t] = where]
      /\ \/ pc[t] \notin {"point", "sync_file"} /\ where \notin {"point", "sync_file"}
         \/ pc[t] = where
  BY DEF CreateBegin, SwFenceFails, IncBegin, SwInc, Fput, Types
<1>2. UNCHANGED fence_of
  BY DEF CreateBegin, SwFenceFails, Fput, IncBegin, SwInc
<1> HIDE DEF where
<1> QED
  BY <1>1, <1>2, PassBy

LEMMA CreatorsStep == Types /\ Creators /\ FencesHeld /\ [Next]_vars => Creators'
<1> SUFFICES ASSUME Types, Creators, FencesHeld, [Next]_vars PROVE Creators'
  OBVIOUS
<1> USE CountingAssumption
<1>1. ASSUME UNCHANGED <<pc, fence_of>> PROVE Creators'
  BY <1>1 DEF Creators
<1>2. ASSUME NEW t \in Threads, ThreadNext(t) PROVE Creators'
  <2>1. CASE CreateBegin(t) \/ SwFenceFails(t) \/ Fput(t) \/ IncBegin(t) \/ SwInc(t)
    BY <2>1, PassesBy
  <2>2. CASE SwFenceCreate(t)
    <3>1. PICK f \in Fences : refcount[f] = 0 /\ fence_of' = [fence_of EXCEPT ![t] = f]
      BY <2>2 DEF SwFenceCreate
    <3>2. pc' = [pc EXCEPT ![t] = "point"]
      BY <2>2 DEF SwFenceCreate
    <3>3. \A u \in Threads : fence_of[u] # f
      BY <3>1, Unreferenced DEF FencesHeld, Created
    <3> QED
      BY <3>1, <3>2, <3>3 DEF Creators, Types
  <2>3. CASE AddPoint(t)
    <3>1. pc[t] = "point" /\ pc' = [pc EXCEPT ![t] = "sync_file"] /\ fence_of' = fence_of
      BY <2>3 DEF AddPoint
    <3> QED
      BY <3>1 DEF Creators, Types
  <2>4. CASE SyncFile(t)
    <3>1. PICK where \in {"return", "idle"} : pc' = [pc EXCEPT ![t] = where]
      BY <2>4 DEF SyncFile
    <3>2. fence_of' = [fence_of EXCEPT ![t] = NoFence]
      BY <2>4 DEF SyncFile
    <3> QED
      BY <3>1, <3>2 DEF Creators, Types
  <2> QED
    BY <1>2, <2>1, <2>2, <2>3, <2>4 DEF ThreadNext
<1>3. ASSUME NEW f \in Fences, FenceNext(f) PROVE Creators'
  BY <1>1, <1>3 DEF FenceNext, UserPut, ReleaseCount, ReleaseKref, callVars
<1>4. CASE HandleNext
  BY <1>1, <1>4 DEF HandleNext, TimelineGet, TimelineAdvance, TimelineRelease, callVars
<1>5. CASE LifeNext
  BY <1>1, <1>5
     DEF LifeNext, CloseFd, ForceComplete, ClosePut, Unregister, DestroyContext, callVars
<1>6. CASE DumpNext
  BY <1>1, <1>6 DEF DumpNext, DumpBegin, DumpEnd, callVars
<1>7. CASE UNCHANGED vars
  BY <1>1, <1>7 DEF vars, callVars
<1> QED
  BY <1>2, <1>3, <1>4, <1>5, <1>6, <1>7 DEF Next

-----------------------------------------------------------------------------
(* A step that leaves a fence and those who hold it alone.                 *)
LEMMA FenceFrame ==
  ASSUME NEW f \in Fences, Held(f), Fresh(f),
         Created(f)' <=> Created(f), Pending(f)' <=> Pending(f),
         f \in active_fences' <=> f \in active_fences, users'[f] = users[f],
         refcount'[f] = refcount[f], rel'[f] = rel[f], value'[f] = value[f],
         signaled'[f] = signaled[f]
  PROVE  Held(f)' /\ Fresh(f)'
<1>1. RefsOf(f)' = RefsOf(f)
  <2>1. /\ One(Created(f)') = One(Created(f)) /\ One(Pending(f)') = One(Pending(f))
        /\ One(f \in active_fences') = One(f \in active_fences)
    BY DEF One
  <2> QED
    BY <2>1 DEF RefsOf
<1>2. Held(f)'
  BY <1>1 DEF Held
<1> QED
  BY <1>2 DEF Fresh

LEMMA FencesFrame ==
  ASSUME FencesHeld, UNCHANGED <<active_fences, users, refcount, rel, value, signaled>>,
         \A f \in Fences : (Created(f)' <=> Created(f)) /\ (Pending(f)' <=> Pending(f))
  PROVE  FencesHeld'
BY FenceFrame DEF FencesHeld

(* One reference is put and one holder fewer is left.                      *)
LEMMA PutOne ==
  ASSUME Types, NEW f \in Fences, Held(f), NEW n \in Nat,
         RefsOf(f) = n + 1, RefsOf(f)' = n, refcount'[f] = refcount[f] - 1,
         rel'[f] = IF refcount[f] = 1 THEN "count" ELSE rel[f],
         Created(f)' => users'[f] = 0, Created(f)' => (Pending(f)' <=> value'[f] = 0)
  PROVE  Held(f)'
<1>1. refcount[f] = n + 1 /\ refcount'[f] = n
  BY DEF Held
<1>2. rel[f] = "none"
  BY <1>1 DEF Held
<1>3. n = 0 => rel'[f] = "count"
  BY <1>1
<1>4. n # 0 => rel'[f] = "none"
  BY <1>1, <1>2
<1> QED
  BY <1>1, <1>3, <1>4 DEF Held

(* Signalling fences of the list takes the list's reference from them.     *)
LEMMA SignalHeld ==
  ASSUME Types, FencesHeld, NEW S \in SUBSET active_fences, SignalAll(S), UNCHANGED <<users, value>>,
         \A f \in Fences : (Created(f)' <=> Created(f)) /\ (Pending(f)' <=> Pending(f))
  PROVE  FencesHeld'
<1>1. ASSUME NEW f \in Fences PROVE Held(f)' /\ Fresh(f)'
  <2> /\ Held(f) /\ Fresh(f)
    BY DEF FencesHeld
  <2>1. CASE f \notin S
    <3>1. /\ f \in active_fences' <=> f \in active_fences
          /\ refcount'[f] = refcount[f] /\ rel'[f] = rel[f]
      BY <2>1 DEF SignalAll, PutFences
    <3>2. signaled'[f] = signaled[f]
      BY <2>1 DEF SignalAll, Types
    <3> QED
      BY <3>1, <3>2, FenceFrame
  <2>2. CASE f \in S
    <3>1. /\ f \notin active_fences' /\ f \in active_fences
          /\ refcount'[f] = refcount[f] - 1
          /\ rel'[f] = IF refcount[f] = 1 THEN "count" ELSE rel[f]
      BY <2>2 DEF SignalAll, PutFences
    <3>2. PICK n \in Nat : RefsOf(f) = n + 1 /\ RefsOf(f)' = n
      <4>1. /\ One(Created(f)') = One(Created(f)) /\ One(Pending(f)') = One(Pending(f))
            /\ One(f \in active_fences') = 0 /\ One(f \in active_fences) = 1
        BY <3>1 DEF One
      <4>2. One(Created(f)) \in {0, 1} /\ One(Pending(f)) \in {0, 1} /\ users[f] \in {0, 1}
        BY OneType DEF Types
      <4>3. users'[f] = users[f]
        OBVIOUS
      <4> DEFINE n == One(Created(f)) + One(Pending(f)) + users[f]
      <4>4. n \in Nat /\ RefsOf(f) = n + 1 /\ RefsOf(f)' = n
        BY <4>1, <4>2, <4>3 DEF RefsOf
      <4> QED
        BY <4>4
    <3>3. value[f] # 0
      BY <3>1 DEF Fresh
    <3>4. Created(f)' => users'[f] = 0 /\ (Pending(f)' <=> value'[f] = 0)
      BY DEF Held
    <3>5. Held(f)'
      BY <3>1, <3>2, <3>4, PutOne
    <3> QED
      BY <3>3, <3>5 DEF Fresh
  <2> QED
    BY <2>1, <2>2
<1> QED
  BY <1>1 DEF FencesHeld

LEMMA IncHeld ==
  ASSUME Types, FencesHeld, Inc, UNCHANGED <<users, value>>,
         \A f \in Fences : (Created(f)' <=> Created(f)) /\ (Pending(f)' <=> Pending(f))
  PROVE  FencesHeld'
<1>1. CASE UNCHANGED <<active_fences, signaled, refcount, rel>>
  BY <1>1, FencesFrame
<1>2. CASE SignalAll({f \in active_fences : value[f] <= current_value + 1})
  BY <1>2, SignalHeld
<1> QED
  BY <1>1, <1>2, IncDoes

LEMMA FencesHeldStep == Types /\ Creators /\ FencesHeld /\ Values /\ [Next]_vars => FencesHeld'
<1> SUFFICES ASSUME Types, Creators, FencesHeld, Values, [Next]_vars PROVE FencesHeld'
  OBVIOUS
<1> USE CountingAssumption
<1>1. ASSUME UNCHANGED callVars
      PROVE  \A f \in Fences : (Created(f)' <=> Created(f)) /\ (Pending(f)' <=> Pending(f))
  BY <1>1 DEF callVars, Created, Pending
<1>2. ASSUME UNCHANGED <<active_fences, users, refcount, rel, value, signaled, callVars>>
      PROVE  FencesHeld'
  BY <1>1, <1>2, FencesFrame
<1>3. ASSUME NEW t \in Threads, ThreadNext(t) PROVE FencesHeld'
  <2>1. CASE CreateBegin(t) \/ SwFenceFails(t) \/ Fput(t) \/ IncBegin(t)
    <3>1. UNCHANGED <<active_fences, users, refcount, rel, value, signaled>>
      BY <2>1 DEF CreateBegin, SwFenceFails, Fput, IncBegin, fenceVars, countVars
    <3> QED
      BY <2>1, <3>1, PassesBy, FencesFrame
  <2>2. CASE SwInc(t)
    <3>1. Inc /\ UNCHANGED <<users, value>>
      BY <2>2 DEF SwInc
    <3> QED
      BY <2>2, <3>1, PassesBy, IncHeld
  <2>3. CASE SwFenceCreate(t)
    <3>1. PICK g \in Fences :
            /\ refcount[g] = 0 /\ rel[g] = "none" /\ refcount' = [refcount EXCEPT ![g] = 2]
            /\ fence_of' = [fence_of EXCEPT ![t] = g]
      BY <2>3 DEF SwFenceCreate
    <3>2. /\ pc[t] = "sw_fence" /\ pc' = [pc EXCEPT ![t] = "point"]
          /\ UNCHANGED <<active_fences, value, users, signaled, rel>>
      BY <2>3 DEF SwFenceCreate, countVars
    <3>3. fence_of[t] = NoFence
      BY <3>2 DEF Creators, Types
    <3>4. ASSUME NEW f \in Fences PROVE Held(f)' /\ Fresh(f)'
      <4> Held(f) /\ Fresh(f)
        BY DEF FencesHeld
      <4>1. CASE f # g
        <5>1. Created(f)' <=> Created(f)
          BY <3>1, <3>3, <4>1 DEF Created, Types
        <5>2. Pending(f)' <=> Pending(f)
          BY <3>1, <3>2, <3>3, <4>1 DEF Pending, Types
        <5>3. refcount'[f] = refcount[f]
          BY <3>1, <4>1 DEF Types
        <5> QED
          BY <3>2, <5>1, <5>2, <5>3, FenceFrame
      <4>2. CASE f = g
        <5>1. ~Created(f) /\ f \notin active_fences /\ users[f] = 0 /\ value[f] = 0
          BY <3>1, <4>2, Unreferenced DEF Held
        <5>2. Created(f)' /\ Pending(f)'
          BY <3>1, <3>2, <4>2 DEF Created, Pending, Types
        <5>3. refcount'[f] = 2 /\ rel'[f] = "none"
          BY <3>1, <3>2, <4>2 DEF Types
        <5>4. RefsOf(f)' = 2
          <6>1. /\ One(Created(f)') = 1 /\ One(Pending(f)') = 1
                /\ One(f \in active_fences') = 0 /\ users'[f] = 0
            BY <3>2, <5>1, <5>2 DEF One
          <6> QED
            BY <6>1 DEF RefsOf
        <5>5. Held(f)'
          BY <3>2, <5>1, <5>2, <5>3, <5>4 DEF Held
        <5> QED
          BY <3>2, <5>1, <5>5 DEF Fresh
      <4> QED
        BY <4>1, <4>2
    <3> QED
      BY <3>4 DEF FencesHeld
  <2>4. CASE AddPoint(t)
    <3> DEFINE g == fence_of[t]
    <3>1. /\ pc[t] = "point" /\ pc' = [pc EXCEPT ![t] = "sync_file"]
          /\ value' = [value EXCEPT ![g] = next_value]
          /\ active_fences' = active_fences \cup {g}
          /\ UNCHANGED <<users, signaled, rel, refcount, fence_of>>
      BY <2>4 DEF AddPoint, fenceVars
    <3>2. g \in Fences /\ g # NoFence
      BY <3>1 DEF Creators, Types
    <3>3. \A u \in Threads : fence_of[u] = g => u = t
      BY <3>2 DEF Creators
    <3>4. next_value > 0
      BY DEF Values, Types
    <3> HIDE DEF g
    <3>5. ASSUME NEW f \in Fences PROVE Held(f)' /\ Fresh(f)'
      <4> Held(f) /\ Fresh(f)
        BY DEF FencesHeld
      <4>1. Created(f)' <=> Created(f)
        BY <3>1 DEF Created
      <4>2. CASE f # g
        <5>1. Pending(f)' <=> Pending(f)
          BY <3>1, <4>2 DEF Pending, Types, g
        <5>2. value'[f] = value[f] /\ (f \in active_fences' <=> f \in active_fences)
          BY <3>1, <4>2 DEF Types
        <5> QED
          BY <3>1, <4>1, <5>1, <5>2, FenceFrame
      <4>3. CASE f = g
        <5>1. Created(f) /\ Pending(f) /\ ~Pending(f)'
          BY <3>1, <3>3, <4>3 DEF Created, Pending, Types, g
        <5>2. value[f] = 0 /\ f \notin active_fences /\ users[f] = 0
          BY <5>1 DEF Held, Fresh
        <5>3. f \in active_fences' /\ value'[f] = next_value
          BY <3>1, <4>3 DEF Types
        <5>4. RefsOf(f)' = RefsOf(f) /\ RefsOf(f) = 2
          <6>1. /\ One(Created(f)') = 1 /\ One(Pending(f)') = 0
                /\ One(f \in active_fences') = 1 /\ users'[f] = 0
                /\ One(Created(f)) = 1 /\ One(Pending(f)) = 1 /\ One(f \in active_fences) = 0
            BY <3>1, <4>1, <5>1, <5>2, <5>3 DEF One
          <6> QED
            BY <5>2, <6>1 DEF RefsOf
        <5>5. refcount'[f] = 2 /\ rel'[f] = "none"
          BY <3>1, <5>4 DEF Held
        <5>6. Held(f)'
          BY <3>1, <3>4, <5>1, <5>2, <5>3, <5>4, <5>5 DEF Held
        <5> QED
          BY <3>4, <5>3, <5>6 DEF Fresh
      <4> QED
        BY <4>2, <4>3
    <3> QED
      BY <3>5 DEF FencesHeld
  <2>5. CASE SyncFile(t)
    <3> DEFINE g == fence_of[t]
    <3>1. /\ pc[t] = "sync_file" /\ fence_of' = [fence_of EXCEPT ![t] = NoFence]
          /\ UNCHANGED <<active_fences, value, signaled>>
          /\ \/ users' = [users EXCEPT ![g] = 1] /\ UNCHANGED <<refcount, rel>>
             \/ PutFences({g}) /\ UNCHANGED users
      BY <2>5 DEF SyncFile, countVars
    <3>2. /\ pc' = [pc EXCEPT ![t] = pc'[t]] /\ pc'[t] # "point"
      BY <2>5 DEF SyncFile, Types
    <3>3. g \in Fences /\ g # NoFence
      BY <3>1 DEF Creators, Types
    <3>4. \A u \in Threads : fence_of[u] = g => u = t
      BY <3>3 DEF Creators
    <3> HIDE DEF g
    <3>5. ASSUME NEW f \in Fences PROVE Held(f)' /\ Fresh(f)'
      <4> Held(f) /\ Fresh(f)
        BY DEF FencesHeld
      <4>1. CASE f # g
        <5>1. Created(f)' <=> Created(f)
          BY <3>1, <4>1 DEF Created, Types, g
        <5>2. Pending(f)' <=> Pending(f)
          BY <3>1, <3>2, <4>1 DEF Pending, Types, g
        <5>3. users'[f] = users[f] /\ refcount'[f] = refcount[f] /\ rel'[f] = rel[f]
          BY <3>1, <4>1 DEF Types, PutFences
        <5> QED
          BY <3>1, <5>1, <5>2, <5>3, FenceFrame
      <4>2. CASE f = g
        <5>1. Created(f) /\ ~Pending(f)
          BY <3>1, <3>4, <4>2 DEF Created, Pending, g
        <5>2. ~Created(f)' /\ ~Pending(f)'
          BY <3>1, <3>3, <3>4, <4>2 DEF Created, Pending, Types, g
        <5>3. users[f] = 0 /\ value[f] # 0 /\ value'[f] # 0
          BY <3>1, <5>1 DEF Held
        <5>4. Fresh(f)'
          BY <5>3 DEF Fresh
        <5>5. /\ One(Created(f)') = 0 /\ One(Pending(f)') = 0
              /\ One(Created(f)) = 1 /\ One(Pending(f)) = 0
              /\ One(f \in active_fences') = One(f \in active_fences)
              /\ One(f \in active_fences) \in {0, 1}
          BY <3>1, <5>1, <5>2 DEF One
        <5>6. CASE users' = [users EXCEPT ![g] = 1] /\ UNCHANGED <<refcount, rel>>
          <6>1. users'[f] = 1
            BY <4>2, <5>6 DEF Types
          <6>2. RefsOf(f)' = RefsOf(f) /\ RefsOf(f) > 0
            BY <5>3, <5>5, <6>1 DEF RefsOf
          <6>3. refcount'[f] = RefsOf(f)' /\ rel'[f] = "none" /\ refcount'[f] > 0
            BY <5>6, <6>2 DEF Held
          <6>4. Held(f)'
            BY <5>2, <6>3 DEF Held
          <6> QED
            BY <5>4, <6>4
        <5>7. CASE PutFences({g}) /\ UNCHANGED users
          <6>1. /\ refcount'[f] = refcount[f] - 1
                /\ rel'[f] = IF refcount[f] = 1 THEN "count" ELSE rel[f]
            BY <4>2, <5>7 DEF PutFences
          <6> DEFINE n == One(f \in active_fences)
          <6>2. n \in Nat /\ RefsOf(f) = n + 1 /\ RefsOf(f)' = n
            BY <5>3, <5>5, <5>7 DEF RefsOf
          <6> HIDE DEF n
          <6>3. Held(f)'
            BY <5>2, <6>1, <6>2, PutOne
          <6> QED
            BY <5>4, <6>3
        <5> QED
          BY <3>1, <5>6, <5>7
      <4> QED
        BY <4>1, <4>2
    <3> QED
      BY <3>5 DEF FencesHeld
  <2> QED
    BY <1>3, <2>1, <2>2, <2>3, <2>4, <2>5 DEF ThreadNext
<1>4. ASSUME NEW g \in Fences, FenceNext(g) PROVE FencesHeld'
  <2>0. UNCHANGED <<callVars, active_fences, value, signaled>>
    BY <1>4 DEF FenceNext, UserPut, ReleaseCount, ReleaseKref, countVars
  <2>1. ASSUME NEW f \in Fences PROVE Held(f)' /\ Fresh(f)'
    <3> Held(f) /\ Fresh(f)
      BY DEF FencesHeld
    <3>1. (Created(f)' <=> Created(f)) /\ (Pending(f)' <=> Pending(f))
      BY <1>1, <2>0
    <3>2. CASE f # g
      <4>1. users'[f] = users[f] /\ refcount'[f] = refcount[f] /\ rel'[f] = rel[f]
        BY <1>4, <3>2 DEF FenceNext, UserPut, ReleaseCount, ReleaseKref, PutFences, Types
      <4> QED
        BY <2>0, <3>1, <4>1, FenceFrame
    <3>3. CASE f = g /\ UserPut(g)
      <4>1. /\ users[f] = 1 /\ users'[f] = 0 /\ refcount'[f] = refcount[f] - 1
            /\ rel'[f] = IF refcount[f] = 1 THEN "count" ELSE rel[f]
        BY <3>3 DEF UserPut, PutFences, Types
      <4>2. /\ One(Created(f)') = One(Created(f)) /\ One(Pending(f)') = One(Pending(f))
            /\ One(f \in active_fences') = One(f \in active_fences)
        BY <2>0, <3>1 DEF One
      <4>3. /\ One(Created(f)) \in {0, 1} /\ One(Pending(f)) \in {0, 1}
            /\ One(f \in active_fences) \in {0, 1}
        BY OneType
      <4> DEFINE n == One(Created(f)) + One(Pending(f)) + One(f \in active_fences)
      <4>4. n \in Nat /\ RefsOf(f) = n + 1 /\ RefsOf(f)' = n
        BY <4>1, <4>2, <4>3 DEF RefsOf
      <4> HIDE DEF n
      <4>5. Created(f)' => users'[f] = 0 /\ (Pending(f)' <=> value'[f] = 0)
        BY <2>0, <3>1, <4>1 DEF Held
      <4>6. Held(f)'
        BY <4>1, <4>4, <4>5, PutOne
      <4> QED
        BY <2>0, <4>1, <4>6 DEF Fresh
    <3>4. CASE f = g /\ (ReleaseCount(g) \/ ReleaseKref(g))
      <4>1. /\ rel[f] # "none" /\ rel'[f] # "none" /\ UNCHANGED <<users, refcount>>
        BY <3>4 DEF ReleaseCount, ReleaseKref, Types
      <4>2. /\ One(Created(f)') = One(Created(f)) /\ One(Pending(f)') = One(Pending(f))
            /\ One(f \in active_fences') = One(f \in active_fences)
        BY <2>0, <3>1 DEF One
      <4>3. RefsOf(f)' = RefsOf(f)
        BY <4>1, <4>2 DEF RefsOf
      <4>4. Held(f)'
        BY <2>0, <3>1, <4>1, <4>3 DEF Held
      <4> QED
        BY <2>0, <4>1, <4>4 DEF Fresh
    <3> QED
      BY <1>4, <3>2, <3>3, <3>4 DEF FenceNext
  <2> QED
    BY <2>1 DEF FencesHeld
<1>5. CASE HandleNext
  <2>1. CASE TimelineAdvance
    <3>1. Inc /\ UNCHANGED <<users, value, callVars>>
      BY <2>1 DEF TimelineAdvance
    <3> QED
      BY <1>1, <3>1, IncHeld
  <2>2. CASE TimelineGet \/ TimelineRelease
    BY <1>2, <2>2 DEF TimelineGet, TimelineRelease, countVars, fenceVars
  <2> QED
    BY <1>5, <2>1, <2>2 DEF HandleNext
<1>6. CASE LifeNext
  <2>1. CASE ForceComplete
    <3>1. SignalAll(active_fences) /\ UNCHANGED <<users, value, callVars>>
      BY <2>1 DEF ForceComplete
    <3> QED
      BY <1>1, <3>1, SignalHeld
  <2>2. CASE CloseFd \/ ClosePut \/ Unregister \/ DestroyContext
    BY <1>2, <2>2 DEF CloseFd, ClosePut, Unregister, DestroyContext, countVars, fenceVars
  <2> QED
    BY <1>6, <2>1, <2>2 DEF LifeNext
<1>7. CASE DumpNext
  BY <1>2, <1>7 DEF DumpNext, DumpBegin, DumpEnd, countVars, fenceVars
<1>8. CASE UNCHANGED vars
  BY <1>2, <1>8 DEF vars, countVars, fenceVars
<1> QED
  BY <1>3, <1>4, <1>5, <1>6, <1>7, <1>8 DEF Next

-----------------------------------------------------------------------------
(* The values.                                                             *)

(* Whoever has the file finds the timeline open.                           *)
LEMMA FileHeld ==
  ASSUME Types, Files, fd_open \/ \E t \in Threads : has_file[t]
  PROVE  closing = "no"
<1>1. Cardinality(Holders) \in Nat
  BY FS_CardinalityType DEF Files
<1>2. CASE fd_open
  BY <1>1, <1>2 DEF Files, One
<1>3. CASE \E t \in Threads : has_file[t]
  <2>1. Holders # {}
    BY <1>3 DEF Holders
  <2>2. Cardinality(Holders) > 0
    BY <1>1, <2>1, FS_EmptySet DEF Files
  <2>3. One(fd_open) \in {0, 1}
    BY OneType
  <2> QED
    BY <1>1, <2>2, <2>3 DEF Files
<1> QED
  BY <1>2, <1>3

(* What a step is to the values and to those who wait on them.             *)
Unnoticed ==
  /\ UNCHANGED <<active_fences, value, signaled, current_value, next_value>>
  /\ Completed' <=> Completed

LEMMA StepCases ==
  ASSUME Types, Files, [Next]_vars
  PROVE  \/ \E t \in Threads : AddPoint(t)
         \/ Inc /\ UNCHANGED <<next_value, value, closing>>
         \/ ForceComplete
         \/ Unnoticed
<1>1. ASSUME UNCHANGED <<active_fences, value, signaled, current_value, next_value>>,
             \/ closing' = closing
             \/ closing = "no" /\ closing' = "force"
             \/ closing = "put" /\ closing' = "done"
      PROVE  Unnoticed
  BY <1>1 DEF Unnoticed, Completed
<1>2. ASSUME NEW t \in Threads, ThreadNext(t), ~AddPoint(t)
      PROVE  Unnoticed \/ (Inc /\ UNCHANGED <<next_value, value, closing>>)
  <2>1. CASE Fput(t)
    <3>1. closing = "no" /\ closing' \in {"no", "force"}
      BY <2>1, FileHeld DEF Fput, FilePut
    <3>2. UNCHANGED <<active_fences, value, signaled, current_value, next_value>>
      BY <2>1 DEF Fput, countVars, fenceVars
    <3> QED
      BY <1>1, <3>1, <3>2
  <2>2. CASE SwInc(t)
    BY <2>2 DEF SwInc, fileVars
  <2>3. CASE CreateBegin(t) \/ SwFenceCreate(t) \/ SwFenceFails(t) \/ SyncFile(t) \/ IncBegin(t)
    BY <1>1, <2>3
       DEF CreateBegin, SwFenceCreate, SwFenceFails, SyncFile, IncBegin, fileVars, countVars, fenceVars
  <2> QED
    BY <1>2, <2>1, <2>2, <2>3 DEF ThreadNext
<1>3. ASSUME NEW f \in Fences, FenceNext(f) PROVE Unnoticed
  BY <1>1, <1>3 DEF FenceNext, UserPut, ReleaseCount, ReleaseKref, fileVars, countVars
<1>4. CASE HandleNext
  <2>1. CASE TimelineAdvance
    BY <2>1 DEF TimelineAdvance, fileVars
  <2>2. CASE TimelineGet \/ TimelineRelease
    BY <1>1, <2>2 DEF TimelineGet, TimelineRelease, countVars, fenceVars
  <2> QED
    BY <1>4, <2>1, <2>2 DEF HandleNext
<1>5. ASSUME LifeNext, ~ForceComplete PROVE Unnoticed
  <2>1. CASE CloseFd
    <3>1. closing = "no" /\ closing' \in {"no", "force"}
      BY <2>1, FileHeld DEF CloseFd, FilePut
    <3>2. UNCHANGED <<active_fences, value, signaled, current_value, next_value>>
      BY <2>1 DEF CloseFd, countVars, fenceVars
    <3> QED
      BY <1>1, <3>1, <3>2
  <2>2. CASE ClosePut
    BY <2>2, <1>1 DEF ClosePut, countVars, fenceVars
  <2>3. CASE Unregister \/ DestroyContext
    BY <2>3, <1>1 DEF Unregister, DestroyContext, fileVars, countVars, fenceVars
  <2> QED
    BY <1>5, <2>1, <2>2, <2>3 DEF LifeNext
<1>6. CASE DumpNext
  BY <1>1, <1>6 DEF DumpNext, DumpBegin, DumpEnd, fileVars, countVars, fenceVars
<1>7. CASE UNCHANGED vars
  BY <1>1, <1>7 DEF vars, fileVars, countVars, fenceVars
<1> QED
  BY <1>2, <1>3, <1>4, <1>5, <1>6, <1>7 DEF Next

(* What defining a point does: its fence is new, and nobody has closed the *)
(* timeline.                                                               *)
LEMMA PointIsNew ==
  ASSUME Types, Files, Creators, FencesHeld, NEW t \in Threads, AddPoint(t)
  PROVE  \E g \in Fences :
           /\ value[g] = 0 /\ ~signaled[g] /\ ~Completed /\ ~Completed'
           /\ value' = [value EXCEPT ![g] = next_value] /\ next_value' = next_value + 1
           /\ active_fences' = active_fences \cup {g}
           /\ UNCHANGED <<signaled, current_value>>
<1>1. /\ pc[t] = "point" /\ next_value' = next_value + 1
      /\ value' = [value EXCEPT ![fence_of[t]] = next_value]
      /\ active_fences' = active_fences \cup {fence_of[t]}
      /\ UNCHANGED <<signaled, current_value, closing>>
  BY DEF AddPoint, fileVars, fenceVars
<1>2. fence_of[t] \in Fences /\ Created(fence_of[t]) /\ Pending(fence_of[t])
  BY <1>1 DEF Creators, Types, Created, Pending
<1>3. value[fence_of[t]] = 0 /\ ~signaled[fence_of[t]]
  BY <1>2 DEF FencesHeld, Held, Fresh
<1>4. closing = "no"
  BY <1>1, FileHeld DEF Files
<1>5. ~Completed /\ ~Completed'
  BY <1>1, <1>4 DEF Completed
<1> QED
  BY <1>1, <1>2, <1>3, <1>5

LEMMA ValuesStep ==
  ASSUME Types, Files, Creators, FencesHeld, Values, [Next]_vars
  PROVE  Values'
<1> USE DEF Types
<1>1. CASE \E t \in Threads : AddPoint(t)
  <2>1. PICK g \in Fences :
           /\ value[g] = 0 /\ ~signaled[g] /\ ~Completed /\ ~Completed'
           /\ value' = [value EXCEPT ![g] = next_value] /\ next_value' = next_value + 1
           /\ active_fences' = active_fences \cup {g}
           /\ UNCHANGED <<signaled, current_value>>
    BY <1>1, PointIsNew
  <2>2. \A f \in Fences : f # g => value'[f] = value[f]
    BY <2>1
  <2>3. value'[g] = next_value /\ next_value > 0
    BY <2>1 DEF Values
  <2>4. current_value' < next_value' /\ \A f \in Fences : value'[f] < next_value'
    BY <2>1, <2>2, <2>3 DEF Values
  <2>5. \A v \in 1 .. next_value' - 1 : \E f \in Fences : value'[f] = v
    <3> SUFFICES ASSUME NEW v \in 1 .. next_value' - 1 PROVE \E f \in Fences : value'[f] = v
      OBVIOUS
    <3>1. CASE v = next_value
      BY <2>3, <3>1
    <3>2. CASE v # next_value
      <4>1. v \in 1 .. next_value - 1
        BY <2>1, <3>2
      <4>2. PICK f \in Fences : value[f] = v
        BY <4>1 DEF Values
      <4>3. f # g
        BY <2>1, <4>1, <4>2
      <4> QED
        BY <2>2, <4>2, <4>3
    <3> QED
      BY <3>1, <3>2
  <2>6. SignalledExactly'
    <3>1. ASSUME NEW f \in Fences, value'[f] > 0
          PROVE  signaled'[f] <=> value'[f] <= current_value' \/ Completed'
      <4>1. CASE f = g
        BY <2>1, <2>3, <4>1 DEF Values
      <4>2. CASE f # g
        BY <2>1, <2>2, <3>1, <4>2 DEF Values, SignalledExactly
      <4> QED
        BY <4>1, <4>2
    <3>2. ASSUME NEW f \in Fences, NEW h \in Fences, value'[f] = value'[h], value'[f] > 0
          PROVE  f = h
      <4>1. \A x \in Fences : value[x] < next_value
        BY DEF Values
      <4> QED
        BY <2>2, <2>3, <3>2, <4>1 DEF Values, SignalledExactly
    <3> QED
      BY <3>1, <3>2 DEF SignalledExactly
  <2>7. \A f \in Fences : value'[f] > 0 => (f \in active_fences' <=> ~signaled'[f])
    BY <2>1, <2>2 DEF Values
  <2> QED
    BY <2>4, <2>5, <2>6, <2>7 DEF Values
<1>2. ASSUME UNCHANGED <<next_value, value>>, current_value' < next_value, SignalledExactly',
             \A f \in Fences : value[f] > 0 => (f \in active_fences' <=> ~signaled'[f])
      PROVE  Values'
  BY <1>2 DEF Values
<1>3. ASSUME NEW S \in SUBSET active_fences, SignalAll(S), UNCHANGED value
      PROVE  /\ \A f \in Fences : signaled'[f] <=> f \in S \/ signaled[f]
             /\ \A f \in Fences : value[f] > 0 => (f \in active_fences' <=> ~signaled'[f])
  <2>1. \A f \in Fences : signaled'[f] <=> f \in S \/ signaled[f]
    BY <1>3 DEF SignalAll
  <2>2. active_fences' = active_fences \ S
    BY <1>3 DEF SignalAll
  <2> QED
    BY <2>1, <2>2 DEF Values
<1>4. ASSUME Inc, UNCHANGED <<next_value, value, closing>> PROVE Values'
  <2>0. Completed' <=> Completed
    BY <1>4 DEF Completed
  <2>1. CASE UNCHANGED <<current_value, active_fences, signaled>>
    BY <1>2, <1>4, <2>0, <2>1 DEF Values, SignalledExactly
  <2>2. ASSUME current_value # next_value - 1, current_value' = current_value + 1,
               SignalAll({f \in active_fences : value[f] <= current_value + 1})
        PROVE  Values'
    <3> DEFINE S == {f \in active_fences : value[f] <= current_value + 1}
    <3>1. /\ \A f \in Fences : signaled'[f] <=> f \in S \/ signaled[f]
          /\ \A f \in Fences : value[f] > 0 => (f \in active_fences' <=> ~signaled'[f])
      BY <1>3, <1>4, <2>2
    <3>2. current_value' < next_value
      BY <2>2 DEF Values
    <3>3. ASSUME NEW f \in Fences, value[f] > 0
          PROVE  signaled'[f] <=> value[f] <= current_value + 1 \/ Completed
      <4>1. signaled[f] <=> value[f] <= current_value \/ Completed
        BY <3>3 DEF Values, SignalledExactly
      <4>2. f \in active_fences <=> ~signaled[f]
        BY <3>3 DEF Values
      <4>3. CASE Completed
        BY <3>1, <4>1, <4>3
      <4>4. CASE ~Completed
        BY <3>1, <4>1, <4>2, <4>4
      <4> QED
        BY <4>3, <4>4
    <3>4. SignalledExactly'
      BY <1>4, <2>0, <2>2, <3>3 DEF Values, SignalledExactly
    <3> QED
      BY <1>2, <1>4, <3>1, <3>2, <3>4
  <2> QED
    BY <1>4, <2>1, <2>2, IncDoes
<1>5. CASE ForceComplete
  <2>1. /\ SignalAll(active_fences) /\ closing' = "put"
        /\ UNCHANGED <<value, next_value, current_value>>
    BY <1>5 DEF ForceComplete
  <2>2. /\ \A f \in Fences : signaled'[f] <=> f \in active_fences \/ signaled[f]
        /\ \A f \in Fences : value[f] > 0 => (f \in active_fences' <=> ~signaled'[f])
    BY <1>3, <2>1
  <2>3. Completed'
    BY <2>1 DEF Completed
  <2>4. SignalledExactly'
    BY <2>1, <2>2, <2>3 DEF Values, SignalledExactly
  <2>5. current_value' < next_value
    BY <2>1 DEF Values
  <2> QED
    BY <1>2, <2>1, <2>2, <2>4, <2>5
<1>6. CASE Unnoticed
  <2>1. /\ UNCHANGED <<active_fences, value, signaled, current_value, next_value>>
        /\ Completed' <=> Completed
    BY <1>6 DEF Unnoticed
  <2>2. SignalledExactly'
    BY <2>1 DEF Values, SignalledExactly
  <2> QED
    BY <1>2, <2>1, <2>2 DEF Values
<1> QED
  BY <1>1, <1>4, <1>5, <1>6, StepCases

-----------------------------------------------------------------------------
(* The context.                                                            *)
LEMMA ContextFrame ==
  ASSUME Context, Unreleased' = Unreleased, Counted' = Counted,
         UNCHANGED <<ctx_kref, ctx_freed, fence_count>>,
         destroying' = "freed" <=> destroying = "freed"
  PROVE  Context'
<1>1. One((destroying # "freed")') = One(destroying # "freed")
  BY DEF One
<1> QED
  BY <1>1 DEF Context

(* Whoever has a fence has a reference.                                    *)
LEMMA Referenced ==
  ASSUME Types, FencesHeld, NEW f \in Fences,
         f \in active_fences \/ users[f] = 1 \/ Created(f)
  PROVE  refcount[f] > 0
<1>1. Held(f) /\ refcount[f] \in Int
  BY DEF FencesHeld, Types
<1>2. refcount[f] = RefsOf(f) /\ RefsOf(f) >= 0
  <2>1. /\ One(Created(f)) \in {0, 1} /\ One(Pending(f)) \in {0, 1}
        /\ One(f \in active_fences) \in {0, 1} /\ users[f] \in {0, 1}
    BY OneType DEF Types
  <2> QED
    BY <1>1, <2>1 DEF Held, RefsOf
<1>3. refcount[f] # 0
  BY <1>1, Unreferenced
<1> QED
  BY <1>1, <1>2, <1>3

(* Putting references releases no fence yet.                               *)
LEMMA PutReleases ==
  ASSUME Types, NEW F, PutFences(F), \A f \in F \cap Fences : refcount[f] > 0
  PROVE  Unreleased' = Unreleased /\ Counted' = Counted
<1>1. ASSUME NEW f \in Fences
      PROVE  /\ (refcount'[f] > 0 \/ rel'[f] = "count") <=> (refcount[f] > 0 \/ rel[f] = "count")
             /\ (refcount'[f] > 0 \/ rel'[f] \in {"count", "kref"})
                  <=> (refcount[f] > 0 \/ rel[f] \in {"count", "kref"})
  <2>1. CASE f \in F
    <3>1. /\ refcount[f] \in Int /\ refcount[f] > 0 /\ refcount'[f] = refcount[f] - 1
          /\ rel'[f] = IF refcount[f] = 1 THEN "count" ELSE rel[f]
      BY <2>1 DEF PutFences, Types
    <3> QED
      BY <3>1
  <2>2. CASE f \notin F
    BY <2>2 DEF PutFences
  <2> QED
    BY <2>1, <2>2
<1> QED
  BY <1>1 DEF Unreleased, Counted

LEMMA SignalReleases ==
  ASSUME Types, FencesHeld, NEW S \in SUBSET active_fences, SignalAll(S)
  PROVE  Unreleased' = Unreleased /\ Counted' = Counted
BY PutReleases, Referenced DEF SignalAll

LEMMA IncReleases ==
  ASSUME Types, FencesHeld, Inc
  PROVE  Unreleased' = Unreleased /\ Counted' = Counted
<1>1. CASE UNCHANGED <<refcount, rel>>
  BY <1>1 DEF Unreleased, Counted
<1>2. CASE SignalAll({f \in active_fences : value[f] <= current_value + 1})
  BY <1>2, SignalReleases
<1> QED
  BY <1>1, <1>2, IncDoes

LEMMA ContextStep ==
  ASSUME Types, Files, Lives, Creators, FencesHeld, Context, [Next]_vars
  PROVE  Context'
<1>1. ASSUME UNCHANGED <<refcount, rel, ctx_kref, ctx_freed, fence_count>>,
             destroying' = "freed" <=> destroying = "freed"
      PROVE  Context'
  BY <1>1, ContextFrame DEF Unreleased, Counted
<1>2. ASSUME NEW t \in Threads, ThreadNext(t) PROVE Context'
  <2>0. destroying' = destroying
    BY <1>2 DEF ThreadNext, CreateBegin, SwFenceCreate, SwFenceFails, AddPoint, SyncFile, Fput,
                IncBegin, SwInc, lifeVars
  <2>1. CASE CreateBegin(t) \/ SwFenceFails(t) \/ Fput(t) \/ IncBegin(t) \/ AddPoint(t)
    <3>1. UNCHANGED <<refcount, rel, ctx_kref, ctx_freed, fence_count>>
      BY <2>1 DEF CreateBegin, SwFenceFails, Fput, IncBegin, AddPoint, fenceVars, ctxVars
    <3> QED
      BY <1>1, <2>0, <3>1
  <2>2. CASE SwInc(t)
    <3>1. Inc /\ UNCHANGED <<ctx_kref, ctx_freed, fence_count>>
      BY <2>2 DEF SwInc, ctxVars
    <3> QED
      BY <2>0, <3>1, IncReleases, ContextFrame
  <2>3. CASE SyncFile(t)
    <3>1. /\ UNCHANGED <<ctx_kref, ctx_freed, fence_count>>
          /\ UNCHANGED <<refcount, rel>> \/ PutFences({fence_of[t]})
          /\ pc[t] = "sync_file"
      BY <2>3 DEF SyncFile, ctxVars
    <3>2. \A f \in {fence_of[t]} \cap Fences : refcount[f] > 0
      BY Referenced DEF Created
    <3>3. Unreleased' = Unreleased /\ Counted' = Counted
      BY <3>1, <3>2, PutReleases DEF Unreleased, Counted
    <3> QED
      BY <2>0, <3>1, <3>3, ContextFrame
  <2>4. CASE SwFenceCreate(t)
    <3>1. PICK g \in Fences :
            refcount[g] = 0 /\ rel[g] = "none" /\ refcount' = [refcount EXCEPT ![g] = 2]
      BY <2>4 DEF SwFenceCreate
    <3>2. /\ pc[t] = "sw_fence" /\ fence_count' = fence_count + 1 /\ ctx_kref' = ctx_kref + 1
          /\ UNCHANGED <<rel, ctx_freed>>
      BY <2>4 DEF SwFenceCreate
    <3>3. g \notin Unreleased /\ g \notin Counted
      BY <3>1 DEF Unreleased, Counted
    <3>4. Unreleased' = Unreleased \cup {g} /\ Counted' = Counted \cup {g}
      <4>1. refcount'[g] > 0
        BY <3>1 DEF Types
      <4>2. \A f \in Fences : f # g => refcount'[f] = refcount[f]
        BY <3>1 DEF Types
      <4> QED
        BY <3>2, <4>1, <4>2 DEF Unreleased, Counted
    <3>5. /\ IsFiniteSet(Unreleased') /\ IsFiniteSet(Counted')
          /\ Cardinality(Unreleased') = Cardinality(Unreleased) + 1
          /\ Cardinality(Counted') = Cardinality(Counted) + 1
          /\ Cardinality(Unreleased) \in Nat /\ Cardinality(Counted) \in Nat
      BY <3>3, <3>4, FS_AddElement, FS_CardinalityType DEF Context
    <3>6. One(destroying' # "freed") = One(destroying # "freed") /\ One(destroying # "freed") \in {0, 1}
      BY <2>0, OneType
    <3>7. ~ctx_freed
      <4>1. closing = "no"
        BY <3>2, FileHeld DEF Files
      <4>2. destroying = "no"
        BY <4>1 DEF Lives, One, Types
      <4> QED
        BY <4>2, <3>5 DEF Context, One
    <3>8. ctx_kref' # 0
      BY <3>2, <3>5, <3>6 DEF Context
    <3> QED
      BY <3>2, <3>5, <3>6, <3>7, <3>8 DEF Context
  <2> QED
    BY <1>2, <2>1, <2>2, <2>3, <2>4 DEF ThreadNext
<1>3. ASSUME NEW g \in Fences, FenceNext(g) PROVE Context'
  <2>0. destroying' = destroying
    BY <1>3 DEF FenceNext, UserPut, ReleaseCount, ReleaseKref, lifeVars
  <2>1. CASE UserPut(g)
    <3>1. UNCHANGED <<ctx_kref, ctx_freed, fence_count>> /\ PutFences({g}) /\ users[g] = 1
      BY <2>1 DEF UserPut, ctxVars
    <3>2. Unreleased' = Unreleased /\ Counted' = Counted
      BY <3>1, PutReleases, Referenced
    <3> QED
      BY <2>0, <3>1, <3>2, ContextFrame
  <2>2. CASE ReleaseCount(g)
    <3>1. /\ rel[g] = "count" /\ rel' = [rel EXCEPT ![g] = "kref"]
          /\ fence_count' = fence_count - 1 /\ UNCHANGED <<ctx_kref, ctx_freed, refcount>>
      BY <2>2 DEF ReleaseCount
    <3>2. ~(refcount[g] > 0)
      BY <3>1 DEF FencesHeld, Held
    <3>3. /\ g \in Counted /\ Counted' = Counted \ {g} /\ Unreleased' = Unreleased
      BY <3>1, <3>2 DEF Counted, Unreleased, Types
    <3>4. /\ IsFiniteSet(Counted') /\ Cardinality(Counted') = Cardinality(Counted) - 1
          /\ Cardinality(Counted) \in Nat
      BY <3>3, FS_RemoveElement, FS_CardinalityType DEF Context
    <3>5. One((destroying # "freed")') = One(destroying # "freed")
      BY <2>0
    <3> QED
      BY <3>1, <3>3, <3>4, <3>5 DEF Context
  <2>3. CASE ReleaseKref(g)
    <3>1. /\ rel[g] = "kref" /\ rel' = [rel EXCEPT ![g] = "freed"]
          /\ ctx_kref' = ctx_kref - 1 /\ ctx_freed' = (ctx_kref = 1)
          /\ UNCHANGED <<fence_count, refcount>>
      BY <2>3 DEF ReleaseKref, CtxPut
    <3>2. ~(refcount[g] > 0)
      BY <3>1 DEF FencesHeld, Held
    <3>3. /\ g \in Unreleased /\ Unreleased' = Unreleased \ {g} /\ Counted' = Counted
      BY <3>1, <3>2 DEF Counted, Unreleased, Types
    <3>4. /\ IsFiniteSet(Unreleased') /\ Cardinality(Unreleased') = Cardinality(Unreleased) - 1
          /\ Cardinality(Unreleased) \in Nat
      BY <3>3, FS_RemoveElement, FS_CardinalityType DEF Context
    <3>5. One((destroying # "freed")') = One(destroying # "freed")
      BY <2>0
    <3>6. ctx_kref' = Cardinality(Unreleased') + One((destroying # "freed")')
      BY <3>1, <3>4, <3>5, OneType DEF Context
    <3>7. ctx_freed' <=> ctx_kref' = 0
      <4>1. ctx_freed' <=> ctx_kref = 1
        BY <3>1, Zenon
      <4>2. ctx_kref = 1 <=> ctx_kref' = 0
        BY <3>1 DEF Types
      <4> QED
        BY <4>1, <4>2
    <3> QED
      BY <3>1, <3>3, <3>4, <3>6, <3>7 DEF Context
  <2> QED
    BY <1>3, <2>1, <2>2, <2>3 DEF FenceNext
<1>4. CASE HandleNext
  <2>1. CASE TimelineAdvance
    <3>1. Inc /\ UNCHANGED <<ctx_kref, ctx_freed, fence_count, destroying>>
      BY <2>1 DEF TimelineAdvance, ctxVars, lifeVars
    <3> QED
      BY <3>1, IncReleases, ContextFrame
  <2>2. CASE TimelineGet
    BY <1>1, <2>2 DEF TimelineGet, ctxVars, fenceVars
  <2>3. CASE TimelineRelease
    <3>1. destroying' = destroying \/ (destroying = "no" /\ destroying' = "unregister")
      BY <2>3, CountingAssumption DEF TimelineRelease, TimelinePut, Lives, Types
    <3>2. UNCHANGED <<refcount, rel, ctx_kref, ctx_freed, fence_count>>
      BY <2>3 DEF TimelineRelease, ctxVars, fenceVars
    <3> QED
      BY <1>1, <3>1, <3>2
  <2> QED
    BY <1>4, <2>1, <2>2, <2>3 DEF HandleNext
<1>5. CASE LifeNext
  <2>1. CASE CloseFd \/ Unregister
    <3>1. destroying' = destroying \/ (destroying = "unregister" /\ destroying' = "context")
      BY <2>1 DEF CloseFd, Unregister, lifeVars
    <3>2. UNCHANGED <<refcount, rel, ctx_kref, ctx_freed, fence_count>>
      BY <2>1 DEF CloseFd, Unregister, ctxVars, fenceVars
    <3> QED
      BY <1>1, <3>1, <3>2
  <2>2. CASE ClosePut
    <3>1. destroying' = destroying \/ (destroying = "no" /\ destroying' = "unregister")
      BY <2>2, CountingAssumption DEF ClosePut, TimelinePut, Lives, Types, One
    <3>2. UNCHANGED <<refcount, rel, ctx_kref, ctx_freed, fence_count>>
      BY <2>2 DEF ClosePut, ctxVars, fenceVars
    <3> QED
      BY <1>1, <3>1, <3>2
  <2>3. CASE ForceComplete
    <3>1. SignalAll(active_fences) /\ UNCHANGED <<ctx_kref, ctx_freed, fence_count, destroying>>
      BY <2>3 DEF ForceComplete, ctxVars, lifeVars
    <3> QED
      BY <3>1, SignalReleases, ContextFrame
  <2>4. CASE DestroyContext
    <3>1. /\ destroying = "context" /\ destroying' = "freed"
          /\ ctx_kref' = ctx_kref - 1 /\ ctx_freed' = (ctx_kref = 1)
          /\ UNCHANGED <<fence_count, refcount, rel>>
      BY <2>4 DEF DestroyContext, CtxPut, fenceVars
    <3>2. Unreleased' = Unreleased /\ Counted' = Counted
      BY <3>1 DEF Unreleased, Counted
    <3>3. One((destroying # "freed")') = 0 /\ One(destroying # "freed") = 1
      BY <3>1 DEF One
    <3>4. ctx_kref' = Cardinality(Unreleased') + One((destroying # "freed")')
      BY <3>1, <3>2, <3>3, FS_CardinalityType DEF Context
    <3>5. ctx_freed' <=> ctx_kref' = 0
      <4>1. ctx_freed' <=> ctx_kref = 1
        BY <3>1, Zenon
      <4>2. ctx_kref = 1 <=> ctx_kref' = 0
        BY <3>1 DEF Types
      <4> QED
        BY <4>1, <4>2
    <3> QED
      BY <3>1, <3>2, <3>4, <3>5 DEF Context
  <2> QED
    BY <1>5, <2>1, <2>2, <2>3, <2>4 DEF LifeNext
<1>6. CASE DumpNext
  BY <1>1, <1>6 DEF DumpNext, DumpBegin, DumpEnd, ctxVars, fenceVars
<1>7. CASE UNCHANGED vars
  BY <1>1, <1>7 DEF vars, ctxVars, fenceVars, lifeVars
<1> QED
  BY <1>2, <1>3, <1>4, <1>5, <1>6, <1>7 DEF Next

-----------------------------------------------------------------------------
(* The invariant, and what follows from it.                                *)
LEMMA Step == IInv /\ [Next]_vars => IInv'
BY TypeStep, FilesStep, LivesStep, CreatorsStep, FencesHeldStep, ValuesStep, ContextStep DEF IInv

THEOREM Inductive == Spec => []IInv
BY InitIInv, Step, PTL DEF Spec

LEMMA FinishedIsDone ==
  ASSUME IInv, destroying # "no"
  PROVE  closing = "done" /\ handles = 0
BY DEF IInv, Lives, Types, One

LEMMA CountsAreNatural == IInv => TypeOK
<1> SUFFICES ASSUME IInv PROVE TypeOK
  OBVIOUS
<1> USE DEF IInv
<1>1. file_refs \in Nat
  BY OneType, FS_CardinalityType DEF Files
<1>2. kref \in Nat
  BY OneType DEF Lives, Types
<1>3. ctx_kref \in Nat /\ fence_count \in Nat
  BY OneType, FS_CardinalityType DEF Context
<1>4. refcount \in [Fences -> Nat]
  <2>1. ASSUME NEW f \in Fences PROVE refcount[f] \in Nat
    <3>1. /\ One(Created(f)) \in {0, 1} /\ One(Pending(f)) \in {0, 1}
          /\ One(f \in active_fences) \in {0, 1} /\ users[f] \in {0, 1}
      BY OneType DEF Types
    <3> QED
      BY <3>1 DEF FencesHeld, Held, RefsOf
  <2> QED
    BY <2>1 DEF Types
<1> QED
  BY <1>1, <1>2, <1>3, <1>4 DEF TypeOK, Types

LEMMA HoldersFindAll == IInv => NothingDangles
<1> SUFFICES ASSUME IInv PROVE NothingDangles
  OBVIOUS
<1> USE DEF IInv
<1>1. (handles > 0 \/ dumping \/ registered
          \/ \E t \in Threads : pc[t] \in {"sw_fence", "point", "inc"})
        => destroying \in {"no", "unregister"}
  <2>1. handles > 0 \/ closing = "no" => destroying = "no"
    BY FinishedIsDone
  <2>2. (\E t \in Threads : pc[t] \in {"sw_fence", "point", "inc"}) => closing = "no"
    BY FileHeld DEF Files
  <2>3. dumping \/ registered => destroying \in {"no", "unregister"}
    BY DEF Lives
  <2> QED
    BY <2>1, <2>2, <2>3
<1>2. \A f \in Fences : refcount[f] > 0 => rel[f] = "none"
  BY DEF FencesHeld, Held
<1>3. \A f \in active_fences : rel[f] = "none" /\ refcount[f] > 0
  BY <1>2, Referenced DEF Types
<1>4. \A t \in Threads : fence_of[t] # NoFence => rel[fence_of[t]] = "none"
  BY <1>2, Referenced DEF Types, Created
<1>5. destroying # "freed" => ~ctx_freed
  BY FS_CardinalityType DEF Context, One
<1>6. ASSUME NEW f \in Fences, refcount[f] > 0 \/ rel[f] \in {"count", "kref"}
      PROVE  ~ctx_freed
  <2>1. f \in Unreleased
    BY <1>6 DEF Unreleased
  <2>2. Cardinality(Unreleased) \in Nat /\ Cardinality(Unreleased) # 0
    BY <2>1, FS_EmptySet, FS_CardinalityType DEF Context
  <2> QED
    BY <2>2, OneType DEF Context
<1>7. ASSUME destroying # "no" PROVE active_fences = {}
  <2>1. Completed
    BY <1>7, FinishedIsDone DEF Completed
  <2>2. ASSUME NEW f \in active_fences PROVE FALSE
    <3>1. f \in Fences /\ value[f] > 0
      BY DEF FencesHeld, Fresh, Types
    <3> QED
      BY <2>1, <3>1 DEF Values, SignalledExactly
  <2> QED
    BY <2>2
<1>8. ASSUME destroying # "no", NEW t \in Threads PROVE pc[t] # "point"
  BY <1>8, FinishedIsDone, FileHeld DEF Files
<1>9. ASSUME ctx_freed PROVE fence_count = 0
  <2>1. Cardinality(Unreleased) = 0
    BY <1>9, OneType, FS_CardinalityType DEF Context
  <2>2. Counted = {}
    BY <2>1, FS_EmptySet DEF Context, Counted, Unreleased
  <2> QED
    BY <2>2, FS_EmptySet DEF Context
<1> QED
  BY <1>1, <1>3, <1>4, <1>5, <1>6, <1>7, <1>8, <1>9 DEF NothingDangles

(* TypeOK, from the code: every count of the timeline is a number of       *)
(* holders, so none becomes negative.                                      *)
THEOREM TimelineTypes == Spec => []TypeOK
BY Inductive, CountsAreNatural, PTL

(* SignalledExactly: pvr_counting_fence_timeline_inc and force_complete    *)
(* signal the points reached, or all of them, and no other.                *)
THEOREM PointsSignalOnTime == Spec => []SignalledExactly
<1>1. IInv => SignalledExactly
  BY DEF IInv, Values
<1> QED
  BY <1>1, Inductive, PTL

(* NothingDangles: calls, handles, debug requests find the timeline, and   *)
(* the list, its fences and the timeline find what they refer to.  Nor do  *)
(* the WARN_ONs of the two destructors fire.                               *)
THEOREM HoldersKeepAlive == Spec => []NothingDangles
BY Inductive, HoldersFindAll, PTL

-----------------------------------------------------------------------------
(* SwTimeline.                                                             *)
Reached == {value[f] : f \in {g \in Fences : signaled[g]}}

LEMMA PromiseInit == Init => Promise!Init
<1> SUFFICES ASSUME Init PROVE Promise!Init
  OBVIOUS
<1>1. {g \in Fences : signaled[g]} = {}
  BY DEF Init
<1> QED
  BY <1>1 DEF Promise!Init, Init, Completed

LEMMA PromiseStep ==
  ASSUME IInv, [Next]_vars
  PROVE  [Promise!Next]_(Promise!vars)
<1> USE DEF IInv, Types
<1> /\ \A f \in Fences : value[f] \in Nat /\ signaled[f] \in BOOLEAN
    /\ current_value \in Nat /\ next_value \in Nat
  OBVIOUS
<1>1. CASE \E t \in Threads : AddPoint(t)
  <2>1. PICK g \in Fences :
           /\ value[g] = 0 /\ ~signaled[g] /\ ~Completed /\ ~Completed'
           /\ value' = [value EXCEPT ![g] = next_value] /\ next_value' = next_value + 1
           /\ active_fences' = active_fences \cup {g}
           /\ UNCHANGED <<signaled, current_value>>
    BY <1>1, PointIsNew
  <2>2. \A f \in Fences : signaled[f] => value'[f] = value[f]
    BY <2>1
  <2>3. Reached' = Reached
    BY <2>1, <2>2 DEF Reached
  <2>4. (next_value - 1)' = (next_value - 1) + 1
    BY <2>1
  <2>5. Completed' = Completed
    BY <2>1 DEF Completed
  <2> QED
    BY <2>1, <2>3, <2>4, <2>5 DEF Promise!Next, Promise!Define, Reached
<1>2. ASSUME Inc, UNCHANGED <<next_value, value, closing>>
      PROVE  [Promise!Next]_(Promise!vars)
  <2>0. Completed' = Completed
    BY <1>2 DEF Completed
  <2>1. CASE UNCHANGED <<current_value, active_fences, signaled>>
    BY <1>2, <2>0, <2>1 DEF Promise!vars
  <2>2. ASSUME current_value # next_value - 1, current_value' = current_value + 1,
               SignalAll({f \in active_fences : value[f] <= current_value + 1})
        PROVE  Promise!Advance
    <3> DEFINE S == {f \in active_fences : value[f] <= current_value + 1}
    <3>1. \A f \in Fences : signaled'[f] <=> f \in S \/ signaled[f]
      BY <2>2 DEF SignalAll
    <3>2. current_value < next_value - 1
      BY <2>2 DEF Values
    <3>3. PICK h \in Fences : value[h] = current_value + 1
      <4>1. current_value + 1 \in 1 .. next_value - 1
        BY <3>2
      <4> QED
        BY <4>1 DEF Values
    <3>4. \A f \in S : value[f] = current_value + 1
      <4> SUFFICES ASSUME NEW f \in S PROVE value[f] = current_value + 1
        OBVIOUS
      <4>1. f \in Fences /\ value[f] > 0
        BY DEF FencesHeld, Fresh
      <4>2. ~signaled[f]
        BY <4>1 DEF Values
      <4>3. ~(value[f] <= current_value)
        BY <4>1, <4>2 DEF Values, SignalledExactly
      <4> QED
        BY <4>1, <4>3
    <3>5. signaled'[h]
      <4>1. value[h] > 0
        BY <3>3
      <4> QED
        BY <3>1, <3>3, <4>1 DEF Values
    <3> HIDE DEF S
    <3>6. Reached' = Reached \cup {current_value + 1}
      BY <1>2, <3>1, <3>3, <3>4, <3>5 DEF Reached
    <3> QED
      BY <1>2, <2>0, <2>2, <3>2, <3>6 DEF Promise!Advance, Reached
  <2> QED
    BY <1>2, <2>1, <2>2, IncDoes DEF Promise!Next
<1>3. CASE ForceComplete
  <2>1. /\ SignalAll(active_fences) /\ closing = "force" /\ closing' = "put"
        /\ UNCHANGED <<value, next_value, current_value>>
    BY <1>3 DEF ForceComplete
  <2>2. ~Completed /\ Completed' = TRUE
    BY <2>1 DEF Completed
  <2>3. \A f \in Fences : signaled'[f] <=> f \in active_fences \/ signaled[f]
    BY <2>1 DEF SignalAll
  <2>4. \A f \in Fences : signaled'[f] <=> value[f] > 0
    BY <2>3 DEF Values, FencesHeld, Fresh
  <2>5. Reached' = 1 .. next_value - 1
    <3>1. \A f \in Fences : value[f] > 0 => value[f] \in 1 .. next_value - 1
      BY DEF Values
    <3>2. \A v \in 1 .. next_value - 1 : \E f \in Fences : value[f] = v /\ value[f] > 0
      BY DEF Values
    <3> QED
      BY <2>1, <2>4, <3>1, <3>2 DEF Reached
  <2> QED
    BY <2>1, <2>2, <2>5 DEF Promise!Next, Promise!GiveUp, Reached
<1>4. CASE Unnoticed
  <2>1. Reached' = Reached
    BY <1>4 DEF Unnoticed, Reached
  <2>2. Completed' = Completed
    BY <1>4 DEF Unnoticed, Completed
  <2> QED
    BY <1>4, <2>1, <2>2 DEF Unnoticed, Promise!vars, Reached
<1> QED
  BY <1>1, <1>2, <1>3, <1>4, StepCases

(* KeepsPromise: for any threads, fences and number of handles the timeline*)
(* implements SwTimeline.                                                  *)
THEOREM TimelineKeepsPromise == Spec => KeepsPromise
<1>1. Init => Promise!Init
  BY PromiseInit
<1>2. IInv /\ [Next]_vars => [Promise!Next]_(Promise!vars)
  BY PromiseStep
<1> QED
  BY <1>1, <1>2, Inductive, PTL DEF Spec, KeepsPromise, Promise!Spec
=============================================================================
