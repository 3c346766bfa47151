------------------------- MODULE PvrSyncFileProofs -------------------------
(***************************************************************************)
(* Proofs about PvrSyncFile for any number of kicks, descriptors, merges   *)
(* and foreign fences.  The invariant IInv says who holds what (a          *)
(* reference count is the number of its holders), where a sync file can be *)
(* while its kick is at each place, that nobody finds a fence before its   *)
(* work is queued, that queued work waits only for work queued before it,  *)
(* and that a foreign fence is wrapped once by a kick, with a callback     *)
(* until the wrapper's checkpoint is signalled.                            *)
(***************************************************************************)
EXTENDS PvrSyncFile, FiniteSetTheorems, TLAPS

\* The work has been in the firmware's queue.
Submitted(k) == queued[k] \/ ck_signaled[k]
\* Places at which a kick holds its sync file itself.
Owned == {"put", "created", "enable", "install", "rollback"}
Opened(g) == \E fd \in Fds : fds[fd] = g

Openers(f) == {g \in Files : f \in behind[g]}
Inputs(f)  == {k \in Kicks : f \in input[k]}
Waiters(f) == {k \in Kicks : f \in deps[k]}
Creators   == {k \in Kicks : InCreate(k)}
Makers(f)  == {k \in Kicks : ByKick(k, f)}
Alive(f)   == {w \in Wrappers : w[2] = f /\ refcount[w] > 0}
InList(f)  == f \in Kicks /\ listed[f]
InQuery(f) == query.at = "put" /\ query.fence = f

Types ==
  /\ fds \in [Fds -> Files \cup {NoFile}]
  /\ behind \in [Files -> SUBSET Shared]
  /\ tl_open \in BOOLEAN /\ tl_refs \in Int
  /\ pc \in [Kicks -> Places]
  /\ reserved \in [Kicks -> Fds \cup {NoFd}]
  /\ input \in [Kicks -> SUBSET Shared]
  /\ todo \in [Kicks -> SUBSET Shared]
  /\ wrapping \in [Kicks -> Foreigns \cup {NoFile}]
  /\ deps \in [Kicks -> SUBSET Checkpoints]
  /\ hooked \in SUBSET Wrappers
  /\ refcount \in [Fences -> Int] /\ ck_refs \in [Checkpoints -> Int]
  /\ flag \in [Shared -> BOOLEAN] /\ listed \in [Kicks -> BOOLEAN]
  /\ ck_signaled \in [Checkpoints -> BOOLEAN] /\ queued \in [Kicks -> BOOLEAN]
  /\ query \in [at : {"none", "put", "read"}, fd : Fds \cup {NoFd}, fence : Files \cup {NoFile}]

FenceRefs == \A f \in Fences : refcount[f] = FenceHolders(f)
CkRefs    == \A f \in Checkpoints : ck_refs[f] = CkHolders(f)
TlRefs    == tl_refs = One(tl_open) + Cardinality(Creators)
FdsReserved ==
  /\ \A k \in Kicks : reserved[k] # NoFd <=> HasFd(k)
  /\ \A k, l \in Kicks : HasFd(k) /\ reserved[k] = reserved[l] => k = l
  /\ \A k \in Kicks : HasFd(k) => fds[reserved[k]] = NoFile

\* A sync file is open behind one descriptor or held by the kick that made it.
FilesOpen ==
  /\ \A fd1, fd2 \in Fds : fds[fd1] = fds[fd2] /\ fds[fd1] # NoFile => fd1 = fd2
  /\ \A g \in Files : behind[g] # {} => Opened(g) \/ (g \in Kicks /\ pc[g] \in Owned)
  /\ \A k \in Kicks : pc[k] \in Owned => behind[k] = {k}
  /\ \A k \in Kicks : Opened(k) => behind[k] = {k} /\ pc[k] \in {"bind", "over"}

\* Places at which a kick collects what it waits for, and wraps a foreign fence.
Wrapping == {"wrap", "wrapped"}
Resolving == {"resolve"} \cup Wrapping

\* What a kick waits for is collected before it is queued.
Collected ==
  \A k \in Kicks :
    /\ pc[k] \notin Resolving => input[k] = {} /\ todo[k] = {}
    /\ pc[k] = "idle" => deps[k] = {}
    /\ todo[k] \subseteq input[k] /\ todo[k] \cap deps[k] = {}

\* A foreign fence the kick has not wrapped yet, and one it does not wait for yet.
Unwrapped(k, x) ==
  \/ pc[k] = "idle"
  \/ pc[k] \in Resolving /\ x \in todo[k]
  \/ pc[k] = "wrap" /\ x = wrapping[k]
Unwaited(k, x) == Unwrapped(k, x) \/ (pc[k] = "wrapped" /\ x = wrapping[k])

\* A wrapper belongs to the kick that made it, which makes one for each fence; its
\* callback is on the foreign fence until its checkpoint is signalled.
Passed(w) == ck_signaled[w] \/ w \in hooked
Wrapped ==
  /\ \A k \in Kicks : wrapping[k] # NoFile <=> pc[k] \in Wrapping
  /\ \A k \in Kicks : pc[k] \in Wrapping => wrapping[k] \in input[k] /\ wrapping[k] \notin todo[k]
  /\ \A k \in Kicks : pc[k] = "wrapped" => Passed(<<k, wrapping[k]>>)
  /\ \A k \in Kicks : \A w \in Wrappers : w \in deps[k] => w[1] = k /\ Passed(w)
  /\ \A k \in Kicks : \A x \in Foreigns :
       /\ Unwrapped(k, x) => <<k, x>> \notin hooked
       /\ Unwaited(k, x) => <<k, x>> \notin deps[k]

\* The fence of queued work was asked to signal before it became visible.
Firmware ==
  \A k \in Kicks :
    /\ queued[k] => ~ck_signaled[k] /\ pc[k] \in {"enable", "install", "bind", "over"}
    /\ ck_signaled[k] => pc[k] \in {"enable", "install", "bind", "over"}
    /\ pc[k] \in {"enable", "install", "bind"} => Submitted(k)
    /\ listed[k] => Submitted(k) /\ pc[k] \in {"install", "bind", "over"}
    /\ queued[k] /\ pc[k] # "enable" => listed[k]

\* Nobody finds a fence before its work is in the queue.
Hidden ==
  /\ \A f \in Kicks : ~Submitted(f) =>
       /\ \A g \in Files : f \in behind[g] => g = f
       /\ \A k \in Kicks : f \notin input[k] /\ f \notin deps[k]
       /\ ~Opened(f)
  /\ query.at # "none" => query.fd \in Fds /\ query.fence \in Kicks /\ Submitted(query.fence)

\* Work in the queue waits for work that was queued before.
Ordered ==
  \A S \in SUBSET {k \in Kicks : queued[k]} : S # {} => \E k \in S : deps[k] \cap S = {}

IInv ==
  /\ Types /\ FenceRefs /\ CkRefs /\ TlRefs /\ FdsReserved
  /\ FilesOpen /\ Collected /\ Wrapped /\ Firmware /\ Hidden /\ Ordered

-----------------------------------------------------------------------------
(* Counting holders.                                                       *)

\* Of two sets that differ at most in one element.
LEMMA SetChange ==
  ASSUME NEW I, IsFiniteSet(I), NEW S \in SUBSET I, NEW T \in SUBSET I, NEW g,
         \A h \in I : h # g => (h \in T <=> h \in S)
  PROVE  /\ Cardinality(T) = Cardinality(S) - One(g \in S) + One(g \in T)
         /\ Cardinality(S) \in Nat
<1> DEFINE R == S \ {g}
<1>1. R \subseteq I
  OBVIOUS
<1>2. IsFiniteSet(S) /\ IsFiniteSet(T) /\ IsFiniteSet(R)
  BY <1>1, FS_Subset
<1>3. g \notin R
  OBVIOUS
<1>4. S = IF g \in S THEN R \cup {g} ELSE R
  OBVIOUS
<1>5. T = IF g \in T THEN R \cup {g} ELSE R
  OBVIOUS
<1>6. Cardinality(S) \in Nat
  BY <1>2, FS_CardinalityType
<1> HIDE DEF R
<1>7. Cardinality(R) \in Nat /\ Cardinality(R \cup {g}) = Cardinality(R) + 1
  BY <1>2, <1>3, FS_AddElement, FS_CardinalityType
<1>8. Cardinality(S) = Cardinality(R) + One(g \in S)
  BY <1>4, <1>7 DEF One
<1>9. Cardinality(T) = Cardinality(R) + One(g \in T)
  BY <1>5, <1>7 DEF One
<1>10. One(g \in S) \in Int /\ One(g \in T) \in Int
  BY DEF One
<1> QED
  BY <1>6, <1>7, <1>8, <1>9, <1>10

\* The kinds of fences do not overlap.
LEMMA Kinds ==
  /\ \A f \in Wrappers : f \in Fences /\ f \in Checkpoints /\ f \notin Shared /\ f \notin Kicks
                         /\ f \notin Foreigns /\ f[1] \in Kicks /\ f[2] \in Foreigns
                         /\ f = <<f[1], f[2]>>
  /\ \A f \in Kicks : f \in Fences /\ f \in Checkpoints /\ f \in Shared /\ f \notin Wrappers
                      /\ f \notin Foreigns /\ f \in Files /\ f # NoFile
  /\ \A f \in Foreigns : f \in Fences /\ f \notin Checkpoints /\ f \in Shared /\ f \notin Wrappers
                         /\ f \notin Kicks /\ f \in Files /\ f # NoFile
  /\ \A f \in Shared : f \in Fences /\ f \in Files
  /\ \A f \in Checkpoints : f \in Fences
  /\ NoFile \notin Files
  /\ \A k \in Kicks, x \in Foreigns : <<k, x>> \in Wrappers
BY SyncFileAssumption DEF Wrappers, Fences, Checkpoints, Shared, Files

LEMMA FilesFinite == IsFiniteSet(Files) /\ IsFiniteSet(Kicks) /\ IsFiniteSet(Wrappers)
<1>1. IsFiniteSet(Kicks \cup Merges)
  BY FiniteAssumption, FS_Union
<1>2. IsFiniteSet((Kicks \cup Merges) \cup Foreigns)
  BY <1>1, FiniteAssumption, FS_Union
<1>3. IsFiniteSet(Kicks \X Foreigns)
  BY FiniteAssumption, FS_Product
<1> QED
  BY <1>2, <1>3, FiniteAssumption DEF Files, Wrappers

LEMMA OpenersChange ==
  ASSUME NEW g \in Files, NEW B, behind \in [Files -> SUBSET Shared],
         behind' = [behind EXCEPT ![g] = B], NEW f
  PROVE  /\ Cardinality(Openers(f))' = Cardinality(Openers(f)) - One(f \in behind[g]) + One(f \in B)
         /\ Cardinality(Openers(f)) \in Nat
<1> DEFINE S == Openers(f)
           T == Openers(f)'
<1>1. S \in SUBSET Files /\ T \in SUBSET Files /\ \A h \in Files : h # g => (h \in T <=> h \in S)
  BY DEF Openers
<1>2. (g \in S <=> f \in behind[g]) /\ (g \in T <=> f \in B)
  BY DEF Openers
<1> HIDE DEF S, T
<1>3. Cardinality(T) = Cardinality(S) - One(g \in S) + One(g \in T) /\ Cardinality(S) \in Nat
  BY <1>1, FilesFinite, SetChange
<1>4. One(g \in S) = One(f \in behind[g]) /\ One(g \in T) = One(f \in B)
  BY <1>2 DEF One
<1> QED
  BY <1>3, <1>4 DEF S, T

LEMMA InputsChange ==
  ASSUME NEW k \in Kicks, NEW B, input \in [Kicks -> SUBSET Shared],
         input' = [input EXCEPT ![k] = B], NEW f
  PROVE  /\ Cardinality(Inputs(f))' = Cardinality(Inputs(f)) - One(f \in input[k]) + One(f \in B)
         /\ Cardinality(Inputs(f)) \in Nat
<1> DEFINE S == Inputs(f)
           T == Inputs(f)'
<1>1. S \in SUBSET Kicks /\ T \in SUBSET Kicks /\ \A h \in Kicks : h # k => (h \in T <=> h \in S)
  BY DEF Inputs
<1>2. (k \in S <=> f \in input[k]) /\ (k \in T <=> f \in B)
  BY DEF Inputs
<1> HIDE DEF S, T
<1>3. Cardinality(T) = Cardinality(S) - One(k \in S) + One(k \in T) /\ Cardinality(S) \in Nat
  BY <1>1, FilesFinite, SetChange
<1>4. One(k \in S) = One(f \in input[k]) /\ One(k \in T) = One(f \in B)
  BY <1>2 DEF One
<1> QED
  BY <1>3, <1>4 DEF S, T

LEMMA WaitersChange ==
  ASSUME NEW k \in Kicks, NEW B, deps \in [Kicks -> SUBSET Checkpoints],
         deps' = [deps EXCEPT ![k] = B], NEW f
  PROVE  /\ Cardinality(Waiters(f))' = Cardinality(Waiters(f)) - One(f \in deps[k]) + One(f \in B)
         /\ Cardinality(Waiters(f)) \in Nat
<1> DEFINE S == Waiters(f)
           T == Waiters(f)'
<1>1. S \in SUBSET Kicks /\ T \in SUBSET Kicks /\ \A h \in Kicks : h # k => (h \in T <=> h \in S)
  BY DEF Waiters
<1>2. (k \in S <=> f \in deps[k]) /\ (k \in T <=> f \in B)
  BY DEF Waiters
<1> HIDE DEF S, T
<1>3. Cardinality(T) = Cardinality(S) - One(k \in S) + One(k \in T) /\ Cardinality(S) \in Nat
  BY <1>1, FilesFinite, SetChange
<1>4. One(k \in S) = One(f \in deps[k]) /\ One(k \in T) = One(f \in B)
  BY <1>2 DEF One
<1> QED
  BY <1>3, <1>4 DEF S, T

LEMMA MakersChange ==
  ASSUME NEW k \in Kicks, NEW f, \A j \in Kicks : j # k => (ByKick(j, f)' <=> ByKick(j, f))
  PROVE  /\ Cardinality(Makers(f))' = Cardinality(Makers(f)) - One(ByKick(k, f)) + One(ByKick(k, f))'
         /\ Cardinality(Makers(f)) \in Nat
<1> DEFINE S == Makers(f)
           T == Makers(f)'
<1>1. S \in SUBSET Kicks /\ T \in SUBSET Kicks /\ \A h \in Kicks : h # k => (h \in T <=> h \in S)
  BY DEF Makers
<1>2. (k \in S <=> ByKick(k, f)) /\ (k \in T <=> ByKick(k, f)')
  BY DEF Makers
<1> HIDE DEF S, T
<1>3. Cardinality(T) = Cardinality(S) - One(k \in S) + One(k \in T) /\ Cardinality(S) \in Nat
  BY <1>1, FilesFinite, SetChange
<1>4. One(k \in S) = One(ByKick(k, f)) /\ One(k \in T) = One(ByKick(k, f))'
  BY <1>2 DEF One
<1> QED
  BY <1>3, <1>4 DEF S, T

LEMMA AliveChange ==
  ASSUME NEW w \in Wrappers, NEW f,
         \A v \in Wrappers : v # w => (refcount'[v] > 0 <=> refcount[v] > 0)
  PROVE  /\ Cardinality(Alive(f))' = Cardinality(Alive(f)) - One(w[2] = f /\ refcount[w] > 0)
                                       + One(w[2] = f /\ refcount[w] > 0)'
         /\ Cardinality(Alive(f)) \in Nat
<1> DEFINE S == Alive(f)
           T == Alive(f)'
<1>1. S \in SUBSET Wrappers /\ T \in SUBSET Wrappers
  BY DEF Alive
<1>2. \A v \in Wrappers : v # w => (v \in T <=> v \in S)
  BY DEF Alive
<1>3. (w \in S <=> w[2] = f /\ refcount[w] > 0) /\ (w \in T <=> (w[2] = f /\ refcount[w] > 0)')
  BY DEF Alive
<1> HIDE DEF S, T
<1>4. Cardinality(T) = Cardinality(S) - One(w \in S) + One(w \in T) /\ Cardinality(S) \in Nat
  BY <1>1, <1>2, FilesFinite, SetChange
<1>5. /\ One(w \in S) = One(w[2] = f /\ refcount[w] > 0)
      /\ One(w \in T) = One(w[2] = f /\ refcount[w] > 0)'
  BY <1>3 DEF One
<1> QED
  BY <1>4, <1>5 DEF S, T

\* Places at which a kick holds a reference on the timeline's file.
Creating == {"context", "fence", "file", "put", "put_timeline"}
LEMMA CreatorsChange ==
  ASSUME NEW k \in Kicks, NEW l, pc \in [Kicks -> Places], pc' = [pc EXCEPT ![k] = l]
  PROVE  /\ Cardinality(Creators)' = Cardinality(Creators) - One(pc[k] \in Creating) + One(l \in Creating)
         /\ Cardinality(Creators) \in Nat
<1> DEFINE S == Creators
           T == Creators'
<1>1. S \in SUBSET Kicks /\ T \in SUBSET Kicks /\ \A h \in Kicks : h # k => (h \in T <=> h \in S)
  BY DEF Creators, InCreate
<1>2. (k \in S <=> pc[k] \in Creating) /\ (k \in T <=> l \in Creating)
  BY DEF Creators, InCreate, Creating
<1> HIDE DEF S, T
<1>3. Cardinality(T) = Cardinality(S) - One(k \in S) + One(k \in T) /\ Cardinality(S) \in Nat
  BY <1>1, FilesFinite, SetChange
<1>4. One(k \in S) = One(pc[k] \in Creating) /\ One(k \in T) = One(l \in Creating)
  BY <1>2 DEF One
<1> QED
  BY <1>3, <1>4 DEF S, T

-----------------------------------------------------------------------------
(* What the counts say.                                                    *)

LEMMA CountTypes ==
  /\ \A f : Cardinality(Openers(f)) \in Nat /\ IsFiniteSet(Openers(f))
  /\ \A f : Cardinality(Inputs(f)) \in Nat /\ IsFiniteSet(Inputs(f))
  /\ \A f : Cardinality(Waiters(f)) \in Nat /\ IsFiniteSet(Waiters(f))
  /\ \A f : Cardinality(Makers(f)) \in Nat /\ IsFiniteSet(Makers(f))
  /\ \A f : Cardinality(Alive(f)) \in Nat /\ IsFiniteSet(Alive(f))
  /\ Cardinality(Creators) \in Nat
<1>1. ASSUME NEW S, S \subseteq Files \/ S \subseteq Kicks \/ S \subseteq Wrappers
      PROVE  Cardinality(S) \in Nat /\ IsFiniteSet(S)
  BY <1>1, FilesFinite, FS_Subset, FS_CardinalityType
<1>2. ASSUME NEW f PROVE /\ Openers(f) \subseteq Files /\ Inputs(f) \subseteq Kicks
                         /\ Waiters(f) \subseteq Kicks /\ Makers(f) \subseteq Kicks
                         /\ Alive(f) \subseteq Wrappers
  BY DEF Openers, Inputs, Waiters, Makers, Alive
<1>3. Creators \subseteq Kicks
  BY DEF Creators
<1> QED
  BY <1>1, <1>2, <1>3

LEMMA Holders ==
  ASSUME NEW f
  PROVE  /\ FenceHolders(f) = Cardinality(Openers(f)) + Cardinality(Inputs(f)) + Cardinality(Alive(f))
                                + Cardinality(Makers(f)) + One(InList(f)) + One(f \in hooked)
                                + One(InQuery(f))
         /\ CkHolders(f) = One(refcount[f] > 0) + Cardinality(Waiters(f))
BY DEF FenceHolders, CkHolders, Openers, Inputs, Waiters, Makers, Alive, InList, InQuery

\* Whoever has a fence keeps it.
LEMMA Referenced ==
  ASSUME IInv, NEW f \in Fences
  PROVE  /\ refcount[f] \in Nat
         /\ \A g \in Files : f \in behind[g] => refcount[f] > 0
         /\ \A k \in Kicks : f \in input[k] => refcount[f] > 0
         /\ \A k \in Kicks : ByKick(k, f) => refcount[f] > 0
         /\ InList(f) => refcount[f] > 0
         /\ InQuery(f) => refcount[f] > 0
<1>1. refcount[f] = Cardinality(Openers(f)) + Cardinality(Inputs(f)) + Cardinality(Alive(f))
                      + Cardinality(Makers(f)) + One(InList(f)) + One(f \in hooked) + One(InQuery(f))
  BY Holders DEF IInv, FenceRefs
<1>3. /\ Cardinality(Openers(f)) \in Nat /\ Cardinality(Inputs(f)) \in Nat
      /\ Cardinality(Alive(f)) \in Nat /\ Cardinality(Makers(f)) \in Nat
  BY CountTypes
<1>4. ASSUME NEW S, IsFiniteSet(S), S # {} PROVE Cardinality(S) # 0
  BY <1>4, FS_EmptySet
<1>5. ASSUME NEW g \in Files, f \in behind[g] PROVE Cardinality(Openers(f)) # 0
  BY <1>4, <1>5, CountTypes DEF Openers
<1>6. ASSUME NEW k \in Kicks, f \in input[k] PROVE Cardinality(Inputs(f)) # 0
  BY <1>4, <1>6, CountTypes DEF Inputs
<1>7. ASSUME NEW k \in Kicks, ByKick(k, f) PROVE Cardinality(Makers(f)) # 0
  <2>1. k \in Makers(f)
    BY <1>7 DEF Makers
  <2> QED
    BY <1>4, <2>1, CountTypes
<1>8. /\ One(InList(f)) \in {0, 1} /\ (InList(f) => One(InList(f)) = 1)
      /\ One(InQuery(f)) \in {0, 1} /\ (InQuery(f) => One(InQuery(f)) = 1)
      /\ One(f \in hooked) \in {0, 1}
  BY DEF One
<1>9. refcount[f] \in Nat
  BY <1>1, <1>3, <1>8
<1>10. /\ Cardinality(Openers(f)) # 0 => refcount[f] > 0
       /\ Cardinality(Inputs(f)) # 0 => refcount[f] > 0
       /\ Cardinality(Makers(f)) # 0 => refcount[f] > 0
       /\ One(InList(f)) = 1 => refcount[f] > 0
       /\ One(InQuery(f)) = 1 => refcount[f] > 0
  BY <1>1, <1>3, <1>8
<1> QED
  BY <1>5, <1>6, <1>7, <1>8, <1>9, <1>10

\* Who waits for a checkpoint keeps it, and so does a fence that lives.
LEMMA CkReferenced ==
  ASSUME IInv, NEW f \in Checkpoints
  PROVE  /\ ck_refs[f] \in Nat
         /\ \A k \in Kicks : f \in deps[k] => ck_refs[f] > 0
         /\ refcount[f] > 0 => ck_refs[f] > 0
<1>1. ck_refs[f] = One(refcount[f] > 0) + Cardinality(Waiters(f))
  BY Holders DEF IInv, CkRefs
<1>2. Cardinality(Waiters(f)) \in Nat
  BY CountTypes
<1>3. ASSUME NEW k \in Kicks, f \in deps[k] PROVE Cardinality(Waiters(f)) # 0
  BY <1>3, CountTypes, FS_EmptySet DEF Waiters
<1>4. One(refcount[f] > 0) \in {0, 1} /\ (refcount[f] > 0 => One(refcount[f] > 0) = 1)
  BY DEF One
<1> QED
  BY <1>1, <1>2, <1>3, <1>4

\* A wrapper is held by the kick that makes it and by its callback.
LEMMA WrapperRefs ==
  ASSUME IInv, NEW k \in Kicks, NEW x \in Foreigns
  PROVE  refcount[<<k, x>>] = One(pc[k] = "wrapped" /\ x = wrapping[k]) + One(<<k, x>> \in hooked)
<1> DEFINE w == <<k, x>>
<1>0. w \in Fences /\ w \notin Shared /\ w \notin Kicks /\ w \notin Foreigns
  BY Kinds
<1>1. refcount[w] = Cardinality(Openers(w)) + Cardinality(Inputs(w)) + Cardinality(Alive(w))
                      + Cardinality(Makers(w)) + One(InList(w)) + One(w \in hooked) + One(InQuery(w))
  BY <1>0, Holders DEF IInv, FenceRefs
<1>2. Openers(w) = {}
  BY <1>0 DEF IInv, Types, Openers
<1>3. Inputs(w) = {}
  BY <1>0 DEF IInv, Types, Inputs
<1>4. Alive(w) = {}
  BY <1>0, Kinds DEF Alive
<1>5. ~InList(w) /\ ~InQuery(w)
  BY <1>0 DEF InList, InQuery, IInv, Hidden
<1>6. Makers(w) = IF pc[k] = "wrapped" /\ x = wrapping[k] THEN {k} ELSE {}
  BY <1>0 DEF Makers, ByKick, At
<1> HIDE DEF w
<1>7. Cardinality(Makers(w)) = One(pc[k] = "wrapped" /\ x = wrapping[k])
  BY <1>6, FS_EmptySet, FS_Singleton DEF One
<1>8. One(InList(w)) = 0 /\ One(InQuery(w)) = 0
  BY <1>5 DEF One
<1>9. Cardinality(Openers(w)) = 0 /\ Cardinality(Inputs(w)) = 0 /\ Cardinality(Alive(w)) = 0
  BY <1>2, <1>3, <1>4, FS_EmptySet
<1>10. One(pc[k] = "wrapped" /\ x = wrapping[k]) \in Int /\ One(w \in hooked) \in Int
  BY DEF One
<1>11. refcount[w] = One(pc[k] = "wrapped" /\ x = wrapping[k]) + One(w \in hooked)
  BY <1>1, <1>7, <1>8, <1>9, <1>10
<1> QED
  BY <1>11 DEF w

-----------------------------------------------------------------------------
(* What is left alone.                                                     *)

\* The kicks that hold a reference while they make a fence or a wrapper.
PlacesSame ==
  \A j \in Kicks : /\ pc'[j] = "file" <=> pc[j] = "file"
                   /\ pc'[j] = "wrapped" <=> pc[j] = "wrapped"
                   /\ pc[j] = "wrapped" => wrapping'[j] = wrapping[j]

LEMMA MakersSame == ASSUME PlacesSame, NEW f PROVE Makers(f)' = Makers(f)
<1>1. \A j \in Kicks : ByKick(j, f)' <=> ByKick(j, f)
  BY DEF PlacesSame, ByKick, At
<1> QED
  BY <1>1 DEF Makers

LEMMA AliveSame ==
  ASSUME \A w \in Wrappers : refcount'[w] > 0 <=> refcount[w] > 0, NEW f
  PROVE  Alive(f)' = Alive(f)
BY DEF Alive

LEMMA FenceSame ==
  ASSUME FenceRefs, UNCHANGED <<refcount, hooked, behind, input, listed, query>>, PlacesSame
  PROVE  FenceRefs'
<1> SUFFICES ASSUME NEW f \in Fences PROVE refcount'[f] = FenceHolders(f)'
  BY DEF FenceRefs
<1>1. Openers(f)' = Openers(f) /\ Inputs(f)' = Inputs(f)
  BY DEF Openers, Inputs
<1>2. Alive(f)' = Alive(f)
  BY DEF Alive
<1>3. Makers(f)' = Makers(f)
  BY MakersSame
<1>4. InList(f)' = InList(f) /\ InQuery(f)' = InQuery(f)
  BY DEF InList, InQuery
<1>5. /\ FenceHolders(f) = Cardinality(Openers(f)) + Cardinality(Inputs(f)) + Cardinality(Alive(f))
                             + Cardinality(Makers(f)) + One(InList(f)) + One(f \in hooked)
                             + One(InQuery(f))
      /\ FenceHolders(f)' = (Cardinality(Openers(f)) + Cardinality(Inputs(f)) + Cardinality(Alive(f))
                             + Cardinality(Makers(f)) + One(InList(f)) + One(f \in hooked)
                             + One(InQuery(f)))'
  BY DEF FenceHolders, Openers, Inputs, Makers, Alive, InList, InQuery
<1>6. One(InList(f))' = One(InList(f)) /\ One(InQuery(f))' = One(InQuery(f))
  BY <1>4 DEF One
<1>7. One(f \in hooked)' = One(f \in hooked)
  OBVIOUS
<1>8. refcount[f] = FenceHolders(f)
  BY DEF FenceRefs
<1> QED
  BY <1>1, <1>2, <1>3, <1>5, <1>6, <1>7, <1>8

LEMMA CkSame ==
  ASSUME CkRefs, UNCHANGED <<ck_refs, deps>>,
         \A f \in Checkpoints : refcount'[f] > 0 <=> refcount[f] > 0
  PROVE  CkRefs'
<1> SUFFICES ASSUME NEW f \in Checkpoints PROVE ck_refs'[f] = CkHolders(f)'
  BY DEF CkRefs
<1>1. One(refcount[f] > 0)' = One(refcount[f] > 0)
  BY DEF One
<1>2. /\ CkHolders(f) = One(refcount[f] > 0) + Cardinality(Waiters(f))
      /\ CkHolders(f)' = (One(refcount[f] > 0) + Cardinality(Waiters(f)))'
  BY DEF CkHolders, Waiters
<1>3. Waiters(f)' = Waiters(f)
  BY DEF Waiters
<1>4. ck_refs[f] = CkHolders(f)
  BY DEF CkRefs
<1> QED
  BY <1>1, <1>2, <1>3, <1>4

LEMMA TlSame == ASSUME TlRefs, UNCHANGED <<tl_refs, tl_open, pc>> PROVE TlRefs'
BY DEF TlRefs, Creators, InCreate

LEMMA FdsSame == ASSUME FdsReserved, UNCHANGED <<reserved, fds, pc>> PROVE FdsReserved'
BY DEF FdsReserved, HasFd

LEMMA OpenSame == ASSUME FilesOpen, UNCHANGED <<fds, behind, pc>> PROVE FilesOpen'
BY DEF FilesOpen, Opened

LEMMA CollectedSame == ASSUME Collected, UNCHANGED <<input, todo, deps, pc>> PROVE Collected'
BY DEF Collected

LEMMA FirmwareSame == ASSUME Firmware, UNCHANGED <<queued, ck_signaled, listed, pc>> PROVE Firmware'
BY DEF Firmware, Submitted

LEMMA HiddenSame ==
  ASSUME Hidden, UNCHANGED <<behind, input, deps, fds, query, queued, ck_signaled>>
  PROVE  Hidden'
BY DEF Hidden, Submitted, Opened

LEMMA OrderedSame == ASSUME Ordered, UNCHANGED <<queued, deps>> PROVE Ordered'
BY DEF Ordered

\* Steps after which no kick has more to wrap, and that wrap nothing.
LEMMA WrappedKeep ==
  ASSUME Types, Wrapped, UNCHANGED <<wrapping, hooked, todo>>,
         \A w \in Wrappers : ck_signaled[w] => ck_signaled'[w],
         \A k \in Kicks : /\ deps'[k] \subseteq deps[k]
                          /\ \/ pc'[k] = pc[k] /\ input'[k] = input[k]
                             \/ pc[k] \notin Wrapping /\ pc'[k] \notin Resolving \cup {"idle"}
  PROVE  Wrapped'
<1>1. \A w \in Wrappers : Passed(w) => Passed(w)'
  BY DEF Passed
<1>2. ASSUME NEW k \in Kicks
      PROVE  /\ pc'[k] \in Wrapping <=> pc[k] \in Wrapping
             /\ pc'[k] \in Wrapping => pc'[k] = pc[k] /\ input'[k] = input[k]
             /\ pc'[k] \in Resolving \cup {"idle"} => pc'[k] = pc[k]
  BY DEF Resolving, Wrapping
<1>3. \A k \in Kicks : wrapping'[k] # NoFile <=> pc'[k] \in Wrapping
  BY <1>2 DEF Wrapped
<1>4. \A k \in Kicks : pc'[k] \in Wrapping => wrapping'[k] \in input'[k] /\ wrapping'[k] \notin todo'[k]
  BY <1>2 DEF Wrapped
<1>5. ASSUME NEW k \in Kicks, pc'[k] = "wrapped"
      PROVE  ck_signaled'[<<k, wrapping'[k]>>] \/ <<k, wrapping'[k]>> \in hooked'
  <2>1. pc[k] = "wrapped" /\ wrapping'[k] = wrapping[k]
    BY <1>2, <1>5 DEF Resolving, Wrapping
  <2>2. Passed(<<k, wrapping[k]>>) /\ wrapping[k] # NoFile
    BY <2>1 DEF Wrapped, Wrapping
  <2>3. wrapping[k] \in Foreigns
    BY <2>2 DEF Types
  <2>4. <<k, wrapping[k]>> \in Wrappers
    BY <2>3 DEF Wrappers
  <2> QED
    BY <2>1, <2>2, <2>4 DEF Passed
<1>6. \A k \in Kicks : \A w \in Wrappers : w \in deps'[k] => w[1] = k /\ (ck_signaled'[w] \/ w \in hooked')
  BY <1>1 DEF Wrapped, Passed
<1>7. ASSUME NEW k \in Kicks, NEW x \in Foreigns
      PROVE  /\ Unwrapped(k, x)' => <<k, x>> \notin hooked'
             /\ Unwaited(k, x)' => <<k, x>> \notin deps'[k]
  <2>1. Unwrapped(k, x)' => Unwrapped(k, x)
    BY <1>2 DEF Unwrapped, Resolving, Wrapping
  <2>2. Unwaited(k, x)' => Unwaited(k, x)
    BY <1>2, <2>1 DEF Unwaited, Resolving, Wrapping
  <2> QED
    BY <2>1, <2>2 DEF Wrapped
<1> QED
  BY <1>3, <1>4, <1>5, <1>6, <1>7 DEF Wrapped, Passed

LEMMA WrappedSame ==
  ASSUME Types, Wrapped, UNCHANGED <<wrapping, hooked, todo, input, deps, ck_signaled, pc>>
  PROVE  Wrapped'
BY WrappedKeep

-----------------------------------------------------------------------------
(* Steps of a kick that only change its place, and the timeline.           *)

LEMMA TlStep ==
  ASSUME Types, TlRefs, NEW k \in Kicks, NEW l, pc' = [pc EXCEPT ![k] = l], UNCHANGED tl_open,
         tl_refs' = tl_refs - One(pc[k] \in Creating) + One(l \in Creating)
  PROVE  TlRefs' /\ tl_refs' \in Int
<1>1. /\ Cardinality(Creators)' = Cardinality(Creators) - One(pc[k] \in Creating) + One(l \in Creating)
      /\ Cardinality(Creators) \in Nat
  BY CreatorsChange DEF Types
<1>2. One(pc[k] \in Creating) \in Int /\ One(l \in Creating) \in Int /\ One(tl_open) \in Int
  BY DEF One
<1>3. tl_refs \in Int /\ tl_refs = One(tl_open) + Cardinality(Creators)
  BY DEF Types, TlRefs
<1>4. tl_refs' = One(tl_open) + Cardinality(Creators)'
  BY <1>1, <1>2, <1>3
<1>5. tl_refs' \in Int
  BY <1>2, <1>3
<1> QED
  BY <1>4, <1>5 DEF TlRefs

\* Steps from place to place that leave fences and files alone.
Moves ==
  {<<"idle", "reserve">>, <<"idle", "over">>, <<"timeline", "context">>, <<"timeline", "put_fd">>,
   <<"context", "fence">>, <<"context", "put_timeline">>, <<"fence", "put_timeline">>,
   <<"put", "created">>, <<"put_timeline", "put_fd">>, <<"created", "rollback">>, <<"bind", "over">>}

LEMMA PcStep ==
  ASSUME IInv, NEW k \in Kicks, NEW l, <<pc[k], l>> \in Moves, pc' = [pc EXCEPT ![k] = l],
         tl_refs' = tl_refs - One(pc[k] \in Creating) + One(l \in Creating),
         UNCHANGED <<fds, behind, tl_open, kickVars, refcount, hooked, made, flag, listed, ckVars, queued,
                     query>>
  PROVE  IInv'
<1>0. /\ UNCHANGED <<fds, behind, tl_open, reserved, input, todo, wrapping, deps, refcount, hooked, flag,
                     listed, ck_refs, ck_signaled, queued, query>>
      /\ pc \in [Kicks -> Places] /\ l \in Places
  BY DEF kickVars, ckVars, IInv, Types, Moves, Places
<1>1. \A j \in Kicks : (j # k => pc'[j] = pc[j]) /\ pc'[k] = l
  BY <1>0
<1>2. TlRefs' /\ tl_refs' \in Int
  BY <1>0, TlStep DEF IInv
<1>3. Types'
  BY <1>0, <1>2 DEF IInv, Types
<1>4. FenceRefs'
  <2>1. PlacesSame
    BY <1>0, <1>1 DEF PlacesSame, Moves
  <2> QED
    BY <1>0, <2>1, FenceSame DEF IInv
<1>5. CkRefs'
  BY <1>0, CkSame DEF IInv
<1>6. FdsReserved'
  <2>1. \A j \in Kicks : HasFd(j)' <=> HasFd(j)
    BY <1>0, <1>1 DEF HasFd, Moves
  <2> QED
    BY <1>0, <2>1 DEF IInv, FdsReserved
<1>7. FilesOpen'
  BY <1>0, <1>1 DEF IInv, FilesOpen, Opened, Owned, Moves
<1>8. Collected'
  BY <1>0, <1>1 DEF IInv, Collected, Moves, Resolving, Wrapping
<1>81. Wrapped'
  <2>1. \A j \in Kicks : \/ pc'[j] = pc[j] /\ input'[j] = input[j]
                         \/ pc[j] \notin Wrapping /\ pc'[j] \notin Resolving \cup {"idle"}
    BY <1>0, <1>1 DEF Moves, Resolving, Wrapping
  <2> QED
    BY <1>0, <2>1, WrappedKeep DEF IInv
<1>9. Firmware'
  BY <1>0, <1>1 DEF IInv, Firmware, Submitted, Moves
<1>10. Hidden'
  BY <1>0, HiddenSame DEF IInv
<1>11. Ordered'
  BY <1>0, OrderedSame DEF IInv
<1> QED
  BY <1>2, <1>3, <1>4, <1>5, <1>6, <1>7, <1>8, <1>81, <1>9, <1>10, <1>11
     DEF IInv

LEMMA MoveSteps ==
  ASSUME IInv, NEW k \in Kicks,
         \/ NoCheckFence(k) \/ GetTimeline(k) \/ HwContext(k) \/ PutTimeline(k) \/ FinaliseBind(k)
  PROVE  IInv'
<1> USE DEF At, Goto
<1>0. tl_refs \in Int
  BY DEF IInv, Types
<1>1. ASSUME NEW l, <<pc[k], l>> \in Moves, pc' = [pc EXCEPT ![k] = l],
             \/ tl_refs' = tl_refs /\ (pc[k] \in Creating <=> l \in Creating)
             \/ tl_refs' = tl_refs + 1 /\ pc[k] \notin Creating /\ l \in Creating
             \/ tl_refs' = tl_refs - 1 /\ pc[k] \in Creating /\ l \notin Creating,
             UNCHANGED <<fds, behind, tl_open, kickVars, refcount, hooked, made, flag, listed, ckVars, queued,
                         query>>
      PROVE  IInv'
  <2>1. tl_refs' = tl_refs - One(pc[k] \in Creating) + One(l \in Creating)
    BY <1>0, <1>1 DEF One
  <2> QED
    BY <1>1, <2>1, PcStep
<1>2. CASE NoCheckFence(k)
  <2>1. /\ pc[k] = "idle" /\ pc' = [pc EXCEPT ![k] = "reserve"] /\ tl_refs' = tl_refs
        /\ UNCHANGED <<fds, behind, tl_open, kickVars, refcount, hooked, made, flag, listed, ckVars,
                      queued, query>>
    BY <1>2 DEF NoCheckFence, tlVars, fenceVars
  <2>2. /\ <<"idle", "reserve">> \in Moves
        /\ "idle" \notin Creating /\ "reserve" \notin Creating
    BY DEF Moves, Creating
  <2> QED
    BY <1>1, <2>1, <2>2
<1>3. CASE GetTimeline(k)
  <2>1. /\ pc[k] = "timeline"
        /\ \/ pc' = [pc EXCEPT ![k] = "context"] /\ tl_refs' = tl_refs + 1
           \/ pc' = [pc EXCEPT ![k] = "put_fd"] /\ tl_refs' = tl_refs
        /\ UNCHANGED <<fds, behind, tl_open, kickVars, refcount, hooked, made, flag, listed, ckVars,
                      queued, query>>
    BY <1>3 DEF GetTimeline, fenceVars
  <2>2. /\ <<"timeline", "context">> \in Moves /\ <<"timeline", "put_fd">> \in Moves
        /\ "timeline" \notin Creating /\ "context" \in Creating /\ "put_fd" \notin Creating
    BY DEF Moves, Creating
  <2> QED
    BY <1>1, <2>1, <2>2
<1>4. CASE HwContext(k)
  <2>1. /\ pc[k] = "context" /\ tl_refs' = tl_refs
        /\ \/ pc' = [pc EXCEPT ![k] = "fence"]
           \/ pc' = [pc EXCEPT ![k] = "put_timeline"]
        /\ UNCHANGED <<fds, behind, tl_open, kickVars, refcount, hooked, made, flag, listed, ckVars,
                      queued, query>>
    BY <1>4 DEF HwContext, fenceVars
  <2>2. /\ <<"context", "fence">> \in Moves /\ <<"context", "put_timeline">> \in Moves
        /\ {"context", "fence", "put_timeline"} \subseteq Creating
    BY DEF Moves, Creating
  <2> QED
    BY <1>1, <2>1, <2>2
<1>5. CASE PutTimeline(k)
  <2>1. /\ tl_refs' = tl_refs - 1
        /\ \/ pc[k] = "put" /\ pc' = [pc EXCEPT ![k] = "created"]
           \/ pc[k] = "put_timeline" /\ pc' = [pc EXCEPT ![k] = "put_fd"]
        /\ UNCHANGED <<fds, behind, tl_open, kickVars, refcount, hooked, made, flag, listed, ckVars,
                      queued, query>>
    BY <1>5 DEF PutTimeline, fenceVars
  <2>2. /\ <<"put", "created">> \in Moves /\ <<"put_timeline", "put_fd">> \in Moves
        /\ {"put", "put_timeline"} \subseteq Creating
        /\ "created" \notin Creating /\ "put_fd" \notin Creating
    BY DEF Moves, Creating
  <2> QED
    BY <1>1, <2>1, <2>2
<1>6. CASE FinaliseBind(k)
  <2>1. /\ pc[k] = "bind" /\ pc' = [pc EXCEPT ![k] = "over"] /\ tl_refs' = tl_refs
        /\ UNCHANGED <<fds, behind, tl_open, kickVars, refcount, hooked, made, flag, listed, ckVars,
                      queued, query>>
    BY <1>6 DEF FinaliseBind, tlVars, fenceVars
  <2>2. <<"bind", "over">> \in Moves /\ "bind" \notin Creating /\ "over" \notin Creating
    BY DEF Moves, Creating
  <2> QED
    BY <1>1, <2>1, <2>2
<1> QED
  BY <1>2, <1>3, <1>4, <1>5, <1>6

-----------------------------------------------------------------------------
(* How the counts change.                                                  *)

LEMMA FenceCount ==
  ASSUME IInv, NEW f \in Fences,
         refcount'[f] = refcount[f]
                          + (Cardinality(Openers(f))' - Cardinality(Openers(f)))
                          + (Cardinality(Inputs(f))' - Cardinality(Inputs(f)))
                          + (Cardinality(Alive(f))' - Cardinality(Alive(f)))
                          + (Cardinality(Makers(f))' - Cardinality(Makers(f)))
                          + (One(InList(f))' - One(InList(f))) + (One(f \in hooked)' - One(f \in hooked))
                          + (One(InQuery(f))' - One(InQuery(f))),
         /\ Cardinality(Openers(f))' \in Int /\ Cardinality(Inputs(f))' \in Int
         /\ Cardinality(Alive(f))' \in Int /\ Cardinality(Makers(f))' \in Int
  PROVE  refcount'[f] = FenceHolders(f)'
<1>1. /\ FenceHolders(f) = Cardinality(Openers(f)) + Cardinality(Inputs(f)) + Cardinality(Alive(f))
                             + Cardinality(Makers(f)) + One(InList(f)) + One(f \in hooked)
                             + One(InQuery(f))
      /\ FenceHolders(f)' = (Cardinality(Openers(f)) + Cardinality(Inputs(f)) + Cardinality(Alive(f))
                             + Cardinality(Makers(f)) + One(InList(f)) + One(f \in hooked)
                             + One(InQuery(f)))'
  BY DEF FenceHolders, Openers, Inputs, Makers, Alive, InList, InQuery
<1>2. refcount[f] = FenceHolders(f)
  BY DEF IInv, FenceRefs
<1>3. /\ Cardinality(Openers(f)) \in Int /\ Cardinality(Inputs(f)) \in Int
      /\ Cardinality(Alive(f)) \in Int /\ Cardinality(Makers(f)) \in Int
  BY CountTypes
<1>4. /\ One(InList(f)) \in Int /\ One(InList(f))' \in Int
      /\ One(f \in hooked) \in Int /\ One(f \in hooked)' \in Int
      /\ One(InQuery(f)) \in Int /\ One(InQuery(f))' \in Int
  BY DEF One
<1> QED
  BY <1>1, <1>2, <1>3, <1>4

\* A step of one kick that changes at most the fences behind g and its input, and
\* wraps nothing.
LEMMA FenceStep ==
  ASSUME IInv, NEW f \in Fences, NEW g \in Files, NEW B, NEW k \in Kicks, NEW A,
         behind' = [behind EXCEPT ![g] = B], input' = [input EXCEPT ![k] = A], UNCHANGED hooked,
         \A w \in Wrappers : refcount'[w] > 0 <=> refcount[w] > 0,
         \A j \in Kicks : j # k => (ByKick(j, f)' <=> ByKick(j, f)),
         refcount'[f] = refcount[f]
                          + (One(f \in B) - One(f \in behind[g])) + (One(f \in A) - One(f \in input[k]))
                          + (One(ByKick(k, f))' - One(ByKick(k, f)))
                          + (One(InList(f))' - One(InList(f))) + (One(InQuery(f))' - One(InQuery(f)))
  PROVE  refcount'[f] = FenceHolders(f)'
<1>1. /\ Cardinality(Openers(f))' = Cardinality(Openers(f)) - One(f \in behind[g]) + One(f \in B)
      /\ Cardinality(Openers(f)) \in Nat
  BY OpenersChange DEF IInv, Types
<1>2. /\ Cardinality(Inputs(f))' = Cardinality(Inputs(f)) - One(f \in input[k]) + One(f \in A)
      /\ Cardinality(Inputs(f)) \in Nat
  BY InputsChange DEF IInv, Types
<1>3. /\ Cardinality(Makers(f))' = Cardinality(Makers(f)) - One(ByKick(k, f)) + One(ByKick(k, f))'
      /\ Cardinality(Makers(f)) \in Nat
  BY MakersChange
<1>4. Cardinality(Alive(f))' = Cardinality(Alive(f)) /\ Cardinality(Alive(f)) \in Nat
  BY AliveSame, CountTypes
<1>5. One(f \in hooked)' = One(f \in hooked)
  OBVIOUS
<1>6. /\ One(f \in B) \in Int /\ One(f \in behind[g]) \in Int /\ One(f \in A) \in Int
      /\ One(f \in input[k]) \in Int /\ One(ByKick(k, f)) \in Int /\ One(ByKick(k, f))' \in Int
      /\ One(InList(f)) \in Int /\ One(InList(f))' \in Int /\ One(f \in hooked) \in Int
      /\ One(InQuery(f)) \in Int /\ One(InQuery(f))' \in Int /\ refcount[f] \in Int
  BY DEF One, IInv, Types
<1>7. refcount'[f] = refcount[f]
                       + (Cardinality(Openers(f))' - Cardinality(Openers(f)))
                       + (Cardinality(Inputs(f))' - Cardinality(Inputs(f)))
                       + (Cardinality(Alive(f))' - Cardinality(Alive(f)))
                       + (Cardinality(Makers(f))' - Cardinality(Makers(f)))
                       + (One(InList(f))' - One(InList(f))) + (One(f \in hooked)' - One(f \in hooked))
                       + (One(InQuery(f))' - One(InQuery(f)))
  BY <1>1, <1>2, <1>3, <1>4, <1>5, <1>6
<1>8. /\ Cardinality(Openers(f))' \in Int /\ Cardinality(Inputs(f))' \in Int
      /\ Cardinality(Alive(f))' \in Int /\ Cardinality(Makers(f))' \in Int
  BY <1>1, <1>2, <1>3, <1>4, <1>6
<1> QED
  BY <1>7, <1>8, FenceCount

\* A step that changes at most the fences behind g, the list and the query.
LEMMA FileStep ==
  ASSUME IInv, NEW f \in Fences, NEW g \in Files, NEW B,
         behind' = [behind EXCEPT ![g] = B], UNCHANGED <<input, hooked>>, PlacesSame,
         \A w \in Wrappers : refcount'[w] > 0 <=> refcount[w] > 0,
         refcount'[f] = refcount[f] + (One(f \in B) - One(f \in behind[g]))
                          + (One(InList(f))' - One(InList(f))) + (One(InQuery(f))' - One(InQuery(f)))
  PROVE  refcount'[f] = FenceHolders(f)'
<1>1. /\ Cardinality(Openers(f))' = Cardinality(Openers(f)) - One(f \in behind[g]) + One(f \in B)
      /\ Cardinality(Openers(f)) \in Nat
  BY OpenersChange DEF IInv, Types
<1>2. Cardinality(Inputs(f))' = Cardinality(Inputs(f)) /\ Cardinality(Inputs(f)) \in Nat
  BY CountTypes DEF Inputs
<1>3. Cardinality(Makers(f))' = Cardinality(Makers(f)) /\ Cardinality(Makers(f)) \in Nat
  BY MakersSame, CountTypes
<1>4. Cardinality(Alive(f))' = Cardinality(Alive(f)) /\ Cardinality(Alive(f)) \in Nat
  BY AliveSame, CountTypes
<1>5. One(f \in hooked)' = One(f \in hooked)
  OBVIOUS
<1>6. /\ One(f \in B) \in Int /\ One(f \in behind[g]) \in Int /\ One(f \in hooked) \in Int
      /\ One(InList(f)) \in Int /\ One(InList(f))' \in Int
      /\ One(InQuery(f)) \in Int /\ One(InQuery(f))' \in Int /\ refcount[f] \in Int
  BY DEF One, IInv, Types
<1>7. refcount'[f] = refcount[f]
                       + (Cardinality(Openers(f))' - Cardinality(Openers(f)))
                       + (Cardinality(Inputs(f))' - Cardinality(Inputs(f)))
                       + (Cardinality(Alive(f))' - Cardinality(Alive(f)))
                       + (Cardinality(Makers(f))' - Cardinality(Makers(f)))
                       + (One(InList(f))' - One(InList(f))) + (One(f \in hooked)' - One(f \in hooked))
                       + (One(InQuery(f))' - One(InQuery(f)))
  BY <1>1, <1>2, <1>3, <1>4, <1>5, <1>6
<1>8. /\ Cardinality(Openers(f))' \in Int /\ Cardinality(Inputs(f))' \in Int
      /\ Cardinality(Alive(f))' \in Int /\ Cardinality(Makers(f))' \in Int
  BY <1>1, <1>2, <1>3, <1>4, <1>6
<1> QED
  BY <1>7, <1>8, FenceCount

\* A step that changes at most the checkpoints k waits for.
LEMMA CkStep ==
  ASSUME IInv, NEW f \in Checkpoints, NEW k \in Kicks, NEW D, deps' = [deps EXCEPT ![k] = D],
         ck_refs'[f] = ck_refs[f] + (One(f \in D) - One(f \in deps[k]))
                         + (One(refcount[f] > 0)' - One(refcount[f] > 0))
  PROVE  ck_refs'[f] = CkHolders(f)'
<1>1. /\ CkHolders(f) = One(refcount[f] > 0) + Cardinality(Waiters(f))
      /\ CkHolders(f)' = (One(refcount[f] > 0) + Cardinality(Waiters(f)))'
  BY DEF CkHolders, Waiters
<1>2. ck_refs[f] = CkHolders(f)
  BY DEF IInv, CkRefs
<1>3. /\ Cardinality(Waiters(f))' = Cardinality(Waiters(f)) - One(f \in deps[k]) + One(f \in D)
      /\ Cardinality(Waiters(f)) \in Nat
  BY WaitersChange DEF IInv, Types
<1>4. /\ One(f \in D) \in Int /\ One(f \in deps[k]) \in Int
      /\ One(refcount[f] > 0) \in Int /\ One(refcount[f] > 0)' \in Int
  BY DEF One
<1> QED
  BY <1>1, <1>2, <1>3, <1>4

\* A step that leaves alone what kicks wait for.
LEMMA CkKeep ==
  ASSUME IInv, NEW f \in Checkpoints, UNCHANGED deps,
         ck_refs'[f] = ck_refs[f] + (One(refcount[f] > 0)' - One(refcount[f] > 0))
  PROVE  ck_refs'[f] = CkHolders(f)'
<1>1. /\ CkHolders(f) = One(refcount[f] > 0) + Cardinality(Waiters(f))
      /\ CkHolders(f)' = (One(refcount[f] > 0) + Cardinality(Waiters(f)))'
  BY DEF CkHolders, Waiters
<1>2. ck_refs[f] = CkHolders(f)
  BY DEF IInv, CkRefs
<1>3. Cardinality(Waiters(f))' = Cardinality(Waiters(f)) /\ Cardinality(Waiters(f)) \in Nat
  BY CountTypes DEF Waiters
<1>4. One(refcount[f] > 0) \in Int /\ One(refcount[f] > 0)' \in Int
  BY DEF One
<1> QED
  BY <1>1, <1>2, <1>3, <1>4

\* Dropping references that are there, and the checkpoint with the last.
LEMMA PutSteps ==
  ASSUME IInv, NEW S \in SUBSET Shared, NEW T, Put(S), CkDrop(Freed(S), T),
         \A f \in S : refcount[f] > 0
  PROVE  /\ refcount' \in [Fences -> Int] /\ ck_refs' \in [Checkpoints -> Int]
         /\ \A f \in Fences : refcount'[f] = refcount[f] - One(f \in S)
         /\ \A w \in Wrappers : refcount'[w] = refcount[w]
         /\ \A f \in Checkpoints :
              ck_refs'[f] = ck_refs[f] - One(f \in T) + (One(refcount'[f] > 0) - One(refcount[f] > 0))
<1>1. refcount \in [Fences -> Int] /\ ck_refs \in [Checkpoints -> Int]
  BY DEF IInv, Types
<1>2. \A f \in Fences : refcount[f] \in Nat
  BY Referenced
<1>3. refcount' \in [Fences -> Int]
  BY <1>1 DEF Put, One
<1>4. ck_refs' \in [Checkpoints -> Int]
  BY <1>1 DEF CkDrop, One
<1>5. ASSUME NEW f \in Fences PROVE refcount'[f] = refcount[f] - One(f \in S)
  BY <1>1 DEF Put, One
<1>6. ASSUME NEW f \in Checkpoints
      PROVE  ck_refs'[f] = ck_refs[f] - One(f \in T) + (One(refcount'[f] > 0) - One(refcount[f] > 0))
  <2>0. f \in Fences
    BY Kinds
  <2>1. refcount[f] \in Nat /\ (f \in S => refcount[f] > 0) /\ ck_refs[f] \in Int
    BY <1>1, <1>2, <2>0
  <2>2. ck_refs'[f] = ck_refs[f] - One(f \in Freed(S)) - One(f \in T)
    BY <1>1 DEF CkDrop, One
  <2>3. f \in Freed(S) <=> f \in S /\ refcount[f] = 1
    BY DEF Freed
  <2>4. One(f \in Freed(S)) = One(refcount[f] > 0) - One(refcount'[f] > 0)
    <3>1. CASE f \in S
      BY <2>0, <2>1, <2>3, <1>5, <3>1 DEF One
    <3>2. CASE f \notin S
      <4>1. refcount'[f] = refcount[f]
        BY <2>0, <2>1, <1>5, <3>2 DEF One
      <4> QED
        BY <2>3, <3>2, <4>1 DEF One
    <3> QED
      BY <3>1, <3>2
  <2>5. /\ One(f \in T) \in Int /\ One(refcount[f] > 0) \in Int /\ One(refcount'[f] > 0) \in Int
    BY DEF One
  <2> QED
    BY <2>1, <2>2, <2>4, <2>5
<1>7. ASSUME NEW w \in Wrappers PROVE refcount'[w] = refcount[w]
  <2>1. w \in Fences /\ w \notin S
    BY Kinds
  <2> QED
    BY <1>2, <1>5, <2>1 DEF One
<1> QED
  BY <1>3, <1>4, <1>5, <1>6, <1>7

\* When nobody waits for more or less.
LEMMA PutKeeps ==
  ASSUME IInv, NEW S \in SUBSET Shared, Put(S), CkDrop(Freed(S), {}),
         \A f \in S : refcount[f] > 0, UNCHANGED deps
  PROVE  CkRefs'
<1>1. \A f \in Checkpoints :
        ck_refs'[f] = ck_refs[f] - One(f \in {}) + (One(refcount'[f] > 0) - One(refcount[f] > 0))
  BY PutSteps
<1>2. ASSUME NEW f \in Checkpoints PROVE ck_refs'[f] = CkHolders(f)'
  <2>1. /\ One(f \in {}) = 0 /\ ck_refs[f] \in Int
        /\ One(refcount[f] > 0) \in Int /\ One(refcount'[f] > 0) \in Int
    BY DEF One, IInv, Types
  <2>2. ck_refs'[f] = ck_refs[f] + (One(refcount[f] > 0)' - One(refcount[f] > 0))
    BY <1>1, <2>1
  <2> QED
    BY <2>2, CkKeep
<1> QED
  BY <1>2 DEF CkRefs

\* Taking references on fences somebody already holds, or on foreign ones.
LEMMA GetSteps ==
  ASSUME IInv, NEW S \in SUBSET Shared, Get(S), \A f \in S : refcount[f] > 0 \/ f \in Foreigns
  PROVE  /\ refcount' \in [Fences -> Int]
         /\ \A f \in Fences : refcount'[f] = refcount[f] + One(f \in S)
         /\ \A f \in Checkpoints : refcount'[f] > 0 <=> refcount[f] > 0
         /\ \A w \in Wrappers : refcount'[w] = refcount[w]
<1>1. refcount \in [Fences -> Int]
  BY DEF IInv, Types
<1>2. \A f \in Fences : refcount[f] \in Nat
  BY Referenced
<1>3. \A f \in Fences : refcount'[f] = refcount[f] + One(f \in S)
  BY <1>1 DEF Get
<1>4. refcount' \in [Fences -> Int]
  BY <1>1 DEF Get, One
<1>5. ASSUME NEW f \in Checkpoints PROVE refcount'[f] > 0 <=> refcount[f] > 0
  <2>1. f \in Fences /\ f \notin Foreigns
    BY Kinds
  <2> QED
    BY <1>2, <1>3, <2>1 DEF One
<1>6. ASSUME NEW w \in Wrappers PROVE refcount'[w] = refcount[w]
  <2>1. w \in Fences /\ w \notin S
    BY Kinds
  <2> QED
    BY <1>2, <1>3, <2>1 DEF One
<1> QED
  BY <1>3, <1>4, <1>5, <1>6

LEMMA TlKeep ==
  ASSUME Types, TlRefs, NEW k \in Kicks, NEW l, pc' = [pc EXCEPT ![k] = l],
         UNCHANGED <<tl_open, tl_refs>>, pc[k] \in Creating <=> l \in Creating
  PROVE  TlRefs'
<1>1. tl_refs' = tl_refs - One(pc[k] \in Creating) + One(l \in Creating)
  BY DEF Types, One
<1> QED
  BY <1>1, TlStep

LEMMA SameBut ==
  /\ \A g \in Files : behind \in [Files -> SUBSET Shared] => behind = [behind EXCEPT ![g] = behind[g]]
  /\ \A k \in Kicks : input \in [Kicks -> SUBSET Shared] => input = [input EXCEPT ![k] = input[k]]
  /\ \A k \in Kicks : deps \in [Kicks -> SUBSET Checkpoints] => deps = [deps EXCEPT ![k] = deps[k]]
OBVIOUS

-----------------------------------------------------------------------------
(* pvr_sync_resolve_fence.                                                 *)

LEMMA ResolveGetStep ==
  ASSUME IInv, NEW k \in Kicks, ResolveGet(k) PROVE IInv'
<1>0. PICK fd \in Fds :
        IF fds[fd] = NoFile
        THEN Goto(k, "over") /\ UNCHANGED <<input, todo, refcount>>
        ELSE /\ input' = [input EXCEPT ![k] = behind[fds[fd]]]
             /\ todo' = [todo EXCEPT ![k] = behind[fds[fd]]]
             /\ Get(behind[fds[fd]])
             /\ Goto(k, "resolve")
  BY DEF ResolveGet
<1>1. /\ pc[k] = "idle"
      /\ UNCHANGED <<fds, behind, tl_open, tl_refs, reserved, wrapping, deps, hooked, made, flag, listed,
                     ck_refs, ck_signaled, queued, query>>
  BY DEF ResolveGet, At, tlVars, ckVars
<1>2. CASE fds[fd] = NoFile
  <2>1. pc' = [pc EXCEPT ![k] = "over"] /\ UNCHANGED <<input, todo, refcount>>
    BY <1>0, <1>2 DEF Goto
  <2>2. tl_refs' = tl_refs - One(pc[k] \in Creating) + One("over" \in Creating)
    BY <1>1 DEF IInv, Types, One, Creating
  <2>3. <<pc[k], "over">> \in Moves
    BY <1>1 DEF Moves
  <2> QED
    BY <1>1, <2>1, <2>2, <2>3, PcStep DEF kickVars, ckVars
<1>3. CASE fds[fd] # NoFile
  <2> DEFINE S == behind[fds[fd]]
  <2>0. fds[fd] \in Files /\ S \in SUBSET Shared
    BY <1>3 DEF IInv, Types
  <2>1. /\ input' = [input EXCEPT ![k] = S] /\ todo' = [todo EXCEPT ![k] = S] /\ Get(S)
        /\ pc' = [pc EXCEPT ![k] = "resolve"]
    BY <1>0, <1>3 DEF Goto
  <2>2. input[k] = {} /\ deps[k] = {} /\ todo[k] = {}
    BY <1>1 DEF IInv, Collected, Resolving, Wrapping
  <2>3. \A f \in S : refcount[f] > 0
    <3>1. \A f \in S : f \in Fences
      BY <2>0, Kinds
    <3> QED
      BY <2>0, <3>1, Referenced
  <2>31. \A f \in S : f \in Kicks => Submitted(f)
    BY <2>0, <1>3 DEF IInv, Hidden, Opened
  <2> HIDE DEF S
  <2>4. /\ refcount' \in [Fences -> Int]
        /\ \A f \in Fences : refcount'[f] = refcount[f] + One(f \in S)
        /\ \A f \in Checkpoints : refcount'[f] > 0 <=> refcount[f] > 0
        /\ \A w \in Wrappers : refcount'[w] = refcount[w]
    BY <2>0, <2>1, <2>3, GetSteps
  <2>5. \A j \in Kicks : (j # k => pc'[j] = pc[j]) /\ pc'[k] = "resolve"
    BY <2>1 DEF IInv, Types
  <2>6. \A j \in Kicks : /\ j # k => input'[j] = input[j] /\ todo'[j] = todo[j]
                         /\ input'[k] = S /\ todo'[k] = S
    BY <2>1 DEF IInv, Types
  <2>7. Types'
    BY <1>1, <2>0, <2>1, <2>4 DEF IInv, Types, Places
  <2>8. TlRefs'
    BY <1>1, <2>1, TlKeep DEF IInv, Creating
  <2>9. FenceRefs'
    <3> SUFFICES ASSUME NEW f \in Fences PROVE refcount'[f] = FenceHolders(f)'
      BY DEF FenceRefs
    <3>1. behind' = [behind EXCEPT ![k] = behind[k]] /\ k \in Files
      BY <1>1, SameBut, Kinds DEF IInv, Types
    <3>2. \A j \in Kicks : ByKick(j, f)' <=> ByKick(j, f)
      BY <1>1, <2>5 DEF ByKick, At
    <3>3. /\ One(ByKick(k, f))' = One(ByKick(k, f)) /\ One(InList(f))' = One(InList(f))
          /\ One(InQuery(f))' = One(InQuery(f))
      BY <1>1, <3>2 DEF One, InList, InQuery
    <3>4. One(f \in input[k]) = 0
      BY <2>2 DEF One
    <3>5. /\ One(f \in S) \in Int /\ One(f \in behind[k]) \in Int /\ One(ByKick(k, f)) \in Int
          /\ One(InList(f)) \in Int /\ One(InQuery(f)) \in Int /\ refcount[f] \in Int
      BY DEF One, IInv, Types
    <3>6. refcount'[f] = refcount[f]
                          + (One(f \in behind[k]) - One(f \in behind[k])) + (One(f \in S) - One(f \in input[k]))
                          + (One(ByKick(k, f))' - One(ByKick(k, f)))
                          + (One(InList(f))' - One(InList(f))) + (One(InQuery(f))' - One(InQuery(f)))
      BY <2>4, <3>3, <3>4, <3>5
    <3>7. \A w \in Wrappers : refcount'[w] > 0 <=> refcount[w] > 0
      BY <2>4
    <3> QED
      BY <1>1, <2>1, <3>1, <3>2, <3>6, <3>7, FenceStep
  <2>10. CkRefs'
    BY <1>1, <2>4, CkSame DEF IInv
  <2>11. FdsReserved'
    <3>1. \A j \in Kicks : HasFd(j)' <=> HasFd(j)
      BY <1>1, <2>5 DEF HasFd
    <3> QED
      BY <1>1, <3>1 DEF IInv, FdsReserved
  <2>12. FilesOpen'
    BY <1>1, <2>5 DEF IInv, FilesOpen, Opened, Owned
  <2>13. Collected'
    BY <1>1, <2>2, <2>5, <2>6 DEF IInv, Collected, Resolving, Wrapping
  <2>131. Wrapped'
    <3>1. \A j \in Kicks : /\ pc'[j] \in Wrapping <=> pc[j] \in Wrapping
                           /\ pc'[j] \in Wrapping => pc'[j] = pc[j] /\ input'[j] = input[j] /\ todo'[j] = todo[j]
      BY <1>1, <2>5, <2>6 DEF Wrapping
    <3>2. \A j \in Kicks, x \in Foreigns : /\ Unwrapped(j, x)' => Unwrapped(j, x)
                                           /\ Unwaited(j, x)' => Unwaited(j, x)
      BY <1>1, <2>5, <2>6 DEF Unwrapped, Unwaited, Resolving, Wrapping
    <3>3. (\A j \in Kicks : wrapping[j] # NoFile <=> pc[j] \in Wrapping)'
      BY <1>1, <3>1 DEF IInv, Wrapped
    <3>4. (\A j \in Kicks : pc[j] \in Wrapping => wrapping[j] \in input[j] /\ wrapping[j] \notin todo[j])'
      BY <1>1, <3>1 DEF IInv, Wrapped
    <3>5. (\A j \in Kicks : pc[j] = "wrapped" => Passed(<<j, wrapping[j]>>))'
      BY <1>1, <2>5 DEF IInv, Wrapped, Passed
    <3>6. (\A j \in Kicks : \A w \in Wrappers : w \in deps[j] => w[1] = j /\ Passed(w))'
      BY <1>1 DEF IInv, Wrapped, Passed
    <3>7. (\A j \in Kicks, x \in Foreigns : /\ Unwrapped(j, x) => <<j, x>> \notin hooked
                                            /\ Unwaited(j, x) => <<j, x>> \notin deps[j])'
      BY <1>1, <3>2 DEF IInv, Wrapped
    <3> QED
      BY <3>3, <3>4, <3>5, <3>6, <3>7 DEF Wrapped
  <2>14. Firmware'
    BY <1>1, <2>5 DEF IInv, Firmware, Submitted
  <2>15. Hidden'
    BY <1>1, <2>31, <2>6 DEF IInv, Hidden, Submitted, Opened
  <2>16. Ordered'
    BY <1>1, OrderedSame DEF IInv
  <2> QED
    BY <2>7, <2>8, <2>9, <2>10, <2>11, <2>12, <2>13, <2>131, <2>14, <2>15, <2>16 DEF IInv
<1> QED
  BY <1>2, <1>3

LEMMA ResolveOneStep ==
  ASSUME IInv, NEW k \in Kicks, ResolveOne(k) PROVE IInv'
<1>0. PICK f \in todo[k] :
       /\ todo' = [todo EXCEPT ![k] = @ \ {f}]
       /\ \/ flag[f] /\ UNCHANGED <<pc, wrapping, deps, ck_refs>>
          \/ /\ ~flag[f] /\ f \in Kicks
             /\ deps' = [deps EXCEPT ![k] = @ \cup {f}]
             /\ ck_refs' = [ck_refs EXCEPT ![f] = @ + 1]
             /\ UNCHANGED <<pc, wrapping>>
          \/ /\ ~flag[f] /\ f \in Foreigns
             /\ wrapping' = [wrapping EXCEPT ![k] = f]
             /\ pc' = [pc EXCEPT ![k] = "wrap"]
             /\ UNCHANGED <<deps, ck_refs>>
  BY DEF ResolveOne, Goto
<1>1. /\ pc[k] = "resolve"
      /\ UNCHANGED <<fds, behind, tl_open, tl_refs, reserved, input, refcount, hooked, made, flag, listed,
                     ck_signaled, queued, query>>
  BY DEF ResolveOne, At, tlVars, fenceVars
<1>2. /\ f \in Shared /\ f \in input[k] /\ f \notin deps[k] /\ f \in todo[k]
      /\ f \in Kicks => Submitted(f)
  BY DEF IInv, Types, Collected, Hidden
<1>3. ~queued[k]
  BY <1>1 DEF IInv, Firmware
<1>4. /\ todo' \in [Kicks -> SUBSET Shared]
      /\ \A j \in Kicks : (j # k => todo'[j] = todo[j]) /\ todo'[k] = todo[k] \ {f}
  BY <1>0 DEF IInv, Types
<1>5. CASE UNCHANGED <<pc, wrapping>>
  <2>0. /\ \A j \in Kicks : j # k => deps'[j] = deps[j]
        /\ deps'[k] \in {deps[k], deps[k] \cup {f}} /\ (f \notin Kicks => deps'[k] = deps[k])
        /\ deps' \in [Kicks -> SUBSET Checkpoints] /\ ck_refs' \in [Checkpoints -> Int]
    <3>1. CASE UNCHANGED <<deps, ck_refs>>
      BY <3>1 DEF IInv, Types
    <3>2. CASE /\ f \in Kicks
               /\ deps' = [deps EXCEPT ![k] = @ \cup {f}]
               /\ ck_refs' = [ck_refs EXCEPT ![f] = @ + 1]
      <4>1. f \in Checkpoints
        BY <3>2, Kinds
      <4> QED
        BY <3>2, <4>1 DEF IInv, Types
    <3> QED
      BY <1>0, <3>1, <3>2
  <2>1. Types'
    BY <1>1, <1>4, <1>5, <2>0 DEF IInv, Types
  <2>2. CkRefs'
    <3>1. CASE UNCHANGED <<deps, ck_refs>>
      BY <1>1, <3>1, CkSame DEF IInv
    <3>2. CASE /\ f \in Kicks
               /\ deps' = [deps EXCEPT ![k] = @ \cup {f}]
               /\ ck_refs' = [ck_refs EXCEPT ![f] = @ + 1]
      <4> SUFFICES ASSUME NEW h \in Checkpoints PROVE ck_refs'[h] = CkHolders(h)'
        BY DEF CkRefs
      <4>1. One(refcount[h] > 0)' = One(refcount[h] > 0)
        BY <1>1 DEF One
      <4>2. ck_refs'[h] = ck_refs[h] + (One(h \in deps[k] \cup {f}) - One(h \in deps[k]))
        <5>1. f \in Checkpoints /\ ck_refs \in [Checkpoints -> Int]
          BY <3>2, Kinds DEF IInv, Types
        <5>2. ck_refs'[h] = IF h = f THEN ck_refs[h] + 1 ELSE ck_refs[h]
          BY <3>2, <5>1
        <5>3. ck_refs[h] \in Int
          BY <5>1
        <5> QED
          BY <1>2, <5>2, <5>3 DEF One
      <4>3. /\ ck_refs[h] \in Int /\ One(refcount[h] > 0) \in Int
            /\ One(h \in deps[k] \cup {f}) \in Int /\ One(h \in deps[k]) \in Int
        BY DEF One, IInv, Types
      <4>4. ck_refs'[h] = ck_refs[h] + (One(h \in deps[k] \cup {f}) - One(h \in deps[k]))
                           + (One(refcount[h] > 0)' - One(refcount[h] > 0))
        BY <4>1, <4>2, <4>3
      <4> QED
        BY <3>2, <4>4, CkStep
    <3> QED
      BY <1>0, <3>1, <3>2
  <2>3. FenceRefs'
    BY <1>1, <1>5, FenceSame DEF IInv, PlacesSame
  <2>4. Collected'
    BY <1>1, <1>4, <1>5, <2>0 DEF IInv, Collected
  <2>5. Wrapped'
    <3>1. \A j \in Kicks, x \in Foreigns : /\ Unwrapped(j, x)' => Unwrapped(j, x)
                                           /\ Unwaited(j, x)' => Unwaited(j, x)
      BY <1>1, <1>4, <1>5 DEF Unwrapped, Unwaited
    <3>2. \A j \in Kicks : \A w \in Wrappers : w \in deps'[j] <=> w \in deps[j]
      BY <2>0, Kinds
    <3>3. (\A j \in Kicks : wrapping[j] # NoFile <=> pc[j] \in Wrapping)'
      BY <1>5 DEF IInv, Wrapped
    <3>4. (\A j \in Kicks : pc[j] \in Wrapping => wrapping[j] \in input[j] /\ wrapping[j] \notin todo[j])'
      BY <1>1, <1>4, <1>5 DEF IInv, Wrapped
    <3>5. (\A j \in Kicks : pc[j] = "wrapped" => Passed(<<j, wrapping[j]>>))'
      BY <1>1, <1>5 DEF IInv, Wrapped, Passed
    <3>6. (\A j \in Kicks : \A w \in Wrappers : w \in deps[j] => w[1] = j /\ Passed(w))'
      BY <1>1, <3>2 DEF IInv, Wrapped, Passed
    <3>7. (\A j \in Kicks, x \in Foreigns : /\ Unwrapped(j, x) => <<j, x>> \notin hooked
                                            /\ Unwaited(j, x) => <<j, x>> \notin deps[j])'
      BY <1>1, <3>1, <3>2, Kinds DEF IInv, Wrapped
    <3> QED
      BY <3>3, <3>4, <3>5, <3>6, <3>7 DEF Wrapped
  <2>6. Hidden'
    BY <1>1, <1>2, <2>0 DEF IInv, Hidden, Submitted, Opened
  <2>7. Ordered'
    BY <1>1, <1>3, <2>0 DEF IInv, Ordered
  <2> QED
    BY <1>1, <1>5, <2>1, <2>2, <2>3, <2>4, <2>5, <2>6, <2>7, TlSame, FdsSame, OpenSame, FirmwareSame
       DEF IInv
<1>6. CASE /\ f \in Foreigns /\ wrapping' = [wrapping EXCEPT ![k] = f]
           /\ pc' = [pc EXCEPT ![k] = "wrap"] /\ UNCHANGED <<deps, ck_refs>>
  <2>0. \A j \in Kicks : /\ j # k => pc'[j] = pc[j] /\ wrapping'[j] = wrapping[j]
                         /\ pc'[k] = "wrap" /\ wrapping'[k] = f
    BY <1>6 DEF IInv, Types
  <2>1. Types'
    BY <1>1, <1>4, <1>6 DEF IInv, Types, Places
  <2>2. CkRefs'
    BY <1>1, <1>6, CkSame DEF IInv
  <2>3. FenceRefs'
    BY <1>1, <2>0, FenceSame DEF IInv, PlacesSame
  <2>4. Collected'
    BY <1>1, <1>4, <1>6, <2>0 DEF IInv, Collected, Resolving, Wrapping
  <2>5. Wrapped'
    <3>0. f # NoFile
      BY <1>6, Kinds
    <3>1. \A j \in Kicks, x \in Foreigns : /\ Unwrapped(j, x)' => Unwrapped(j, x)
                                           /\ Unwaited(j, x)' => Unwaited(j, x)
      BY <1>1, <1>2, <1>4, <2>0 DEF Unwrapped, Unwaited, Resolving, Wrapping
    <3>3. (\A j \in Kicks : wrapping[j] # NoFile <=> pc[j] \in Wrapping)'
      BY <1>1, <2>0, <3>0 DEF IInv, Wrapped, Wrapping
    <3>4. (\A j \in Kicks : pc[j] \in Wrapping => wrapping[j] \in input[j] /\ wrapping[j] \notin todo[j])'
      BY <1>1, <1>2, <1>4, <2>0 DEF IInv, Wrapped
    <3>5. (\A j \in Kicks : pc[j] = "wrapped" => Passed(<<j, wrapping[j]>>))'
      BY <1>1, <2>0 DEF IInv, Wrapped, Passed
    <3>6. (\A j \in Kicks : \A w \in Wrappers : w \in deps[j] => w[1] = j /\ Passed(w))'
      BY <1>1, <1>6 DEF IInv, Wrapped, Passed
    <3>7. (\A j \in Kicks, x \in Foreigns : /\ Unwrapped(j, x) => <<j, x>> \notin hooked
                                            /\ Unwaited(j, x) => <<j, x>> \notin deps[j])'
      BY <1>1, <1>6, <3>1 DEF IInv, Wrapped
    <3> QED
      BY <3>3, <3>4, <3>5, <3>6, <3>7 DEF Wrapped
  <2>6. Hidden'
    BY <1>1, <1>6, HiddenSame DEF IInv
  <2>7. TlRefs'
    BY <1>1, <1>6, TlKeep DEF IInv, Creating
  <2>8. FdsReserved'
    <3>1. \A j \in Kicks : HasFd(j)' <=> HasFd(j)
      BY <1>1, <2>0 DEF HasFd
    <3> QED
      BY <1>1, <3>1 DEF IInv, FdsReserved
  <2>9. FilesOpen'
    BY <1>1, <2>0 DEF IInv, FilesOpen, Opened, Owned
  <2>10. Firmware'
    BY <1>1, <2>0 DEF IInv, Firmware, Submitted
  <2>11. Ordered'
    BY <1>1, <1>6, OrderedSame DEF IInv
  <2> QED
    BY <2>1, <2>2, <2>3, <2>4, <2>5, <2>6, <2>7, <2>8, <2>9, <2>10, <2>11 DEF IInv
<1> QED
  BY <1>0, <1>5, <1>6

\* A step of kick k, or of the callback, with the wrapper of x that k makes.
LEMMA WrapperStep ==
  ASSUME IInv, NEW k \in Kicks, NEW x \in Foreigns, NEW w, w = <<k, x>>, refcount' \in [Fences -> Int],
         refcount'[x] = refcount[x] + (One(refcount[w] > 0)' - One(refcount[w] > 0)),
         refcount'[w] = refcount[w] + (One(ByKick(k, w))' - One(ByKick(k, w)))
                          + (One(w \in hooked)' - One(w \in hooked)),
         \A f \in Fences : f # w /\ f # x => refcount'[f] = refcount[f],
         UNCHANGED <<behind, input, listed, query>>,
         \A f \in Fences : f # w => (f \in hooked' <=> f \in hooked),
         \A j \in Kicks : \A f \in Fences : f # w => (ByKick(j, f)' <=> ByKick(j, f))
  PROVE  FenceRefs'
<1>1. /\ w \in Wrappers /\ w \in Fences /\ x \in Fences /\ w # x /\ w[2] = x /\ w \notin Kicks
      /\ w \notin Foreigns /\ x \notin Checkpoints /\ x \notin Wrappers
  BY Kinds
<1>2. refcount \in [Fences -> Int]
  BY DEF IInv, Types
<1>3. One(refcount[w] > 0)' \in Int /\ One(refcount[w] > 0) \in Int
  BY DEF One
<1>7. ASSUME NEW f \in Fences PROVE refcount'[f] = FenceHolders(f)'
  <2>1. \A j \in Kicks : j # k => (ByKick(j, f)' <=> ByKick(j, f))
    <3>1. CASE f = w
      <4>1. \A j \in Kicks : j # k => ~ByKick(j, w) /\ ~ByKick(j, w)'
        BY <1>1, w = <<k, x>> DEF ByKick
      <4> QED
        BY <3>1, <4>1
    <3> QED
      BY <3>1
  <2>2. /\ Cardinality(Makers(f))' = Cardinality(Makers(f)) - One(ByKick(k, f)) + One(ByKick(k, f))'
        /\ Cardinality(Makers(f)) \in Nat
    BY <2>1, MakersChange
  <2>3. \A v \in Wrappers : v # w => (refcount'[v] > 0 <=> refcount[v] > 0)
    <3>1. \A v \in Wrappers : v \in Fences /\ v # x
      BY <1>1, Kinds
    <3> QED
      BY <3>1
  <2>4. /\ Cardinality(Alive(f))' = Cardinality(Alive(f)) - One(w[2] = f /\ refcount[w] > 0)
                                      + One(w[2] = f /\ refcount[w] > 0)'
        /\ Cardinality(Alive(f)) \in Nat
    BY <1>1, <2>3, AliveChange
  <2>5. /\ Cardinality(Openers(f))' = Cardinality(Openers(f)) /\ Cardinality(Openers(f)) \in Nat
        /\ Cardinality(Inputs(f))' = Cardinality(Inputs(f)) /\ Cardinality(Inputs(f)) \in Nat
    BY CountTypes DEF Openers, Inputs
  <2>6. /\ One(InList(f))' = One(InList(f)) /\ One(InList(f)) \in Int
        /\ One(InQuery(f))' = One(InQuery(f)) /\ One(InQuery(f)) \in Int
        /\ One(ByKick(k, f)) \in Int /\ One(ByKick(k, f))' \in Int
        /\ One(f \in hooked) \in Int /\ One(f \in hooked)' \in Int /\ refcount[f] \in Int
    BY <1>2 DEF One, InList, InQuery
  <2>7. f # w => One(ByKick(k, f))' = One(ByKick(k, f)) /\ One(f \in hooked)' = One(f \in hooked)
    BY DEF One
  <2>8. /\ One(w[2] = f /\ refcount[w] > 0) = IF f = x THEN One(refcount[w] > 0) ELSE 0
        /\ One(w[2] = f /\ refcount[w] > 0)' = IF f = x THEN One(refcount[w] > 0)' ELSE 0
    BY <1>1 DEF One
  <2>9. refcount'[f] = refcount[f]
                         + (One(ByKick(k, f))' - One(ByKick(k, f))) + (One(f \in hooked)' - One(f \in hooked))
                         + (One(w[2] = f /\ refcount[w] > 0)' - One(w[2] = f /\ refcount[w] > 0))
    <3>1. CASE f = w
      BY <1>1, <2>6, <2>8, <3>1
    <3>2. CASE f = x
      <4>1. /\ One(w[2] = f /\ refcount[w] > 0) = One(refcount[w] > 0)
            /\ One(w[2] = f /\ refcount[w] > 0)' = One(refcount[w] > 0)'
        BY <2>8, <3>2
      <4> QED
        BY <1>1, <1>3, <2>6, <2>7, <3>2, <4>1
    <3>3. CASE f # x /\ f # w
      <4>1. /\ One(w[2] = f /\ refcount[w] > 0) = 0
            /\ One(w[2] = f /\ refcount[w] > 0)' = 0
        BY <2>8, <3>3
      <4>2. refcount'[f] = refcount[f]
        BY <3>3
      <4> QED
        BY <2>6, <2>7, <3>3, <4>1, <4>2
    <3> QED
      BY <3>1, <3>2, <3>3
  <2>10. One(w[2] = f /\ refcount[w] > 0) \in Int /\ One(w[2] = f /\ refcount[w] > 0)' \in Int
    BY DEF One
  <2>11. refcount'[f] = refcount[f]
                          + (Cardinality(Openers(f))' - Cardinality(Openers(f)))
                          + (Cardinality(Inputs(f))' - Cardinality(Inputs(f)))
                          + (Cardinality(Alive(f))' - Cardinality(Alive(f)))
                          + (Cardinality(Makers(f))' - Cardinality(Makers(f)))
                          + (One(InList(f))' - One(InList(f))) + (One(f \in hooked)' - One(f \in hooked))
                          + (One(InQuery(f))' - One(InQuery(f)))
    BY <2>2, <2>4, <2>5, <2>6, <2>9, <2>10
  <2>12. /\ Cardinality(Openers(f))' \in Int /\ Cardinality(Inputs(f))' \in Int
         /\ Cardinality(Alive(f))' \in Int /\ Cardinality(Makers(f))' \in Int
    BY <2>2, <2>4, <2>5, <2>6, <2>10
  <2> QED
    BY <2>11, <2>12, FenceCount
<1> QED
  BY <1>7 DEF FenceRefs

\* With it, the checkpoint of the wrapper changes hands.
LEMMA WrapperCk ==
  ASSUME IInv, NEW k \in Kicks, NEW x \in Foreigns, NEW w, w = <<k, x>>,
         deps' \in [Kicks -> SUBSET Checkpoints], \A j \in Kicks : j # k => deps'[j] = deps[j],
         \A f \in Checkpoints : f # w => refcount'[f] = refcount[f] /\ ck_refs'[f] = ck_refs[f],
         \A f \in Checkpoints : f # w => (f \in deps'[k] <=> f \in deps[k]),
         ck_refs'[w] = ck_refs[w] + (One(w \in deps'[k]) - One(w \in deps[k]))
                         + (One(refcount[w] > 0)' - One(refcount[w] > 0))
  PROVE  CkRefs'
<1> DEFINE D == deps'[k]
<1>1. w \in Checkpoints
  BY Kinds
<1>11. deps' = [deps EXCEPT ![k] = D]
  BY DEF IInv, Types
<1> HIDE DEF D
<1>2. ck_refs \in [Checkpoints -> Int]
  BY DEF IInv, Types
<1>3. ASSUME NEW f \in Checkpoints PROVE ck_refs'[f] = CkHolders(f)'
  <2>1. ck_refs'[f] = ck_refs[f] + (One(f \in D) - One(f \in deps[k]))
                       + (One(refcount[f] > 0)' - One(refcount[f] > 0))
    <3>1. CASE f = w
      BY <3>1 DEF D
    <3>2. CASE f # w
      <4>1. ck_refs'[f] = ck_refs[f] /\ ck_refs[f] \in Int
        BY <1>1, <1>2, <3>2
      <4>2. One(f \in D) = One(f \in deps[k]) /\ One(refcount[f] > 0)' = One(refcount[f] > 0)
        BY <3>2 DEF One, D
      <4>3. One(f \in deps[k]) \in Int /\ One(refcount[f] > 0) \in Int
        BY DEF One
      <4> QED
        BY <4>1, <4>2, <4>3
    <3> QED
      BY <3>1, <3>2
  <2> QED
    BY <1>11, <2>1, CkStep
<1> QED
  BY <1>3 DEF CkRefs

LEMMA WrapForeignStep ==
  ASSUME IInv, NEW k \in Kicks, WrapForeign(k) PROVE IInv'
<1>1. /\ pc[k] = "wrap" /\ pc' = [pc EXCEPT ![k] = "wrapped"]
      /\ UNCHANGED <<fds, behind, tl_open, tl_refs, reserved, input, todo, wrapping, deps, made, flag,
                     listed, queued, query>>
  BY DEF WrapForeign, At, Goto, tlVars, kickVars
<1>2. PICK x \in Foreigns : x = wrapping[k]
  BY <1>1 DEF IInv, Types, Wrapped, Wrapping
<1>3. PICK w \in Wrappers : w = <<k, x>>
  BY Kinds
<1>4. /\ refcount' = [refcount EXCEPT ![w] = IF flag[x] THEN 1 ELSE 2, ![x] = @ + 1]
      /\ ck_refs' = [ck_refs EXCEPT ![w] = 1]
      /\ ck_signaled' = [ck_signaled EXCEPT ![w] = flag[x]]
      /\ hooked' = IF flag[x] THEN hooked ELSE hooked \cup {w}
  BY <1>2, <1>3 DEF WrapForeign
<1>5. /\ w \in Fences /\ w \in Checkpoints /\ x \in Fences /\ w # x /\ w \notin Shared /\ w \notin Kicks
      /\ x \notin Wrappers /\ w[1] = k /\ flag[x] \in BOOLEAN
  BY <1>3, Kinds DEF IInv, Types
<1>6. \A j \in Kicks : (j # k => pc'[j] = pc[j]) /\ pc'[k] = "wrapped"
  BY <1>1 DEF IInv, Types
<1>7. w \notin hooked /\ \A j \in Kicks : w \notin deps[j]
  <2>1. Unwrapped(k, x) /\ Unwaited(k, x)
    BY <1>1, <1>2 DEF Unwrapped, Unwaited
  <2>2. w \notin hooked /\ w \notin deps[k]
    BY <1>3, <2>1 DEF IInv, Wrapped
  <2> QED
    BY <1>5, <2>2 DEF IInv, Wrapped
<1>8. refcount[w] = 0
  <2>1. refcount[w] = One(pc[k] = "wrapped" /\ x = wrapping[k]) + One(w \in hooked)
    BY <1>3, WrapperRefs
  <2> QED
    BY <1>1, <1>7, <2>1 DEF One
<1>9. ck_refs[w] = 0
  <2>1. Waiters(w) = {}
    BY <1>7 DEF Waiters
  <2>2. ck_refs[w] = One(refcount[w] > 0) + Cardinality(Waiters(w))
    BY <1>5, Holders DEF IInv, CkRefs
  <2> QED
    BY <1>8, <2>1, <2>2, FS_EmptySet DEF One
<1>10. PICK r \in Int : r = (IF flag[x] THEN 1 ELSE 2)
  OBVIOUS
<1>11. /\ hooked' \in SUBSET Wrappers /\ (w \in hooked' <=> ~flag[x])
       /\ \A v : v # w => (v \in hooked' <=> v \in hooked)
  BY <1>4, <1>5, <1>7 DEF IInv, Types
<1>12. /\ refcount' \in [Fences -> Int] /\ refcount'[w] = r /\ refcount'[x] = refcount[x] + 1
       /\ \A f \in Fences : f # w /\ f # x => refcount'[f] = refcount[f]
       /\ One(refcount[w] > 0)' = 1 /\ One(refcount[w] > 0) = 0
  <2>1. refcount \in [Fences -> Int]
    BY DEF IInv, Types
  <2>2. refcount'[w] = r
    BY <1>4, <1>5, <1>10, <2>1
  <2>3. refcount'[x] = refcount[x] + 1
    BY <1>4, <1>5, <2>1
  <2>4. \A f \in Fences : f # w /\ f # x => refcount'[f] = refcount[f]
    BY <1>4, <1>5, <2>1
  <2>5. refcount' \in [Fences -> Int]
    BY <1>4, <1>5, <2>1
  <2> QED
    BY <1>8, <1>10, <2>2, <2>3, <2>4, <2>5 DEF One
<1>121. FenceRefs'
  <2>2. ~ByKick(k, w) /\ ByKick(k, w)'
    BY <1>1, <1>2, <1>3, <1>5, <1>6 DEF ByKick, At
  <2>3. /\ One(ByKick(k, w))' = 1 /\ One(ByKick(k, w)) = 0 /\ One(w \in hooked) = 0
        /\ One(w \in hooked)' = IF flag[x] THEN 0 ELSE 1
    BY <1>7, <1>11, <2>2 DEF One
  <2>4. refcount'[w] = refcount[w] + (One(ByKick(k, w))' - One(ByKick(k, w)))
                         + (One(w \in hooked)' - One(w \in hooked))
    BY <1>5, <1>8, <1>10, <1>12, <2>3
  <2>5. \A j \in Kicks : \A f \in Fences : f # w => (ByKick(j, f)' <=> ByKick(j, f))
    BY <1>1, <1>2, <1>3, <1>6 DEF ByKick, At
  <2>6. refcount'[x] = refcount[x] + (One(refcount[w] > 0)' - One(refcount[w] > 0))
    BY <1>12
  <2>7. \A f \in Fences : f # w => (f \in hooked' <=> f \in hooked)
    BY <1>11
  <2> QED
    BY <1>1, <1>3, <1>12, <2>4, <2>5, <2>6, <2>7, WrapperStep
<1>13. CkRefs' /\ ck_refs' \in [Checkpoints -> Int]
  <2>0. /\ ck_refs' \in [Checkpoints -> Int] /\ ck_refs'[w] = 1
        /\ \A f \in Checkpoints : f # w => ck_refs'[f] = ck_refs[f]
    BY <1>4, <1>5 DEF IInv, Types
  <2>1. deps' = deps /\ deps' \in [Kicks -> SUBSET Checkpoints]
    BY <1>1 DEF IInv, Types
  <2>2. ck_refs'[w] = ck_refs[w] + (One(w \in deps'[k]) - One(w \in deps[k]))
                        + (One(refcount[w] > 0)' - One(refcount[w] > 0))
    BY <1>9, <1>12, <2>0, <2>1 DEF One
  <2>3. \A f \in Checkpoints : f # w => refcount'[f] = refcount[f]
    BY <1>12, Kinds
  <2>4. \A f \in Checkpoints : f # w => refcount'[f] = refcount[f] /\ ck_refs'[f] = ck_refs[f]
    BY <2>0, <2>3
  <2> QED
    BY <1>3, <2>0, <2>1, <2>2, <2>4, WrapperCk
<1>14. /\ ck_signaled' \in [Checkpoints -> BOOLEAN] /\ (ck_signaled'[w] <=> flag[x])
       /\ \A v \in Checkpoints : v # w => ck_signaled'[v] = ck_signaled[v]
  BY <1>4, <1>5 DEF IInv, Types
<1>15. \A j \in Kicks : ck_signaled'[j] = ck_signaled[j]
  BY <1>5, <1>14, Kinds
<1>16. Types'
  BY <1>1, <1>11, <1>12, <1>13, <1>14 DEF IInv, Types, Places
<1>17. Wrapped'
  <2>1. \A v \in Wrappers : v # w => (ck_signaled'[v] \/ v \in hooked' <=> Passed(v))
    BY <1>11, <1>14, Kinds DEF Passed
  <2>2. (\A j \in Kicks : wrapping[j] # NoFile <=> pc[j] \in Wrapping)'
    BY <1>1, <1>6 DEF IInv, Wrapped, Wrapping
  <2>3. (\A j \in Kicks : pc[j] \in Wrapping => wrapping[j] \in input[j] /\ wrapping[j] \notin todo[j])'
    BY <1>1, <1>6 DEF IInv, Wrapped, Wrapping
  <2>4. ASSUME NEW j \in Kicks, pc'[j] = "wrapped"
        PROVE  ck_signaled'[<<j, wrapping'[j]>>] \/ <<j, wrapping'[j]>> \in hooked'
    <3>1. CASE j = k
      BY <1>1, <1>2, <1>3, <1>11, <1>14, <3>1
    <3>2. CASE j # k
      <4>1. pc[j] = "wrapped" /\ wrapping'[j] = wrapping[j]
        BY <1>1, <1>6, <2>4, <3>2
      <4>2. PICK y \in Foreigns : y = wrapping[j]
        BY <4>1 DEF IInv, Types, Wrapped, Wrapping
      <4>3. Passed(<<j, y>>)
        BY <4>1, <4>2 DEF IInv, Wrapped
      <4>4. <<j, y>> \in Wrappers /\ <<j, y>> # w
        BY <1>3, <3>2, Kinds
      <4> QED
        BY <2>1, <4>1, <4>2, <4>3, <4>4
    <3> QED
      BY <3>1, <3>2
  <2>5. ASSUME NEW j \in Kicks, NEW v \in Wrappers, v \in deps'[j]
        PROVE  v[1] = j /\ (ck_signaled'[v] \/ v \in hooked')
    BY <1>1, <1>7, <2>1, <2>5 DEF IInv, Wrapped
  <2>6. ASSUME NEW j \in Kicks, NEW y \in Foreigns
        PROVE  /\ Unwrapped(j, y)' => <<j, y>> \notin hooked'
               /\ Unwaited(j, y)' => <<j, y>> \notin deps'[j]
    <3>1. Unwaited(j, y)' => Unwaited(j, y)
      BY <1>1, <1>6 DEF Unwrapped, Unwaited, Resolving, Wrapping
    <3>2. Unwrapped(j, y)' => Unwrapped(j, y) /\ <<j, y>> # w
      <4>1. CASE j = k
        <5>1. wrapping[k] \notin todo[k]
          BY <1>1 DEF IInv, Wrapped, Wrapping
        <5>2. Unwrapped(k, y)' => y \in todo[k]
          BY <1>1, <1>6 DEF Unwrapped
        <5>3. Unwrapped(k, y)' => Unwrapped(k, y)
          BY <1>1, <5>2 DEF Unwrapped, Resolving, Wrapping
        <5> QED
          BY <1>2, <1>3, <4>1, <5>1, <5>2, <5>3
      <4>2. CASE j # k
        BY <1>1, <1>3, <1>6, <4>2 DEF Unwrapped
      <4> QED
        BY <4>1, <4>2
    <3> QED
      BY <1>1, <1>11, <3>1, <3>2 DEF IInv, Wrapped
  <2> QED
    BY <2>2, <2>3, <2>4, <2>5, <2>6 DEF Wrapped, Passed
<1>18. Collected'
  BY <1>1, <1>6 DEF IInv, Collected, Resolving, Wrapping
<1>19. TlRefs'
  BY <1>1, TlKeep DEF IInv, Creating
<1>20. FdsReserved'
  <2>1. \A j \in Kicks : HasFd(j)' <=> HasFd(j)
    BY <1>1, <1>6 DEF HasFd
  <2> QED
    BY <1>1, <2>1 DEF IInv, FdsReserved
<1>21. FilesOpen'
  BY <1>1, <1>6 DEF IInv, FilesOpen, Opened, Owned
<1>22. Firmware'
  BY <1>1, <1>6, <1>15 DEF IInv, Firmware, Submitted
<1>23. Hidden'
  BY <1>1, <1>15 DEF IInv, Hidden, Submitted, Opened
<1>24. Ordered'
  BY <1>1, OrderedSame DEF IInv
<1> QED
  BY <1>121, <1>13, <1>16, <1>17, <1>18, <1>19, <1>20, <1>21, <1>22, <1>23, <1>24 DEF IInv

\* Putting a wrapper, with the reference on what it wraps and on its checkpoint.
LEMMA PutWrapperSteps ==
  ASSUME IInv, NEW w \in Wrappers, NEW n \in Int, PutWrapper(w, n), refcount[w] > 0
  PROVE  /\ refcount' \in [Fences -> Int] /\ ck_refs' \in [Checkpoints -> Int]
         /\ refcount'[w] = refcount[w] - 1
         /\ refcount'[w[2]] = refcount[w[2]] + (One(refcount[w] > 0)' - One(refcount[w] > 0))
         /\ \A f \in Fences : f # w /\ f # w[2] => refcount'[f] = refcount[f]
         /\ ck_refs'[w] = ck_refs[w] + n + (One(refcount[w] > 0)' - One(refcount[w] > 0))
         /\ \A f \in Checkpoints : f # w => refcount'[f] = refcount[f] /\ ck_refs'[f] = ck_refs[f]
<1>1. /\ w \in Fences /\ w \in Checkpoints /\ w[2] \in Fences /\ w # w[2] /\ w[2] \notin Checkpoints
  BY Kinds
<1>2. refcount \in [Fences -> Int] /\ ck_refs \in [Checkpoints -> Int]
  BY DEF IInv, Types
<1>3. PICK last \in {0, 1} : last = One(refcount[w] = 1)
  BY DEF One
<1>4. /\ refcount' = [refcount EXCEPT ![w] = @ - 1, ![w[2]] = @ - last]
      /\ ck_refs' = [ck_refs EXCEPT ![w] = @ + n - last]
  BY <1>3 DEF PutWrapper
<1>5. refcount'[w] = refcount[w] - 1
  BY <1>1, <1>2, <1>4
<1>6. refcount'[w[2]] = refcount[w[2]] - last
  BY <1>1, <1>2, <1>4
<1>7. \A f \in Fences : f # w /\ f # w[2] => refcount'[f] = refcount[f]
  BY <1>1, <1>2, <1>4
<1>8. refcount' \in [Fences -> Int]
  BY <1>1, <1>2, <1>3, <1>4
<1>9. /\ ck_refs' \in [Checkpoints -> Int] /\ ck_refs'[w] = ck_refs[w] + n - last
      /\ \A f \in Checkpoints : f # w => ck_refs'[f] = ck_refs[f]
  BY <1>1, <1>2, <1>3, <1>4
<1>10. One(refcount[w] > 0)' - One(refcount[w] > 0) = 0 - last
  BY <1>1, <1>2, <1>3, <1>5 DEF One
<1>11. refcount[w[2]] \in Int /\ ck_refs[w] \in Int
  BY <1>1, <1>2
<1>12. \A f \in Checkpoints : f # w => refcount'[f] = refcount[f]
  BY <1>1, <1>7, Kinds
<1>13. refcount'[w[2]] = refcount[w[2]] + (One(refcount[w] > 0)' - One(refcount[w] > 0))
  BY <1>3, <1>6, <1>10, <1>11
<1>14. ck_refs'[w] = ck_refs[w] + n + (One(refcount[w] > 0)' - One(refcount[w] > 0))
  BY <1>3, <1>9, <1>10, <1>11
<1> QED
  BY <1>5, <1>7, <1>8, <1>9, <1>12, <1>13, <1>14

LEMMA ResolveWrappedStep ==
  ASSUME IInv, NEW k \in Kicks, ResolveWrapped(k) PROVE IInv'
<1>1. /\ pc[k] = "wrapped" /\ pc' = [pc EXCEPT ![k] = "resolve"]
      /\ wrapping' = [wrapping EXCEPT ![k] = NoFile]
      /\ UNCHANGED <<fds, behind, tl_open, tl_refs, reserved, input, todo, hooked, made, flag,
                     listed, ck_signaled, queued, query>>
  BY DEF ResolveWrapped, At, Goto, tlVars
<1>2. PICK x \in Foreigns : x = wrapping[k]
  BY <1>1 DEF IInv, Types, Wrapped, Wrapping
<1>3. PICK w \in Wrappers : w = <<k, x>>
  BY Kinds
<1>4. deps' = [deps EXCEPT ![k] = deps[k] \cup {w}] /\ PutWrapper(w, 1)
  BY <1>2, <1>3 DEF ResolveWrapped
<1>5. /\ w \in Fences /\ w \in Checkpoints /\ x \in Fences /\ w # x /\ w \notin Shared /\ w \notin Kicks
      /\ x \notin Wrappers /\ w[1] = k /\ w[2] = x /\ x # NoFile
  BY <1>3, Kinds
<1>6. \A j \in Kicks : /\ j # k => pc'[j] = pc[j] /\ wrapping'[j] = wrapping[j] /\ deps'[j] = deps[j]
                       /\ pc'[k] = "resolve" /\ wrapping'[k] = NoFile /\ deps'[k] = deps[k] \cup {w}
  BY <1>1, <1>4 DEF IInv, Types
<1>7. refcount[w] = 1 + One(w \in hooked) /\ One(w \in hooked) \in {0, 1}
  <2>1. refcount[w] = One(pc[k] = "wrapped" /\ x = wrapping[k]) + One(w \in hooked)
    BY <1>3, WrapperRefs
  <2> QED
    BY <1>1, <1>2, <2>1 DEF One
<1>8. Passed(w) /\ w \notin deps[k]
  <2>1. Unwaited(k, x)
    BY <1>1, <1>2 DEF Unwaited
  <2> QED
    BY <1>1, <1>2, <1>3, <2>1 DEF IInv, Wrapped
<1>9. refcount[w] > 0
  BY <1>7
<1>10. /\ refcount' \in [Fences -> Int] /\ ck_refs' \in [Checkpoints -> Int]
       /\ refcount'[w] = refcount[w] - 1
       /\ refcount'[x] = refcount[x] + (One(refcount[w] > 0)' - One(refcount[w] > 0))
       /\ \A f \in Fences : f # w /\ f # x => refcount'[f] = refcount[f]
       /\ ck_refs'[w] = ck_refs[w] + 1 + (One(refcount[w] > 0)' - One(refcount[w] > 0))
       /\ \A f \in Checkpoints : f # w => refcount'[f] = refcount[f] /\ ck_refs'[f] = ck_refs[f]
  BY <1>4, <1>5, <1>9, PutWrapperSteps
<1>11. FenceRefs'
  <2>2. ByKick(k, w) /\ ~ByKick(k, w)'
    BY <1>1, <1>2, <1>3, <1>5, <1>6 DEF ByKick, At
  <2>3. /\ One(ByKick(k, w))' = 0 /\ One(ByKick(k, w)) = 1 /\ One(w \in hooked)' = One(w \in hooked)
    BY <1>1, <2>2 DEF One
  <2>4. refcount'[w] = refcount[w] + (One(ByKick(k, w))' - One(ByKick(k, w)))
                         + (One(w \in hooked)' - One(w \in hooked))
    BY <1>7, <1>10, <2>3
  <2>5. \A j \in Kicks : \A f \in Fences : f # w => (ByKick(j, f)' <=> ByKick(j, f))
    BY <1>1, <1>2, <1>3, <1>6 DEF ByKick, At
  <2>7. \A f \in Fences : f # w => (f \in hooked' <=> f \in hooked)
    BY <1>1
  <2> QED
    BY <1>1, <1>3, <1>10, <2>4, <2>5, <2>7, WrapperStep
<1>12. CkRefs'
  <2>1. \A f \in Checkpoints : f # w => refcount'[f] = refcount[f] /\ ck_refs'[f] = ck_refs[f]
    BY <1>10
  <2>2. One(w \in deps'[k]) = 1 /\ One(w \in deps[k]) = 0
    BY <1>6, <1>8 DEF One
  <2>3. ck_refs'[w] = ck_refs[w] + (One(w \in deps'[k]) - One(w \in deps[k]))
                        + (One(refcount[w] > 0)' - One(refcount[w] > 0))
    BY <1>10, <2>2
  <2>4. \A f \in Checkpoints : f # w => (f \in deps'[k] <=> f \in deps[k])
    BY <1>6
  <2>5. deps' \in [Kicks -> SUBSET Checkpoints]
    BY <1>4, <1>5 DEF IInv, Types
  <2> QED
    BY <1>3, <1>6, <2>1, <2>3, <2>4, <2>5, WrapperCk
<1>13. Types'
  <2>1. deps' \in [Kicks -> SUBSET Checkpoints] /\ wrapping' \in [Kicks -> Foreigns \cup {NoFile}]
    BY <1>1, <1>4, <1>5 DEF IInv, Types
  <2> QED
    BY <1>1, <1>10, <2>1 DEF IInv, Types, Places
<1>14. Wrapped'
  <2>2. (\A j \in Kicks : wrapping[j] # NoFile <=> pc[j] \in Wrapping)'
    BY <1>6 DEF IInv, Wrapped, Wrapping
  <2>3. (\A j \in Kicks : pc[j] \in Wrapping => wrapping[j] \in input[j] /\ wrapping[j] \notin todo[j])'
    BY <1>1, <1>6 DEF IInv, Wrapped, Wrapping
  <2>4. (\A j \in Kicks : pc[j] = "wrapped" => Passed(<<j, wrapping[j]>>))'
    BY <1>1, <1>6 DEF IInv, Wrapped, Passed
  <2>5. (\A j \in Kicks : \A v \in Wrappers : v \in deps[j] => v[1] = j /\ Passed(v))'
    BY <1>1, <1>5, <1>6, <1>8 DEF IInv, Wrapped, Passed
  <2>6. \A j \in Kicks, y \in Foreigns : /\ Unwrapped(j, y)' => Unwrapped(j, y)
                                         /\ Unwaited(j, y)' => Unwaited(j, y)
    BY <1>1, <1>6 DEF Unwrapped, Unwaited, Resolving, Wrapping
  <2>7. \A y \in Foreigns : Unwaited(k, y)' => <<k, y>> # w
    <3>1. wrapping[k] \notin todo[k]
      BY <1>1 DEF IInv, Wrapped, Wrapping
    <3>2. \A y \in Foreigns : Unwaited(k, y)' => y \in todo[k]
      BY <1>1, <1>6 DEF Unwaited, Unwrapped
    <3> QED
      BY <1>2, <1>3, <3>1, <3>2
  <2>8. (\A j \in Kicks, y \in Foreigns : /\ Unwrapped(j, y) => <<j, y>> \notin hooked
                                          /\ Unwaited(j, y) => <<j, y>> \notin deps[j])'
    <3>1. ASSUME NEW j \in Kicks, NEW y \in Foreigns
          PROVE  /\ Unwrapped(j, y)' => <<j, y>> \notin hooked
                 /\ Unwaited(j, y)' => <<j, y>> \notin deps[j]
      BY <2>6 DEF IInv, Wrapped
    <3>2. ASSUME NEW j \in Kicks, NEW y \in Foreigns, Unwaited(j, y)'
          PROVE  <<j, y>> \notin deps'[j]
      <4>1. CASE j = k
        BY <1>6, <2>7, <3>1, <3>2, <4>1
      <4>2. CASE j # k
        BY <1>6, <3>1, <3>2, <4>2
      <4> QED
        BY <4>1, <4>2
    <3>3. hooked' = hooked
      BY <1>1
    <3> QED
      BY <3>1, <3>2, <3>3
  <2> QED
    BY <2>2, <2>3, <2>4, <2>5, <2>8 DEF Wrapped
<1>15. Collected'
  BY <1>1, <1>5, <1>6 DEF IInv, Types, Collected, Resolving, Wrapping
<1>16. TlRefs'
  BY <1>1, TlKeep DEF IInv, Creating
<1>17. FdsReserved'
  <2>1. \A j \in Kicks : HasFd(j)' <=> HasFd(j)
    BY <1>1, <1>6 DEF HasFd
  <2> QED
    BY <1>1, <2>1 DEF IInv, FdsReserved
<1>18. FilesOpen'
  BY <1>1, <1>6 DEF IInv, FilesOpen, Opened, Owned
<1>19. Firmware'
  BY <1>1, <1>6 DEF IInv, Firmware, Submitted
<1>20. Hidden'
  <2>1. \A f \in Kicks : \A j \in Kicks : f \in deps'[j] <=> f \in deps[j]
    BY <1>5, <1>6
  <2> QED
    BY <1>1, <2>1 DEF IInv, Hidden, Submitted, Opened
<1>21. Ordered'
  <2>1. ~queued[k]
    BY <1>1 DEF IInv, Firmware
  <2> QED
    BY <1>1, <1>6, <2>1 DEF IInv, Ordered
<1> QED
  BY <1>11, <1>12, <1>13, <1>14, <1>15, <1>16, <1>17, <1>18, <1>19, <1>20, <1>21 DEF IInv

LEMMA SignalSyncStep ==
  ASSUME IInv, NEW w \in Wrappers, SignalSync(w) PROVE IInv'
<1>1. /\ w \in hooked /\ hooked' = hooked \ {w} /\ ck_signaled' = [ck_signaled EXCEPT ![w] = TRUE]
      /\ PutWrapper(w, 0)
      /\ UNCHANGED <<fds, behind, tl_open, tl_refs, pc, reserved, input, todo, wrapping, deps, made,
                     flag, listed, queued, query>>
  BY DEF SignalSync, tlVars, kickVars
<1>2. PICK k \in Kicks, x \in Foreigns : k = w[1] /\ x = w[2]
  BY Kinds
<1>3. w = <<k, x>>
  BY <1>2, Kinds
<1>5. /\ w \in Fences /\ w \in Checkpoints /\ x \in Fences /\ w # x /\ w \notin Shared /\ w \notin Kicks
      /\ x \notin Wrappers
  BY Kinds
<1>7. refcount[w] = One(pc[k] = "wrapped" /\ x = wrapping[k]) + 1
  <2>1. refcount[w] = One(pc[k] = "wrapped" /\ x = wrapping[k]) + One(w \in hooked)
    BY <1>3, WrapperRefs
  <2> QED
    BY <1>1, <2>1 DEF One
<1>8. refcount[w] \in Int /\ refcount[w] > 0
  BY <1>7 DEF One
<1>10. /\ refcount' \in [Fences -> Int] /\ ck_refs' \in [Checkpoints -> Int]
       /\ refcount'[w] = refcount[w] - 1
       /\ refcount'[x] = refcount[x] + (One(refcount[w] > 0)' - One(refcount[w] > 0))
       /\ \A f \in Fences : f # w /\ f # x => refcount'[f] = refcount[f]
       /\ ck_refs'[w] = ck_refs[w] + 0 + (One(refcount[w] > 0)' - One(refcount[w] > 0))
       /\ \A f \in Checkpoints : f # w => refcount'[f] = refcount[f] /\ ck_refs'[f] = ck_refs[f]
  BY <1>1, <1>2, <1>8, PutWrapperSteps
<1>11. FenceRefs'
  <2>2. \A j \in Kicks : \A f : ByKick(j, f)' <=> ByKick(j, f)
    BY <1>1 DEF ByKick, At
  <2>3. /\ One(ByKick(k, w))' = One(ByKick(k, w)) /\ One(ByKick(k, w)) \in Int
        /\ One(w \in hooked)' = 0 /\ One(w \in hooked) = 1
    BY <1>1, <2>2 DEF One
  <2>4. refcount'[w] = refcount[w] + (One(ByKick(k, w))' - One(ByKick(k, w)))
                         + (One(w \in hooked)' - One(w \in hooked))
    BY <1>8, <1>10, <2>3
  <2>7. \A f \in Fences : f # w => (f \in hooked' <=> f \in hooked)
    BY <1>1
  <2> QED
    BY <1>1, <1>3, <1>10, <2>2, <2>4, <2>7, WrapperStep
<1>12. CkRefs'
  <2>1. \A f \in Checkpoints : f # w => refcount'[f] = refcount[f] /\ ck_refs'[f] = ck_refs[f]
    BY <1>10
  <2>2. ck_refs[w] \in Int /\ One(w \in deps[k]) \in Int
        /\ One(refcount[w] > 0)' \in Int /\ One(refcount[w] > 0) \in Int
    BY <1>5 DEF One, IInv, Types
  <2>4. deps' = deps /\ deps' \in [Kicks -> SUBSET Checkpoints]
    BY <1>1 DEF IInv, Types
  <2>3. ck_refs'[w] = ck_refs[w] + (One(w \in deps'[k]) - One(w \in deps[k]))
                        + (One(refcount[w] > 0)' - One(refcount[w] > 0))
    BY <1>10, <2>2, <2>4
  <2> QED
    BY <1>3, <2>1, <2>3, <2>4, WrapperCk
<1>14. /\ ck_signaled' \in [Checkpoints -> BOOLEAN] /\ ck_signaled'[w]
       /\ \A v \in Checkpoints : v # w => ck_signaled'[v] = ck_signaled[v]
  BY <1>1, <1>5 DEF IInv, Types
<1>15. \A j \in Kicks : ck_signaled'[j] = ck_signaled[j]
  BY <1>5, <1>14, Kinds
<1>16. Types'
  <2>1. hooked' \in SUBSET Wrappers
    BY <1>1 DEF IInv, Types
  <2> QED
    BY <1>1, <1>10, <1>14, <2>1 DEF IInv, Types
<1>17. Wrapped'
  <2>1. \A v \in Wrappers : Passed(v) => (ck_signaled'[v] \/ v \in hooked')
    BY <1>1, <1>14, Kinds DEF Passed
  <2>2. (\A j \in Kicks : wrapping[j] # NoFile <=> pc[j] \in Wrapping)'
    BY <1>1 DEF IInv, Wrapped
  <2>3. (\A j \in Kicks : pc[j] \in Wrapping => wrapping[j] \in input[j] /\ wrapping[j] \notin todo[j])'
    BY <1>1 DEF IInv, Wrapped
  <2>4. ASSUME NEW j \in Kicks, pc'[j] = "wrapped"
        PROVE  ck_signaled'[<<j, wrapping'[j]>>] \/ <<j, wrapping'[j]>> \in hooked'
    <3>1. pc[j] = "wrapped" /\ wrapping'[j] = wrapping[j]
      BY <1>1, <2>4
    <3>2. PICK y \in Foreigns : y = wrapping[j]
      BY <3>1 DEF IInv, Types, Wrapped, Wrapping
    <3>3. Passed(<<j, y>>) /\ <<j, y>> \in Wrappers
      BY <3>1, <3>2, Kinds DEF IInv, Wrapped
    <3> QED
      BY <2>1, <3>1, <3>2, <3>3
  <2>5. ASSUME NEW j \in Kicks, NEW v \in Wrappers, v \in deps'[j]
        PROVE  v[1] = j /\ (ck_signaled'[v] \/ v \in hooked')
    BY <1>1, <2>1, <2>5 DEF IInv, Wrapped
  <2>6. (\A j \in Kicks, y \in Foreigns : /\ Unwrapped(j, y) => <<j, y>> \notin hooked
                                          /\ Unwaited(j, y) => <<j, y>> \notin deps[j])'
    BY <1>1 DEF IInv, Wrapped, Unwrapped, Unwaited
  <2> QED
    BY <2>2, <2>3, <2>4, <2>5, <2>6 DEF Wrapped, Passed
<1>18. Firmware'
  BY <1>1, <1>15 DEF IInv, Firmware, Submitted
<1>19. Hidden'
  BY <1>1, <1>15 DEF IInv, Hidden, Submitted, Opened
<1> QED
  BY <1>1, <1>11, <1>12, <1>16, <1>17, <1>18, <1>19, TlSame, FdsSame, OpenSame, CollectedSame, OrderedSame
     DEF IInv


LEMMA ResolveFailsStep ==
  ASSUME IInv, NEW k \in Kicks, ResolveFails(k) PROVE IInv'
<1>0. PICK S \in SUBSET Shared : S = input[k]
  BY DEF IInv, Types
<1>1. /\ pc[k] \in {"resolve", "wrap"}
      /\ UNCHANGED <<fds, behind, tl_open, tl_refs, reserved, hooked, made, flag, listed, ck_signaled,
                     queued, query>>
      /\ pc' = [pc EXCEPT ![k] = "over"]
      /\ input' = [input EXCEPT ![k] = {}] /\ todo' = [todo EXCEPT ![k] = {}]
      /\ wrapping' = [wrapping EXCEPT ![k] = NoFile] /\ deps' = [deps EXCEPT ![k] = {}]
      /\ Put(S) /\ CkDrop(Freed(S), deps[k])
  BY <1>0 DEF ResolveFails, At, Goto, tlVars, PutAll
<1>2. \A f \in S : refcount[f] > 0
  BY <1>0, Kinds, Referenced
<1>3. /\ refcount' \in [Fences -> Int] /\ ck_refs' \in [Checkpoints -> Int]
      /\ \A f \in Fences : refcount'[f] = refcount[f] - One(f \in S)
      /\ \A w \in Wrappers : refcount'[w] = refcount[w]
      /\ \A f \in Checkpoints :
           ck_refs'[f] = ck_refs[f] - One(f \in deps[k]) + (One(refcount'[f] > 0) - One(refcount[f] > 0))
  BY <1>1, <1>2, PutSteps
<1>4. \A j \in Kicks : /\ j # k => /\ pc'[j] = pc[j] /\ input'[j] = input[j] /\ todo'[j] = todo[j]
                                   /\ deps'[j] = deps[j] /\ wrapping'[j] = wrapping[j]
                       /\ pc'[k] = "over" /\ input'[k] = {} /\ todo'[k] = {} /\ deps'[k] = {}
                       /\ wrapping'[k] = NoFile
  BY <1>1 DEF IInv, Types
<1>5. Types'
  BY <1>1, <1>3 DEF IInv, Types, Places
<1>6. FenceRefs'
  <2> SUFFICES ASSUME NEW f \in Fences PROVE refcount'[f] = FenceHolders(f)'
    BY DEF FenceRefs
  <2>1. behind' = [behind EXCEPT ![k] = behind[k]] /\ k \in Files
    BY <1>1, SameBut, Kinds DEF IInv, Types
  <2>2. \A j \in Kicks : ByKick(j, f)' <=> ByKick(j, f)
    BY <1>1, <1>4 DEF ByKick, At
  <2>3. /\ One(ByKick(k, f))' = One(ByKick(k, f)) /\ One(InList(f))' = One(InList(f))
        /\ One(InQuery(f))' = One(InQuery(f))
    BY <1>1, <2>2 DEF One, InList, InQuery
  <2>4. One(f \in {}) = 0 /\ One(f \in input[k]) = One(f \in S)
    BY <1>0 DEF One
  <2>5. /\ One(f \in S) \in Int /\ One(f \in behind[k]) \in Int /\ One(ByKick(k, f)) \in Int
        /\ One(InList(f)) \in Int /\ One(InQuery(f)) \in Int /\ refcount[f] \in Int
    BY DEF One, IInv, Types
  <2>6. refcount'[f] = refcount[f]
                        + (One(f \in behind[k]) - One(f \in behind[k])) + (One(f \in {}) - One(f \in input[k]))
                        + (One(ByKick(k, f))' - One(ByKick(k, f)))
                        + (One(InList(f))' - One(InList(f))) + (One(InQuery(f))' - One(InQuery(f)))
    BY <1>3, <2>3, <2>4, <2>5
  <2>7. \A w \in Wrappers : refcount'[w] > 0 <=> refcount[w] > 0
    BY <1>3
  <2> QED
    BY <1>1, <2>1, <2>2, <2>6, <2>7, FenceStep
<1>61. CkRefs'
  <2> SUFFICES ASSUME NEW f \in Checkpoints PROVE ck_refs'[f] = CkHolders(f)'
    BY DEF CkRefs
  <2>1. /\ One(f \in {}) = 0 /\ One(f \in deps[k]) \in Int /\ ck_refs[f] \in Int
        /\ One(refcount'[f] > 0) \in Int /\ One(refcount[f] > 0) \in Int
    BY DEF One, IInv, Types
  <2>2. ck_refs'[f] = ck_refs[f] + (One(f \in {}) - One(f \in deps[k]))
                         + (One(refcount[f] > 0)' - One(refcount[f] > 0))
    BY <1>3, <2>1
  <2> QED
    BY <1>1, <2>2, CkStep
<1>7. TlRefs'
  BY <1>1, TlKeep DEF IInv, Creating
<1>8. FdsReserved'
  <2>1. \A j \in Kicks : HasFd(j)' <=> HasFd(j)
    BY <1>1, <1>4 DEF HasFd
  <2> QED
    BY <1>1, <2>1 DEF IInv, FdsReserved
<1>9. FilesOpen'
  BY <1>1, <1>4 DEF IInv, FilesOpen, Opened, Owned
<1>10. Collected'
  BY <1>4 DEF IInv, Collected, Resolving, Wrapping
<1>101. Wrapped'
  <2>1. \A j \in Kicks, x \in Foreigns : /\ Unwrapped(j, x)' => j # k /\ Unwrapped(j, x)
                                         /\ Unwaited(j, x)' => j # k /\ Unwaited(j, x)
    BY <1>4 DEF Unwrapped, Unwaited, Resolving, Wrapping
  <2>2. (\A j \in Kicks : wrapping[j] # NoFile <=> pc[j] \in Wrapping)'
    BY <1>4 DEF IInv, Wrapped, Wrapping
  <2>3. (\A j \in Kicks : pc[j] \in Wrapping => wrapping[j] \in input[j] /\ wrapping[j] \notin todo[j])'
    BY <1>4 DEF IInv, Wrapped, Wrapping
  <2>4. (\A j \in Kicks : pc[j] = "wrapped" => Passed(<<j, wrapping[j]>>))'
    BY <1>1, <1>4 DEF IInv, Wrapped, Passed
  <2>5. (\A j \in Kicks : \A w \in Wrappers : w \in deps[j] => w[1] = j /\ Passed(w))'
    BY <1>1, <1>4 DEF IInv, Wrapped, Passed
  <2>6. (\A j \in Kicks, x \in Foreigns : /\ Unwrapped(j, x) => <<j, x>> \notin hooked
                                          /\ Unwaited(j, x) => <<j, x>> \notin deps[j])'
    BY <1>1, <1>4, <2>1 DEF IInv, Wrapped
  <2> QED
    BY <2>2, <2>3, <2>4, <2>5, <2>6 DEF Wrapped
<1>11. Firmware'
  BY <1>1, <1>4 DEF IInv, Firmware, Submitted
<1>12. Hidden'
  BY <1>1, <1>4 DEF IInv, Hidden, Submitted, Opened
<1>13. Ordered'
  <2>1. ~queued[k]
    BY <1>1 DEF IInv, Firmware
  <2> QED
    BY <1>1, <1>4, <2>1 DEF IInv, Ordered
<1> QED
  BY <1>5, <1>6, <1>61, <1>7, <1>8, <1>9, <1>10, <1>101, <1>11, <1>12, <1>13 DEF IInv

LEMMA ResolvePutStep ==
  ASSUME IInv, NEW k \in Kicks, ResolvePut(k) PROVE IInv'
<1>0. PICK S \in SUBSET Shared : S = input[k]
  BY DEF IInv, Types
<1>1. /\ pc[k] = "resolve" /\ todo[k] = {}
      /\ UNCHANGED <<fds, behind, tl_open, tl_refs, reserved, todo, wrapping, deps, hooked, made, flag,
                     listed, ck_signaled, queued, query>>
      /\ pc' = [pc EXCEPT ![k] = "reserve"]
      /\ input' = [input EXCEPT ![k] = {}]
      /\ Put(S) /\ CkDrop(Freed(S), {})
  BY <1>0 DEF ResolvePut, At, Goto, tlVars, PutAll
<1>2. \A f \in S : refcount[f] > 0
  BY <1>0, Kinds, Referenced
<1>3. /\ refcount' \in [Fences -> Int] /\ ck_refs' \in [Checkpoints -> Int]
      /\ \A f \in Fences : refcount'[f] = refcount[f] - One(f \in S)
      /\ \A w \in Wrappers : refcount'[w] = refcount[w]
  BY <1>1, <1>2, PutSteps
<1>4. \A j \in Kicks : /\ j # k => pc'[j] = pc[j] /\ input'[j] = input[j]
                       /\ pc'[k] = "reserve" /\ input'[k] = {}
  BY <1>1 DEF IInv, Types
<1>5. Types'
  BY <1>1, <1>3 DEF IInv, Types, Places
<1>6. FenceRefs'
  <2> SUFFICES ASSUME NEW f \in Fences PROVE refcount'[f] = FenceHolders(f)'
    BY DEF FenceRefs
  <2>1. behind' = [behind EXCEPT ![k] = behind[k]] /\ k \in Files
    BY <1>1, SameBut, Kinds DEF IInv, Types
  <2>2. \A j \in Kicks : ByKick(j, f)' <=> ByKick(j, f)
    BY <1>1, <1>4 DEF ByKick, At
  <2>3. /\ One(ByKick(k, f))' = One(ByKick(k, f)) /\ One(InList(f))' = One(InList(f))
        /\ One(InQuery(f))' = One(InQuery(f))
    BY <1>1, <2>2 DEF One, InList, InQuery
  <2>4. One(f \in {}) = 0 /\ One(f \in input[k]) = One(f \in S)
    BY <1>0 DEF One
  <2>5. /\ One(f \in S) \in Int /\ One(f \in behind[k]) \in Int /\ One(ByKick(k, f)) \in Int
        /\ One(InList(f)) \in Int /\ One(InQuery(f)) \in Int /\ refcount[f] \in Int
    BY DEF One, IInv, Types
  <2>6. refcount'[f] = refcount[f]
                        + (One(f \in behind[k]) - One(f \in behind[k])) + (One(f \in {}) - One(f \in input[k]))
                        + (One(ByKick(k, f))' - One(ByKick(k, f)))
                        + (One(InList(f))' - One(InList(f))) + (One(InQuery(f))' - One(InQuery(f)))
    BY <1>3, <2>3, <2>4, <2>5
  <2>7. \A w \in Wrappers : refcount'[w] > 0 <=> refcount[w] > 0
    BY <1>3
  <2> QED
    BY <1>1, <2>1, <2>2, <2>6, <2>7, FenceStep
<1>61. CkRefs'
  BY <1>1, <1>2, PutKeeps
<1>7. TlRefs'
  BY <1>1, TlKeep DEF IInv, Creating
<1>8. FdsReserved'
  <2>1. \A j \in Kicks : HasFd(j)' <=> HasFd(j)
    BY <1>1, <1>4 DEF HasFd
  <2> QED
    BY <1>1, <2>1 DEF IInv, FdsReserved
<1>9. FilesOpen'
  BY <1>1, <1>4 DEF IInv, FilesOpen, Opened, Owned
<1>10. Collected'
  BY <1>1, <1>4 DEF IInv, Collected, Resolving, Wrapping
<1>101. Wrapped'
  <2>1. \A j \in Kicks : \/ pc'[j] = pc[j] /\ input'[j] = input[j]
                         \/ pc[j] \notin Wrapping /\ pc'[j] \notin Resolving \cup {"idle"}
    BY <1>1, <1>4 DEF Resolving, Wrapping
  <2> QED
    BY <1>1, <2>1, WrappedKeep DEF IInv
<1>11. Firmware'
  BY <1>1, <1>4 DEF IInv, Firmware, Submitted
<1>12. Hidden'
  BY <1>1, <1>4 DEF IInv, Hidden, Submitted, Opened
<1> QED
  BY <1>1, <1>5, <1>6, <1>61, <1>7, <1>8, <1>9, <1>10, <1>101, <1>11, <1>12, OrderedSame DEF IInv

-----------------------------------------------------------------------------
(* pvr_sync_create_fence.                                                  *)

LEMMA DepsDropped ==
  ASSUME IInv, NEW k \in Kicks, deps' = [deps EXCEPT ![k] = {}], CkDrop({}, deps[k]), UNCHANGED refcount
  PROVE  CkRefs' /\ ck_refs' \in [Checkpoints -> Int] /\ deps' \in [Kicks -> SUBSET Checkpoints]
<1>1. ck_refs' \in [Checkpoints -> Int]
  BY DEF CkDrop, One, IInv, Types
<1>2. deps' \in [Kicks -> SUBSET Checkpoints]
  BY DEF IInv, Types
<1>3. ASSUME NEW f \in Checkpoints PROVE ck_refs'[f] = CkHolders(f)'
  <2>1. ck_refs'[f] = ck_refs[f] - One(f \in deps[k])
    BY DEF CkDrop, One, IInv, Types
  <2>2. /\ One(f \in {}) = 0 /\ One(f \in deps[k]) \in Int /\ ck_refs[f] \in Int
        /\ One(refcount[f] > 0) \in Int /\ One(refcount[f] > 0)' = One(refcount[f] > 0)
    BY DEF One, IInv, Types
  <2>3. ck_refs'[f] = ck_refs[f] + (One(f \in {}) - One(f \in deps[k]))
                         + (One(refcount[f] > 0)' - One(refcount[f] > 0))
    BY <2>1, <2>2
  <2> QED
    BY <2>3, CkStep
<1> QED
  BY <1>1, <1>2, <1>3 DEF CkRefs

LEMMA ReserveFdStep ==
  ASSUME IInv, NEW k \in Kicks, ReserveFd(k) PROVE IInv'
<1>0. /\ pc[k] = "reserve"
      /\ UNCHANGED <<fds, behind, tl_open, tl_refs, input, todo, wrapping, refcount, hooked, made, flag,
                     listed, ck_signaled, queued, query>>
  BY DEF ReserveFd, At, tlVars, fenceVars
<1>1. PICK l \in {"over", "timeline"} : pc' = [pc EXCEPT ![k] = l]
  BY DEF ReserveFd, Abandon, Goto
<1>2. \A j \in Kicks : (j # k => pc'[j] = pc[j]) /\ pc'[k] = l
  BY <1>1 DEF IInv, Types
<1>3. /\ CkRefs' /\ ck_refs' \in [Checkpoints -> Int] /\ deps' \in [Kicks -> SUBSET Checkpoints]
      /\ \A j \in Kicks : (j # k => deps'[j] = deps[j]) /\ deps'[k] \subseteq deps[k]
  <2>1. CASE UNCHANGED <<deps, ck_refs>>
    BY <1>0, <2>1, CkSame DEF IInv, Types
  <2>2. CASE deps' = [deps EXCEPT ![k] = {}] /\ CkDrop({}, deps[k])
    <3>1. \A j \in Kicks : (j # k => deps'[j] = deps[j]) /\ deps'[k] \subseteq deps[k]
      BY <2>2 DEF IInv, Types
    <3> QED
      BY <1>0, <2>2, <3>1, DepsDropped
  <2> QED
    BY <2>1, <2>2 DEF ReserveFd, Abandon
<1>4. reserved' \in [Kicks -> Fds \cup {NoFd}] /\ FdsReserved'
  <2>1. CASE Unused = {}
    <3>1. \A j \in Kicks : HasFd(j)' <=> HasFd(j)
      BY <1>0, <1>2, <2>1 DEF HasFd, ReserveFd, Abandon, Goto, IInv, Types
    <3> QED
      BY <1>0, <2>1, <3>1 DEF ReserveFd, IInv, Types, FdsReserved
  <2>2. CASE Unused # {}
    <3>1. PICK fd \in Unused : reserved' = [reserved EXCEPT ![k] = fd]
      BY <2>2 DEF ReserveFd
    <3>2. fd \in Fds /\ fds[fd] = NoFile /\ \A j \in Kicks : reserved[j] # fd
      BY SyncFileAssumption DEF Unused, Reserved
    <3>3. pc'[k] = "timeline"
      BY <2>2 DEF ReserveFd, Goto, IInv, Types
    <3>4. ~HasFd(k) /\ HasFd(k)' /\ \A j \in Kicks : j # k => (HasFd(j)' <=> HasFd(j))
      BY <1>0, <1>2, <3>3 DEF HasFd
    <3>5. \A j \in Kicks : (j # k => reserved'[j] = reserved[j]) /\ reserved'[k] = fd
      BY <3>1 DEF IInv, Types
    <3>6. reserved' \in [Kicks -> Fds \cup {NoFd}]
      BY <3>1, <3>2 DEF IInv, Types
    <3>7. fd # NoFd
      BY <3>2, SyncFileAssumption
    <3> QED
      BY <1>0, <3>2, <3>4, <3>5, <3>6, <3>7 DEF IInv, FdsReserved
  <2> QED
    BY <2>1, <2>2
<1>5. Types'
  BY <1>0, <1>1, <1>3, <1>4 DEF IInv, Types, Places
<1>6. FenceRefs'
  BY <1>0, <1>2, FenceSame DEF IInv, PlacesSame
<1>7. TlRefs'
  BY <1>0, <1>1, TlKeep DEF IInv, Creating
<1>8. FilesOpen'
  BY <1>0, <1>2 DEF IInv, FilesOpen, Opened, Owned
<1>9. Collected'
  BY <1>0, <1>2, <1>3 DEF IInv, Collected, Resolving, Wrapping
<1>91. Wrapped'
  <2>1. \A j \in Kicks : /\ deps'[j] \subseteq deps[j]
                         /\ \/ pc'[j] = pc[j] /\ input'[j] = input[j]
                            \/ pc[j] \notin Wrapping /\ pc'[j] \notin Resolving \cup {"idle"}
    BY <1>0, <1>2, <1>3 DEF Resolving, Wrapping
  <2> QED
    BY <1>0, <2>1, WrappedKeep DEF IInv
<1>10. Firmware'
  BY <1>0, <1>2 DEF IInv, Firmware, Submitted
<1>11. Hidden'
  BY <1>0, <1>3 DEF IInv, Hidden, Submitted, Opened
<1>12. Ordered'
  <2>1. ~queued[k]
    BY <1>0 DEF IInv, Firmware
  <2> QED
    BY <1>0, <1>3, <2>1 DEF IInv, Ordered
<1> QED
  BY <1>3, <1>4, <1>5, <1>6, <1>7, <1>8, <1>9, <1>91, <1>10, <1>11, <1>12 DEF IInv

LEMMA PutFdStep ==
  ASSUME IInv, NEW k \in Kicks, PutFd(k) PROVE IInv'
<1>0. /\ pc[k] = "put_fd" /\ pc' = [pc EXCEPT ![k] = "over"]
      /\ UNCHANGED <<fds, behind, tl_open, tl_refs, input, todo, wrapping, refcount, hooked, made, flag,
                     listed, ck_signaled, queued, query>>
      /\ reserved' = [reserved EXCEPT ![k] = NoFd]
      /\ deps' = [deps EXCEPT ![k] = {}] /\ CkDrop({}, deps[k])
  BY DEF PutFd, Abandon, At, Goto, tlVars, fenceVars
<1>2. \A j \in Kicks : /\ j # k => pc'[j] = pc[j] /\ deps'[j] = deps[j] /\ reserved'[j] = reserved[j]
                       /\ pc'[k] = "over" /\ deps'[k] = {} /\ reserved'[k] = NoFd
  BY <1>0 DEF IInv, Types
<1>3. CkRefs' /\ ck_refs' \in [Checkpoints -> Int] /\ deps' \in [Kicks -> SUBSET Checkpoints]
  BY <1>0, DepsDropped
<1>4. FdsReserved'
  <2>1. ~HasFd(k)' /\ \A j \in Kicks : j # k => (HasFd(j)' <=> HasFd(j))
    BY <1>2 DEF HasFd
  <2> QED
    BY <1>0, <1>2, <2>1 DEF IInv, FdsReserved
<1>5. Types'
  <2>1. reserved' \in [Kicks -> Fds \cup {NoFd}]
    BY <1>0 DEF IInv, Types
  <2> QED
    BY <1>0, <1>3, <2>1 DEF IInv, Types, Places
<1>6. FenceRefs'
  BY <1>0, <1>2, FenceSame DEF IInv, PlacesSame
<1>7. TlRefs'
  BY <1>0, TlKeep DEF IInv, Creating
<1>8. FilesOpen'
  BY <1>0, <1>2 DEF IInv, FilesOpen, Opened, Owned
<1>9. Collected'
  BY <1>0, <1>2 DEF IInv, Collected, Resolving, Wrapping
<1>91. Wrapped'
  <2>1. \A j \in Kicks : /\ deps'[j] \subseteq deps[j]
                         /\ \/ pc'[j] = pc[j] /\ input'[j] = input[j]
                            \/ pc[j] \notin Wrapping /\ pc'[j] \notin Resolving \cup {"idle"}
    BY <1>0, <1>2 DEF Resolving, Wrapping
  <2> QED
    BY <1>0, <2>1, WrappedKeep DEF IInv
<1>10. Firmware'
  BY <1>0, <1>2 DEF IInv, Firmware, Submitted
<1>11. Hidden'
  BY <1>0, <1>2 DEF IInv, Hidden, Submitted, Opened
<1>12. Ordered'
  <2>1. ~queued[k]
    BY <1>0 DEF IInv, Firmware
  <2> QED
    BY <1>0, <1>2, <2>1 DEF IInv, Ordered
<1> QED
  BY <1>3, <1>4, <1>5, <1>6, <1>7, <1>8, <1>9, <1>91, <1>10, <1>11, <1>12 DEF IInv

\* Before a kick is queued nobody knows its fence.
LEMMA NotYet ==
  ASSUME IInv, NEW k \in Kicks, ~Submitted(k), pc[k] # "file", pc[k] \notin Owned
  PROVE  refcount[k] = 0 /\ ck_refs[k] = 0
<1>0. k \in Fences /\ k \in Checkpoints /\ k \in Files /\ k \notin Wrappers /\ k \notin Foreigns
  BY Kinds
<1>1. Openers(k) = {} /\ Inputs(k) = {} /\ Waiters(k) = {} /\ Alive(k) = {} /\ Makers(k) = {}
  <2>1. ~Opened(k)
    BY DEF IInv, Hidden
  <2>2. behind[k] = {}
    BY <1>0, <2>1 DEF IInv, FilesOpen
  <2>3. \A g \in Files : k \notin behind[g]
    BY <2>2 DEF IInv, Hidden
  <2>4. \A j \in Kicks : k \notin input[j] /\ k \notin deps[j]
    BY DEF IInv, Hidden
  <2>5. Openers(k) = {}
    BY <2>3 DEF Openers
  <2>6. Inputs(k) = {}
    BY <2>4 DEF Inputs
  <2>7. Waiters(k) = {}
    BY <2>4 DEF Waiters
  <2>8. Alive(k) = {}
    BY <1>0, Kinds DEF Alive
  <2>9. \A j \in Kicks : ~ByKick(j, k)
    <3>1. ASSUME NEW j \in Kicks, pc[j] = "wrapped" PROVE <<j, wrapping[j]>> \in Wrappers
      BY <3>1, Kinds DEF IInv, Types, Wrapped, Wrapping
    <3> QED
      BY <1>0, <3>1 DEF ByKick, At
  <2>10. Makers(k) = {}
    BY <2>9 DEF Makers
  <2> QED
    BY <2>5, <2>6, <2>7, <2>8, <2>10
<1>2. ~InList(k)
  BY DEF InList, IInv, Firmware, Owned, Submitted
<1>3. ~InQuery(k)
  BY DEF InQuery, IInv, Hidden
<1>4. k \notin hooked
  BY <1>0 DEF IInv, Types
<1>5. One(InList(k)) = 0 /\ One(InQuery(k)) = 0 /\ One(k \in hooked) = 0
  BY <1>2, <1>3, <1>4 DEF One
<1>6. /\ Cardinality(Openers(k)) = 0 /\ Cardinality(Inputs(k)) = 0 /\ Cardinality(Waiters(k)) = 0
      /\ Cardinality(Alive(k)) = 0 /\ Cardinality(Makers(k)) = 0
  BY <1>1, FS_EmptySet
<1>7. refcount[k] = FenceHolders(k) /\ ck_refs[k] = CkHolders(k)
  BY <1>0 DEF IInv, FenceRefs, CkRefs
<1>8. refcount[k] = 0
  BY <1>5, <1>6, <1>7, Holders
<1>9. One(refcount[k] > 0) = 0
  BY <1>8 DEF One
<1> QED
  BY <1>6, <1>7, <1>8, <1>9, Holders

LEMMA MakeFenceStep ==
  ASSUME IInv, NEW k \in Kicks, MakeFence(k) PROVE IInv'
<1>1. /\ pc[k] = "fence"
      /\ UNCHANGED <<fds, behind, tl_open, tl_refs, reserved, input, todo, wrapping, deps, hooked, flag,
                     listed, ck_signaled, queued, query>>
  BY DEF MakeFence, At, tlVars, kickVars
<1>2. CASE pc' = [pc EXCEPT ![k] = "put_timeline"] /\ UNCHANGED <<made, refcount, ck_refs>>
  <2>1. tl_refs' = tl_refs - One(pc[k] \in Creating) + One("put_timeline" \in Creating)
    BY <1>1 DEF IInv, Types, One, Creating
  <2>2. <<pc[k], "put_timeline">> \in Moves
    BY <1>1 DEF Moves
  <2> QED
    BY <1>1, <1>2, <2>1, <2>2, PcStep DEF kickVars, ckVars
<1>3. CASE Get({k}) /\ ck_refs' = [ck_refs EXCEPT ![k] = 1] /\ pc' = [pc EXCEPT ![k] = "file"]
  <2>0. k \in Fences /\ k \in Checkpoints /\ k \in Files /\ k \notin Wrappers
    BY Kinds
  <2>1. ~Submitted(k)
    BY <1>1 DEF IInv, Firmware, Submitted
  <2>2. refcount[k] = 0 /\ ck_refs[k] = 0
    BY <1>1, <2>1, NotYet DEF Owned
  <2>3. \A j \in Kicks : (j # k => pc'[j] = pc[j]) /\ pc'[k] = "file"
    BY <1>3 DEF IInv, Types
  <2>4. /\ refcount' \in [Fences -> Int] /\ ck_refs' \in [Checkpoints -> Int]
        /\ refcount'[k] = 1 /\ ck_refs'[k] = 1
        /\ \A f \in Fences : f # k => refcount'[f] = refcount[f]
        /\ \A f \in Checkpoints : f # k => ck_refs'[f] = ck_refs[f]
    BY <1>3, <2>0, <2>2 DEF IInv, Types, Get, One
  <2>5. Types'
    BY <1>1, <1>3, <2>4 DEF IInv, Types, Places
  <2>6. FenceRefs'
    <3> SUFFICES ASSUME NEW f \in Fences PROVE refcount'[f] = FenceHolders(f)'
      BY DEF FenceRefs
    <3>1. behind' = [behind EXCEPT ![k] = behind[k]] /\ input' = [input EXCEPT ![k] = input[k]]
      BY <1>1, <2>0, SameBut DEF IInv, Types
    <3>2. \A j \in Kicks : j # k => (ByKick(j, f)' <=> ByKick(j, f))
      BY <1>1, <2>3 DEF ByKick, At
    <3>3. ~ByKick(k, f) /\ (ByKick(k, f)' <=> f = k)
      BY <1>1, <2>3 DEF ByKick, At
    <3>4. /\ One(ByKick(k, f)) = 0 /\ One(ByKick(k, f))' = IF f = k THEN 1 ELSE 0
      BY <3>3 DEF One
    <3>5. /\ One(InList(f))' = One(InList(f)) /\ One(InQuery(f))' = One(InQuery(f))
          /\ One(InList(f)) \in Int /\ One(InQuery(f)) \in Int
          /\ One(f \in behind[k]) \in Int /\ One(f \in input[k]) \in Int /\ refcount[f] \in Int
      BY <1>1 DEF One, InList, InQuery, IInv, Types
    <3>6. refcount'[f] = refcount[f] + (IF f = k THEN 1 ELSE 0)
      BY <2>2, <2>4, <3>5
    <3>7. refcount'[f] = refcount[f]
                          + (One(f \in behind[k]) - One(f \in behind[k]))
                          + (One(f \in input[k]) - One(f \in input[k]))
                          + (One(ByKick(k, f))' - One(ByKick(k, f)))
                          + (One(InList(f))' - One(InList(f))) + (One(InQuery(f))' - One(InQuery(f)))
      BY <3>4, <3>5, <3>6
    <3>8. \A w \in Wrappers : refcount'[w] > 0 <=> refcount[w] > 0
      BY <2>0, <2>4, Kinds
    <3> QED
      BY <1>1, <2>0, <3>1, <3>2, <3>7, <3>8, FenceStep
  <2>61. CkRefs'
    <3> SUFFICES ASSUME NEW f \in Checkpoints PROVE ck_refs'[f] = CkHolders(f)'
      BY DEF CkRefs
    <3>1. f \in Fences
      BY Kinds
    <3>2. refcount[f] \in Int /\ ck_refs[f] \in Int
      BY <3>1 DEF IInv, Types
    <3>3. ck_refs'[f] = ck_refs[f] + (One(refcount[f] > 0)' - One(refcount[f] > 0))
      <4>1. CASE f = k
        BY <2>2, <2>4, <4>1 DEF One
      <4>2. CASE f # k
        <5>1. refcount'[f] = refcount[f] /\ ck_refs'[f] = ck_refs[f]
          BY <2>4, <3>1, <4>2
        <5> QED
          BY <3>2, <5>1 DEF One
      <4> QED
        BY <4>1, <4>2
    <3> QED
      BY <1>1, <3>3, CkKeep
  <2>7. TlRefs'
    BY <1>1, <1>3, TlKeep DEF IInv, Creating
  <2>8. FdsReserved'
    <3>1. \A j \in Kicks : HasFd(j)' <=> HasFd(j)
      BY <1>1, <2>3 DEF HasFd
    <3> QED
      BY <1>1, <3>1 DEF IInv, FdsReserved
  <2>9. FilesOpen'
    BY <1>1, <2>3 DEF IInv, FilesOpen, Opened, Owned
  <2>10. Collected'
    BY <1>1, <2>3 DEF IInv, Collected, Resolving, Wrapping
  <2>101. Wrapped'
    <3>1. \A j \in Kicks : \/ pc'[j] = pc[j] /\ input'[j] = input[j]
                           \/ pc[j] \notin Wrapping /\ pc'[j] \notin Resolving \cup {"idle"}
      BY <1>1, <2>3 DEF Resolving, Wrapping
    <3> QED
      BY <1>1, <3>1, WrappedKeep DEF IInv
  <2>11. Firmware'
    BY <1>1, <2>3 DEF IInv, Firmware, Submitted
  <2> QED
    BY <1>1, <2>5, <2>6, <2>61, <2>7, <2>8, <2>9, <2>10, <2>101, <2>11, HiddenSame, OrderedSame DEF IInv
<1> QED
  BY <1>2, <1>3 DEF MakeFence, Goto

LEMMA MakeFileStep ==
  ASSUME IInv, NEW k \in Kicks, MakeFile(k) PROVE IInv'
<1>0. k \in Fences /\ k \in Checkpoints /\ k \in Files /\ k \in Shared /\ k \notin Wrappers
  BY Kinds
<1>1. /\ pc[k] = "file"
      /\ UNCHANGED <<fds, tl_open, tl_refs, reserved, input, todo, wrapping, deps, hooked, flag, listed,
                     ck_signaled, queued, query>>
  BY DEF MakeFile, At, tlVars, kickVars, PutAll, fenceVars, ckVars
<1>2. ~Opened(k) /\ ~Submitted(k)
  BY <1>1 DEF IInv, FilesOpen, Firmware, Submitted
<1>3. behind[k] = {}
  BY <1>0, <1>1, <1>2 DEF IInv, FilesOpen, Owned
<1>4. ASSUME NEW l \in {"put", "put_timeline"}, pc' = [pc EXCEPT ![k] = l]
      PROVE  /\ \A j \in Kicks : (j # k => pc'[j] = pc[j]) /\ pc'[k] = l
             /\ pc' \in [Kicks -> Places] /\ TlRefs' /\ FdsReserved' /\ Collected' /\ Firmware'
             /\ Wrapped'
             /\ \A f \in Fences : /\ \A j \in Kicks : j # k => (ByKick(j, f)' <=> ByKick(j, f))
                                  /\ One(ByKick(k, f)) = One(f = k) /\ One(ByKick(k, f))' = 0
  <2>1. \A j \in Kicks : (j # k => pc'[j] = pc[j]) /\ pc'[k] = l
    BY <1>4 DEF IInv, Types
  <2>2. pc' \in [Kicks -> Places]
    BY <1>4 DEF IInv, Types, Places
  <2>3. TlRefs'
    BY <1>1, <1>4, TlKeep DEF IInv, Creating
  <2>4. FdsReserved'
    <3>1. \A j \in Kicks : HasFd(j)' <=> HasFd(j)
      BY <1>1, <2>1 DEF HasFd
    <3> QED
      BY <1>1, <3>1 DEF IInv, FdsReserved
  <2>5. Collected'
    BY <1>1, <2>1 DEF IInv, Collected, Resolving, Wrapping
  <2>6. Firmware'
    BY <1>1, <2>1 DEF IInv, Firmware, Submitted
  <2>7. Wrapped'
    <3>1. \A j \in Kicks : \/ pc'[j] = pc[j] /\ input'[j] = input[j]
                           \/ pc[j] \notin Wrapping /\ pc'[j] \notin Resolving \cup {"idle"}
      BY <1>1, <2>1 DEF Resolving, Wrapping
    <3> QED
      BY <1>1, <3>1, WrappedKeep DEF IInv
  <2>8. ASSUME NEW f \in Fences
        PROVE  /\ \A j \in Kicks : j # k => (ByKick(j, f)' <=> ByKick(j, f))
               /\ One(ByKick(k, f)) = One(f = k) /\ One(ByKick(k, f))' = 0
    <3>1. \A j \in Kicks : j # k => (ByKick(j, f)' <=> ByKick(j, f))
      BY <1>1, <2>1 DEF ByKick, At
    <3>2. (ByKick(k, f) <=> f = k) /\ ~ByKick(k, f)'
      BY <1>1, <2>1 DEF ByKick, At
    <3> QED
      BY <3>1, <3>2 DEF One
  <2> QED
    BY <2>1, <2>2, <2>3, <2>4, <2>5, <2>6, <2>7, <2>8
<1>5. CASE /\ behind' = [behind EXCEPT ![k] = {k}] /\ pc' = [pc EXCEPT ![k] = "put"]
           /\ UNCHANGED <<refcount, ck_refs>>
  <2>1. /\ \A j \in Kicks : (j # k => pc'[j] = pc[j]) /\ pc'[k] = "put"
        /\ pc' \in [Kicks -> Places] /\ TlRefs' /\ FdsReserved' /\ Collected' /\ Firmware' /\ Wrapped'
        /\ \A f \in Fences : /\ \A j \in Kicks : j # k => (ByKick(j, f)' <=> ByKick(j, f))
                             /\ One(ByKick(k, f)) = One(f = k) /\ One(ByKick(k, f))' = 0
    BY <1>4, <1>5
  <2>2. /\ behind' \in [Files -> SUBSET Shared] /\ behind'[k] = {k}
        /\ \A g \in Files : g # k => behind'[g] = behind[g]
    BY <1>0, <1>5 DEF IInv, Types
  <2>3. Types'
    BY <1>1, <1>5, <2>1, <2>2 DEF IInv, Types
  <2>4. FenceRefs'
    <3> SUFFICES ASSUME NEW f \in Fences PROVE refcount'[f] = FenceHolders(f)'
      BY DEF FenceRefs
    <3>1. input' = [input EXCEPT ![k] = input[k]]
      BY <1>1, SameBut DEF IInv, Types
    <3>2. /\ One(InList(f))' = One(InList(f)) /\ One(InQuery(f))' = One(InQuery(f))
          /\ One(InList(f)) \in Int /\ One(InQuery(f)) \in Int /\ One(f \in input[k]) \in Int
          /\ refcount[f] \in Int
      BY <1>1 DEF One, IInv, Types, InList, InQuery
    <3>3. One(f \in behind[k]) = 0 /\ One(f \in {k}) = One(f = k) /\ One(f = k) \in Int
      BY <1>3 DEF One
    <3>4. One(ByKick(k, f)) = One(f = k) /\ One(ByKick(k, f))' = 0
      BY <2>1
    <3>5. refcount'[f] = refcount[f]
                          + (One(f \in {k}) - One(f \in behind[k]))
                          + (One(f \in input[k]) - One(f \in input[k]))
                          + (One(ByKick(k, f))' - One(ByKick(k, f)))
                          + (One(InList(f))' - One(InList(f))) + (One(InQuery(f))' - One(InQuery(f)))
      BY <1>5, <3>2, <3>3, <3>4
    <3>6. \A w \in Wrappers : refcount'[w] > 0 <=> refcount[w] > 0
      BY <1>5
    <3>7. \A j \in Kicks : j # k => (ByKick(j, f)' <=> ByKick(j, f))
      BY <2>1
    <3> QED
      BY <1>0, <1>1, <1>5, <3>1, <3>5, <3>6, <3>7, FenceStep
  <2>5. FilesOpen'
    BY <1>0, <1>1, <1>2, <2>1, <2>2, Kinds DEF IInv, FilesOpen, Opened, Owned
  <2>6. Hidden'
    BY <1>1, <2>2 DEF IInv, Hidden, Submitted, Opened
  <2> QED
    BY <1>1, <1>5, <2>1, <2>3, <2>4, <2>5, <2>6, CkSame, OrderedSame DEF IInv
<1>6. CASE /\ Put({k}) /\ CkDrop(Freed({k}), {}) /\ pc' = [pc EXCEPT ![k] = "put_timeline"]
           /\ UNCHANGED behind
  <2>1. /\ \A j \in Kicks : (j # k => pc'[j] = pc[j]) /\ pc'[k] = "put_timeline"
        /\ pc' \in [Kicks -> Places] /\ TlRefs' /\ FdsReserved' /\ Collected' /\ Firmware' /\ Wrapped'
        /\ \A f \in Fences : /\ \A j \in Kicks : j # k => (ByKick(j, f)' <=> ByKick(j, f))
                             /\ One(ByKick(k, f)) = One(f = k) /\ One(ByKick(k, f))' = 0
    BY <1>4, <1>6
  <2>2. \A f \in {k} : refcount[f] > 0
    <3>1. ByKick(k, k)
      BY <1>1 DEF ByKick, At
    <3> QED
      BY <1>0, <3>1, Referenced
  <2>3. /\ refcount' \in [Fences -> Int] /\ ck_refs' \in [Checkpoints -> Int]
        /\ \A f \in Fences : refcount'[f] = refcount[f] - One(f \in {k})
        /\ \A w \in Wrappers : refcount'[w] = refcount[w]
    BY <1>0, <1>6, <2>2, PutSteps
  <2>4. Types'
    BY <1>1, <1>6, <2>1, <2>3 DEF IInv, Types
  <2>5. FenceRefs'
    <3> SUFFICES ASSUME NEW f \in Fences PROVE refcount'[f] = FenceHolders(f)'
      BY DEF FenceRefs
    <3>1. behind' = [behind EXCEPT ![k] = behind[k]] /\ input' = [input EXCEPT ![k] = input[k]]
      BY <1>0, <1>1, <1>6, SameBut DEF IInv, Types
    <3>2. /\ One(InList(f))' = One(InList(f)) /\ One(InQuery(f))' = One(InQuery(f))
          /\ One(InList(f)) \in Int /\ One(InQuery(f)) \in Int /\ One(f \in input[k]) \in Int
          /\ One(f \in behind[k]) \in Int /\ refcount[f] \in Int
      BY <1>1 DEF One, IInv, Types, InList, InQuery
    <3>3. One(f \in {k}) = One(f = k) /\ One(f = k) \in Int
      BY DEF One
    <3>4. One(ByKick(k, f)) = One(f = k) /\ One(ByKick(k, f))' = 0
      BY <2>1
    <3>41. refcount'[f] = refcount[f] - One(f \in {k})
      BY <2>3
    <3>5. refcount'[f] = refcount[f]
                          + (One(f \in behind[k]) - One(f \in behind[k]))
                          + (One(f \in input[k]) - One(f \in input[k]))
                          + (One(ByKick(k, f))' - One(ByKick(k, f)))
                          + (One(InList(f))' - One(InList(f))) + (One(InQuery(f))' - One(InQuery(f)))
      BY <3>41, <3>2, <3>3, <3>4
    <3>6. \A w \in Wrappers : refcount'[w] > 0 <=> refcount[w] > 0
      BY <2>3
    <3>7. \A j \in Kicks : j # k => (ByKick(j, f)' <=> ByKick(j, f))
      BY <2>1
    <3> QED
      BY <1>0, <1>1, <3>1, <3>5, <3>6, <3>7, FenceStep
  <2>51. CkRefs'
    BY <1>0, <1>1, <1>6, <2>2, PutKeeps
  <2>6. FilesOpen'
    BY <1>1, <1>6, <2>1 DEF IInv, FilesOpen, Opened, Owned
  <2> QED
    BY <1>1, <1>6, <2>1, <2>4, <2>5, <2>51, <2>6, HiddenSame, OrderedSame DEF IInv
<1> QED
  BY <1>5, <1>6 DEF MakeFile, Goto, PutAll, fenceVars, ckVars

-----------------------------------------------------------------------------
(* Submission, pvr_sync_finalise_fence and pvr_sync_rollback_fence_data.   *)

LEMMA SubmitStep ==
  ASSUME IInv, NEW k \in Kicks, Submit(k) PROVE IInv'
<1>1. /\ pc[k] = "created"
      /\ UNCHANGED <<fds, behind, tl_open, tl_refs, reserved, input, todo, wrapping, deps, refcount,
                     hooked, made, flag, listed, ck_refs, ck_signaled, query>>
  BY DEF Submit, At, tlVars, kickVars, fenceVars, ckVars
<1>2. CASE pc' = [pc EXCEPT ![k] = "rollback"] /\ UNCHANGED queued
  <2>1. tl_refs' = tl_refs - One(pc[k] \in Creating) + One("rollback" \in Creating)
    BY <1>1 DEF IInv, Types, One, Creating
  <2>2. <<pc[k], "rollback">> \in Moves
    BY <1>1 DEF Moves
  <2> QED
    BY <1>1, <1>2, <2>1, <2>2, PcStep DEF kickVars, ckVars
<1>3. CASE queued' = [queued EXCEPT ![k] = TRUE] /\ pc' = [pc EXCEPT ![k] = "enable"]
  <2>1. \A j \in Kicks : /\ j # k => pc'[j] = pc[j] /\ queued'[j] = queued[j]
                         /\ pc'[k] = "enable" /\ queued'[k] = TRUE
    BY <1>3 DEF IInv, Types
  <2>2. Types'
    BY <1>1, <1>3 DEF IInv, Types, Places
  <2>3. ~Submitted(k)
    BY <1>1 DEF IInv, Firmware, Submitted
  <2>4. FenceRefs'
    BY <1>1, <2>1, FenceSame DEF IInv, PlacesSame
  <2>5. TlRefs'
    BY <1>1, <1>3, TlKeep DEF IInv, Creating
  <2>6. FdsReserved'
    <3>1. \A j \in Kicks : HasFd(j)' <=> HasFd(j)
      BY <1>1, <2>1 DEF HasFd
    <3> QED
      BY <1>1, <3>1 DEF IInv, FdsReserved
  <2>7. FilesOpen'
    BY <1>1, <2>1 DEF IInv, FilesOpen, Opened, Owned
  <2>8. Collected'
    BY <1>1, <2>1 DEF IInv, Collected, Resolving, Wrapping
  <2>81. Wrapped'
    <3>1. \A j \in Kicks : \/ pc'[j] = pc[j] /\ input'[j] = input[j]
                           \/ pc[j] \notin Wrapping /\ pc'[j] \notin Resolving \cup {"idle"}
      BY <1>1, <2>1 DEF Resolving, Wrapping
    <3> QED
      BY <1>1, <3>1, WrappedKeep DEF IInv
  <2>9. Firmware'
    BY <1>1, <2>1 DEF IInv, Firmware, Submitted
  <2>10. Hidden'
    BY <1>1, <2>1 DEF IInv, Hidden, Submitted, Opened
  <2>11. Ordered'
    <3> SUFFICES ASSUME NEW S \in SUBSET Kicks, \A j \in S : queued'[j], S # {}
                 PROVE  \E j \in S : deps[j] \cap S = {}
      BY <1>1 DEF Ordered
    <3>1. \A j \in Kicks : k \notin deps[j]
      BY <2>3 DEF IInv, Hidden
    <3>2. ASSUME NEW R \in SUBSET Kicks, \A j \in R : queued[j], R # {}
          PROVE  \E j \in R : deps[j] \cap R = {}
      BY <3>2 DEF IInv, Ordered
    <3>3. CASE S = {k}
      BY <3>1, <3>3
    <3>4. CASE S # {k}
      <4>1. S \ {k} # {} /\ S \ {k} \in SUBSET Kicks /\ \A j \in S \ {k} : queued[j]
        BY <2>1, <3>4
      <4>2. PICK j \in S \ {k} : deps[j] \cap (S \ {k}) = {}
        BY <4>1, <3>2
      <4> QED
        BY <3>1, <4>2
    <3> QED
      BY <3>3, <3>4
  <2> QED
    BY <1>1, <2>2, <2>4, <2>5, <2>6, <2>7, <2>8, <2>81, <2>9, <2>10, <2>11, CkSame DEF IInv
<1> QED
  BY <1>2, <1>3 DEF Submit, Goto

LEMMA FinaliseEnableStep ==
  ASSUME IInv, NEW k \in Kicks, FinaliseEnable(k) PROVE IInv'
<1>0. k \in Fences /\ k \in Checkpoints /\ k \in Files /\ k \in Shared /\ k \notin Wrappers
  BY Kinds
<1>1. /\ pc[k] = "enable" /\ pc' = [pc EXCEPT ![k] = "install"]
      /\ UNCHANGED <<fds, behind, tl_open, tl_refs, reserved, input, todo, wrapping, deps, hooked, made,
                     ck_refs, ck_signaled, queued, query>>
  BY DEF FinaliseEnable, At, Goto, tlVars, kickVars, ckVars
<1>2. \A j \in Kicks : (j # k => pc'[j] = pc[j]) /\ pc'[k] = "install"
  BY <1>1 DEF IInv, Types
<1>3. k \in behind[k] /\ ~listed[k] /\ Submitted(k)
  BY <1>1 DEF IInv, FilesOpen, Firmware, Owned
<1>4. \A f \in {k} : refcount[f] > 0
  BY <1>0, <1>3, Referenced
<1>5. /\ refcount' \in [Fences -> Int]
      /\ listed' \in [Kicks -> BOOLEAN] /\ flag' \in [Shared -> BOOLEAN]
      /\ \A j \in Kicks : j # k => listed'[j] = listed[j]
      /\ \A f \in Checkpoints : refcount'[f] > 0 <=> refcount[f] > 0
      /\ \A f \in Fences : refcount'[f] = refcount[f] + (One(InList(f))' - One(InList(f)))
      /\ ck_signaled[k] \/ listed'[k]
  <2>1. CASE ck_signaled[k]
    <3>1. flag' = [flag EXCEPT ![k] = TRUE] /\ UNCHANGED <<listed, refcount>>
      BY <2>1 DEF FinaliseEnable
    <3>2. \A f \in Fences : refcount[f] \in Int
      BY DEF IInv, Types
    <3>3. ASSUME NEW f \in Fences PROVE refcount'[f] = refcount[f] + (One(InList(f))' - One(InList(f)))
      <4>1. One(InList(f))' = One(InList(f)) /\ One(InList(f)) \in Int
        BY <3>1 DEF One, InList
      <4> QED
        BY <3>1, <3>2, <4>1
    <3> QED
      BY <1>0, <2>1, <3>1, <3>3 DEF IInv, Types
  <2>2. CASE ~ck_signaled[k]
    <3>1. listed' = [listed EXCEPT ![k] = TRUE] /\ Get({k}) /\ UNCHANGED flag
      BY <2>2 DEF FinaliseEnable
    <3>2. /\ refcount' \in [Fences -> Int]
          /\ \A f \in Fences : refcount'[f] = refcount[f] + One(f \in {k})
          /\ \A f \in Checkpoints : refcount'[f] > 0 <=> refcount[f] > 0
      BY <1>0, <1>4, <3>1, GetSteps
    <3>3. listed' \in [Kicks -> BOOLEAN] /\ flag' \in [Shared -> BOOLEAN]
      BY <3>1 DEF IInv, Types
    <3>4. \A j \in Kicks : (j # k => listed'[j] = listed[j]) /\ listed'[k]
      BY <3>1 DEF IInv, Types
    <3>5. ASSUME NEW f \in Fences PROVE One(f \in {k}) = One(InList(f))' - One(InList(f))
      <4>1. (f \in {k} <=> f = k) /\ ~InList(k) /\ InList(k)'
        BY <1>3, <3>4 DEF InList
      <4>2. f # k => (InList(f)' <=> InList(f))
        BY <3>4 DEF InList
      <4> QED
        BY <4>1, <4>2 DEF One
    <3> QED
      BY <3>2, <3>3, <3>4, <3>5
  <2> QED
    BY <2>1, <2>2
<1>6. Types'
  BY <1>1, <1>5 DEF IInv, Types, Places
<1>7. FenceRefs'
  <2> SUFFICES ASSUME NEW f \in Fences PROVE refcount'[f] = FenceHolders(f)'
    BY DEF FenceRefs
  <2>1. behind' = [behind EXCEPT ![k] = behind[k]]
    BY <1>0, <1>1, SameBut DEF IInv, Types
  <2>2. /\ One(f \in behind[k]) \in Int /\ refcount[f] \in Int
        /\ One(InList(f)) \in Int /\ One(InList(f))' \in Int
        /\ One(InQuery(f))' = One(InQuery(f)) /\ One(InQuery(f)) \in Int
    BY <1>1 DEF One, IInv, Types, InQuery
  <2>3. refcount'[f] = refcount[f] + (One(f \in behind[k]) - One(f \in behind[k]))
                         + (One(InList(f))' - One(InList(f))) + (One(InQuery(f))' - One(InQuery(f)))
    BY <1>5, <2>2
  <2>4. PlacesSame
    BY <1>1, <1>2 DEF PlacesSame
  <2>5. \A w \in Wrappers : refcount'[w] > 0 <=> refcount[w] > 0
    BY <1>5, Kinds
  <2> QED
    BY <1>0, <1>1, <2>1, <2>3, <2>4, <2>5, FileStep
<1>8. CkRefs'
  BY <1>1, <1>5, CkSame DEF IInv
<1>9. TlRefs'
  BY <1>1, TlKeep DEF IInv, Creating
<1>10. FdsReserved'
  <2>1. \A j \in Kicks : HasFd(j)' <=> HasFd(j)
    BY <1>1, <1>2 DEF HasFd
  <2> QED
    BY <1>1, <2>1 DEF IInv, FdsReserved
<1>11. FilesOpen'
  BY <1>1, <1>2 DEF IInv, FilesOpen, Opened, Owned
<1>12. Collected'
  BY <1>1, <1>2 DEF IInv, Collected, Resolving, Wrapping
<1>121. Wrapped'
  <2>1. \A j \in Kicks : \/ pc'[j] = pc[j] /\ input'[j] = input[j]
                         \/ pc[j] \notin Wrapping /\ pc'[j] \notin Resolving \cup {"idle"}
    BY <1>1, <1>2 DEF Resolving, Wrapping
  <2> QED
    BY <1>1, <2>1, WrappedKeep DEF IInv
<1>13. Firmware'
  BY <1>1, <1>2, <1>3, <1>5 DEF IInv, Firmware, Submitted
<1> QED
  BY <1>1, <1>6, <1>7, <1>8, <1>9, <1>10, <1>11, <1>12, <1>121, <1>13, HiddenSame, OrderedSame DEF IInv

LEMMA FinaliseInstallStep ==
  ASSUME IInv, NEW k \in Kicks, FinaliseInstall(k) PROVE IInv'
<1>1. /\ pc[k] = "install" /\ pc' = [pc EXCEPT ![k] = "bind"]
      /\ fds' = [fds EXCEPT ![reserved[k]] = k] /\ reserved' = [reserved EXCEPT ![k] = NoFd]
      /\ UNCHANGED <<behind, tl_open, tl_refs, input, todo, wrapping, deps, refcount, hooked, made, flag,
                     listed, is_bind, ck_refs, ck_signaled, queued, query>>
  BY DEF FinaliseInstall, At, Goto, tlVars, fenceVars, ckVars
<1>2. HasFd(k)
  BY <1>1 DEF HasFd
<1>3. reserved[k] \in Fds /\ fds[reserved[k]] = NoFile
  BY <1>2 DEF IInv, FdsReserved, Types
<1>4. \A j \in Kicks : /\ j # k => pc'[j] = pc[j] /\ reserved'[j] = reserved[j]
                       /\ pc'[k] = "bind" /\ reserved'[k] = NoFd
  BY <1>1 DEF IInv, Types
<1>5. \A fd \in Fds : (fd # reserved[k] => fds'[fd] = fds[fd]) /\ fds'[reserved[k]] = k
  BY <1>1, <1>3 DEF IInv, Types
<1>6. k \in Files /\ k # NoFile /\ ~Opened(k) /\ Submitted(k) /\ behind[k] = {k}
  BY <1>1, Kinds DEF IInv, FilesOpen, Firmware, Owned
<1>7. Types'
  <2>1. fds' \in [Fds -> Files \cup {NoFile}] /\ reserved' \in [Kicks -> Fds \cup {NoFd}]
    BY <1>1, <1>6 DEF IInv, Types
  <2> QED
    BY <1>1, <2>1 DEF IInv, Types, Places
<1>8. FenceRefs'
  BY <1>1, <1>4, FenceSame DEF IInv, PlacesSame
<1>9. TlRefs'
  BY <1>1, TlKeep DEF IInv, Creating
<1>10. FdsReserved'
  <2>1. ~HasFd(k)' /\ \A j \in Kicks : j # k => (HasFd(j)' <=> HasFd(j))
    BY <1>4 DEF HasFd
  <2>2. \A j \in Kicks : j # k /\ HasFd(j) => reserved[j] # reserved[k] /\ reserved[j] \in Fds
    BY <1>2 DEF IInv, FdsReserved, Types
  <2>3. \A j \in Kicks : HasFd(j)' => fds'[reserved'[j]] = NoFile
    BY <1>4, <1>5, <2>1, <2>2 DEF IInv, FdsReserved
  <2>4. \A j \in Kicks : reserved'[j] # NoFd <=> HasFd(j)'
    BY <1>4, <2>1 DEF IInv, FdsReserved
  <2>5. \A j, l \in Kicks : HasFd(j)' /\ reserved'[j] = reserved'[l] => j = l
    BY <1>4, <2>1, <2>4 DEF IInv, FdsReserved
  <2> QED
    BY <2>3, <2>4, <2>5 DEF FdsReserved
<1>11. FilesOpen'
  <2>1. \A g \in Files : g # k => (Opened(g)' <=> Opened(g))
    BY <1>3, <1>5, Kinds DEF Opened
  <2>2. \A fd1, fd2 \in Fds : fds'[fd1] = fds'[fd2] /\ fds'[fd1] # NoFile => fd1 = fd2
    BY <1>3, <1>5, <1>6 DEF IInv, FilesOpen, Opened
  <2>3. Opened(k)'
    BY <1>3, <1>5 DEF Opened
  <2>4. \A g \in Files : behind[g] # {} => Opened(g)' \/ (g \in Kicks /\ pc'[g] \in Owned)
    BY <1>4, <2>1, <2>3 DEF IInv, FilesOpen
  <2>5. \A j \in Kicks : pc'[j] \in Owned => behind[j] = {j}
    BY <1>4, <1>6 DEF IInv, FilesOpen
  <2>6. \A j \in Kicks : Opened(j)' => behind[j] = {j} /\ pc'[j] \in {"bind", "over"}
    BY <1>4, <1>6, <2>1, Kinds DEF IInv, FilesOpen
  <2> QED
    BY <1>1, <2>2, <2>4, <2>5, <2>6 DEF FilesOpen
<1>12. Collected'
  BY <1>1, <1>4 DEF IInv, Collected, Resolving, Wrapping
<1>121. Wrapped'
  <2>1. \A j \in Kicks : \/ pc'[j] = pc[j] /\ input'[j] = input[j]
                         \/ pc[j] \notin Wrapping /\ pc'[j] \notin Resolving \cup {"idle"}
    BY <1>1, <1>4 DEF Resolving, Wrapping
  <2> QED
    BY <1>1, <2>1, WrappedKeep DEF IInv
<1>13. Firmware'
  BY <1>1, <1>4 DEF IInv, Firmware, Submitted
<1>14. Hidden'
  <2>1. \A g \in Kicks : g # k => (Opened(g)' <=> Opened(g))
    BY <1>3, <1>5, Kinds DEF Opened
  <2> QED
    BY <1>1, <1>6, <2>1 DEF IInv, Hidden, Submitted
<1> QED
  BY <1>1, <1>7, <1>8, <1>9, <1>10, <1>11, <1>12, <1>121, <1>13, <1>14, CkSame, OrderedSame DEF IInv

LEMMA RollbackStep ==
  ASSUME IInv, NEW k \in Kicks, Rollback(k) PROVE IInv'
<1>0. k \in Fences /\ k \in Files /\ k \in Shared
  BY Kinds
<1>1. /\ pc[k] = "rollback" /\ pc' = [pc EXCEPT ![k] = "put_fd"]
      /\ behind' = [behind EXCEPT ![k] = {}] /\ Put({k}) /\ CkDrop(Freed({k}), {})
      /\ UNCHANGED <<fds, tl_open, tl_refs, reserved, input, todo, wrapping, deps, hooked, made, flag,
                     listed, ck_signaled, queued, query>>
  BY DEF Rollback, At, Goto, tlVars, kickVars, PutAll
<1>2. behind[k] = {k} /\ ~Opened(k)
  BY <1>1 DEF IInv, FilesOpen, Owned
<1>3. \A f \in {k} : refcount[f] > 0
  BY <1>0, <1>2, Referenced
<1>4. /\ refcount' \in [Fences -> Int] /\ ck_refs' \in [Checkpoints -> Int]
      /\ \A f \in Fences : refcount'[f] = refcount[f] - One(f \in {k})
      /\ \A w \in Wrappers : refcount'[w] = refcount[w]
  BY <1>0, <1>1, <1>3, PutSteps
<1>5. \A j \in Kicks : (j # k => pc'[j] = pc[j]) /\ pc'[k] = "put_fd"
  BY <1>1 DEF IInv, Types
<1>6. /\ behind' \in [Files -> SUBSET Shared] /\ behind'[k] = {}
      /\ \A g \in Files : g # k => behind'[g] = behind[g]
  BY <1>0, <1>1 DEF IInv, Types
<1>7. Types'
  BY <1>1, <1>4, <1>6 DEF IInv, Types, Places
<1>8. FenceRefs'
  <2> SUFFICES ASSUME NEW f \in Fences PROVE refcount'[f] = FenceHolders(f)'
    BY DEF FenceRefs
  <2>1. One(f \in {}) = 0 /\ One(f \in behind[k]) = One(f \in {k})
    BY <1>2 DEF One
  <2>2. /\ One(f \in {k}) \in Int /\ refcount[f] \in Int
        /\ One(InList(f))' = One(InList(f)) /\ One(InList(f)) \in Int
        /\ One(InQuery(f))' = One(InQuery(f)) /\ One(InQuery(f)) \in Int
    BY <1>1 DEF One, IInv, Types, InList, InQuery
  <2>3. refcount'[f] = refcount[f] + (One(f \in {}) - One(f \in behind[k]))
                         + (One(InList(f))' - One(InList(f))) + (One(InQuery(f))' - One(InQuery(f)))
    BY <1>4, <2>1, <2>2
  <2>4. PlacesSame
    BY <1>1, <1>5 DEF PlacesSame
  <2>5. \A w \in Wrappers : refcount'[w] > 0 <=> refcount[w] > 0
    BY <1>4
  <2> QED
    BY <1>0, <1>1, <2>3, <2>4, <2>5, FileStep
<1>81. CkRefs'
  BY <1>0, <1>1, <1>3, PutKeeps
<1>9. TlRefs'
  BY <1>1, TlKeep DEF IInv, Creating
<1>10. FdsReserved'
  <2>1. \A j \in Kicks : HasFd(j)' <=> HasFd(j)
    BY <1>1, <1>5 DEF HasFd
  <2> QED
    BY <1>1, <2>1 DEF IInv, FdsReserved
<1>11. FilesOpen'
  BY <1>1, <1>2, <1>5, <1>6, Kinds DEF IInv, FilesOpen, Opened, Owned
<1>12. Collected'
  BY <1>1, <1>5 DEF IInv, Collected, Resolving, Wrapping
<1>121. Wrapped'
  <2>1. \A j \in Kicks : \/ pc'[j] = pc[j] /\ input'[j] = input[j]
                         \/ pc[j] \notin Wrapping /\ pc'[j] \notin Resolving \cup {"idle"}
    BY <1>1, <1>5 DEF Resolving, Wrapping
  <2> QED
    BY <1>1, <2>1, WrappedKeep DEF IInv
<1>13. Firmware'
  BY <1>1, <1>5 DEF IInv, Firmware, Submitted
<1>14. Hidden'
  BY <1>1, <1>2, <1>6 DEF IInv, Hidden, Submitted, Opened
<1> QED
  BY <1>1, <1>7, <1>8, <1>81, <1>9, <1>10, <1>11, <1>12, <1>121, <1>13, <1>14, OrderedSame DEF IInv

-----------------------------------------------------------------------------
(* The firmware and user space.                                            *)

LEMMA FinishStep ==
  ASSUME IInv, NEW k \in Kicks, Finish(k) PROVE IInv'
<1>0. k \in Checkpoints /\ k \notin Wrappers
  BY Kinds
<1>1. /\ queued[k] /\ ck_signaled' = [ck_signaled EXCEPT ![k] = TRUE]
      /\ queued' = [queued EXCEPT ![k] = FALSE]
      /\ CkDrop({}, deps[k]) /\ deps' = [deps EXCEPT ![k] = {}]
      /\ UNCHANGED <<fds, behind, tl_open, tl_refs, pc, reserved, input, todo, wrapping, refcount, hooked,
                     made, flag, listed, query>>
  BY DEF Finish, CanRun, tlVars, fenceVars
<1>2. CkRefs' /\ ck_refs' \in [Checkpoints -> Int] /\ deps' \in [Kicks -> SUBSET Checkpoints]
  BY <1>1, DepsDropped
<1>3. \A j \in Kicks : /\ j # k => /\ queued'[j] = queued[j] /\ ck_signaled'[j] = ck_signaled[j]
                                   /\ deps'[j] = deps[j]
                       /\ queued'[k] = FALSE /\ ck_signaled'[k] = TRUE /\ deps'[k] = {}
  <2>1. \A j \in Kicks : j # k => queued'[j] = queued[j] /\ deps'[j] = deps[j]
    BY <1>1 DEF IInv, Types
  <2>2. queued'[k] = FALSE /\ deps'[k] = {}
    BY <1>1 DEF IInv, Types
  <2>3. \A f \in Checkpoints : f # k => ck_signaled'[f] = ck_signaled[f]
    BY <1>1 DEF IInv, Types
  <2>4. ck_signaled'[k] = TRUE
    BY <1>0, <1>1 DEF IInv, Types
  <2>5. \A j \in Kicks : j \in Checkpoints
    BY Kinds
  <2> QED
    BY <2>1, <2>2, <2>3, <2>4, <2>5
<1>4. \A j \in Kicks : Submitted(j)' <=> Submitted(j)
  BY <1>1, <1>3 DEF Submitted
<1>5. Types'
  <2>1. queued' \in [Kicks -> BOOLEAN] /\ ck_signaled' \in [Checkpoints -> BOOLEAN]
    BY <1>0, <1>1 DEF IInv, Types
  <2> QED
    BY <1>1, <1>2, <2>1 DEF IInv, Types
<1>6. FenceRefs'
  BY <1>1, FenceSame DEF IInv, PlacesSame
<1>7. Collected'
  BY <1>1, <1>3 DEF IInv, Collected
<1>71. Wrapped'
  <2>0. \A w \in Wrappers : w \in Checkpoints /\ w # k
    BY <1>0, Kinds
  <2>1. \A w \in Wrappers : ck_signaled'[w] = ck_signaled[w]
    BY <2>0, <1>1 DEF IInv, Types
  <2>2. \A j \in Kicks : deps'[j] \subseteq deps[j]
    BY <1>3
  <2> QED
    BY <1>1, <2>1, <2>2, WrappedKeep DEF IInv
<1>8. Firmware'
  BY <1>1, <1>3, <1>4 DEF IInv, Firmware
<1>9. Hidden'
  <2>1. \A f \in Kicks : ~Submitted(f)' =>
           /\ \A g \in Files : f \in behind'[g] => g = f
           /\ \A j \in Kicks : f \notin input'[j] /\ f \notin deps'[j]
           /\ ~Opened(f)'
    BY <1>1, <1>3, <1>4 DEF IInv, Hidden, Opened
  <2>2. (query.at # "none" => query.fd \in Fds /\ query.fence \in Kicks /\ Submitted(query.fence))'
    BY <1>1, <1>4 DEF IInv, Hidden
  <2> QED
    BY <2>1, <2>2 DEF Hidden
<1>10. Ordered'
  BY <1>3 DEF IInv, Ordered
<1> QED
  BY <1>1, <1>2, <1>5, <1>6, <1>7, <1>71, <1>8, <1>9, <1>10, TlSame, FdsSame, OpenSame DEF IInv

LEMMA AnnounceStep ==
  ASSUME IInv, NEW k \in Kicks, Announce(k) PROVE IInv'
<1>0. k \in Fences /\ k \in Files /\ k \in Shared
  BY Kinds
<1>1. /\ listed[k] /\ ck_signaled[k] /\ listed' = [listed EXCEPT ![k] = FALSE]
      /\ flag' = [flag EXCEPT ![k] = TRUE] /\ Put({k}) /\ CkDrop(Freed({k}), {})
      /\ UNCHANGED <<fds, behind, tl_open, tl_refs, pc, reserved, input, todo, wrapping, deps, hooked,
                     made, ck_signaled, queued, query>>
  BY DEF Announce, tlVars, kickVars
<1>2. \A f \in {k} : refcount[f] > 0
  BY <1>0, <1>1, Referenced DEF InList
<1>3. /\ refcount' \in [Fences -> Int] /\ ck_refs' \in [Checkpoints -> Int]
      /\ \A f \in Fences : refcount'[f] = refcount[f] - One(f \in {k})
      /\ \A w \in Wrappers : refcount'[w] = refcount[w]
  BY <1>0, <1>1, <1>2, PutSteps
<1>4. /\ listed' \in [Kicks -> BOOLEAN] /\ flag' \in [Shared -> BOOLEAN]
      /\ \A j \in Kicks : (j # k => listed'[j] = listed[j]) /\ listed'[k] = FALSE
  BY <1>0, <1>1 DEF IInv, Types
<1>5. Types'
  BY <1>1, <1>3, <1>4 DEF IInv, Types
<1>6. FenceRefs'
  <2> SUFFICES ASSUME NEW f \in Fences PROVE refcount'[f] = FenceHolders(f)'
    BY DEF FenceRefs
  <2>1. behind' = [behind EXCEPT ![k] = behind[k]]
    BY <1>0, <1>1, SameBut DEF IInv, Types
  <2>2. /\ One(f \in behind[k]) \in Int /\ refcount[f] \in Int /\ One(f \in {k}) \in Int
        /\ One(InQuery(f))' = One(InQuery(f)) /\ One(InQuery(f)) \in Int
    BY <1>1 DEF One, IInv, Types, InQuery
  <2>3. One(InList(f)) = One(f \in {k}) + One(InList(f))' /\ One(InList(f))' \in Int
    <3>1. (f \in {k} <=> f = k) /\ InList(k) /\ ~InList(k)'
      BY <1>1, <1>4 DEF InList
    <3>2. f # k => (InList(f)' <=> InList(f))
      BY <1>4 DEF InList
    <3> QED
      BY <3>1, <3>2 DEF One
  <2>4. refcount'[f] = refcount[f] + (One(f \in behind[k]) - One(f \in behind[k]))
                         + (One(InList(f))' - One(InList(f))) + (One(InQuery(f))' - One(InQuery(f)))
    BY <1>3, <2>2, <2>3
  <2>5. PlacesSame
    BY <1>1 DEF PlacesSame
  <2>6. \A w \in Wrappers : refcount'[w] > 0 <=> refcount[w] > 0
    BY <1>3
  <2> QED
    BY <1>0, <1>1, <2>1, <2>4, <2>5, <2>6, FileStep
<1>61. CkRefs'
  BY <1>0, <1>1, <1>2, PutKeeps
<1>7. Firmware'
  BY <1>1, <1>4 DEF IInv, Firmware, Submitted
<1> QED
  BY <1>1, <1>5, <1>6, <1>61, <1>7, TlSame, FdsSame, OpenSame, CollectedSame, WrappedSame, HiddenSame,
     OrderedSame DEF IInv

LEMMA CloseFdStep ==
  ASSUME IInv, NEW fd \in Fds, CloseFd(fd) PROVE IInv'
<1>01. PICK g \in Files \cup {NoFile} : g = fds[fd]
  BY DEF IInv, Types
<1>02. g # NoFile
  BY <1>01 DEF CloseFd
<1>03. PICK B \in SUBSET Shared : B = behind[g]
  BY <1>02 DEF IInv, Types
<1>1. /\ g # NoFile /\ fds' = [fds EXCEPT ![fd] = NoFile]
      /\ behind' = [behind EXCEPT ![g] = {}] /\ Put(B) /\ CkDrop(Freed(B), {})
      /\ UNCHANGED <<tl_open, tl_refs, pc, reserved, input, todo, wrapping, deps, hooked, made, flag,
                     listed, ck_signaled, queued, query>>
  BY <1>01, <1>02, <1>03 DEF CloseFd, tlVars, kickVars, PutAll
<1>2. g \in Files
  BY <1>02
<1>3. \A f \in B : refcount[f] > 0
  BY <1>03, <1>2, Kinds, Referenced
<1>4. /\ \A e \in Fds : (e # fd => fds'[e] = fds[e]) /\ fds'[fd] = NoFile
      /\ fds' \in [Fds -> Files \cup {NoFile}]
  BY <1>1 DEF IInv, Types
<1>41. g \in Kicks => pc[g] \notin Owned
  BY <1>01 DEF IInv, FilesOpen, Opened, Owned
<1>42. \A e \in Fds : e # fd => fds[e] # g
  BY <1>01, <1>02 DEF IInv, FilesOpen
<1>43. fds[fd] = g
  BY <1>01
<1>5. /\ behind' \in [Files -> SUBSET Shared] /\ behind'[g] = {}
      /\ \A h \in Files : h # g => behind'[h] = behind[h]
  BY <1>1, <1>2 DEF IInv, Types
<1>6. /\ refcount' \in [Fences -> Int] /\ ck_refs' \in [Checkpoints -> Int]
      /\ \A f \in Fences : refcount'[f] = refcount[f] - One(f \in B)
      /\ \A w \in Wrappers : refcount'[w] = refcount[w]
  BY <1>1, <1>3, PutSteps
<1>7. Types'
  BY <1>1, <1>4, <1>5, <1>6 DEF IInv, Types
<1>8. FenceRefs'
  <2> SUFFICES ASSUME NEW f \in Fences PROVE refcount'[f] = FenceHolders(f)'
    BY DEF FenceRefs
  <2>1. One(f \in {}) = 0 /\ One(f \in behind[g]) = One(f \in B)
    BY <1>03 DEF One
  <2>2. /\ One(f \in B) \in Int /\ refcount[f] \in Int
        /\ One(InList(f))' = One(InList(f)) /\ One(InList(f)) \in Int
        /\ One(InQuery(f))' = One(InQuery(f)) /\ One(InQuery(f)) \in Int
    BY <1>1 DEF One, IInv, Types, InList, InQuery
  <2>3. refcount'[f] = refcount[f] + (One(f \in {}) - One(f \in behind[g]))
                         + (One(InList(f))' - One(InList(f))) + (One(InQuery(f))' - One(InQuery(f)))
    BY <1>6, <2>1, <2>2
  <2>4. PlacesSame
    BY <1>1 DEF PlacesSame
  <2>5. \A w \in Wrappers : refcount'[w] > 0 <=> refcount[w] > 0
    BY <1>6
  <2> QED
    BY <1>1, <1>2, <2>3, <2>4, <2>5, FileStep
<1>81. CkRefs'
  BY <1>1, <1>3, PutKeeps
<1>9. FdsReserved'
  <2>1. \A j \in Kicks : HasFd(j) => reserved[j] # fd /\ reserved[j] \in Fds
    BY <1>1, <1>43 DEF IInv, FdsReserved, Types
  <2>2. \A j \in Kicks : HasFd(j)' <=> HasFd(j)
    BY <1>1 DEF HasFd
  <2> QED
    BY <1>1, <1>4, <2>1, <2>2 DEF IInv, FdsReserved
<1>10. \A h \in Files : h # g => (Opened(h)' <=> Opened(h))
  BY <1>4, <1>43, Kinds DEF Opened
<1>11. ~Opened(g)'
  BY <1>1, <1>4, <1>42 DEF Opened
<1>12. FilesOpen'
  <2>1. \A fd1, fd2 \in Fds : fds'[fd1] = fds'[fd2] /\ fds'[fd1] # NoFile => fd1 = fd2
    BY <1>4 DEF IInv, FilesOpen
  <2>2. \A h \in Files : behind'[h] # {} => Opened(h)' \/ (h \in Kicks /\ pc'[h] \in Owned)
    BY <1>1, <1>5, <1>10 DEF IInv, FilesOpen
  <2>3. \A j \in Kicks : pc'[j] \in Owned => behind'[j] = {j}
    BY <1>1, <1>5, <1>41, Kinds DEF IInv, FilesOpen
  <2>4. \A j \in Kicks : Opened(j)' => behind'[j] = {j} /\ pc'[j] \in {"bind", "over"}
    BY <1>1, <1>5, <1>10, <1>11, Kinds DEF IInv, FilesOpen
  <2> QED
    BY <2>1, <2>2, <2>3, <2>4 DEF FilesOpen
<1>13. Hidden'
  <2>1. \A f \in Kicks : Opened(f)' => Opened(f)
    BY <1>10, <1>11, Kinds
  <2>2. \A h \in Files : behind'[h] \subseteq behind[h]
    BY <1>5
  <2> QED
    BY <1>1, <2>1, <2>2 DEF IInv, Hidden, Submitted
<1> QED
  BY <1>1, <1>7, <1>8, <1>81, <1>9, <1>12, <1>13, TlSame, CollectedSame, WrappedSame, FirmwareSame,
     OrderedSame DEF IInv

\* A sync file that is no kick's own gets a descriptor.
LEMMA OpenStep ==
  ASSUME IInv, NEW g \in Files, g \notin Kicks, ~Opened(g), NEW fd \in Unused, NEW B \in SUBSET Shared,
         fds' = [fds EXCEPT ![fd] = g], behind' = [behind EXCEPT ![g] = B], Get(B),
         \A f \in B : refcount[f] > 0 \/ f \in Foreigns, \A f \in B : f \in Kicks => Submitted(f),
         UNCHANGED <<tl_open, tl_refs, pc, reserved, input, todo, wrapping, deps, hooked, made, flag,
                     listed, ck_refs, ck_signaled, queued, query>>
  PROVE  IInv'
<1>1. g # NoFile
  BY Kinds
<1>5. fd \in Fds /\ fds[fd] = NoFile /\ \A j \in Kicks : HasFd(j) => reserved[j] # fd
  BY DEF Unused, Reserved, IInv, FdsReserved
<1>6. /\ fds' \in [Fds -> Files \cup {NoFile}] /\ fds'[fd] = g
      /\ \A e \in Fds : e # fd => fds'[e] = fds[e]
  BY <1>1, <1>5 DEF IInv, Types
<1>8. behind[g] = {}
  BY DEF IInv, FilesOpen
<1>9. /\ behind' \in [Files -> SUBSET Shared] /\ behind'[g] = B
      /\ \A h \in Files : h # g => behind'[h] = behind[h]
  BY DEF IInv, Types
<1>12. /\ refcount' \in [Fences -> Int]
       /\ \A f \in Fences : refcount'[f] = refcount[f] + One(f \in B)
       /\ \A f \in Checkpoints : refcount'[f] > 0 <=> refcount[f] > 0
       /\ \A w \in Wrappers : refcount'[w] = refcount[w]
  BY GetSteps
<1>13. Types'
  BY <1>6, <1>9, <1>12 DEF IInv, Types
<1>14. FenceRefs'
  <2> SUFFICES ASSUME NEW f \in Fences PROVE refcount'[f] = FenceHolders(f)'
    BY DEF FenceRefs
  <2>1. One(f \in behind[g]) = 0 /\ One(f \in B) \in Int
    BY <1>8 DEF One
  <2>2. /\ refcount[f] \in Int
        /\ One(InList(f))' = One(InList(f)) /\ One(InList(f)) \in Int
        /\ One(InQuery(f))' = One(InQuery(f)) /\ One(InQuery(f)) \in Int
    BY DEF One, IInv, Types, InList, InQuery
  <2>3. refcount'[f] = refcount[f] + (One(f \in B) - One(f \in behind[g]))
                         + (One(InList(f))' - One(InList(f))) + (One(InQuery(f))' - One(InQuery(f)))
    BY <1>12, <2>1, <2>2
  <2>4. PlacesSame
    BY DEF PlacesSame
  <2>5. \A w \in Wrappers : refcount'[w] > 0 <=> refcount[w] > 0
    BY <1>12
  <2> QED
    BY <2>3, <2>4, <2>5, FileStep
<1>15. CkRefs'
  BY <1>12, CkSame DEF IInv
<1>16. FdsReserved'
  <2>1. \A j \in Kicks : HasFd(j) => reserved[j] # fd /\ reserved[j] \in Fds
    BY <1>5 DEF IInv, FdsReserved, Types
  <2>2. \A j \in Kicks : HasFd(j)' <=> HasFd(j)
    BY DEF HasFd
  <2> QED
    BY <1>6, <2>1, <2>2 DEF IInv, FdsReserved
<1>17. \A h \in Files : h # g => (Opened(h)' <=> Opened(h))
  BY <1>5, <1>6, Kinds DEF Opened
<1>18. FilesOpen'
  <2>1. \A e1, e2 \in Fds : fds'[e1] = fds'[e2] /\ fds'[e1] # NoFile => e1 = e2
    BY <1>5, <1>6 DEF IInv, FilesOpen, Opened
  <2>2. Opened(g)'
    BY <1>5, <1>6 DEF Opened
  <2>3. \A h \in Files : behind'[h] # {} => Opened(h)' \/ (h \in Kicks /\ pc'[h] \in Owned)
    BY <1>9, <1>17, <2>2 DEF IInv, FilesOpen
  <2>4. \A j \in Kicks : j \in Files /\ j # g
    BY Kinds
  <2>5. \A j \in Kicks : pc'[j] \in Owned => behind'[j] = {j}
    BY <1>9, <2>4 DEF IInv, FilesOpen
  <2>6. \A j \in Kicks : Opened(j)' => behind'[j] = {j} /\ pc'[j] \in {"bind", "over"}
    BY <1>9, <1>17, <2>4 DEF IInv, FilesOpen
  <2> QED
    BY <2>1, <2>3, <2>5, <2>6 DEF FilesOpen
<1>19. Hidden'
  <2>1. \A f \in Kicks : Opened(f)' => Opened(f)
    BY <1>17, Kinds
  <2>2. \A f \in Kicks : ~Submitted(f) => f \notin B
    OBVIOUS
  <2>3. \A f \in Kicks : ~Submitted(f) => \A h \in Files : f \in behind'[h] => h = f
    BY <1>9, <2>2 DEF IInv, Hidden
  <2>4. \A f \in Kicks : Submitted(f)' <=> Submitted(f)
    BY DEF Submitted
  <2>5. \A f \in Kicks : ~Submitted(f)' =>
           /\ \A h \in Files : f \in behind'[h] => h = f
           /\ \A j \in Kicks : f \notin input'[j] /\ f \notin deps'[j]
           /\ ~Opened(f)'
    BY <2>1, <2>3, <2>4 DEF IInv, Hidden
  <2>6. (query.at # "none" => query.fd \in Fds /\ query.fence \in Kicks /\ Submitted(query.fence))'
    BY <2>4 DEF IInv, Hidden
  <2> QED
    BY <2>5, <2>6 DEF Hidden
<1> QED
  BY <1>13, <1>14, <1>15, <1>16, <1>18, <1>19, TlSame, CollectedSame, WrappedSame, FirmwareSame,
     OrderedSame DEF IInv

LEMMA MergeFdsStep ==
  ASSUME IInv, NEW m \in Merges, NEW fd1 \in Fds, NEW fd2 \in Fds, MergeFds(m, fd1, fd2) PROVE IInv'
<1>1. fds[fd1] \in Files /\ fds[fd2] \in Files /\ m \in Files /\ m \notin Kicks
  BY SyncFileAssumption DEF MergeFds, Files, IInv, Types
<1>2. PICK B \in SUBSET Shared : B = behind[fds[fd1]] \cup behind[fds[fd2]]
  BY <1>1 DEF IInv, Types
<1>3. PICK fd \in Unused : fds' = [fds EXCEPT ![fd] = m]
  BY DEF MergeFds
<1>4. /\ behind' = [behind EXCEPT ![m] = B] /\ Get(B) /\ ~Opened(m)
      /\ UNCHANGED <<tl_open, tl_refs, pc, reserved, input, todo, wrapping, deps, hooked, made, flag,
                     listed, ck_refs, ck_signaled, queued, query>>
  BY <1>2 DEF MergeFds, Opened, tlVars, kickVars, ckVars
<1>5. \A f \in B : refcount[f] > 0 \/ f \in Foreigns
  BY <1>1, <1>2, Kinds, Referenced
<1>6. \A f \in B : f \in Kicks => Submitted(f)
  BY <1>1, <1>2 DEF IInv, Hidden, Opened
<1> QED
  BY <1>1, <1>3, <1>4, <1>5, <1>6, OpenStep

LEMMA OpenForeignStep ==
  ASSUME IInv, NEW x \in Foreigns, OpenForeign(x) PROVE IInv'
<1>1. x \in Files /\ x \notin Kicks /\ x \in Shared
  BY Kinds
<1>2. PICK fd \in Unused : fds' = [fds EXCEPT ![fd] = x]
  BY DEF OpenForeign
<1>3. PICK B \in SUBSET Shared : B = {x}
  BY <1>1
<1>4. /\ behind' = [behind EXCEPT ![x] = B] /\ Get(B) /\ ~Opened(x)
      /\ UNCHANGED <<tl_open, tl_refs, pc, reserved, input, todo, wrapping, deps, hooked, made, flag,
                     listed, ck_refs, ck_signaled, queued, query>>
  BY <1>3 DEF OpenForeign, Opened, tlVars, kickVars, ckVars
<1>5. (\A f \in B : refcount[f] > 0 \/ f \in Foreigns) /\ \A f \in B : f \in Kicks => Submitted(f)
  BY <1>1, <1>3
<1> QED
  BY <1>1, <1>2, <1>4, <1>5, OpenStep

LEMMA ForeignSignalStep ==
  ASSUME IInv, NEW x \in Foreigns, ForeignSignal(x) PROVE IInv'
<1>1. /\ flag' = [flag EXCEPT ![x] = TRUE]
      /\ UNCHANGED <<fds, behind, tl_open, tl_refs, pc, reserved, input, todo, wrapping, deps, refcount,
                     hooked, listed, ck_refs, ck_signaled, queued, query>>
  BY DEF ForeignSignal, tlVars, kickVars, ckVars
<1>2. Types'
  <2>1. flag' \in [Shared -> BOOLEAN]
    BY <1>1, Kinds DEF IInv, Types
  <2> QED
    BY <1>1, <2>1 DEF IInv, Types
<1>3. PlacesSame
  BY <1>1 DEF PlacesSame
<1> QED
  BY <1>1, <1>2, <1>3, FenceSame, CkSame, TlSame, FdsSame, OpenSame, CollectedSame, WrappedSame,
     FirmwareSame, HiddenSame, OrderedSame DEF IInv

LEMMA CloseTimelineStep ==
  ASSUME IInv, CloseTimeline PROVE IInv'
<1>1. /\ tl_open /\ tl_open' = FALSE /\ tl_refs' = tl_refs - 1
      /\ UNCHANGED <<fds, behind, pc, reserved, input, todo, wrapping, deps, refcount, hooked, made, flag,
                     listed, ck_refs, ck_signaled, queued, query>>
  BY DEF CloseTimeline, kickVars, fenceVars, ckVars
<1>2. Types'
  <2>1. tl_refs' \in Int
    BY <1>1 DEF IInv, Types
  <2>2. tl_open' = FALSE
    BY <1>1
  <2>3. tl_open' \in BOOLEAN
    BY <2>2
  <2> QED
    BY <1>1, <2>1, <2>3 DEF IInv, Types
<1>3. TlRefs'
  <2>1. Cardinality(Creators)' = Cardinality(Creators)
    BY <1>1 DEF Creators, InCreate
  <2>2. One(tl_open) = 1 /\ One(tl_open') = 0
    BY <1>1 DEF One
  <2>3. tl_refs = One(tl_open) + Cardinality(Creators) /\ Cardinality(Creators) \in Nat
    BY CountTypes DEF IInv, TlRefs
  <2>4. tl_refs' = One(tl_open') + Cardinality(Creators)'
    BY <1>1, <2>1, <2>2, <2>3
  <2> QED
    BY <2>4 DEF TlRefs
<1>4. PlacesSame
  BY <1>1 DEF PlacesSame
<1> QED
  BY <1>1, <1>2, <1>3, <1>4, FenceSame, CkSame, FdsSame, OpenSame, CollectedSame, WrappedSame,
     FirmwareSame, HiddenSame, OrderedSame DEF IInv

LEMMA QueryGetStep ==
  ASSUME IInv, NEW fd \in Fds, QueryGet(fd) PROVE IInv'
<1>0. PICK k \in Kicks : k = fds[fd]
  BY DEF QueryGet
<1>1. /\ query.at = "none" /\ query' = [at |-> "put", fd |-> fd, fence |-> k] /\ Get({k})
      /\ UNCHANGED <<fds, behind, tl_open, tl_refs, pc, reserved, input, todo, wrapping, deps, hooked,
                     made, flag, listed, ck_refs, ck_signaled, queued>>
  BY <1>0 DEF QueryGet, tlVars, kickVars, ckVars
<1>2. k \in Files /\ k \in Shared /\ k \in Fences /\ k \in behind[k] /\ Submitted(k)
  BY <1>0, Kinds DEF IInv, FilesOpen, Hidden, Opened
<1>3. \A f \in {k} : refcount[f] > 0 \/ f \in Foreigns
  BY <1>2, Referenced
<1>4. /\ refcount' \in [Fences -> Int]
      /\ \A f \in Fences : refcount'[f] = refcount[f] + One(f \in {k})
      /\ \A f \in Checkpoints : refcount'[f] > 0 <=> refcount[f] > 0
      /\ \A w \in Wrappers : refcount'[w] = refcount[w]
  BY <1>1, <1>2, <1>3, GetSteps
<1>5. query' \in [at : {"none", "put", "read"}, fd : Fds \cup {NoFd}, fence : Files \cup {NoFile}]
  BY <1>1, <1>2
<1>6. Types'
  BY <1>1, <1>4, <1>5 DEF IInv, Types
<1>7. FenceRefs'
  <2> SUFFICES ASSUME NEW f \in Fences PROVE refcount'[f] = FenceHolders(f)'
    BY DEF FenceRefs
  <2>1. behind' = [behind EXCEPT ![k] = behind[k]]
    BY <1>1, <1>2, SameBut DEF IInv, Types
  <2>2. /\ One(f \in behind[k]) \in Int /\ refcount[f] \in Int
        /\ One(InList(f))' = One(InList(f)) /\ One(InList(f)) \in Int
    BY <1>1 DEF One, IInv, Types, InList
  <2>3. One(InQuery(f)) = 0
    BY <1>1 DEF InQuery, One
  <2>4. InQuery(f)' <=> f \in {k}
    BY <1>1 DEF InQuery
  <2>5. One(InQuery(f))' = One(f \in {k}) /\ One(f \in {k}) \in Int
    BY <2>4 DEF One
  <2>6. refcount'[f] = refcount[f] + (One(f \in behind[k]) - One(f \in behind[k]))
                         + (One(InList(f))' - One(InList(f))) + (One(InQuery(f))' - One(InQuery(f)))
    BY <1>4, <2>2, <2>3, <2>5
  <2>7. PlacesSame
    BY <1>1 DEF PlacesSame
  <2>8. \A w \in Wrappers : refcount'[w] > 0 <=> refcount[w] > 0
    BY <1>4
  <2> QED
    BY <1>1, <1>2, <2>1, <2>6, <2>7, <2>8, FileStep
<1>8. CkRefs'
  BY <1>1, <1>4, CkSame DEF IInv
<1>9. Hidden'
  BY <1>1, <1>2 DEF IInv, Hidden, Submitted, Opened
<1> QED
  BY <1>1, <1>6, <1>7, <1>8, <1>9, TlSame, FdsSame, OpenSame, CollectedSame, WrappedSame, FirmwareSame,
     OrderedSame DEF IInv

LEMMA QueryPutStep ==
  ASSUME IInv, QueryPut PROVE IInv'
<1>0. PICK k \in Kicks : k = query.fence
  BY DEF QueryPut, IInv, Hidden
<1>1. /\ query.at = "put" /\ query' = [query EXCEPT !.at = "read"]
      /\ Put({k}) /\ CkDrop(Freed({k}), {})
      /\ UNCHANGED <<fds, behind, tl_open, tl_refs, pc, reserved, input, todo, wrapping, deps, hooked,
                     made, flag, listed, ck_signaled, queued>>
  BY <1>0 DEF QueryPut, PutAll, tlVars, kickVars
<1>2. query'.at = "read" /\ query'.fd = query.fd /\ query'.fence = k
  BY <1>0, <1>1 DEF IInv, Types
<1>21. k \in Files /\ k \in Shared /\ k \in Fences
  BY Kinds
<1>3. \A f \in {k} : refcount[f] > 0
  BY <1>0, <1>1, <1>21, Referenced DEF InQuery
<1>4. /\ refcount' \in [Fences -> Int] /\ ck_refs' \in [Checkpoints -> Int]
      /\ \A f \in Fences : refcount'[f] = refcount[f] - One(f \in {k})
      /\ \A w \in Wrappers : refcount'[w] = refcount[w]
  BY <1>1, <1>21, <1>3, PutSteps
<1>5. query' \in [at : {"none", "put", "read"}, fd : Fds \cup {NoFd}, fence : Files \cup {NoFile}]
  BY <1>1 DEF IInv, Types
<1>6. Types'
  BY <1>1, <1>4, <1>5 DEF IInv, Types
<1>7. FenceRefs'
  <2> SUFFICES ASSUME NEW f \in Fences PROVE refcount'[f] = FenceHolders(f)'
    BY DEF FenceRefs
  <2>1. behind' = [behind EXCEPT ![k] = behind[k]]
    BY <1>1, <1>21, SameBut DEF IInv, Types
  <2>2. /\ One(f \in behind[k]) \in Int /\ refcount[f] \in Int
        /\ One(InList(f))' = One(InList(f)) /\ One(InList(f)) \in Int
    BY <1>1 DEF One, IInv, Types, InList
  <2>3. InQuery(f) <=> f \in {k}
    BY <1>0, <1>1 DEF InQuery
  <2>4. One(InQuery(f)) = One(f \in {k}) /\ One(f \in {k}) \in Int
    BY <2>3 DEF One
  <2>5. One(InQuery(f))' = 0
    BY <1>2 DEF InQuery, One
  <2>6. refcount'[f] = refcount[f] + (One(f \in behind[k]) - One(f \in behind[k]))
                         + (One(InList(f))' - One(InList(f))) + (One(InQuery(f))' - One(InQuery(f)))
    BY <1>4, <2>2, <2>4, <2>5
  <2>7. PlacesSame
    BY <1>1 DEF PlacesSame
  <2>8. \A w \in Wrappers : refcount'[w] > 0 <=> refcount[w] > 0
    BY <1>4
  <2> QED
    BY <1>1, <1>21, <2>1, <2>6, <2>7, <2>8, FileStep
<1>71. CkRefs'
  BY <1>1, <1>21, <1>3, PutKeeps
<1>8. Hidden'
  BY <1>0, <1>1, <1>2 DEF IInv, Hidden, Submitted, Opened
<1> QED
  BY <1>1, <1>6, <1>7, <1>71, <1>8, TlSame, FdsSame, OpenSame, CollectedSame, WrappedSame, FirmwareSame,
     OrderedSame DEF IInv

LEMMA QueryReadStep ==
  ASSUME IInv, QueryRead PROVE IInv'
<1>1. /\ query.at = "read" /\ query' = NoQuery
      /\ UNCHANGED <<fds, behind, tl_open, tl_refs, pc, reserved, input, todo, wrapping, deps, refcount,
                     hooked, made, flag, listed, ck_refs, ck_signaled, queued>>
  BY DEF QueryRead, tlVars, kickVars, fenceVars, ckVars
<1>2. Types'
  BY <1>1 DEF IInv, Types, NoQuery
<1>3. FenceRefs'
  <2> SUFFICES ASSUME NEW f \in Fences PROVE refcount'[f] = FenceHolders(f)'
    BY DEF FenceRefs
  <2>1. FenceHolders(f)' = FenceHolders(f)
    <3>1. Openers(f)' = Openers(f) /\ Inputs(f)' = Inputs(f) /\ Alive(f)' = Alive(f)
      BY <1>1 DEF Openers, Inputs, Alive
    <3>2. Makers(f)' = Makers(f)
      BY <1>1 DEF Makers, ByKick, At
    <3>3. (InQuery(f)' <=> InQuery(f)) /\ (InList(f)' <=> InList(f))
      BY <1>1 DEF InQuery, InList, NoQuery
    <3>4. /\ One(InQuery(f))' = One(InQuery(f)) /\ One(InList(f))' = One(InList(f))
          /\ One(f \in hooked)' = One(f \in hooked)
      BY <1>1, <3>3 DEF One
    <3>5. /\ FenceHolders(f) = Cardinality(Openers(f)) + Cardinality(Inputs(f)) + Cardinality(Alive(f))
                                 + Cardinality(Makers(f)) + One(InList(f)) + One(f \in hooked)
                                 + One(InQuery(f))
          /\ FenceHolders(f)' = (Cardinality(Openers(f)) + Cardinality(Inputs(f)) + Cardinality(Alive(f))
                                 + Cardinality(Makers(f)) + One(InList(f)) + One(f \in hooked)
                                 + One(InQuery(f)))'
      BY DEF FenceHolders, Openers, Inputs, Makers, Alive, InList, InQuery
    <3> QED
      BY <3>1, <3>2, <3>4, <3>5
  <2> QED
    BY <1>1, <2>1 DEF IInv, FenceRefs
<1>4. Hidden'
  BY <1>1 DEF IInv, Hidden, Submitted, Opened, NoQuery
<1> QED
  BY <1>1, <1>2, <1>3, <1>4, CkSame, TlSame, FdsSame, OpenSame, CollectedSame, WrappedSame, FirmwareSame,
     OrderedSame DEF IInv

-----------------------------------------------------------------------------
(* The invariant.                                                          *)

LEMMA InitHolds == Init => IInv
<1> SUFFICES ASSUME Init PROVE IInv
  OBVIOUS
<1> USE DEF Init
<1>1. Types
  <2>1. NoQuery \in [at : {"none", "put", "read"}, fd : Fds \cup {NoFd}, fence : Files \cup {NoFile}]
    BY DEF NoQuery
  <2> QED
    BY <2>1 DEF Types, Places
<1>2. ASSUME NEW f \in Fences PROVE refcount[f] = FenceHolders(f)
  <2>1. Openers(f) = {}
    BY DEF Openers
  <2>2. Inputs(f) = {}
    BY DEF Inputs
  <2>3. Alive(f) = {}
    BY Kinds DEF Alive
  <2>4. Makers(f) = {}
    BY DEF Makers, ByKick, At
  <2>5. ~InList(f) /\ ~InQuery(f) /\ f \notin hooked
    BY DEF InList, InQuery, NoQuery
  <2>6. /\ Cardinality(Openers(f)) = 0 /\ Cardinality(Inputs(f)) = 0
        /\ Cardinality(Alive(f)) = 0 /\ Cardinality(Makers(f)) = 0
    BY <2>1, <2>2, <2>3, <2>4, FS_EmptySet
  <2>7. One(InList(f)) = 0 /\ One(InQuery(f)) = 0 /\ One(f \in hooked) = 0
    BY <2>5 DEF One
  <2>8. FenceHolders(f) = Cardinality(Openers(f)) + Cardinality(Inputs(f)) + Cardinality(Alive(f))
                            + Cardinality(Makers(f)) + One(InList(f)) + One(f \in hooked)
                            + One(InQuery(f))
    BY ONLY Holders
  <2>9. refcount[f] = 0
    OBVIOUS
  <2> HIDE DEF Init
  <2> QED
    BY <2>6, <2>7, <2>8, <2>9
<1>21. ASSUME NEW f \in Checkpoints PROVE ck_refs[f] = CkHolders(f)
  <2>1. Waiters(f) = {}
    BY DEF Waiters
  <2>2. f \in Fences
    BY Kinds
  <2>3. One(refcount[f] > 0) = 0
    BY <2>2 DEF One
  <2>4. Cardinality(Waiters(f)) = 0
    BY <2>1, FS_EmptySet
  <2>5. CkHolders(f) = One(refcount[f] > 0) + Cardinality(Waiters(f))
    BY ONLY Holders
  <2>6. ck_refs[f] = 0
    OBVIOUS
  <2> HIDE DEF Init
  <2> QED
    BY <2>3, <2>4, <2>5, <2>6
<1>3. TlRefs
  <2>1. Creators = {}
    BY DEF Creators, InCreate
  <2>2. Cardinality(Creators) = 0
    BY <2>1, FS_EmptySet
  <2> QED
    BY <2>2 DEF TlRefs, One
<1>4. FdsReserved
  BY DEF FdsReserved, HasFd
<1>5. FilesOpen
  BY Kinds DEF FilesOpen, Opened, Owned
<1>6. Collected
  BY DEF Collected
<1>61. Wrapped
  BY DEF Wrapped, Wrapping
<1>7. Firmware
  BY Kinds DEF Firmware
<1>8. Hidden
  BY Kinds DEF Hidden, Opened, NoQuery
<1>9. Ordered
  BY DEF Ordered
<1> QED
  BY <1>1, <1>2, <1>21, <1>3, <1>4, <1>5, <1>6, <1>61, <1>7, <1>8, <1>9 DEF IInv, FenceRefs, CkRefs

LEMMA StepKeeps == IInv /\ [Next]_vars => IInv'
<1> SUFFICES ASSUME IInv, [Next]_vars PROVE IInv'
  OBVIOUS
<1>1. ASSUME NEW k \in Kicks, Kick(k) PROVE IInv'
  <2>1. CASE Resolve(k)
    BY <2>1, ResolveGetStep, ResolveOneStep, WrapForeignStep, ResolveWrappedStep, ResolveFailsStep,
       ResolvePutStep DEF Resolve
  <2>2. CASE Create(k)
    BY <2>2, ReserveFdStep, MoveSteps, MakeFenceStep, MakeFileStep, PutFdStep DEF Create
  <2>3. CASE Finalise(k)
    BY <2>3, FinaliseEnableStep, FinaliseInstallStep, MoveSteps DEF Finalise
  <2> QED
    BY <1>1, <2>1, <2>2, <2>3, MoveSteps, SubmitStep, RollbackStep DEF Kick
<1>2. ASSUME NEW k \in Kicks, Finish(k) \/ Announce(k) PROVE IInv'
  BY <1>2, FinishStep, AnnounceStep
<1>3. CASE User
  BY <1>3, CloseTimelineStep, CloseFdStep, QueryGetStep, MergeFdsStep DEF User
<1>4. CASE Query
  BY <1>4, QueryPutStep, QueryReadStep DEF Query
<1>5. CASE Foreign
  BY <1>5, OpenForeignStep, ForeignSignalStep, SignalSyncStep DEF Foreign
<1>6. CASE UNCHANGED vars
  <2>1. UNCHANGED <<fds, behind, tl_open, tl_refs, pc, reserved, input, todo, wrapping, deps, refcount,
                    hooked, made, flag, listed, ck_refs, ck_signaled, queued, query>>
    BY <1>6 DEF vars, tlVars, kickVars, fenceVars, ckVars
  <2>2. Types'
    BY <2>1 DEF IInv, Types
  <2>3. PlacesSame
    BY <2>1 DEF PlacesSame
  <2> QED
    BY <2>1, <2>2, <2>3, FenceSame, CkSame, TlSame, FdsSame, OpenSame, CollectedSame, WrappedSame,
       FirmwareSame, HiddenSame, OrderedSame DEF IInv
<1> QED
  BY <1>1, <1>2, <1>3, <1>4, <1>5, <1>6 DEF Next

LEMMA Invariance == Spec => []IInv
BY InitHolds, StepKeeps, PTL DEF Spec

-----------------------------------------------------------------------------
\* Whatever fails and in whatever order threads take, drop, merge and close,
\* the references on fences, checkpoints and the timeline's file stand for who
\* holds them and a reserved descriptor for the kick that has still to install
\* it or put it back (pvr_sync_file.c:412-420, 576-582).
THEOREM ReferencesAccounted == Spec => []HoldersExact
<1>1. IInv => HoldersExact
  BY DEF IInv, FenceRefs, CkRefs, TlRefs, FdsReserved, HoldersExact, Creators
<1> QED
  BY <1>1, Invariance, PTL

\* The checkpoints the firmware waits for, and the one it writes, are there as
\* long as the work is in its queue: the fence holds its checkpoint, and from
\* the moment it is visible the signal list holds the fence (263-265).
THEOREM FirmwareNeverDangles == Spec => []FirmwareSafe
<1>1. ASSUME IInv PROVE FirmwareSafe
  <2>1. ASSUME NEW k \in Kicks, NEW f \in deps[k] PROVE ck_refs[f] > 0
    <3>1. f \in Checkpoints
      BY <1>1 DEF IInv, Types
    <3> QED
      BY <1>1, <3>1, CkReferenced
  <2>2. ASSUME NEW k \in Kicks, queued[k] PROVE ck_refs[k] > 0
    <3>0. k \in Fences /\ k \in Checkpoints /\ k \in Files
      BY Kinds
    <3>1. CASE pc[k] = "enable"
      <4>1. k \in behind[k]
        BY <1>1, <3>1 DEF IInv, FilesOpen, Owned
      <4>2. refcount[k] > 0
        BY <1>1, <3>0, <4>1, Referenced
      <4> QED
        BY <1>1, <3>0, <4>2, CkReferenced
    <3>2. CASE pc[k] # "enable"
      <4>1. InList(k)
        BY <1>1, <2>2, <3>2 DEF IInv, Firmware, InList
      <4>2. refcount[k] > 0
        BY <1>1, <3>0, <4>1, Referenced
      <4> QED
        BY <1>1, <3>0, <4>2, CkReferenced
    <3> QED
      BY <3>1, <3>2
  <2> QED
    BY <2>1, <2>2 DEF FirmwareSafe
<1> QED
  BY <1>1, Invariance, PTL

\* Of our own work a kick only ever waits for what is in the firmware's queue or
\* done, and of the work in the queue some waits for none of our own, since a
\* fence is found only after its own work was queued and waiting follows the
\* order of queueing.  What it waits for otherwise is a foreign fence that has
\* signalled or will call back (pvr_fence.c:909-984).
THEOREM WaitsOnlyForOthers == Spec => []WaitsForQueued
<1>1. ASSUME IInv PROVE WaitsForQueued
  <2>1. ASSUME NEW k \in Kicks, NEW f \in deps[k]
        PROVE  ck_signaled[f] \/ (IF f \in Kicks THEN queued[f] ELSE f \in hooked)
    <3>1. f \in Checkpoints
      BY <1>1 DEF IInv, Types
    <3>2. CASE f \in Kicks
      BY <1>1, <2>1, <3>2 DEF IInv, Hidden, Submitted
    <3>3. CASE f \in Wrappers
      BY <1>1, <2>1, <3>3, Kinds DEF IInv, Wrapped, Passed
    <3> QED
      BY <3>1, <3>2, <3>3 DEF Checkpoints
  <2>2. ASSUME NEW q \in Kicks, queued[q]
        PROVE  \E k \in Kicks : queued[k] /\ \A f \in deps[k] \cap Kicks : ck_signaled[f]
    <3> DEFINE S == {k \in Kicks : queued[k]}
    <3>1. S # {} /\ S \in SUBSET {k \in Kicks : queued[k]}
      BY <2>2
    <3>2. PICK k \in S : deps[k] \cap S = {}
      BY <1>1, <3>1 DEF IInv, Ordered
    <3>3. \A f \in deps[k] \cap Kicks : ~queued[f]
      BY <3>2
    <3> QED
      BY <2>1, <3>2, <3>3
  <2> QED
    BY <2>1, <2>2 DEF WaitsForQueued
<1> QED
  BY <1>1, Invariance, PTL

\* What is used after it was given away is still there unless another thread
\* closed the descriptor in between: the flag finalise sets after fd_install
\* (266) and what the queries read after they put the fence (614, 662).
THEOREM StaleNeedsClose == Spec => []StaleOnlyIfClosed
<1>1. ASSUME IInv PROVE StaleOnlyIfClosed
  <2>1. ASSUME NEW k \in Kicks, NEW fd \in Fds, fds[fd] = k PROVE refcount[k] > 0
    <3>1. k \in behind[k]
      BY <1>1, <2>1 DEF IInv, FilesOpen, Opened
    <3> QED
      BY <1>1, <3>1, Kinds, Referenced
  <2>2. query.at = "read" => query.fd \in Fds /\ query.fence \in Kicks
    BY <1>1 DEF IInv, Hidden
  <2> QED
    BY <2>1, <2>2 DEF StaleOnlyIfClosed
<1> QED
  BY <1>1, Invariance, PTL

-----------------------------------------------------------------------------
\* The variables the invariant says nothing of.
OtherTypes ==
  /\ tl_ctx \in BOOLEAN
  /\ made \in [Kicks -> BOOLEAN] /\ is_bind \in [Kicks -> BOOLEAN]

LEMMA OtherTypesKept == IInv /\ OtherTypes /\ [Next]_vars => OtherTypes'
<1> SUFFICES ASSUME IInv, OtherTypes, [Next]_vars PROVE OtherTypes'
  OBVIOUS
<1> USE DEF OtherTypes
<1>1. ASSUME NEW k \in Kicks, Kick(k) PROVE OtherTypes'
  <2>1. CASE NoCheckFence(k) \/ Resolve(k)
    BY <2>1 DEF NoCheckFence, Resolve, ResolveGet, ResolveOne, WrapForeign, ResolveWrapped, ResolveFails,
                ResolvePut, PutAll, tlVars, fenceVars
  <2>2. CASE ReserveFd(k) \/ GetTimeline(k) \/ MakeFile(k) \/ PutFd(k)
    BY <2>2 DEF ReserveFd, GetTimeline, MakeFile, PutFd, PutAll, tlVars, fenceVars
  <2>3. CASE HwContext(k)
    BY <2>3 DEF HwContext, fenceVars
  <2>4. CASE MakeFence(k)
    BY <2>4 DEF MakeFence, tlVars
  <2>5. CASE PutTimeline(k)
    BY <2>5 DEF PutTimeline, fenceVars
  <2>6. CASE Submit(k) \/ FinaliseEnable(k) \/ FinaliseInstall(k) \/ Rollback(k)
    BY <2>6 DEF Submit, FinaliseEnable, FinaliseInstall, Rollback, PutAll, tlVars, fenceVars
  <2>7. CASE FinaliseBind(k)
    BY <2>7 DEF FinaliseBind, tlVars
  <2> QED
    BY <1>1, <2>1, <2>2, <2>3, <2>4, <2>5, <2>6, <2>7 DEF Kick, Create, Finalise
<1>2. ASSUME NEW k \in Kicks, Finish(k) \/ Announce(k) PROVE OtherTypes'
  BY <1>2 DEF Finish, Announce, tlVars, fenceVars
<1>3. CASE CloseTimeline
  BY <1>3 DEF CloseTimeline, fenceVars
<1>4. ASSUME NEW fd \in Fds, CloseFd(fd) \/ QueryGet(fd) PROVE OtherTypes'
  BY <1>4 DEF CloseFd, QueryGet, PutAll, tlVars
<1>5. ASSUME NEW m \in Merges, NEW fd1 \in Fds, NEW fd2 \in Fds, MergeFds(m, fd1, fd2) PROVE OtherTypes'
  BY <1>5 DEF MergeFds, tlVars
<1>6. CASE Query
  BY <1>6 DEF Query, QueryPut, QueryRead, PutAll, tlVars, fenceVars
<1>7. ASSUME NEW x \in Foreigns, OpenForeign(x) \/ ForeignSignal(x) PROVE OtherTypes'
  BY <1>7 DEF OpenForeign, ForeignSignal, tlVars
<1>8. ASSUME NEW w \in Wrappers, SignalSync(w) PROVE OtherTypes'
  BY <1>8 DEF SignalSync, tlVars
<1>9. CASE UNCHANGED vars
  BY <1>9 DEF vars, tlVars, fenceVars
<1> QED
  BY <1>1, <1>2, <1>3, <1>4, <1>5, <1>6, <1>7, <1>8, <1>9 DEF Next, User, Foreign

\* Every variable keeps its type; no reference count goes below zero.
THEOREM TypeCorrect == Spec => []TypeOK
<1>1. Init => OtherTypes
  BY DEF Init, OtherTypes
<1>2. ASSUME IInv, OtherTypes PROVE TypeOK
  <2>1. refcount \in [Fences -> Nat]
    <3>1. \A f \in Fences : refcount[f] \in Nat
      BY <1>2, Referenced
    <3> QED
      BY <1>2, <3>1 DEF IInv, Types
  <2>2. ck_refs \in [Checkpoints -> Nat]
    <3>1. \A f \in Checkpoints : ck_refs[f] \in Nat
      BY <1>2, CkReferenced
    <3> QED
      BY <1>2, <3>1 DEF IInv, Types
  <2>3. tl_refs \in Nat
    BY <1>2, CountTypes DEF IInv, TlRefs, One
  <2> QED
    BY <1>2, <2>1, <2>2, <2>3 DEF IInv, Types, OtherTypes, TypeOK
<1> QED
  BY <1>1, <1>2, Invariance, OtherTypesKept, PTL DEF Spec
=============================================================================
