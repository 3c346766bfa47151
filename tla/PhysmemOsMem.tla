---------------------------- MODULE PhysmemOsMem ----------------------------
(***************************************************************************)
(* Memory objects backed by pages of the operating system, and the pool    *)
(* that keeps uncached pages for reuse:                                    *)
(* src/src/pvr/physmem_osmem_linux.c, x86 build.                           *)
(*                                                                         *)
(* A PMR runs one operation at a time (the services core, external, holds  *)
(* the lock of the PMR); several PMRs, the cleanup thread and the shrinker *)
(* run together.  A step is what happens between two points where another  *)
(* of them may act on shared state: the pool, the list of unpinned PMRs    *)
(* and their counters change under g_sPagePoolMutex, a PMR's own pages     *)
(* outside it.  A page stands for a device page (CMA pages have a higher   *)
(* order).  Which page goes to which slot, and the order of the pages in   *)
(* the pool, make no difference and are abstracted.                        *)
(*                                                                         *)
(* Where the code frees what it never allocated, or loses a page that its  *)
(* PMR still counts, the behaviour ends (wrecked): no more is modelled, or *)
(* claimed.  Left out of the requests are indices that lie behind the      *)
(* array though PMRChangeSparseMemOSMem lets them pass (it tests > at 3615 *)
(* and 3646) and indices named twice (2830); MisuseKinds are requests that *)
(* the code accepts and is not made for.                                   *)
(***************************************************************************)
EXTENDS Integers, Sequences, FiniteSets, Functions

CONSTANTS
  Pmrs, Pages,
  Kinds,        \* how a PMR may be created
  Changes,      \* requests that change which slots of a sparse PMR have pages
  Scans,        \* how many pages the kernel asks the shrinker for
  MaxPool,      \* g_ui32PagePoolMaxEntries
  MaxExcess,    \* g_ui32PagePoolMaxExcessEntries
  MaxTasks,     \* PVR_LINUX_PHYSMEM_MAX_ASYNC_CLEAN_TASKS
  Faults,       \* which calls may fail
  Misuse,       \* what callers do beyond what the code is made for
  NoPage, Nobody, Shrinker

Uncached == {"uc", "wc"}
Index == UNION {1..k.size : k \in Kinds}
FaultKinds == {"alloc", "attr", "create", "free"}
\* Unpin a PMR that has no pages (its entry stays on the list, 3453); ask for a
\* new page in a slot that has one (refused, 2198, but the page may be lost, 2481).
MisuseKinds == {"unpin_empty", "taken_slot"}

ASSUME OsMemAssumption ==
  /\ IsFiniteSet(Pages) /\ NoPage \notin Pages
  /\ Nobody \notin Pmrs /\ Shrinker \notin Pmrs /\ Nobody # Shrinker
  /\ \A k \in Kinds :
       /\ k.size \in Nat \ {0}
       /\ k.mode \in Uncached \cup {"wb"}
       /\ {k.sparse, k.ondemand, k.cma, k.zero} \subseteq BOOLEAN
       /\ k.first \in Seq(1..k.size) /\ IsInjective(k.first)
       /\ ~k.sparse => k.first = [i \in 1..k.size |-> i]
       /\ ~(k.sparse /\ k.ondemand)
  /\ \A c \in Changes :
       /\ c.alloc \in Seq(Nat) /\ c.free \in Seq(Nat) /\ c.remap \in BOOLEAN
       /\ IsInjective(c.alloc) /\ IsInjective(c.free)
  /\ Scans \subseteq Nat \ {0}
  /\ MaxPool \in Nat \ {0} /\ MaxExcess \in Nat /\ MaxTasks \in Nat
  /\ Faults \subseteq FaultKinds
  /\ Misuse \subseteq MisuseKinds

NoKind == [size |-> 0, mode |-> "wb", sparse |-> FALSE, ondemand |-> FALSE,
           cma |-> FALSE, zero |-> FALSE, first |-> << >>]
NoChange == [to |-> << >>, from |-> << >>, remap |-> FALSE]

VARIABLES
  loaded,       \* between LinuxInitPhysmem and LinuxDeinitPhysmem
  os_free,      \* pages the operating system has
  attr,         \* the memory type of each page
  leaked,       \* pages nobody can find any more
  pool,         \* the pages of each list of the pool
  pool_count,   \* g_ui32PagePoolUCCount, g_ui32PagePoolWCCount
  tasks,        \* pages on their way to the pool, work of the cleanup thread
  clean_tasks,  \* g_iPoolCleanTasks
  unpin_list,   \* g_sUnpinList
  unpin_count,  \* g_ui32UnpinPageCount
  wrecked,      \* the head of g_sUnpinList was freed, or a PMR's page was lost
  lock,         \* who holds g_sPagePoolMutex
  to_scan,      \* what the shrinker has still to find
  kind,         \* parameters of the PMR's page array
  arr,          \* pagearray
  num,          \* iNumOSPagesAllocated
  has_array,    \* pagearray # NULL
  unpinned,     \* FLAG_UNPINNED
  valid, phys,  \* the mapping table: its valid entries, ui32NumPhysChunks
  pc, op,       \* where each PMR's operation is, and which one
  ask,          \* the slots to fill
  tmp,          \* pages received from the pool
  chg           \* what is left of a change: slots to move pages to and from

osVars == <<os_free, attr, leaked>>
poolVars == <<pool, pool_count>>
taskVars == <<tasks, clean_tasks>>
lruVars == <<unpin_list, unpin_count, wrecked, lock, to_scan>>
pageVars == <<arr, num, has_array>>
mapVars == <<valid, phys>>
callVars == <<pc, op, ask, tmp, chg>>
vars == <<loaded, osVars, poolVars, taskVars, lruVars, kind, pageVars, unpinned, mapVars, callVars>>

Init ==
  /\ loaded = TRUE
  /\ os_free = Pages /\ leaked = {}
  /\ attr = [g \in Pages |-> "wb"]
  /\ pool = [m \in Uncached |-> {}]
  /\ pool_count = [m \in Uncached |-> 0]
  /\ tasks = << >> /\ clean_tasks = 0
  /\ unpin_list = {} /\ unpin_count = 0 /\ wrecked = FALSE
  /\ lock = Nobody /\ to_scan = 0
  /\ kind = [p \in Pmrs |-> NoKind]
  /\ arr = [p \in Pmrs |-> [i \in Index |-> NoPage]]
  /\ num = [p \in Pmrs |-> 0]
  /\ has_array = [p \in Pmrs |-> FALSE]
  /\ unpinned = [p \in Pmrs |-> FALSE]
  /\ valid = [p \in Pmrs |-> {}]
  /\ phys = [p \in Pmrs |-> 0]
  /\ pc = [p \in Pmrs |-> "none"]
  /\ op = [p \in Pmrs |-> "none"]
  /\ ask = [p \in Pmrs |-> << >>]
  /\ tmp = [p \in Pmrs |-> {}]
  /\ chg = [p \in Pmrs |-> NoChange]

-----------------------------------------------------------------------------
(* Helpers.                                                                *)

Running == loaded /\ ~wrecked
At(p, l) == Running /\ pc[p] = l
Goto(p, l) == pc' = [pc EXCEPT ![p] = l]
Least(m, n) == IF m <= n THEN m ELSE n

AllSlots(k) == [i \in 1..k.size |-> i]
PagesIn(p, slots) == {arr[p][i] : i \in slots} \ {NoPage}
Held(p) == PagesIn(p, Index)
Filled(p) == {i \in Index : arr[p][i] # NoPage}

Some(S, n) == CHOOSE T \in SUBSET S : Cardinality(T) = n
Placing(slots, S) == CHOOSE f \in [slots -> S] : IsInjective(f)
Listing(S) == Placing(1..Cardinality(S), S)

_PagesInPoolUnlocked == pool_count["uc"] + pool_count["wc"]

\* set_pages_array_wb and __free_pages.
ToOs(S) ==
  /\ os_free' = os_free \cup S
  /\ attr' = [g \in Pages |-> IF g \in S THEN "wb" ELSE attr[g]]

\* The operation is over: the PMR waits for the next, or is no more.
Return(p, l) ==
  /\ Goto(p, l)
  /\ op' = [op EXCEPT ![p] = "none"]
  /\ ask' = [ask EXCEPT ![p] = << >>]
  /\ tmp' = [tmp EXCEPT ![p] = {}]
  /\ chg' = [chg EXCEPT ![p] = NoChange]

\* _FreeOSPagesArray
NoArray(p) ==
  /\ kind' = [kind EXCEPT ![p] = NoKind]
  /\ valid' = [valid EXCEPT ![p] = {}]
  /\ phys' = [phys EXCEPT ![p] = 0]
  /\ unpinned' = [unpinned EXCEPT ![p] = FALSE]

-----------------------------------------------------------------------------
(* The pool.                                                               *)

\* The first n pages of the pool, uncached ones before write combining ones.
Drained(n) ==
  LET fromUC == Least(n, Cardinality(pool["uc"]))
  IN [m \in Uncached |-> Some(pool[m],
        IF m = "uc" THEN fromUC ELSE Least(n - fromUC, Cardinality(pool["wc"])))]

\* Mutant: the counter is not reduced.
FreePagesUncounted(gone, own) ==
  /\ pool' = [m \in Uncached |-> pool[m] \ gone[m]]
  /\ ToOs(gone["uc"] \cup gone["wc"] \cup own)
  /\ UNCHANGED pool_count

\* _FreePagesFromPoolUnlocked, with the caller's own pages.
_FreePagesFromPoolUnlocked(gone, own) ==
  /\ pool' = [m \in Uncached |-> pool[m] \ gone[m]]
  /\ pool_count' = [m \in Uncached |-> pool_count[m] - Cardinality(gone[m])]
  /\ ToOs(gone["uc"] \cup gone["wc"] \cup own)

\* Are pages of this PMR worth keeping?
Poolable(p) == kind[p].mode \in Uncached /\ ~unpinned[p] /\ ~kind[p].cma

\* _PutPagesToPoolLocked: a task for the cleanup thread.  The fast path gives
\* its array of page pointers away with the pages.
_PutPagesToPoolLocked(p, S, fast) ==
  /\ Poolable(p)
  /\ clean_tasks + 1 <= MaxTasks
  /\ clean_tasks' = clean_tasks + 1
  /\ tasks' = Append(tasks, [mode |-> kind[p].mode, pages |-> S])
  /\ has_array' = [has_array EXCEPT ![p] = @ /\ ~fast]
  /\ UNCHANGED <<os_free, attr>>

\* Mutant: the memory type stays as it is.
NotPooledRaw(p, S) ==
  /\ ~Poolable(p) \/ clean_tasks + 1 > MaxTasks \/ "alloc" \in Faults
  /\ os_free' = os_free \cup S
  /\ UNCHANGED <<attr, taskVars, has_array>>

\* The pool does not take the pages: back to the operating system.
NotPooled(p, S) ==
  /\ ~Poolable(p) \/ clean_tasks + 1 > MaxTasks \/ "alloc" \in Faults
  /\ ToOs(S)
  /\ UNCHANGED <<taskVars, has_array>>

\* _FreeOSPages: everything, or what the indices name.
_FreeOSPages(p, slots, indices) ==
  LET fast == ~indices /\ num[p] = kind[p].size
      S == PagesIn(p, slots)
  IN /\ _PutPagesToPoolLocked(p, S, fast) \/ NotPooled(p, S)
     /\ arr' = [arr EXCEPT ![p] = [i \in Index |-> IF i \in slots THEN NoPage ELSE @[i]]]
     /\ num' = [num EXCEPT ![p] = IF fast THEN 0 ELSE @ - Cardinality(S)]

\* _FreeOSPages_Sparse has no memory for its temporary array.
NoTempArray(p, indices) ==
  /\ "free" \in Faults
  /\ ~kind[p].cma
  /\ indices \/ num[p] # kind[p].size

\* _CleanupThread_CleanPages, when the pool has room for the pages.
CleanToPool ==
  /\ Running /\ lock = Nobody /\ tasks # << >>
  /\ LET t == Head(tasks)
     IN /\ _PagesInPoolUnlocked < MaxPool
        /\ _PagesInPoolUnlocked + Cardinality(t.pages) < MaxPool + MaxExcess
        /\ pool' = [pool EXCEPT ![t.mode] = @ \cup t.pages]
        /\ pool_count' = [pool_count EXCEPT ![t.mode] = @ + Cardinality(t.pages)]
  /\ tasks' = Tail(tasks)
  /\ clean_tasks' = clean_tasks - 1
  /\ UNCHANGED <<loaded, osVars, lruVars, kind, pageVars, unpinned, mapVars, callVars>>

\* The same when it has not: a pool beyond its limit is halved.
CleanToOs ==
  /\ Running /\ lock = Nobody /\ tasks # << >>
  /\ LET t == Head(tasks)
         entries == _PagesInPoolUnlocked
     IN /\ \/ entries >= MaxPool
           \/ entries + Cardinality(t.pages) >= MaxPool + MaxExcess
        /\ _FreePagesFromPoolUnlocked(
             Drained(IF entries > MaxPool THEN entries - MaxPool \div 2 ELSE 0), t.pages)
  /\ tasks' = Tail(tasks)
  /\ clean_tasks' = clean_tasks - 1
  /\ UNCHANGED <<loaded, leaked, lruVars, kind, pageVars, unpinned, mapVars, callVars>>

-----------------------------------------------------------------------------
(* The shrinker.                                                           *)

\* _ScanObjectsInPagePool: the pool first.  If the mutex is taken it does
\* nothing (SHRINK_STOP).
ScanPool ==
  /\ Running /\ lock = Nobody
  /\ \E n \in Scans :
       LET gone == Drained(n)
           left == n - Cardinality(gone["uc"]) - Cardinality(gone["wc"])
       IN /\ _FreePagesFromPoolUnlocked(gone, {})
          /\ lock' = IF left = 0 THEN Nobody ELSE Shrinker
          /\ to_scan' = left
  /\ UNCHANGED <<loaded, leaked, taskVars, unpin_list, unpin_count, wrecked, kind, pageVars,
                 unpinned, mapVars, callVars>>

\* Then the memory of unpinned PMRs, one after the other.
ScanUnpinned(p) ==
  /\ Running /\ lock = Shrinker
  /\ p \in unpin_list
  /\ _FreeOSPages(p, Index, FALSE)
  /\ unpin_list' = unpin_list \ {p}
  /\ LET n == Least(num[p], kind[p].size)
     IN /\ unpin_count' = unpin_count - n
        /\ lock' = IF n < to_scan THEN Shrinker ELSE Nobody
        /\ to_scan' = IF n < to_scan THEN to_scan - n ELSE 0
  /\ UNCHANGED <<loaded, leaked, poolVars, wrecked, kind, unpinned, mapVars, callVars>>

\* The list is done, or the pages of its first PMR cannot be freed.
ScanEnds ==
  /\ Running /\ lock = Shrinker
  /\ unpin_list = {} \/ \E p \in unpin_list : NoTempArray(p, FALSE)
  /\ lock' = Nobody
  /\ to_scan' = 0
  /\ UNCHANGED <<loaded, osVars, poolVars, taskVars, unpin_list, unpin_count, wrecked, kind,
                 pageVars, unpinned, mapVars, callVars>>

-----------------------------------------------------------------------------
(* Allocation: _AllocOSPages.                                              *)

\* Do the caller's indices say which slots to fill (_AllocOSPages_Sparse)?
ViaIndices(p) ==
  \/ op[p] = "change"
  \/ kind[p].sparse /\ (op[p] = "pin" \/ Len(ask[p]) < kind[p].size)

\* What follows an allocation.
AllocDone(p) ==
  CASE op[p] = "create" -> Goto(p, "build") /\ UNCHANGED <<op, ask, chg>> /\ tmp' = [tmp EXCEPT ![p] = {}]
    [] op[p] = "change" -> Goto(p, "move") /\ UNCHANGED <<op, ask, chg>> /\ tmp' = [tmp EXCEPT ![p] = {}]
    [] OTHER -> Return(p, "idle")

AllocFailed(p) ==
  CASE op[p] = "create" -> Return(p, "none") /\ NoArray(p)
    [] op[p] = "pin" -> Return(p, "evicted") /\ UNCHANGED <<kind, unpinned, mapVars>>
    [] OTHER -> Return(p, "idle") /\ UNCHANGED <<kind, unpinned, mapVars>>

\* No memory for the temporary array or for the map table of PMRPinOSMem, or
\* more pages than the array has slots.
AllocRefused(p) ==
  /\ At(p, "alloc") /\ ViaIndices(p)
  /\ "alloc" \in Faults \/ num[p] + Len(ask[p]) > kind[p].size
  /\ AllocFailed(p)
  /\ UNCHANGED <<loaded, osVars, poolVars, taskVars, lruVars, pageVars>>

\* _GetPagesFromPoolLocked, when pool pages will not do.
SkipPool(p) ==
  /\ At(p, "alloc") /\ has_array[p]
  /\ num[p] + Len(ask[p]) <= kind[p].size
  /\ kind[p].cma \/ kind[p].zero \/ kind[p].mode = "wb"
  /\ Goto(p, "fill")
  /\ UNCHANGED <<loaded, osVars, poolVars, taskVars, lruVars, kind, pageVars, unpinned,
                 mapVars, op, ask, tmp, chg>>

_GetPagesFromPoolLocked(p) ==
  /\ At(p, "alloc") /\ has_array[p]
  /\ num[p] + Len(ask[p]) <= kind[p].size
  /\ ~kind[p].cma /\ ~kind[p].zero /\ kind[p].mode \in Uncached
  /\ lock = Nobody
  /\ LET m == kind[p].mode
         got == Some(pool[m], Least(Len(ask[p]), Cardinality(pool[m])))
     IN /\ tmp' = [tmp EXCEPT ![p] = got]
        /\ pool' = [pool EXCEPT ![m] = @ \ got]
        /\ pool_count' = [pool_count EXCEPT ![m] = @ - Cardinality(got)]
  /\ Goto(p, "fill")
  /\ UNCHANGED <<loaded, osVars, taskVars, lruVars, kind, pageVars, unpinned, mapVars,
                 op, ask, chg>>

\* _CheckIfIndexInRange, _CheckIfPageNotAllocated: the n-th request is refused.
Refused(p, n) ==
  LET i == ask[p][n]
  IN i \notin 1..kind[p].size \/ i \in Filled(p)

Clash(p) == \E n \in 1..Len(ask[p]) : Refused(p, n)
\* How many pages the pool did not have.
FromOs(p) == Len(ask[p]) - Cardinality(tmp[p])

\* Pages from the operating system get the memory type of the PMR.
_ApplyOSPagesAttribute(p, S) ==
  attr' = [g \in Pages |-> IF g \in S THEN kind[p].mode ELSE attr[g]]

\* The pages the pool did not have come from the operating system.
Fill(p) ==
  /\ At(p, "fill")
  /\ ~Clash(p)
  /\ FromOs(p) <= Cardinality(os_free)
  /\ LET new == Some(os_free, FromOs(p))
         slots == Range(ask[p])
         page == Placing(slots, tmp[p] \cup new)
     IN /\ os_free' = os_free \ new
        /\ _ApplyOSPagesAttribute(p, new)
        /\ arr' = [arr EXCEPT ![p] = [i \in Index |-> IF i \in slots THEN page[i] ELSE @[i]]]
        /\ num' = [num EXCEPT ![p] = @ + Len(ask[p])]
        /\ IF op[p] = "change"
             THEN /\ phys' = [phys EXCEPT ![p] = @ + Len(ask[p])]
                  /\ valid' = [valid EXCEPT ![p] = @ \cup slots]
             ELSE UNCHANGED mapVars
  /\ AllocDone(p)
  /\ UNCHANGED <<loaded, leaked, poolVars, taskVars, lruVars, kind, has_array, unpinned>>

\* Mutant: pages of the pool are forgotten.
FillFailsForgets(p) ==
  /\ At(p, "fill")
  /\ Clash(p) \/ FromOs(p) > Cardinality(os_free)
  /\ AllocFailed(p)
  /\ UNCHANGED <<loaded, osVars, poolVars, taskVars, lruVars, pageVars>>

\* A refused index, no page left, or the memory type cannot be set: what was
\* taken is given back, and the slots meant for pages of the pool are emptied,
\* also one that was refused because it has a page.
FillFails(p) ==
  /\ At(p, "fill")
  /\ \/ Clash(p)
     \/ FromOs(p) > Cardinality(os_free)
     \/ "attr" \in Faults /\ FromOs(p) > 0 /\ (kind[p].mode \in Uncached \/ kind[p].zero)
  /\ ToOs(tmp[p])
  /\ LET emptied == {ask[p][n] : n \in 1..Cardinality(tmp[p])} \cap Index
     IN /\ arr' = [arr EXCEPT ![p] = [i \in Index |-> IF i \in emptied THEN NoPage ELSE @[i]]]
        /\ leaked' = leaked \cup PagesIn(p, emptied)
        /\ wrecked' = (PagesIn(p, emptied) # {})
  /\ AllocFailed(p)
  /\ UNCHANGED <<loaded, poolVars, taskVars, unpin_list, unpin_count, lock, to_scan, num, has_array>>

-----------------------------------------------------------------------------
(* Operations of a PMR.                                                    *)

\* PhysmemCreateSystemMemBackedPMR: the page array, and pages unless they are
\* allocated on demand or the PMR starts with none.
Create(p) ==
  /\ At(p, "none")
  /\ \E k \in Kinds :
       /\ kind' = [kind EXCEPT ![p] = k]
       /\ ask' = [ask EXCEPT ![p] = k.first]
       /\ Goto(p, IF k.ondemand \/ k.first = << >> THEN "build" ELSE "alloc")
  /\ op' = [op EXCEPT ![p] = "create"]
  /\ has_array' = [has_array EXCEPT ![p] = TRUE]
  /\ UNCHANGED <<loaded, osVars, poolVars, taskVars, lruVars, arr, num, unpinned, mapVars,
                 tmp, chg>>

\* PMRCreatePMR, external: the mapping table says what was asked for.
Build(p) ==
  /\ At(p, "build")
  /\ valid' = [valid EXCEPT ![p] = Range(ask[p])]
  /\ phys' = [phys EXCEPT ![p] = Len(ask[p])]
  /\ Return(p, "idle")
  /\ UNCHANGED <<loaded, osVars, poolVars, taskVars, lruVars, kind, pageVars, unpinned>>

BuildFails(p) ==
  /\ At(p, "build") /\ "create" \in Faults
  /\ IF kind[p].ondemand
       THEN Return(p, "none") /\ NoArray(p)
       ELSE /\ Goto(p, "free")
            /\ op' = [op EXCEPT ![p] = "undo"]
            /\ UNCHANGED <<ask, tmp, chg, kind, unpinned, mapVars>>
  /\ UNCHANGED <<loaded, osVars, poolVars, taskVars, lruVars, pageVars>>

\* PMRLockPhysAddressesOSMem and PMRUnlockPhysAddressesOSMem do something for a
\* PMR on demand only; the core calls them for its first and last user.
Lock(p) ==
  /\ At(p, "idle") /\ kind[p].ondemand /\ num[p] = 0
  /\ ask' = [ask EXCEPT ![p] = AllSlots(kind[p])]
  /\ op' = [op EXCEPT ![p] = "lock"]
  /\ Goto(p, "alloc")
  /\ UNCHANGED <<loaded, osVars, poolVars, taskVars, lruVars, kind, pageVars, unpinned,
                 mapVars, tmp, chg>>

Unlock(p) ==
  /\ At(p, "idle") /\ kind[p].ondemand /\ num[p] # 0
  /\ op' = [op EXCEPT ![p] = "unlock"]
  /\ Goto(p, "free")
  /\ UNCHANGED <<loaded, osVars, poolVars, taskVars, lruVars, kind, pageVars, unpinned,
                 mapVars, ask, tmp, chg>>

\* PMRUnpinOSMem takes the mutex and allocates an entry under it.
Unpin(p) ==
  /\ Running /\ lock = Nobody
  /\ \/ pc[p] = "idle" /\ (num[p] # 0 \/ "unpin_empty" \in Misuse)
     \/ pc[p] = "evicted" /\ "unpin_empty" \in Misuse
  /\ ~unpinned[p] /\ ~kind[p].ondemand
  /\ lock' = p
  /\ Goto(p, "unpin")
  /\ op' = [op EXCEPT ![p] = "unpin"]
  /\ UNCHANGED <<loaded, osVars, poolVars, taskVars, unpin_list, unpin_count, wrecked, to_scan,
                 kind, pageVars, unpinned, mapVars, ask, tmp, chg>>

\* The allocation may enter direct reclaim, which calls the shrinker on this
\* very thread ...
ReclaimInUnpin(p) ==
  /\ At(p, "unpin")
  /\ Goto(p, "reclaim")
  /\ UNCHANGED <<loaded, osVars, poolVars, taskVars, lruVars, kind, pageVars, unpinned,
                 mapVars, op, ask, tmp, chg>>

\* Mutant: the shrinker waits for the mutex.
ScanWaits(p) ==
  /\ At(p, "reclaim") /\ lock = Nobody
  /\ Goto(p, "listing")
  /\ UNCHANGED <<loaded, osVars, poolVars, taskVars, lruVars, kind, pageVars, unpinned,
                 mapVars, op, ask, tmp, chg>>

\* ... and returns at once, for the mutex is taken.
ScanStops(p) ==
  /\ At(p, "reclaim") /\ lock # Nobody
  /\ Goto(p, "listing")
  /\ UNCHANGED <<loaded, osVars, poolVars, taskVars, lruVars, kind, pageVars, unpinned,
                 mapVars, op, ask, tmp, chg>>

_AddUnpinListEntryUnlocked(p) ==
  /\ unpin_list' = unpin_list \cup {p}
  /\ unpin_count' = unpin_count + num[p]
  /\ UNCHANGED wrecked

\* _RemoveUnpinListEntryUnlocked: what it frees when no entry is of this PMR is
\* where its loop ended, the head of the list (421).
_RemoveUnpinListEntryUnlocked(p) ==
  /\ unpin_list' = unpin_list \ {p}
  /\ unpin_count' = unpin_count - num[p]
  /\ wrecked' = (p \notin unpin_list)

Unpinned(p) ==
  /\ At(p, "unpin") \/ At(p, "listing")
  /\ _AddUnpinListEntryUnlocked(p)
  /\ unpinned' = [unpinned EXCEPT ![p] = TRUE]
  /\ lock' = Nobody
  /\ Return(p, "idle")
  /\ UNCHANGED <<loaded, osVars, poolVars, taskVars, to_scan, kind, pageVars, mapVars>>

\* Mutant: the entry is on the list already.
UnpinFailsListed(p) ==
  /\ At(p, "unpin") \/ At(p, "listing")
  /\ "alloc" \in Faults
  /\ _AddUnpinListEntryUnlocked(p)
  /\ lock' = Nobody
  /\ Return(p, "idle")
  /\ UNCHANGED <<loaded, osVars, poolVars, taskVars, to_scan, kind, pageVars, unpinned, mapVars>>

UnpinFails(p) ==
  /\ At(p, "unpin") \/ At(p, "listing")
  /\ "alloc" \in Faults
  /\ lock' = Nobody
  /\ Return(p, "idle")
  /\ UNCHANGED <<loaded, osVars, poolVars, taskVars, unpin_list, unpin_count, wrecked, to_scan,
                 kind, pageVars, unpinned, mapVars>>

\* Mutant: the entry stays on the list.
PinListed(p) ==
  /\ At(p, "idle") /\ unpinned[p] /\ lock = Nobody /\ num[p] # 0
  /\ unpinned' = [unpinned EXCEPT ![p] = FALSE]
  /\ UNCHANGED <<loaded, osVars, poolVars, taskVars, lruVars, kind, pageVars, mapVars, callVars>>

\* PMRPinOSMem: what is left of the memory leaves the list; what was reclaimed
\* is allocated anew, where the mapping table says.
Pin(p) ==
  /\ At(p, "idle") /\ unpinned[p] /\ lock = Nobody
  /\ unpinned' = [unpinned EXCEPT ![p] = FALSE]
  /\ IF num[p] # 0
       THEN /\ _RemoveUnpinListEntryUnlocked(p)
            /\ UNCHANGED <<pc, op, ask>>
       ELSE /\ Goto(p, "alloc")
            /\ op' = [op EXCEPT ![p] = "pin"]
            /\ ask' = [ask EXCEPT ![p] =
                         IF kind[p].sparse THEN Listing(valid[p]) ELSE AllSlots(kind[p])]
            /\ UNCHANGED <<unpin_list, unpin_count, wrecked>>
  /\ UNCHANGED <<loaded, osVars, poolVars, taskVars, lock, to_scan, kind, pageVars, mapVars,
                 tmp, chg>>

\* The parts of a change: slots that get new pages, and slots that get the pages
\* of the first slots to free; the rest of these give theirs back.
Common(c) == Least(Len(c.alloc), Len(c.free))
NewSlots(c) == SubSeq(c.alloc, 1, Len(c.alloc) - Common(c))
MovedTo(c) == SubSeq(c.alloc, Len(c.alloc) - Common(c) + 1, Len(c.alloc))

\* PMRChangeSparseMemOSMem checks the slots to free and the targets of moves;
\* the slots for new pages are checked when they are filled.
ChangeValid(p, c) ==
  /\ \A i \in Range(c.free) : i \in (1..kind[p].size) \cap Filled(p)
  /\ \A i \in Range(MovedTo(c)) :
       /\ i \in 1..kind[p].size
       /\ (i \in Filled(p)) = c.remap
       /\ (i \in valid[p]) = c.remap

Change(p) ==
  /\ At(p, "idle") /\ kind[p].sparse /\ ~unpinned[p]
  /\ \E c \in Changes :
       /\ ChangeValid(p, c)
       /\ "taken_slot" \in Misuse \/ Range(NewSlots(c)) \cap Filled(p) = {}
       /\ chg' = [chg EXCEPT ![p] = [to |-> MovedTo(c), from |-> c.free, remap |-> c.remap]]
       /\ ask' = [ask EXCEPT ![p] = NewSlots(c)]
       /\ Goto(p, IF NewSlots(c) = << >> THEN "move" ELSE "alloc")
  /\ op' = [op EXCEPT ![p] = "change"]
  /\ UNCHANGED <<loaded, osVars, poolVars, taskVars, lruVars, kind, pageVars, unpinned,
                 mapVars, tmp>>

\* The page of the next slot to free is moved to the next slot that wants one,
\* or swapped with its page; a later pair may name a slot of an earlier one.
Move(p) ==
  /\ At(p, "move") /\ chg[p].to # << >>
  /\ LET i == Head(chg[p].to)
         j == Head(chg[p].from)
         remap == chg[p].remap
     IN /\ arr' = [arr EXCEPT ![p][i] = arr[p][j],
                             ![p][j] = IF remap THEN arr[p][i] ELSE NoPage]
        /\ valid' = [valid EXCEPT ![p] = (IF remap THEN @ \cup {j} ELSE @ \ {j}) \cup {i}]
        /\ chg' = [chg EXCEPT ![p] = [to |-> Tail(@.to), from |-> Tail(@.from), remap |-> @.remap]]
  /\ UNCHANGED <<loaded, osVars, poolVars, taskVars, lruVars, kind, num, has_array, unpinned,
                 phys, pc, op, ask, tmp>>

\* What is left of the slots to free gives its pages back.
MovesDone(p) ==
  /\ At(p, "move") /\ chg[p].to = << >>
  /\ IF chg[p].from = << >> THEN Return(p, "idle")
                            ELSE Goto(p, "free") /\ UNCHANGED <<op, ask, tmp, chg>>
  /\ UNCHANGED <<loaded, osVars, poolVars, taskVars, lruVars, kind, pageVars, unpinned, mapVars>>

\* PMRFinalizeOSMem looks at the number of pages without the mutex ...
Finalize(p) ==
  /\ At(p, "idle") \/ At(p, "evicted")
  /\ kind[p].ondemand => num[p] = 0
  /\ IF num[p] = 0
       THEN Return(p, "none") /\ NoArray(p)
       ELSE /\ Goto(p, "finalize")
            /\ op' = [op EXCEPT ![p] = "finalize"]
            /\ UNCHANGED <<ask, tmp, chg, kind, unpinned, mapVars>>
  /\ UNCHANGED <<loaded, osVars, poolVars, taskVars, lruVars, pageVars>>

\* ... and takes it to remove the PMR from the list.
FinalizeUnlists(p) ==
  /\ At(p, "finalize") /\ lock = Nobody
  /\ IF unpinned[p] THEN _RemoveUnpinListEntryUnlocked(p)
                    ELSE UNCHANGED <<unpin_list, unpin_count, wrecked>>
  /\ Goto(p, "free")
  /\ UNCHANGED <<loaded, osVars, poolVars, taskVars, lock, to_scan, kind, pageVars, unpinned,
                 mapVars, op, ask, tmp, chg>>

Leaving(p) == IF op[p] = "change" THEN Range(chg[p].from) ELSE Index

\* The pages leave the PMR, at the end of a change, of an unlock, of a failed
\* creation or of the PMR.
Free(p) ==
  /\ At(p, "free")
  /\ _FreeOSPages(p, Leaving(p), op[p] = "change")
  /\ CASE op[p] = "change" ->
            /\ phys' = [phys EXCEPT ![p] = @ - Cardinality(Leaving(p))]
            /\ valid' = [valid EXCEPT ![p] = @ \ Leaving(p)]
            /\ Return(p, "idle") /\ UNCHANGED <<kind, unpinned>>
       [] op[p] = "unlock" -> Return(p, "idle") /\ UNCHANGED <<kind, unpinned, mapVars>>
       [] OTHER -> Return(p, "none") /\ NoArray(p)
  /\ UNCHANGED <<loaded, leaked, poolVars, lruVars>>

\* The caller of a change sees the error; PMRFinalizeOSMem and the failed
\* creation ignore it and free the array with the pages still in it.
FreeFails(p) ==
  /\ At(p, "free")
  /\ NoTempArray(p, op[p] = "change")
  /\ IF op[p] = "change"
       THEN /\ Return(p, "idle")
            /\ UNCHANGED <<leaked, arr, num, kind, unpinned, mapVars>>
       ELSE /\ Return(p, "none") /\ NoArray(p)
            /\ leaked' = leaked \cup Held(p)
            /\ arr' = [arr EXCEPT ![p] = [i \in Index |-> NoPage]]
            /\ num' = [num EXCEPT ![p] = 0]
  /\ UNCHANGED <<loaded, os_free, attr, poolVars, taskVars, lruVars, has_array>>

\* LinuxDeinitPhysmem, when there are no PMRs and the cleanup thread has nothing
\* left (the core sees to both).
LinuxDeinitPhysmem ==
  /\ Running /\ lock = Nobody
  /\ \A p \in Pmrs : pc[p] = "none"
  /\ tasks = << >>
  /\ _FreePagesFromPoolUnlocked(pool, {})
  /\ loaded' = FALSE
  /\ UNCHANGED <<leaked, taskVars, lruVars, kind, pageVars, unpinned, mapVars, callVars>>

-----------------------------------------------------------------------------

\* Steps of an operation that has begun.
Proceed(p) ==
  \/ AllocRefused(p) \/ SkipPool(p) \/ _GetPagesFromPoolLocked(p) \/ Fill(p) \/ FillFails(p)
  \/ Build(p) \/ BuildFails(p)
  \/ ScanStops(p) \/ Unpinned(p) \/ UnpinFails(p)
  \/ Move(p) \/ MovesDone(p) \/ FinalizeUnlists(p) \/ Free(p) \/ FreeFails(p)

Begin(p) ==
  \/ Create(p) \/ Lock(p) \/ Unlock(p) \/ Unpin(p) \/ Pin(p) \/ Change(p) \/ Finalize(p)

Scan == (\E p \in Pmrs : ScanUnpinned(p)) \/ ScanEnds

Next ==
  \/ \E p \in Pmrs : Begin(p) \/ Proceed(p) \/ ReclaimInUnpin(p)
  \/ ScanPool \/ Scan
  \/ CleanToPool \/ CleanToOs
  \/ LinuxDeinitPhysmem

\* Threads run, and the mutex is handed to those who wait for it.
Fairness ==
  /\ \A p \in Pmrs : SF_vars(Proceed(p))
  /\ WF_vars(Scan)
  /\ SF_vars(CleanToPool \/ CleanToOs)

Spec == Init /\ [][Next]_vars /\ Fairness

-----------------------------------------------------------------------------
(* Properties.                                                             *)

Resting == {"none", "idle", "evicted"}
Ops == {"none", "create", "undo", "lock", "unlock", "unpin", "pin", "change", "finalize"}
Labels == Resting \cup {"alloc", "fill", "build", "unpin", "reclaim", "listing", "move",
                        "finalize", "free"}

\* The shape of the state; counters never go below zero, and no more tasks are
\* counted than may be queued.
TypeOK ==
  /\ loaded \in BOOLEAN
  /\ os_free \subseteq Pages /\ leaked \subseteq Pages
  /\ attr \in [Pages -> Uncached \cup {"wb"}]
  /\ pool \in [Uncached -> SUBSET Pages]
  /\ pool_count \in [Uncached -> Nat]
  /\ \A n \in 1..Len(tasks) : tasks[n].mode \in Uncached /\ tasks[n].pages \subseteq Pages
  /\ clean_tasks \in 0..MaxTasks
  /\ unpin_list \subseteq Pmrs /\ unpin_count \in Nat /\ wrecked \in BOOLEAN
  /\ lock \in Pmrs \cup {Nobody, Shrinker} /\ to_scan \in Nat
  /\ \A p \in Pmrs : kind[p] \in Kinds \cup {NoKind}
  /\ arr \in [Pmrs -> [Index -> Pages \cup {NoPage}]]
  /\ num \in [Pmrs -> Nat]
  /\ has_array \in [Pmrs -> BOOLEAN] /\ unpinned \in [Pmrs -> BOOLEAN]
  /\ valid \in [Pmrs -> SUBSET Index] /\ phys \in [Pmrs -> Nat]
  /\ pc \in [Pmrs -> Labels] /\ op \in [Pmrs -> Ops]
  /\ \A p \in Pmrs : ask[p] \in Seq(Nat)
  /\ \A p \in Pmrs : chg[p] \in [to : Seq(Nat), from : Seq(Nat), remap : BOOLEAN]
  /\ tmp \in [Pmrs -> SUBSET Pages]

\* Where a page is: with the operating system, in the pool, in a task, received
\* from the pool, in a slot of a PMR, or lost.
Places(g) ==
  {<<"os">> : x \in {g} \cap os_free} \cup {<<"lost">> : x \in {g} \cap leaked}
  \cup {<<"pool", m>> : m \in {m \in Uncached : g \in pool[m]}}
  \cup {<<"task", n>> : n \in {n \in 1..Len(tasks) : g \in tasks[n].pages}}
  \cup {<<"tmp", p>> : p \in {p \in Pmrs : g \in tmp[p]}}
  \cup {<<"slot", s>> : s \in {s \in Pmrs \X Index : arr[s[1]][s[2]] = g}}

\* Every page is in exactly one place, whatever fails on its way: two owners
\* would be a use after free, none a leak (the code's own free paths).  When
\* the module is gone the place is the operating system, but for the pages of
\* PMRs that could not be freed for want of a temporary array.
PagesAccounted ==
  /\ \A g \in Pages : Cardinality(Places(g)) = 1
  /\ ~loaded => os_free = Pages \ leaked

\* The counters the shrinker and the limits go by are what the lists say: that of
\* unpinned memory is the number of filled slots of the PMRs on the list, while
\* there is a list.
CountersAgree ==
  /\ \A m \in Uncached : pool_count[m] = Cardinality(pool[m])
  /\ wrecked \/ unpin_count = Cardinality({s \in unpin_list \X Index : arr[s[1]][s[2]] # NoPage})
  /\ clean_tasks = Len(tasks)

\* A change was refused and has emptied a slot that it was refused for: the count
\* and the table still have the page.
PageDropped(p) ==
  /\ wrecked /\ pc[p] = "idle" /\ kind[p].sparse
  /\ num[p] = Cardinality(valid[p]) /\ Filled(p) \subseteq valid[p] /\ Filled(p) # valid[p]

\* A PMR's page count is the number of its filled slots; between operations its
\* mapping table names exactly these, unless the pages were reclaimed, could not
\* be had again, or come on demand.
TablesAgree ==
  \A p \in Pmrs : PageDropped(p) \/
    /\ num[p] = Cardinality(Filled(p))
    /\ pc[p] \in Resting => phys[p] = Cardinality(valid[p])
    /\ pc[p] = "idle" /\ (num[p] # 0 \/ ~(unpinned[p] \/ kind[p].ondemand)) => valid[p] = Filled(p)
    /\ pc[p] \in {"none", "evicted"} => num[p] = 0

\* Counters and tables say what is there, and the pool never holds more than
\* its limit and the excess one PMR may bring.
BooksAgree ==
  CountersAgree /\ TablesAgree /\ _PagesInPoolUnlocked < MaxPool + MaxExcess

\* Memory types follow the pages: the operating system gets none back that is
\* not write-back, a PMR and a list of the pool hold only their own type.
TypesHonoured ==
  /\ \A g \in os_free : attr[g] = "wb"
  /\ \A m \in Uncached : \A g \in pool[m] : attr[g] = m
  /\ \A n \in 1..Len(tasks) : \A g \in tasks[n].pages : attr[g] = tasks[n].mode
  /\ \A p \in Pmrs : \A g \in tmp[p] \cup Held(p) : attr[g] = kind[p].mode

\* On the list are the unpinned PMRs that still have pages, and no other: an
\* entry that stays behind lets the shrinker touch a PMR in use, or none at all.
ListExact ==
  \A p \in Pmrs : p \in unpin_list <=>
                    pc[p] \in {"idle", "finalize"} /\ unpinned[p] /\ num[p] # 0

\* A PMR that the shrinker emptied after its destruction looked at its page count.
EmptiedLate(p) == pc[p] = "free" /\ op[p] = "finalize" /\ unpinned[p] /\ num[p] = 0

\* The list is exact, and nothing but the race of a destruction with the shrinker
\* ever frees the head of it (the other way to wreck memory is a dropped page): PMRPinOSMem always finds the entry it removes, and so
\* does every destruction of a PMR whose pages are there when it has the mutex.
UnpinListExact ==
  IF wrecked THEN \E p \in Pmrs : EmptiedLate(p) \/ (PageDropped(p) /\ ListExact) ELSE ListExact

\* The pages of a PMR change in a step of its own operation, or while it is
\* unpinned.
ReclaimOnlyUnpinned ==
  [][\A p \in Pmrs : arr'[p] # arr[p] => pc'[p] # pc[p] \/ chg'[p] # chg[p] \/ unpinned[p]]_vars

\* Every call returns, also the one that enters reclaim with the mutex held; the
\* mutex comes free, and the cleanup thread gets to every task; unless the list is
\* lost first.
CallsReturn ==
  /\ \A p \in Pmrs : pc[p] \notin Resting ~> pc[p] \in Resting \/ wrecked
  /\ lock # Nobody ~> lock = Nobody \/ wrecked
  /\ \A g \in Pages : (\E n \in 1..Len(tasks) : g \in tasks[n].pages)
                        ~> (\A n \in 1..Len(tasks) : g \notin tasks[n].pages) \/ wrecked
=============================================================================
