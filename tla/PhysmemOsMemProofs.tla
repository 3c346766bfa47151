------------------------ MODULE PhysmemOsMemProofs ------------------------
(***************************************************************************)
(* Proofs about PhysmemOsMem, for any number of PMRs and pages, any kinds, *)
(* any limits of the pool and a failure of every call, as long as callers  *)
(* keep to what the code is made for (Misuse = {}).                        *)
(*                                                                         *)
(* The argument: at each place of an operation the array of the PMR and    *)
(* its mapping table are related in one way (PmrInv), so that the slots an *)
(* operation is about to fill are empty, those it is about to free are     *)
(* filled, and a failure on the way finds what it has to put back.  With   *)
(* that a step moves pages from one kind of place to another and leaves    *)
(* all others alone (OnePlace), and the counters follow the pages.         *)
(***************************************************************************)
EXTENDS PhysmemOsMem, FiniteSetTheorems, TLAPS

Types ==
  /\ loaded \in BOOLEAN
  /\ os_free \subseteq Pages /\ leaked \subseteq Pages
  /\ attr \in [Pages -> Uncached \cup {"wb"}]
  /\ pool \in [Uncached -> SUBSET Pages] /\ pool_count \in [Uncached -> Int]
  /\ tasks \in Seq([mode : Uncached, pages : SUBSET Pages])
  /\ clean_tasks = Len(tasks) /\ Len(tasks) <= MaxTasks
  /\ unpin_list \subseteq Pmrs /\ IsFiniteSet(unpin_list) /\ unpin_count \in Int
  /\ lock \in Pmrs \cup {Nobody, Shrinker} /\ to_scan \in Nat
  /\ kind \in [Pmrs -> Kinds \cup {NoKind}]
  /\ arr \in [Pmrs -> [Index -> Pages \cup {NoPage}]] /\ num \in [Pmrs -> Int]
  /\ has_array \in [Pmrs -> BOOLEAN] /\ unpinned \in [Pmrs -> BOOLEAN]
  /\ valid \in [Pmrs -> SUBSET Index] /\ phys \in [Pmrs -> Int]
  /\ pc \in [Pmrs -> Labels] /\ op \in [Pmrs -> Ops]
  /\ ask \in [Pmrs -> Seq(Nat)]
  /\ chg \in [Pmrs -> [to : Seq(Nat), from : Seq(Nat), remap : BOOLEAN]]
  /\ tmp \in [Pmrs -> SUBSET Pages]

-----------------------------------------------------------------------------
(* A PMR and its operation.                                                *)

Unpinning == {"unpin", "reclaim", "listing"}

(* The array and the mapping table of a PMR that nothing is changing.      *)
Settled(p) ==
  /\ num[p] # 0 \/ ~(unpinned[p] \/ kind[p].ondemand) => valid[p] = Filled(p)
  /\ kind[p].ondemand => ~unpinned[p]
  /\ ~kind[p].sparse => valid[p] = 1..kind[p].size

(* What is left of a change names slots that can be moved and freed.       *)
Changing(p) ==
  LET c == chg[p]
  IN /\ kind[p].sparse /\ valid[p] = Filled(p)
     /\ IsInjective(c.to) /\ IsInjective(c.from) /\ Len(c.to) <= Len(c.from)
     /\ \A n \in 1..Len(c.from) : c.from[n] \in valid[p]
     /\ \A n \in 1..Len(c.to) : c.to[n] \in 1..kind[p].size
     /\ \A n \in 1..Len(c.to) : c.to[n] \in valid[p] <=> c.remap

(* The slots to fill are empty and different, and who asks knows which     *)
(* slots the mapping table names when they are filled.                     *)
Asking(p) ==
  /\ IsInjective(ask[p])
  /\ \A n \in 1..Len(ask[p]) : ask[p][n] \notin Filled(p)
  /\ op[p] \in {"create", "lock", "pin", "change"}
  /\ op[p] = "change" =>
       /\ Changing(p)
       /\ \A n \in 1..Len(ask[p]), l \in 1..Len(chg[p].to) : ask[p][n] # chg[p].to[l]
  /\ op[p] # "change" => Filled(p) = {}
  /\ op[p] = "create" => valid[p] = {} /\ ask[p] = kind[p].first /\ ~kind[p].ondemand
  /\ op[p] = "lock" => kind[p].ondemand
  /\ op[p] \in {"lock", "pin"} =>
       /\ Range(ask[p]) = valid[p]
       /\ ~kind[p].sparse => valid[p] = 1..kind[p].size

(* What is freed is what the request names, or all the pages of a PMR that *)
(* has all its pages, or what a PMR has that is about to go.               *)
Freeing(p) ==
  /\ op[p] \in {"change", "unlock", "undo", "finalize"}
  /\ op[p] = "change" => Changing(p) /\ chg[p].to = << >> /\ ~unpinned[p]
  /\ op[p] = "unlock" => /\ kind[p].ondemand /\ ~unpinned[p]
                         /\ valid[p] = 1..kind[p].size /\ Filled(p) = valid[p]

PmrInv(p) ==
  /\ Filled(p) \subseteq 1..kind[p].size /\ num[p] = Cardinality(Filled(p))
  /\ valid[p] \subseteq 1..kind[p].size /\ phys[p] = Cardinality(valid[p])
  /\ pc[p] # "fill" => tmp[p] = {}
  /\ pc[p] = "none" <=> kind[p] = NoKind
  /\ pc[p] \in {"none", "evicted"} => num[p] = 0 /\ ~unpinned[p]
  /\ pc[p] \in {"idle"} \cup Unpinning => Settled(p)
  /\ pc[p] \in Unpinning => num[p] # 0 /\ ~unpinned[p] /\ ~kind[p].ondemand
  /\ pc[p] \in {"alloc", "fill"} => Asking(p) /\ ~unpinned[p]
  /\ pc[p] = "fill" =>
       Cardinality(tmp[p]) <= Len(ask[p]) /\ (tmp[p] # {} => kind[p].mode \in Uncached)
  /\ pc[p] = "build" =>
       /\ op[p] = "create" /\ ~unpinned[p] /\ valid[p] = {} /\ ask[p] = kind[p].first
       /\ Filled(p) = IF kind[p].ondemand THEN {} ELSE Range(ask[p])
  /\ pc[p] = "move" => op[p] = "change" /\ Changing(p) /\ ~unpinned[p]
  /\ pc[p] = "finalize" => op[p] = "finalize"
  /\ pc[p] = "free" => Freeing(p)

PmrsInv == \A p \in Pmrs : PmrInv(p)

(* The mutex is held from the beginning of an unpin to its end.            *)
LockInv == \A p \in Pmrs : pc[p] \in Unpinning <=> lock = p

-----------------------------------------------------------------------------
(* Where a page is.                                                        *)

InPool(g) == \E m \in Uncached : g \in pool[m]
InTask(g) == \E n \in 1..Len(tasks) : g \in tasks[n].pages
InTmp(g) == \E p \in Pmrs : g \in tmp[p]
InSlot(g) == \E p \in Pmrs, i \in Index : arr[p][i] = g

OnePool(g) == \A m, k \in Uncached : g \in pool[m] /\ g \in pool[k] => m = k
OneTask(g) == \A n, k \in 1..Len(tasks) : g \in tasks[n].pages /\ g \in tasks[k].pages => n = k
OneTmp(g) == \A p, q \in Pmrs : g \in tmp[p] /\ g \in tmp[q] => p = q
OneSlot(g) ==
  \A p, q \in Pmrs, i, j \in Index : arr[p][i] = g /\ arr[q][j] = g => p = q /\ i = j

(* Exactly one kind of place has the page.                                 *)
OneKind(os, lost, pooled, task, got, slot) ==
  /\ os \/ lost \/ pooled \/ task \/ got \/ slot
  /\ os => ~(lost \/ pooled \/ task \/ got \/ slot)
  /\ lost => ~(pooled \/ task \/ got \/ slot)
  /\ pooled => ~(task \/ got \/ slot)
  /\ task => ~(got \/ slot)
  /\ got => ~slot

OnePlace(g) ==
  /\ OneKind(g \in os_free, g \in leaked, InPool(g), InTask(g), InTmp(g), InSlot(g))
  /\ OnePool(g) /\ OneTask(g) /\ OneTmp(g) /\ OneSlot(g)

PagesInv ==
  /\ \A g \in Pages : OnePlace(g)
  /\ ~loaded => os_free = Pages \ leaked

-----------------------------------------------------------------------------

UnpinnedSlots == {s \in unpin_list \X Index : arr[s[1]][s[2]] # NoPage}

BooksInv ==
  /\ \A m \in Uncached : pool_count[m] = Cardinality(pool[m])
  /\ _PagesInPoolUnlocked < MaxPool + MaxExcess
  /\ unpin_count = Cardinality(UnpinnedSlots) /\ IsFiniteSet(UnpinnedSlots)

(* The head of the list is freed for one reason only.                      *)
WreckInv == wrecked \in BOOLEAN /\ (wrecked => \E p \in Pmrs : EmptiedLate(p))

IInv ==
  /\ Types /\ PmrsInv /\ LockInv /\ ListExact /\ WreckInv
  /\ PagesInv /\ TypesHonoured /\ BooksInv

-----------------------------------------------------------------------------
(* The choices of the model exist.                                         *)

LEMMA SomeOf ==
  ASSUME NEW S, IsFiniteSet(S), NEW n \in Nat, n <= Cardinality(S)
  PROVE  Some(S, n) \subseteq S /\ IsFiniteSet(Some(S, n)) /\ Cardinality(Some(S, n)) = n
<1>1. Cardinality(S) \in Nat /\ ExistsBijection(1..Cardinality(S), S)
  BY FS_CardinalityType
<1>2. PICK f \in Bijection(1..Cardinality(S), S) : TRUE
  BY <1>1 DEF ExistsBijection
<1> DEFINE T == {f[i] : i \in 1..n}
           h == [i \in 1..n |-> f[i]]
<1>3. h \in Bijection(1..n, T) /\ T \subseteq S
  <2>1. /\ f \in [1..Cardinality(S) -> S]
        /\ \A i, j \in 1..Cardinality(S) : f[i] = f[j] => i = j
    BY <1>2 DEF Bijection, Injection, IsInjective
  <2>2. \A i \in 1..n : i \in 1..Cardinality(S)
    BY <1>1
  <2>3. T \subseteq S
    BY <2>1, <2>2
  <2>4. h \in [1..n -> T]
    OBVIOUS
  <2>5. \A i, j \in 1..n : h[i] = h[j] => i = j
    BY <2>1, <2>2
  <2>6. \A x \in T : \E i \in 1..n : h[i] = x
    OBVIOUS
  <2> QED
    BY <2>3, <2>4, <2>5, <2>6 DEF Bijection, Injection, Surjection, IsInjective
<1>4. Cardinality(T) = n
  <2>1. ExistsBijection(1..n, T)
    BY <1>3 DEF ExistsBijection
  <2> HIDE DEF T
  <2> QED
    BY <2>1, FS_CountingElements
<1>5. \E U \in SUBSET S : Cardinality(U) = n
  BY <1>3, <1>4
<1>6. Some(S, n) \in SUBSET S /\ Cardinality(Some(S, n)) = n
  BY <1>5 DEF Some
<1> QED
  BY <1>6, FS_Subset

(* A placing is one to one: every slot has a page and every page a slot.   *)
LEMMA PlacingOf ==
  ASSUME NEW slots, IsFiniteSet(slots), NEW S, IsFiniteSet(S),
         Cardinality(slots) = Cardinality(S)
  PROVE  /\ Placing(slots, S) \in [slots -> S]
         /\ IsInjective(Placing(slots, S))
         /\ \A x \in S : \E i \in slots : Placing(slots, S)[i] = x
<1>1. ExistsBijection(slots, S)
  BY FS_SameCardinalityBij
<1>2. PICK f \in Bijection(slots, S) : TRUE
  BY <1>1 DEF ExistsBijection
<1>3. f \in [slots -> S] /\ IsInjective(f)
  BY <1>2 DEF Bijection, Injection, IsInjective
<1>4. Placing(slots, S) \in [slots -> S] /\ IsInjective(Placing(slots, S))
  BY <1>3 DEF Placing
<1>5. Placing(slots, S) \in Injection(slots, S)
  BY <1>4 DEF Injection, IsInjective
<1>6. Placing(slots, S) \in Surjection(slots, S)
  BY <1>5, FS_Injection
<1> QED
  BY <1>4, <1>6 DEF Surjection

LEMMA RangeSize ==
  ASSUME NEW X, NEW s \in Seq(X), IsInjective(s)
  PROVE  IsFiniteSet(Range(s)) /\ Cardinality(Range(s)) = Len(s)
<1>1. Len(s) \in Nat /\ DOMAIN s = 1..Len(s)
  OBVIOUS
<1>2. s \in Bijection(1..Len(s), Range(s))
  BY <1>1 DEF Bijection, Injection, Surjection, Range, IsInjective
<1>3. ExistsBijection(1..Len(s), Range(s))
  BY <1>2 DEF ExistsBijection
<1>4. \A n \in Nat : IsFiniteSet(1..n) /\ Cardinality(1..n) = n
  BY FS_Interval
<1>5. IsFiniteSet(1..Len(s)) /\ Cardinality(1..Len(s)) = Len(s)
  BY <1>1, <1>4, Zenon
<1> QED
  BY <1>3, <1>5, FS_Bijection

LEMMA ListingOf ==
  ASSUME NEW S, IsFiniteSet(S)
  PROVE  /\ Listing(S) \in Seq(S)
         /\ Len(Listing(S)) = Cardinality(S) /\ IsInjective(Listing(S))
         /\ Range(Listing(S)) = S
<1> DEFINE n == Cardinality(S)
<1>1. n \in Nat
  BY FS_CardinalityType
<1>2. IsFiniteSet(1..n) /\ Cardinality(1..n) = n
  BY <1>1, FS_Interval
<1>3. /\ Placing(1..n, S) \in [1..n -> S] /\ IsInjective(Placing(1..n, S))
      /\ \A x \in S : \E i \in 1..n : Placing(1..n, S)[i] = x
  <2> DEFINE slots == 1..n
  <2>1. IsFiniteSet(slots) /\ Cardinality(slots) = Cardinality(S)
    BY <1>2
  <2> HIDE DEF slots, n
  <2>2. /\ Placing(slots, S) \in [slots -> S] /\ IsInjective(Placing(slots, S))
        /\ \A x \in S : \E i \in slots : Placing(slots, S)[i] = x
    BY <2>1, PlacingOf
  <2> QED
    BY <2>2 DEF slots
<1> DEFINE s == Placing(1..n, S)
<1>4. Listing(S) = s
  BY DEF Listing
<1> HIDE DEF n, s
<1>5. s \in Seq(S) /\ Len(s) = n
  BY <1>1, <1>3 DEF s
<1> QED
  BY <1>3, <1>4, <1>5 DEF s, n, Range

-----------------------------------------------------------------------------
(* What the invariant says of the slots of a PMR.                          *)

LEMMA KindFacts ==
  ASSUME NEW k \in Kinds \cup {NoKind}
  PROVE  /\ k.size \in Nat /\ 1..k.size \subseteq Index
         /\ k.mode \in Uncached \cup {"wb"}
         /\ {k.sparse, k.ondemand, k.cma, k.zero} \subseteq BOOLEAN
         /\ k.first \in Seq(Nat) /\ IsInjective(k.first)
         /\ \A n \in 1..Len(k.first) : k.first[n] \in 1..k.size
         /\ k # NoKind => k \in Kinds /\ k.size # 0
<1>1. CASE k \in Kinds
  <2>1. k.size \in Nat \ {0} /\ k.first \in Seq(1..k.size)
    BY <1>1, OsMemAssumption
  <2>2. 1..k.size \in {1..c.size : c \in Kinds}
    BY <1>1
  <2>3. 1..k.size \subseteq Index
    BY <2>2 DEF Index
  <2>4. k.first \in Seq(Nat) /\ \A n \in 1..Len(k.first) : k.first[n] \in 1..k.size
    BY <2>1
  <2> QED
    BY <1>1, <2>1, <2>3, <2>4, OsMemAssumption
<1>2. CASE k = NoKind
  <2>1. IsInjective(k.first) /\ k.first = << >>
    BY <1>2 DEF NoKind, IsInjective
  <2> QED
    BY <1>2, <2>1 DEF NoKind
<1> QED
  BY <1>1, <1>2

LEMMA IndexNat == Index \subseteq Nat
  BY OsMemAssumption DEF Index

LEMMA IntervalSize ==
  ASSUME NEW n \in Nat
  PROVE  IsFiniteSet(1..n) /\ Cardinality(1..n) = n
BY FS_Interval

LEMMA SlotFacts ==
  ASSUME Types, NEW p \in Pmrs, PmrInv(p)
  PROVE  /\ kind[p].size \in Nat /\ 1..kind[p].size \subseteq Index
         /\ IsFiniteSet(Filled(p)) /\ num[p] \in 0..kind[p].size
         /\ IsFiniteSet(valid[p]) /\ phys[p] \in Nat
         /\ num[p] = 0 <=> Filled(p) = {}
         /\ num[p] = kind[p].size => Filled(p) = 1..kind[p].size
<1>1. kind[p] \in Kinds \cup {NoKind}
  BY DEF Types
<1>2. kind[p].size \in Nat /\ 1..kind[p].size \subseteq Index
  BY <1>1, KindFacts
<1>3. IsFiniteSet(1..kind[p].size) /\ Cardinality(1..kind[p].size) = kind[p].size
  BY <1>2, IntervalSize
<1>4. Filled(p) \subseteq 1..kind[p].size /\ num[p] = Cardinality(Filled(p))
  BY DEF PmrInv
<1>5. valid[p] \subseteq 1..kind[p].size /\ phys[p] = Cardinality(valid[p])
  BY DEF PmrInv
<1> DEFINE F == Filled(p)
           S == 1..kind[p].size
<1> HIDE DEF F, S
<1>6. /\ IsFiniteSet(F) /\ Cardinality(F) <= Cardinality(S) /\ Cardinality(F) \in Nat
      /\ Cardinality(F) = 0 <=> F = {}
      /\ Cardinality(S) = Cardinality(F) => S = F
  BY <1>3, <1>4, FS_Subset, FS_CardinalityType, FS_EmptySet DEF F, S
<1>7. IsFiniteSet(valid[p]) /\ Cardinality(valid[p]) \in Nat
  BY <1>3, <1>5, FS_Subset, FS_CardinalityType
<1> QED
  BY <1>2, <1>3, <1>4, <1>5, <1>6, <1>7 DEF F, S

(* Different slots hold different pages, so slots and pages are as many.   *)
LEMMA PagesInCount ==
  ASSUME Types, PagesInv, NEW p \in Pmrs, PmrInv(p), NEW slots \in SUBSET Index
  PROVE  /\ IsFiniteSet(PagesIn(p, slots)) /\ PagesIn(p, slots) \subseteq Pages
         /\ IsFiniteSet(slots \cap Filled(p)) /\ IsFiniteSet(Filled(p) \ slots)
         /\ Cardinality(PagesIn(p, slots)) = Cardinality(slots \cap Filled(p))
         /\ Cardinality(Filled(p) \ slots) = num[p] - Cardinality(PagesIn(p, slots))
<1> DEFINE S == slots \cap Filled(p)
           T == PagesIn(p, slots)
           f == [i \in S |-> arr[p][i]]
<1>1. arr[p] \in [Index -> Pages \cup {NoPage}]
  BY DEF Types
<1>2. f \in Surjection(S, T) /\ T \subseteq Pages
  BY <1>1 DEF Surjection, Filled, PagesIn
<1>3. f \in [S -> T] /\ T \subseteq Pages
  BY <1>2 DEF Surjection
<1>4. \A i, j \in S : f[i] = f[j] => i = j
  <2> SUFFICES ASSUME NEW i \in S, NEW j \in S, arr[p][i] = arr[p][j] PROVE i = j
    OBVIOUS
  <2>1. i \in Index /\ j \in Index /\ arr[p][i] \in Pages
    BY <1>1 DEF Filled
  <2>2. OneSlot(arr[p][i])
    BY <2>1 DEF PagesInv, OnePlace
  <2> QED
    BY <2>1, <2>2 DEF OneSlot
<1>5. f \in Bijection(S, T)
  BY <1>2, <1>3, <1>4 DEF Bijection, Injection, IsInjective
<1>6. IsFiniteSet(Filled(p)) /\ num[p] = Cardinality(Filled(p))
  BY SlotFacts DEF PmrInv
<1>7. S = Filled(p) \cap slots
  OBVIOUS
<1> HIDE DEF S, T, f
<1>8. IsFiniteSet(S)
  BY <1>6, <1>7, FS_Intersection
<1>9. IsFiniteSet(T) /\ Cardinality(T) = Cardinality(S)
  BY <1>5, <1>8, FS_Bijection DEF ExistsBijection
<1>10. IsFiniteSet(Filled(p) \ slots)
       /\ Cardinality(Filled(p) \ slots) = Cardinality(Filled(p)) - Cardinality(S)
  BY <1>6, <1>7, FS_Difference
<1> QED
  BY <1>3, <1>6, <1>8, <1>9, <1>10 DEF S, T

-----------------------------------------------------------------------------
(* The initial states.                                                     *)

LEMMA NobodyApart == Nobody \notin Pmrs /\ Shrinker \notin Pmrs /\ Nobody # Shrinker
  BY OsMemAssumption

LEMMA PagesFinite == IsFiniteSet(Pages) /\ NoPage \notin Pages
  BY OsMemAssumption

LEMMA InitTypes == Init => Types
<1> SUFFICES ASSUME Init PROVE Types
  OBVIOUS
<1>1. IsFiniteSet(unpin_list)
  BY FS_EmptySet DEF Init
<1>2. Len(tasks) <= MaxTasks /\ tasks = << >> /\ clean_tasks = Len(tasks)
  BY OsMemAssumption DEF Init
<1>3. NoChange \in [to : Seq(Nat), from : Seq(Nat), remap : BOOLEAN]
  BY DEF NoChange
<1>4. chg \in [Pmrs -> [to : Seq(Nat), from : Seq(Nat), remap : BOOLEAN]]
  BY <1>3 DEF Init
<1>5. /\ loaded \in BOOLEAN /\ has_array \in [Pmrs -> BOOLEAN]
      /\ unpinned \in [Pmrs -> BOOLEAN]
  BY DEF Init
<1>6. /\ os_free \subseteq Pages /\ leaked \subseteq Pages
      /\ attr \in [Pages -> Uncached \cup {"wb"}]
      /\ pool \in [Uncached -> SUBSET Pages] /\ pool_count \in [Uncached -> Int]
      /\ tasks \in Seq([mode : Uncached, pages : SUBSET Pages])
      /\ unpin_list \subseteq Pmrs /\ unpin_count \in Int
      /\ lock \in Pmrs \cup {Nobody, Shrinker} /\ to_scan \in Nat
  BY <1>2 DEF Init
<1>7. /\ kind \in [Pmrs -> Kinds \cup {NoKind}]
      /\ arr \in [Pmrs -> [Index -> Pages \cup {NoPage}]] /\ num \in [Pmrs -> Int]
      /\ valid \in [Pmrs -> SUBSET Index] /\ phys \in [Pmrs -> Int]
      /\ pc \in [Pmrs -> Labels] /\ op \in [Pmrs -> Ops]
      /\ ask \in [Pmrs -> Seq(Nat)] /\ tmp \in [Pmrs -> SUBSET Pages]
  BY DEF Init, Labels, Resting, Ops
<1> QED
  BY <1>1, <1>2, <1>4, <1>5, <1>6, <1>7 DEF Types

LEMMA InitPmrs == Init => PmrsInv /\ LockInv
<1> SUFFICES ASSUME Init, NEW p \in Pmrs PROVE PmrInv(p) /\ (pc[p] \in Unpinning <=> lock = p)
  BY DEF PmrsInv, LockInv
<1>1. Filled(p) = {}
  BY DEF Init, Filled
<1>2. Cardinality(Filled(p)) = 0 /\ Cardinality(valid[p]) = 0 /\ valid[p] = {}
  BY <1>1, FS_EmptySet DEF Init
<1>3. pc[p] = "none" /\ num[p] = 0 /\ phys[p] = 0 /\ kind[p] = NoKind /\ tmp[p] = {}
      /\ lock = Nobody
  BY DEF Init
<1>4. ~unpinned[p]
  BY DEF Init
<1> QED
  BY <1>1, <1>2, <1>3, <1>4, NobodyApart DEF PmrInv, Unpinning

LEMMA InitRest == Init => ListExact /\ PagesInv /\ TypesHonoured /\ BooksInv
<1> SUFFICES ASSUME Init PROVE ListExact /\ PagesInv /\ TypesHonoured /\ BooksInv
  OBVIOUS
<1>1. ListExact
  BY DEF Init, ListExact
<1>2. ASSUME NEW g \in Pages PROVE OnePlace(g)
  BY PagesFinite DEF Init, OnePlace, OneKind, InPool, InTask, InTmp, InSlot, OnePool, OneTask,
     OneTmp, OneSlot
<1>3. PagesInv
  BY <1>2 DEF PagesInv, Init
<1>4. TypesHonoured
  BY DEF Init, TypesHonoured, Held, PagesIn
<1>5. UnpinnedSlots = {}
  BY DEF Init, UnpinnedSlots
<1>6. Cardinality({}) = 0 /\ IsFiniteSet({}) /\ MaxPool \in Nat \ {0} /\ MaxExcess \in Nat
  BY FS_EmptySet, OsMemAssumption
<1>7. BooksInv
  BY <1>5, <1>6 DEF Init, BooksInv, _PagesInPoolUnlocked, Uncached
<1> QED
  BY <1>1, <1>3, <1>4, <1>7

LEMMA InitIInv == Init => IInv
  BY InitTypes, InitPmrs, InitRest DEF IInv, Init, WreckInv

-----------------------------------------------------------------------------
(* What the shared parts of the actions do.                                *)

Cleared(f, slots) == [i \in Index |-> IF i \in slots THEN NoPage ELSE f[i]]

ToTask(p, S) ==
  /\ kind[p].mode \in Uncached /\ ~unpinned[p]
  /\ Len(tasks) + 1 <= MaxTasks
  /\ tasks' = Append(tasks, [mode |-> kind[p].mode, pages |-> S])
  /\ clean_tasks' = clean_tasks + 1
  /\ UNCHANGED <<os_free, attr>>

Frees(p, slots) ==
  \/ _FreeOSPages(p, slots, TRUE)
  \/ _FreeOSPages(p, slots, FALSE) /\ slots = Index

(* _FreeOSPages: the slots are cleared and counted, and the pages go to    *)
(* one place.                                                              *)
LEMMA FreeEffect ==
  ASSUME IInv, NEW p \in Pmrs, NEW slots \in SUBSET Index, Frees(p, slots)
  PROVE  /\ arr' = [arr EXCEPT ![p] = Cleared(arr[p], slots)]
         /\ num' = [num EXCEPT ![p] = num[p] - Cardinality(PagesIn(p, slots))]
         /\ has_array' \in [Pmrs -> BOOLEAN]
         /\ \/ ToTask(p, PagesIn(p, slots))
            \/ ToOs(PagesIn(p, slots)) /\ UNCHANGED taskVars
<1> SUFFICES ASSUME NEW indices \in BOOLEAN, ~indices => slots = Index,
                    _FreeOSPages(p, slots, indices)
             PROVE  /\ arr' = [arr EXCEPT ![p] = Cleared(arr[p], slots)]
                    /\ num' = [num EXCEPT ![p] = num[p] - Cardinality(PagesIn(p, slots))]
                    /\ has_array' \in [Pmrs -> BOOLEAN]
                    /\ \/ ToTask(p, PagesIn(p, slots))
                       \/ ToOs(PagesIn(p, slots)) /\ UNCHANGED taskVars
  BY DEF Frees
<1> DEFINE fast == ~indices /\ num[p] = kind[p].size
           S == PagesIn(p, slots)
<1>1. has_array \in [Pmrs -> BOOLEAN] /\ num \in [Pmrs -> Int] /\ clean_tasks = Len(tasks)
      /\ arr \in [Pmrs -> [Index -> Pages \cup {NoPage}]]
  BY DEF IInv, Types
<1>2. PmrInv(p) /\ Types /\ PagesInv
  BY DEF IInv, PmrsInv
<1>3. Cardinality(S) = Cardinality(slots \cap Filled(p)) /\ num[p] = Cardinality(Filled(p))
  BY <1>2, PagesInCount DEF PmrInv
<1>4. fast => Cardinality(S) = num[p]
  <2>1. Filled(p) \subseteq Index
    BY DEF Filled
  <2>2. fast => slots \cap Filled(p) = Filled(p)
    BY <2>1
  <2> QED
    BY <1>3, <2>2
<1>5. num[p] \in Int
  BY <1>1
<1>6. num' = [num EXCEPT ![p] = IF fast THEN 0 ELSE num[p] - Cardinality(S)]
  BY <1>1 DEF _FreeOSPages
<1>7. num' = [num EXCEPT ![p] = num[p] - Cardinality(S)]
  <2>1. CASE fast
    <3>1. num[p] - Cardinality(S) = 0
      BY <1>4, <1>5, <2>1
    <3> QED
      BY <1>6, <2>1, <3>1
  <2>2. CASE ~fast
    BY <1>6, <2>2
  <2> QED
    BY <2>1, <2>2
<1>8. arr' = [arr EXCEPT ![p] = Cleared(arr[p], slots)]
  BY <1>1 DEF _FreeOSPages, Cleared
<1>9. _PutPagesToPoolLocked(p, S, fast) \/ NotPooled(p, S)
  BY DEF _FreeOSPages
<1>10. CASE _PutPagesToPoolLocked(p, S, fast)
  <2>1. has_array' \in [Pmrs -> BOOLEAN]
    BY <1>1, <1>10 DEF _PutPagesToPoolLocked
  <2>2. ToTask(p, S)
    BY <1>1, <1>10 DEF _PutPagesToPoolLocked, Poolable, ToTask
  <2> QED
    BY <1>7, <1>8, <2>1, <2>2
<1>11. CASE NotPooled(p, S)
  BY <1>1, <1>7, <1>8, <1>11 DEF NotPooled
<1> QED
  BY <1>9, <1>10, <1>11

(* The pages of the pool that _FreePagesFromPoolUnlocked takes.            *)
LEMMA DrainedOf ==
  ASSUME Types, NEW n \in Nat
  PROVE  /\ DOMAIN Drained(n) = Uncached
         /\ \A m \in Uncached :
              /\ Drained(n)[m] \subseteq pool[m] /\ IsFiniteSet(Drained(n)[m])
              /\ Cardinality(Drained(n)[m]) \in Nat
         /\ Cardinality(Drained(n)["uc"]) + Cardinality(Drained(n)["wc"]) <= n
<1> DEFINE U == pool["uc"]
           W == pool["wc"]
           fromUC == Least(n, Cardinality(U))
           fromWC == Least(n - fromUC, Cardinality(W))
<1>1. U \subseteq Pages /\ W \subseteq Pages
  BY DEF Types, Uncached
<1> HIDE DEF U, W
<1>2. IsFiniteSet(U) /\ Cardinality(U) \in Nat
  BY <1>1, PagesFinite, FS_Subset, FS_CardinalityType
<1>3. IsFiniteSet(W) /\ Cardinality(W) \in Nat
  BY <1>1, PagesFinite, FS_Subset, FS_CardinalityType
<1>4. fromUC \in Nat /\ fromUC <= Cardinality(U) /\ fromUC <= n
  BY <1>2 DEF Least
<1>5. fromWC \in Nat /\ fromWC <= Cardinality(W) /\ fromWC <= n - fromUC
  <2> HIDE DEF fromUC
  <2> QED
    BY <1>3, <1>4 DEF Least
<1>6. /\ Drained(n) = [m \in Uncached |->
           Some(pool[m], IF m = "uc" THEN fromUC ELSE Least(n - fromUC, Cardinality(pool["wc"])))]
  BY DEF Drained, U
<1>7. Drained(n)["uc"] = Some(U, fromUC) /\ Drained(n)["wc"] = Some(W, fromWC)
  BY <1>6 DEF U, W, Uncached
<1> HIDE DEF fromUC, fromWC
<1>8. /\ Some(U, fromUC) \subseteq U /\ IsFiniteSet(Some(U, fromUC))
      /\ Cardinality(Some(U, fromUC)) = fromUC
  BY <1>2, <1>4, SomeOf
<1>9. /\ Some(W, fromWC) \subseteq W /\ IsFiniteSet(Some(W, fromWC))
      /\ Cardinality(Some(W, fromWC)) = fromWC
  BY <1>3, <1>5, SomeOf
<1>10. DOMAIN Drained(n) = Uncached
  BY <1>6
<1> QED
  BY <1>4, <1>5, <1>7, <1>8, <1>9, <1>10 DEF Uncached, U, W

LEMMA DrainEffect ==
  ASSUME Types, NEW gone, NEW own \in SUBSET Pages,
         \A m \in Uncached : gone[m] \subseteq pool[m] /\ IsFiniteSet(gone[m]),
         _FreePagesFromPoolUnlocked(gone, own)
  PROVE  /\ pool' \in [Uncached -> SUBSET Pages] /\ pool_count' \in [Uncached -> Int]
         /\ \A m \in Uncached :
              /\ pool'[m] = pool[m] \ gone[m] /\ Cardinality(gone[m]) \in Nat
              /\ pool_count'[m] = pool_count[m] - Cardinality(gone[m])
         /\ gone["uc"] \cup gone["wc"] \cup own \subseteq Pages
         /\ ToOs(gone["uc"] \cup gone["wc"] \cup own)
<1>1. pool \in [Uncached -> SUBSET Pages] /\ pool_count \in [Uncached -> Int]
  BY DEF Types
<1>2. \A m \in Uncached : Cardinality(gone[m]) \in Nat
  BY FS_CardinalityType
<1>3. /\ pool' = [m \in Uncached |-> pool[m] \ gone[m]]
      /\ pool_count' = [m \in Uncached |-> pool_count[m] - Cardinality(gone[m])]
      /\ ToOs(gone["uc"] \cup gone["wc"] \cup own)
  BY DEF _FreePagesFromPoolUnlocked
<1>4. "uc" \in Uncached /\ "wc" \in Uncached
  BY DEF Uncached
<1>5. gone["uc"] \cup gone["wc"] \cup own \subseteq Pages
  BY <1>1, <1>4
<1> QED
  BY <1>1, <1>2, <1>3, <1>5

LEMMA ToOsTypes ==
  ASSUME Types, NEW S \in SUBSET Pages, ToOs(S)
  PROVE  os_free' \subseteq Pages /\ attr' \in [Pages -> Uncached \cup {"wb"}]
BY DEF ToOs, Types

(* Fill: the slots asked for receive different pages, those from the pool  *)
(* and those from the operating system.                                    *)
FillsWith(p, new, page) ==
  /\ new \subseteq os_free /\ os_free' = os_free \ new
  /\ _ApplyOSPagesAttribute(p, new)
  /\ page \in [Range(ask[p]) -> tmp[p] \cup new] /\ IsInjective(page)
  /\ \A g \in tmp[p] \cup new : \E i \in Range(ask[p]) : page[i] = g
  /\ arr' = [arr EXCEPT ![p] = [i \in Index |-> IF i \in Range(ask[p]) THEN page[i]
                                                                       ELSE arr[p][i]]]

LEMMA FillEffect ==
  ASSUME IInv, NEW p \in Pmrs, Fill(p)
  PROVE  /\ \E new, page : FillsWith(p, new, page)
         /\ Range(ask[p]) \subseteq 1..kind[p].size /\ Range(ask[p]) \cap Filled(p) = {}
         /\ IsFiniteSet(Range(ask[p])) /\ Cardinality(Range(ask[p])) = Len(ask[p])
<1> DEFINE new == Some(os_free, FromOs(p))
           slots == Range(ask[p])
           T == tmp[p]
           page == Placing(slots, T \cup new)
<1>1. Types /\ PmrInv(p) /\ PagesInv /\ pc[p] = "fill"
  BY DEF IInv, PmrsInv, Fill, At
<1>2. Asking(p) /\ Cardinality(T) <= Len(ask[p])
  BY <1>1 DEF PmrInv
<1>3. ask[p] \in Seq(Nat) /\ T \subseteq Pages /\ os_free \subseteq Pages
      /\ arr \in [Pmrs -> [Index -> Pages \cup {NoPage}]]
  BY <1>1 DEF Types
<1>4. IsFiniteSet(slots) /\ Cardinality(slots) = Len(ask[p])
  BY <1>2, <1>3, RangeSize DEF Asking
<1>5. slots \subseteq 1..kind[p].size /\ slots \cap Filled(p) = {}
  <2>1. \A n \in 1..Len(ask[p]) : ask[p][n] \in 1..kind[p].size /\ ask[p][n] \notin Filled(p)
    BY DEF Fill, Clash, Refused
  <2> QED
    BY <1>3, <2>1 DEF Range
<1>6. IsFiniteSet(T) /\ Cardinality(T) \in Nat
  BY <1>3, PagesFinite, FS_Subset, FS_CardinalityType
<1>7. IsFiniteSet(os_free)
  BY <1>3, PagesFinite, FS_Subset
<1>8. FromOs(p) = Len(ask[p]) - Cardinality(T) /\ FromOs(p) <= Cardinality(os_free)
  BY DEF Fill, FromOs
<1>9. FromOs(p) \in Nat
  BY <1>2, <1>3, <1>6, <1>8
<1>10. new \subseteq os_free /\ IsFiniteSet(new) /\ Cardinality(new) = FromOs(p)
  BY <1>7, <1>8, <1>9, SomeOf
<1>11. T \cap new = {}
  <2> SUFFICES ASSUME NEW g \in T, g \in new PROVE FALSE
    OBVIOUS
  <2>1. OnePlace(g) /\ g \in os_free /\ InTmp(g)
    BY <1>1, <1>3, <1>10 DEF PagesInv, InTmp
  <2> QED
    BY <2>1 DEF OnePlace, OneKind
<1>12. IsFiniteSet(T \cup new) /\ Cardinality(T \cup new) = Cardinality(slots)
  <2> DEFINE N == new
  <2>1. IsFiniteSet(N) /\ T \cap N = {}
    BY <1>10, <1>11
  <2> HIDE DEF N, T
  <2>2. IsFiniteSet(T \cup N)
        /\ Cardinality(T \cup N) = Cardinality(T) + Cardinality(N) - Cardinality({})
    BY <1>6, <2>1, FS_Union
  <2>3. Cardinality(T \cup N) = Len(ask[p])
    BY <1>3, <1>6, <1>8, <1>9, <1>10, <2>2, FS_EmptySet DEF N
  <2> QED
    BY <1>4, <2>2, <2>3 DEF N
<1>13. /\ page \in [slots -> T \cup new] /\ IsInjective(page)
       /\ \A g \in T \cup new : \E i \in slots : page[i] = g
  <2> DEFINE A == slots
             B == T \cup new
  <2>1. IsFiniteSet(A) /\ IsFiniteSet(B) /\ Cardinality(A) = Cardinality(B)
    BY <1>4, <1>12
  <2> HIDE DEF A, B
  <2>2. /\ Placing(A, B) \in [A -> B] /\ IsInjective(Placing(A, B))
        /\ \A g \in B : \E i \in A : Placing(A, B)[i] = g
    BY <2>1, PlacingOf
  <2> QED
    BY <2>2 DEF A, B
<1>14. /\ os_free' = os_free \ new /\ _ApplyOSPagesAttribute(p, new)
       /\ arr' = [arr EXCEPT ![p] = [i \in Index |-> IF i \in slots THEN page[i]
                                                                    ELSE arr[p][i]]]
  BY <1>3 DEF Fill
<1>15. FillsWith(p, new, page)
  BY <1>10, <1>13, <1>14 DEF FillsWith
<1> QED
  BY <1>4, <1>5, <1>15

(* FillFails: the slots it empties were empty.                             *)
LEMMA FailEffect ==
  ASSUME IInv, NEW p \in Pmrs, FillFails(p)
  PROVE  /\ arr' = arr /\ ToOs(tmp[p]) /\ tmp[p] \subseteq Pages
         /\ leaked' = leaked /\ ~wrecked /\ wrecked' = FALSE /\ UNCHANGED lruVars
<1> DEFINE emptied == {ask[p][n] : n \in 1..Cardinality(tmp[p])} \cap Index
<1>1. Types /\ PmrInv(p) /\ pc[p] = "fill"
  BY DEF IInv, PmrsInv, FillFails, At
<1>2. Asking(p) /\ Cardinality(tmp[p]) <= Len(ask[p])
  BY <1>1 DEF PmrInv
<1>3. ask[p] \in Seq(Nat) /\ tmp[p] \subseteq Pages
      /\ arr \in [Pmrs -> [Index -> Pages \cup {NoPage}]]
  BY <1>1 DEF Types
<1>4. Cardinality(tmp[p]) \in Nat
  BY <1>3, PagesFinite, FS_Subset, FS_CardinalityType
<1>5. \A i \in emptied : i \notin Filled(p)
  BY <1>2, <1>3, <1>4 DEF Asking
<1>6. arr' = [arr EXCEPT ![p] = [i \in Index |-> IF i \in emptied THEN NoPage ELSE arr[p][i]]]
  BY <1>3 DEF FillFails
<1> HIDE DEF emptied
<1>7. \A i \in Index : i \in emptied => arr[p][i] = NoPage
  BY <1>5 DEF Filled
<1>8. [i \in Index |-> IF i \in emptied THEN NoPage ELSE arr[p][i]] = arr[p]
  BY <1>3, <1>7
<1>9. arr' = arr
  BY <1>3, <1>6, <1>8
<1>10. PagesIn(p, emptied) = {}
  BY <1>7 DEF PagesIn, emptied
<1>11. ToOs(tmp[p]) /\ ~wrecked /\ UNCHANGED <<unpin_list, unpin_count, lock, to_scan>>
  BY DEF FillFails, At, Running
<1>12. leaked' = leaked \cup PagesIn(p, emptied) /\ wrecked' = (PagesIn(p, emptied) # {})
  BY DEF FillFails, emptied
<1>13. leaked' = leaked /\ wrecked' = FALSE
  BY <1>10, <1>12
<1>14. wrecked = FALSE
  BY <1>11 DEF IInv, WreckInv
<1> QED
  BY <1>3, <1>9, <1>11, <1>13, <1>14 DEF lruVars

-----------------------------------------------------------------------------
(* A step keeps the types.                                                 *)

OsTypes ==
  /\ loaded \in BOOLEAN
  /\ os_free \subseteq Pages /\ leaked \subseteq Pages
  /\ attr \in [Pages -> Uncached \cup {"wb"}]

PoolTypes ==
  /\ pool \in [Uncached -> SUBSET Pages] /\ pool_count \in [Uncached -> Int]

TaskTypes ==
  /\ tasks \in Seq([mode : Uncached, pages : SUBSET Pages])
  /\ clean_tasks = Len(tasks) /\ Len(tasks) <= MaxTasks

LruTypes ==
  /\ unpin_list \subseteq Pmrs /\ IsFiniteSet(unpin_list) /\ unpin_count \in Int
  /\ lock \in Pmrs \cup {Nobody, Shrinker} /\ to_scan \in Nat

PmrTypes ==
  /\ kind \in [Pmrs -> Kinds \cup {NoKind}] /\ unpinned \in [Pmrs -> BOOLEAN]
  /\ valid \in [Pmrs -> SUBSET Index] /\ phys \in [Pmrs -> Int]

PageTypes ==
  /\ arr \in [Pmrs -> [Index -> Pages \cup {NoPage}]] /\ num \in [Pmrs -> Int]
  /\ has_array \in [Pmrs -> BOOLEAN]

CallTypes ==
  /\ pc \in [Pmrs -> Labels] /\ op \in [Pmrs -> Ops]
  /\ ask \in [Pmrs -> Seq(Nat)] /\ tmp \in [Pmrs -> SUBSET Pages]
  /\ chg \in [Pmrs -> [to : Seq(Nat), from : Seq(Nat), remap : BOOLEAN]]

LEMMA TypesParts ==
  Types <=> OsTypes /\ PoolTypes /\ TaskTypes /\ LruTypes /\ PmrTypes /\ PageTypes /\ CallTypes
BY DEF Types, OsTypes, PoolTypes, TaskTypes, LruTypes, PmrTypes, PageTypes, CallTypes

LEMMA TypesNext ==
  Types' <=> /\ OsTypes' /\ PoolTypes' /\ TaskTypes' /\ LruTypes'
             /\ PmrTypes' /\ PageTypes' /\ CallTypes'
BY DEF Types, OsTypes, PoolTypes, TaskTypes, LruTypes, PmrTypes, PageTypes, CallTypes

LEMMA PartsStay ==
  /\ OsTypes /\ UNCHANGED loaded /\ UNCHANGED osVars => OsTypes'
  /\ PoolTypes /\ UNCHANGED poolVars => PoolTypes'
  /\ TaskTypes /\ UNCHANGED taskVars => TaskTypes'
  /\ LruTypes /\ UNCHANGED lruVars => LruTypes'
  /\ PmrTypes /\ UNCHANGED kind /\ UNCHANGED unpinned /\ UNCHANGED mapVars => PmrTypes'
  /\ PageTypes /\ UNCHANGED pageVars => PageTypes'
  /\ CallTypes /\ UNCHANGED callVars => CallTypes'
BY DEF OsTypes, PoolTypes, TaskTypes, LruTypes, PmrTypes, PageTypes, CallTypes,
       osVars, poolVars, taskVars, lruVars, mapVars, pageVars, callVars

LEMMA ReturnTypes ==
  ASSUME CallTypes, NEW p \in Pmrs, NEW l \in Labels, Return(p, l)
  PROVE  CallTypes'
<1>1. NoChange \in [to : Seq(Nat), from : Seq(Nat), remap : BOOLEAN]
  BY DEF NoChange
<1>2. << >> \in Seq(Nat) /\ "none" \in Ops
  BY DEF Ops
<1> QED
  BY <1>1, <1>2 DEF CallTypes, Return, Goto

LEMMA NoArrayTypes ==
  ASSUME PmrTypes, NEW p \in Pmrs, NoArray(p)
  PROVE  PmrTypes'
BY DEF PmrTypes, NoArray

LEMMA AllocFailedTypes ==
  ASSUME PmrTypes, CallTypes, NEW p \in Pmrs, AllocFailed(p)
  PROVE  PmrTypes' /\ CallTypes'
<1>1. CASE op[p] = "create"
  BY <1>1, ReturnTypes, NoArrayTypes DEF AllocFailed, Labels, Resting
<1>2. CASE op[p] = "pin"
  <2>1. Return(p, "evicted") /\ UNCHANGED <<kind, unpinned, mapVars>>
    BY <1>2 DEF AllocFailed
  <2> QED
    BY <2>1, ReturnTypes, PartsStay DEF Labels, Resting
<1>3. CASE op[p] \notin {"create", "pin"}
  <2>1. Return(p, "idle") /\ UNCHANGED <<kind, unpinned, mapVars>>
    BY <1>3 DEF AllocFailed
  <2> QED
    BY <2>1, ReturnTypes, PartsStay DEF Labels, Resting
<1> QED
  BY <1>1, <1>2, <1>3

LEMMA AllocDoneTypes ==
  ASSUME CallTypes, NEW p \in Pmrs, AllocDone(p)
  PROVE  CallTypes'
<1>1. CASE op[p] = "create"
  BY <1>1 DEF AllocDone, CallTypes, Goto, Labels
<1>2. CASE op[p] = "change"
  BY <1>2 DEF AllocDone, CallTypes, Goto, Labels
<1>3. CASE op[p] \notin {"create", "change"}
  <2>1. Return(p, "idle")
    BY <1>3 DEF AllocDone
  <2> QED
    BY <2>1, ReturnTypes DEF Labels, Resting
<1> QED
  BY <1>1, <1>2, <1>3

LEMMA FreeTypes ==
  ASSUME IInv, NEW p \in Pmrs, NEW slots \in SUBSET Index, Frees(p, slots),
         loaded' = loaded, leaked' = leaked
  PROVE  OsTypes' /\ TaskTypes' /\ PageTypes'
<1> DEFINE S == PagesIn(p, slots)
<1>1. /\ arr' = [arr EXCEPT ![p] = Cleared(arr[p], slots)]
      /\ num' = [num EXCEPT ![p] = num[p] - Cardinality(S)]
      /\ has_array' \in [Pmrs -> BOOLEAN]
      /\ ToTask(p, S) \/ (ToOs(S) /\ UNCHANGED taskVars)
  BY FreeEffect, Zenon
<1>2. Types /\ PagesInv /\ PmrInv(p)
  BY DEF IInv, PmrsInv
<1>3. S \subseteq Pages /\ IsFiniteSet(S)
  BY <1>2, PagesInCount
<1> HIDE DEF S
<1>4. Cardinality(S) \in Nat
  BY <1>3, FS_CardinalityType
<1>5. PageTypes'
  <2>1. Cleared(arr[p], slots) \in [Index -> Pages \cup {NoPage}]
    BY <1>2 DEF Cleared, Types
  <2>2. num[p] - Cardinality(S) \in Int
    BY <1>2, <1>4 DEF Types
  <2> QED
    BY <1>1, <1>2, <2>1, <2>2 DEF PageTypes, Types
<1>6. CASE ToTask(p, S)
  <2>1. OsTypes'
    BY <1>2, <1>6 DEF ToTask, OsTypes, Types
  <2>2. [mode |-> kind[p].mode, pages |-> S] \in [mode : Uncached, pages : SUBSET Pages]
    BY <1>3, <1>6 DEF ToTask
  <2>3. tasks \in Seq([mode : Uncached, pages : SUBSET Pages]) /\ clean_tasks = Len(tasks)
    BY <1>2 DEF Types
  <2>4. TaskTypes'
    BY <1>6, <2>2, <2>3 DEF ToTask, TaskTypes
  <2> QED
    BY <1>5, <2>1, <2>4
<1>7. CASE ToOs(S) /\ UNCHANGED taskVars
  <2>1. OsTypes'
    BY <1>2, <1>3, <1>7, ToOsTypes DEF OsTypes, Types
  <2> QED
    BY <1>2, <1>5, <1>7, <2>1, PartsStay, TypesParts
<1> QED
  BY <1>1, <1>6, <1>7

(* Slots that a request frees are slots of the array.                      *)
LEMMA LeavingSlots ==
  ASSUME IInv, NEW p \in Pmrs, At(p, "free")
  PROVE  /\ Leaving(p) \subseteq Index
         /\ op[p] # "change" => Leaving(p) = Index
         /\ op[p] = "change" => /\ Leaving(p) \subseteq valid[p] /\ IsFiniteSet(Leaving(p))
                                /\ Cardinality(Leaving(p)) = Len(chg[p].from)
<1>1. PmrInv(p) /\ Freeing(p) /\ Types
  BY DEF IInv, PmrsInv, PmrInv, At
<1>2. CASE op[p] = "change"
  <2>1. chg[p].from \in Seq(Nat) /\ IsInjective(chg[p].from)
        /\ \A n \in 1..Len(chg[p].from) : chg[p].from[n] \in valid[p]
    BY <1>1, <1>2 DEF Freeing, Changing, Types
  <2>2. Leaving(p) = Range(chg[p].from)
    BY <1>2 DEF Leaving
  <2>3. IsFiniteSet(Leaving(p)) /\ Cardinality(Leaving(p)) = Len(chg[p].from)
    BY <2>1, <2>2, RangeSize
  <2>4. Leaving(p) \subseteq valid[p] /\ valid[p] \subseteq Index
    BY <1>1, <2>1, <2>2 DEF Range, Types
  <2> QED
    BY <1>2, <2>3, <2>4
<1>3. CASE op[p] # "change"
  BY <1>3 DEF Leaving
<1> QED
  BY <1>2, <1>3

LEMMA FreeFrees ==
  ASSUME IInv, NEW p \in Pmrs, Free(p)
  PROVE  Frees(p, Leaving(p)) /\ Leaving(p) \in SUBSET Index
<1>1. At(p, "free") /\ _FreeOSPages(p, Leaving(p), op[p] = "change")
  BY DEF Free
<1>2. CASE op[p] = "change"
  <2>1. (op[p] = "change") = TRUE
    BY <1>2
  <2> QED
    BY <1>1, <1>2, <2>1, LeavingSlots DEF Frees
<1>3. CASE op[p] # "change"
  <2>1. (op[p] = "change") = FALSE
    BY <1>3
  <2> QED
    BY <1>1, <1>3, <2>1, LeavingSlots DEF Frees
<1> QED
  BY <1>2, <1>3

LEMMA ScanFrees ==
  ASSUME IInv, NEW p \in Pmrs, ScanUnpinned(p)
  PROVE  Frees(p, Index) /\ Index \in SUBSET Index
BY DEF ScanUnpinned, Frees

LEMMA HeadAndTail ==
  ASSUME NEW X, NEW s \in Seq(X), s # << >>
  PROVE  /\ Head(s) \in X /\ Tail(s) \in Seq(X) /\ Len(Tail(s)) = Len(s) - 1
         /\ Len(s) \in Nat \ {0}
OBVIOUS

LEMMA TaskDone ==
  ASSUME TaskTypes, tasks # << >>, tasks' = Tail(tasks), clean_tasks' = clean_tasks - 1
  PROVE  /\ TaskTypes' /\ Head(tasks) \in [mode : Uncached, pages : SUBSET Pages]
         /\ Len(tasks') = Len(tasks) - 1
<1> DEFINE X == [mode : Uncached, pages : SUBSET Pages]
<1>1. tasks \in Seq(X) /\ clean_tasks = Len(tasks) /\ Len(tasks) <= MaxTasks
  BY DEF TaskTypes
<1>2. MaxTasks \in Nat
  BY OsMemAssumption
<1> HIDE DEF X
<1>3. /\ Head(tasks) \in X /\ Tail(tasks) \in Seq(X) /\ Len(Tail(tasks)) = Len(tasks) - 1
      /\ Len(tasks) \in Nat
  BY <1>1, HeadAndTail
<1>4. tasks' \in Seq(X) /\ clean_tasks' = Len(tasks') /\ Len(tasks') <= MaxTasks
  BY <1>1, <1>2, <1>3
<1> QED
  BY <1>3, <1>4 DEF X, TaskTypes

LEMMA SharedTypes ==
  ASSUME IInv,
         \/ CleanToPool \/ CleanToOs \/ ScanPool \/ ScanEnds \/ LinuxDeinitPhysmem
         \/ \E p \in Pmrs : ScanUnpinned(p)
  PROVE  Types'
<1> USE DEF IInv
<1>1. /\ OsTypes /\ PoolTypes /\ TaskTypes /\ LruTypes /\ PmrTypes /\ PageTypes /\ CallTypes
      /\ Types
  BY TypesParts
<1>2. \A m \in Uncached : IsFiniteSet(pool[m])
  BY <1>1, PagesFinite, FS_Subset DEF PoolTypes
<1>3. MaxPool \in Nat /\ MaxExcess \in Nat
  BY OsMemAssumption
<1>4. CASE CleanToPool
  <2>1. /\ tasks # << >> /\ tasks' = Tail(tasks) /\ clean_tasks' = clean_tasks - 1
        /\ pool' = [pool EXCEPT ![Head(tasks).mode] = @ \cup Head(tasks).pages]
        /\ pool_count' = [pool_count EXCEPT ![Head(tasks).mode] =
                            @ + Cardinality(Head(tasks).pages)]
    BY <1>4 DEF CleanToPool
  <2>2. Head(tasks) \in [mode : Uncached, pages : SUBSET Pages]
    BY <1>1, <2>1, HeadAndTail DEF TaskTypes
  <2>3. Cardinality(Head(tasks).pages) \in Nat
    BY <2>2, PagesFinite, FS_Subset, FS_CardinalityType
  <2>4. PoolTypes'
    <3>1. Head(tasks).mode \in Uncached /\ Head(tasks).pages \subseteq Pages
      BY <2>2
    <3> QED
      BY <1>1, <2>1, <2>3, <3>1 DEF PoolTypes
  <2>5. TaskTypes'
    BY <1>1, <2>1, TaskDone
  <2>6. UNCHANGED <<loaded, osVars, lruVars, kind, pageVars, unpinned, mapVars, callVars>>
    BY <1>4 DEF CleanToPool
  <2> QED
    BY <1>1, <2>4, <2>5, <2>6, PartsStay, TypesNext
<1>5. CASE CleanToOs
  <2>1. PICK n \in Nat : /\ tasks # << >>
                         /\ _FreePagesFromPoolUnlocked(Drained(n), Head(tasks).pages)
    <3>1. _PagesInPoolUnlocked \in Int
      BY <1>1 DEF _PagesInPoolUnlocked, PoolTypes, Uncached
    <3> DEFINE n == IF _PagesInPoolUnlocked > MaxPool
                      THEN _PagesInPoolUnlocked - MaxPool \div 2 ELSE 0
    <3>2. n \in Nat
      <4>1. MaxPool \div 2 \in Nat /\ MaxPool \div 2 <= MaxPool
        BY <1>3
      <4> HIDE DEF _PagesInPoolUnlocked
      <4> QED
        BY <1>3, <3>1, <4>1
    <3>3. tasks # << >> /\ _FreePagesFromPoolUnlocked(Drained(n), Head(tasks).pages)
      BY <1>5 DEF CleanToOs
    <3> QED
      BY <3>2, <3>3
  <2>2. Head(tasks) \in [mode : Uncached, pages : SUBSET Pages]
    BY <1>1, <2>1, HeadAndTail DEF TaskTypes
  <2>3. Head(tasks).pages \subseteq Pages
    BY <2>2
  <2>4. \A m \in Uncached : Drained(n)[m] \subseteq pool[m] /\ IsFiniteSet(Drained(n)[m])
    BY <1>1, DrainedOf
  <2>5. /\ pool' \in [Uncached -> SUBSET Pages] /\ pool_count' \in [Uncached -> Int]
        /\ Drained(n)["uc"] \cup Drained(n)["wc"] \cup Head(tasks).pages \subseteq Pages
        /\ ToOs(Drained(n)["uc"] \cup Drained(n)["wc"] \cup Head(tasks).pages)
    BY <1>1, <2>1, <2>3, <2>4, DrainEffect
  <2>6. /\ tasks' = Tail(tasks) /\ clean_tasks' = clean_tasks - 1
        /\ UNCHANGED <<loaded, leaked, lruVars, kind, pageVars, unpinned, mapVars, callVars>>
    BY <1>5 DEF CleanToOs
  <2>7. OsTypes'
    BY <1>1, <2>5, <2>6, ToOsTypes DEF OsTypes
  <2>8. TaskTypes'
    BY <1>1, <2>1, <2>6, TaskDone
  <2>9. PoolTypes'
    BY <2>5 DEF PoolTypes
  <2> QED
    BY <1>1, <2>6, <2>7, <2>8, <2>9, PartsStay, TypesNext
<1>6. CASE ScanPool
  <2>1. PICK n \in Scans :
          LET gone == Drained(n)
              left == n - Cardinality(gone["uc"]) - Cardinality(gone["wc"])
          IN /\ _FreePagesFromPoolUnlocked(gone, {})
             /\ lock' = IF left = 0 THEN Nobody ELSE Shrinker
             /\ to_scan' = left
    BY <1>6 DEF ScanPool
  <2>2. n \in Nat
    BY OsMemAssumption
  <2> DEFINE gone == Drained(n)
             left == n - Cardinality(gone["uc"]) - Cardinality(gone["wc"])
  <2>3. /\ \A m \in Uncached :
             /\ gone[m] \subseteq pool[m] /\ IsFiniteSet(gone[m])
             /\ Cardinality(gone[m]) \in Nat
        /\ Cardinality(gone["uc"]) + Cardinality(gone["wc"]) <= n
    BY <1>1, <2>2, DrainedOf
  <2>4. Cardinality(gone["uc"]) \in Nat /\ Cardinality(gone["wc"]) \in Nat
    BY <2>3 DEF Uncached
  <2>5. /\ _FreePagesFromPoolUnlocked(gone, {})
        /\ lock' = IF left = 0 THEN Nobody ELSE Shrinker
        /\ to_scan' = left
    BY <2>1
  <2> HIDE DEF gone
  <2>6. /\ pool' \in [Uncached -> SUBSET Pages] /\ pool_count' \in [Uncached -> Int]
        /\ gone["uc"] \cup gone["wc"] \cup {} \subseteq Pages
        /\ ToOs(gone["uc"] \cup gone["wc"] \cup {})
    BY <1>1, <2>3, <2>5, DrainEffect
  <2>7. /\ UNCHANGED <<loaded, leaked, taskVars, unpin_list, unpin_count, kind, pageVars,
                      unpinned, mapVars, callVars>>
    BY <1>6 DEF ScanPool
  <2>8. OsTypes'
    BY <1>1, <2>6, <2>7, ToOsTypes DEF OsTypes
  <2>9. LruTypes'
    <3>1. to_scan' \in Nat
      BY <2>2, <2>3, <2>4, <2>5
    <3> QED
      BY <1>1, <2>5, <2>7, <3>1 DEF LruTypes
  <2>10. PoolTypes'
    BY <2>6 DEF PoolTypes
  <2> QED
    BY <1>1, <2>7, <2>8, <2>9, <2>10, PartsStay, TypesNext
<1>7. CASE ScanEnds
  <2>1. /\ lock' = Nobody /\ to_scan' = 0
        /\ UNCHANGED <<loaded, osVars, poolVars, taskVars, unpin_list, unpin_count, kind,
                       pageVars, unpinned, mapVars, callVars>>
    BY <1>7 DEF ScanEnds
  <2>2. LruTypes'
    BY <1>1, <2>1 DEF LruTypes
  <2> QED
    BY <1>1, <2>1, <2>2, PartsStay, TypesNext
<1>8. CASE LinuxDeinitPhysmem
  <2>1. /\ _FreePagesFromPoolUnlocked(pool, {}) /\ loaded' = FALSE
        /\ UNCHANGED <<leaked, taskVars, lruVars, kind, pageVars, unpinned, mapVars, callVars>>
    BY <1>8 DEF LinuxDeinitPhysmem
  <2>2. /\ pool' \in [Uncached -> SUBSET Pages] /\ pool_count' \in [Uncached -> Int]
        /\ pool["uc"] \cup pool["wc"] \cup {} \subseteq Pages
        /\ ToOs(pool["uc"] \cup pool["wc"] \cup {})
    BY <1>1, <1>2, <2>1, DrainEffect
  <2>3. OsTypes'
    BY <1>1, <2>1, <2>2, ToOsTypes DEF OsTypes
  <2>4. PoolTypes'
    BY <2>2 DEF PoolTypes
  <2> QED
    BY <1>1, <2>1, <2>3, <2>4, PartsStay, TypesNext
<1>9. ASSUME NEW p \in Pmrs, ScanUnpinned(p) PROVE Types'
  <2>1. loaded' = loaded /\ leaked' = leaked
        /\ UNCHANGED <<poolVars, kind, unpinned, mapVars, callVars>>
    BY <1>9 DEF ScanUnpinned
  <2>2. OsTypes' /\ TaskTypes' /\ PageTypes'
    <3>1. Frees(p, Index) /\ Index \in SUBSET Index
      BY <1>9, ScanFrees
    <3> QED
      BY <2>1, <3>1, FreeTypes
  <2>3. LruTypes'
    <3> DEFINE n == Least(num[p], kind[p].size)
    <3>1. n \in Int
      <4>1. num[p] \in Int /\ kind[p] \in Kinds \cup {NoKind}
        BY <1>1 DEF PageTypes, PmrTypes
      <4> QED
        BY <4>1, KindFacts DEF Least
    <3>2. /\ unpin_list' = unpin_list \ {p} /\ unpin_count' = unpin_count - n
          /\ lock' = (IF n < to_scan THEN Shrinker ELSE Nobody)
          /\ to_scan' = (IF n < to_scan THEN to_scan - n ELSE 0)
      BY <1>9 DEF ScanUnpinned
    <3> HIDE DEF n
    <3>3. IsFiniteSet(unpin_list')
      BY <1>1, <3>2, FS_RemoveElement DEF LruTypes
    <3> QED
      BY <1>1, <3>1, <3>2, <3>3 DEF LruTypes
  <2> QED
    BY <1>1, <2>1, <2>2, <2>3, PartsStay, TypesNext
<1> QED
  BY <1>4, <1>5, <1>6, <1>7, <1>8, <1>9

(* The two parts of a sequence.                                            *)
LEMMA Parts ==
  ASSUME NEW X, NEW s \in Seq(X), NEW d \in 0..Len(s)
  PROVE  /\ SubSeq(s, 1, d) \in Seq(X) /\ Len(SubSeq(s, 1, d)) = d
         /\ \A n \in 1..d : SubSeq(s, 1, d)[n] = s[n]
         /\ SubSeq(s, d + 1, Len(s)) \in Seq(X) /\ Len(SubSeq(s, d + 1, Len(s))) = Len(s) - d
         /\ \A n \in 1..(Len(s) - d) : SubSeq(s, d + 1, Len(s))[n] = s[d + n]
<1>1. Len(s) \in Nat /\ \A n \in 1..Len(s) : s[n] \in X
  OBVIOUS
<1>2. /\ SubSeq(s, 1, d) = [n \in 1..d |-> s[n]]
      /\ SubSeq(s, d + 1, Len(s)) = [n \in 1..(Len(s) - d) |-> s[d + n]]
  BY <1>1
<1> QED
  BY <1>1, <1>2

LEMMA ChangeParts ==
  ASSUME NEW c \in Changes
  PROVE  LET new == Len(c.alloc) - Common(c)
         IN /\ c.alloc \in Seq(Nat) /\ c.free \in Seq(Nat) /\ c.remap \in BOOLEAN
            /\ new \in 0..Len(c.alloc) /\ Len(c.alloc) - new <= Len(c.free)
            /\ NewSlots(c) \in Seq(Nat) /\ Len(NewSlots(c)) = new
            /\ \A n \in 1..new : NewSlots(c)[n] = c.alloc[n]
            /\ MovedTo(c) \in Seq(Nat) /\ Len(MovedTo(c)) = Len(c.alloc) - new
            /\ \A n \in 1..(Len(c.alloc) - new) : MovedTo(c)[n] = c.alloc[new + n]
<1> DEFINE new == Len(c.alloc) - Common(c)
<1>1. c.alloc \in Seq(Nat) /\ c.free \in Seq(Nat) /\ c.remap \in BOOLEAN
  BY OsMemAssumption
<1>2. Common(c) \in 0..Len(c.alloc) /\ Common(c) <= Len(c.free)
  BY <1>1 DEF Common, Least
<1>3. new \in 0..Len(c.alloc) /\ Len(c.alloc) - new = Common(c)
  BY <1>1, <1>2
<1>4. NewSlots(c) = SubSeq(c.alloc, 1, new) /\ MovedTo(c) = SubSeq(c.alloc, new + 1, Len(c.alloc))
  BY DEF NewSlots, MovedTo
<1> HIDE DEF new
<1> DEFINE s == c.alloc
           left == SubSeq(s, 1, new)
           right == SubSeq(s, new + 1, Len(s))
<1>5. s \in Seq(Nat) /\ new \in 0..Len(s)
  BY <1>1, <1>3
<1> HIDE DEF s
<1>6. /\ left \in Seq(Nat) /\ Len(left) = new /\ \A n \in 1..new : left[n] = s[n]
      /\ right \in Seq(Nat) /\ Len(right) = Len(s) - new
      /\ \A n \in 1..(Len(s) - new) : right[n] = s[new + n]
  BY <1>5, Parts
<1>7. NewSlots(c) = left /\ MovedTo(c) = right
  BY <1>4 DEF s
<1> HIDE DEF left, right
<1>8. /\ NewSlots(c) \in Seq(Nat) /\ Len(NewSlots(c)) = new
      /\ \A n \in 1..new : NewSlots(c)[n] = c.alloc[n]
  BY <1>6, <1>7 DEF s
<1>9. /\ MovedTo(c) \in Seq(Nat) /\ Len(MovedTo(c)) = Len(c.alloc) - new
      /\ \A n \in 1..(Len(c.alloc) - new) : MovedTo(c)[n] = c.alloc[new + n]
  BY <1>6, <1>7 DEF s
<1>10. Len(c.alloc) - new <= Len(c.free)
  BY <1>2, <1>3
<1> QED
  BY <1>1, <1>3, <1>8, <1>9, <1>10 DEF new

LEMMA BeginTypes ==
  ASSUME IInv, NEW p \in Pmrs, Begin(p)
  PROVE  Types'
<1> USE DEF IInv
<1>1. /\ OsTypes /\ PoolTypes /\ TaskTypes /\ LruTypes /\ PmrTypes /\ PageTypes /\ CallTypes
      /\ Types /\ PmrInv(p)
  BY TypesParts DEF PmrsInv
<1>2. {"alloc", "build", "free", "unpin", "move", "finalize", "none"} \subseteq Labels
      /\ {"create", "lock", "unlock", "unpin", "pin", "change", "finalize"} \subseteq Ops
  BY DEF Labels, Resting, Ops
<1>3. CASE Create(p)
  <2>1. PICK k \in Kinds : /\ kind' = [kind EXCEPT ![p] = k]
                           /\ ask' = [ask EXCEPT ![p] = k.first]
                           /\ Goto(p, IF k.ondemand \/ k.first = << >> THEN "build" ELSE "alloc")
    BY <1>3 DEF Create
  <2>2. /\ op' = [op EXCEPT ![p] = "create"] /\ has_array' = [has_array EXCEPT ![p] = TRUE]
        /\ UNCHANGED <<loaded, osVars, poolVars, taskVars, lruVars, arr, num, unpinned,
                       mapVars, tmp, chg>>
    BY <1>3 DEF Create
  <2>3. k.first \in Seq(Nat)
    BY KindFacts
  <2>4. CallTypes'
    BY <1>1, <1>2, <2>1, <2>2, <2>3 DEF CallTypes, Goto
  <2>5. PmrTypes'
    BY <1>1, <2>1, <2>2 DEF PmrTypes, mapVars
  <2>6. PageTypes'
    BY <1>1, <2>2 DEF PageTypes
  <2> QED
    BY <1>1, <2>2, <2>4, <2>5, <2>6, PartsStay, TypesNext
<1>4. ASSUME NEW l \in Labels, NEW o \in Ops, Goto(p, l), op' = [op EXCEPT ![p] = o],
             UNCHANGED ask \/ \E s \in Seq(Nat) : ask' = [ask EXCEPT ![p] = s],
             UNCHANGED <<tmp, chg>>
      PROVE  CallTypes'
  BY <1>1, <1>4 DEF CallTypes, Goto
<1>5. CASE Lock(p)
  <2>1. AllSlots(kind[p]) \in Seq(Nat)
    <3>1. kind[p].size \in Nat
      BY <1>1, KindFacts DEF PmrTypes
    <3> QED
      BY <3>1 DEF AllSlots
  <2>2. CallTypes'
    BY <1>2, <1>4, <1>5, <2>1 DEF Lock
  <2>3. UNCHANGED <<loaded, osVars, poolVars, taskVars, lruVars, kind, pageVars, unpinned,
                    mapVars>>
    BY <1>5 DEF Lock
  <2> QED
    BY <1>1, <2>2, <2>3, PartsStay, TypesNext
<1>6. CASE Unlock(p)
  <2>1. CallTypes'
    BY <1>2, <1>4, <1>6 DEF Unlock
  <2>2. UNCHANGED <<loaded, osVars, poolVars, taskVars, lruVars, kind, pageVars, unpinned,
                    mapVars>>
    BY <1>6 DEF Unlock
  <2> QED
    BY <1>1, <2>1, <2>2, PartsStay, TypesNext
<1>7. CASE Unpin(p)
  <2>1. CallTypes'
    BY <1>2, <1>4, <1>7 DEF Unpin
  <2>2. LruTypes'
    BY <1>1, <1>7 DEF Unpin, LruTypes
  <2>3. UNCHANGED <<loaded, osVars, poolVars, taskVars, kind, pageVars, unpinned, mapVars>>
    BY <1>7 DEF Unpin
  <2> QED
    BY <1>1, <2>1, <2>2, <2>3, PartsStay, TypesNext
<1>8. CASE Pin(p)
  <2>1. unpinned' = [unpinned EXCEPT ![p] = FALSE]
        /\ UNCHANGED <<loaded, osVars, poolVars, taskVars, lock, to_scan, kind, pageVars,
                       mapVars, tmp, chg>>
    BY <1>8 DEF Pin
  <2>2. PmrTypes'
    BY <1>1, <2>1 DEF PmrTypes, mapVars
  <2>3. CASE num[p] # 0
    <3>1. unpin_list' = unpin_list \ {p} /\ unpin_count' = unpin_count - num[p]
          /\ UNCHANGED <<pc, op, ask>>
      BY <1>8, <2>3 DEF Pin, _RemoveUnpinListEntryUnlocked
    <3>2. IsFiniteSet(unpin_list') /\ num[p] \in Int
      BY <1>1, <3>1, FS_RemoveElement DEF LruTypes, PageTypes
    <3>3. LruTypes'
      BY <1>1, <2>1, <3>1, <3>2 DEF LruTypes
    <3>4. CallTypes'
      BY <1>1, <2>1, <3>1, PartsStay DEF callVars
    <3> QED
      BY <1>1, <2>1, <2>2, <3>3, <3>4, PartsStay, TypesNext
  <2>4. CASE num[p] = 0
    <3>1. /\ Goto(p, "alloc") /\ op' = [op EXCEPT ![p] = "pin"]
          /\ ask' = [ask EXCEPT ![p] = IF kind[p].sparse THEN Listing(valid[p])
                                                         ELSE AllSlots(kind[p])]
          /\ UNCHANGED <<unpin_list, unpin_count>>
      BY <1>8, <2>4 DEF Pin
    <3>2. AllSlots(kind[p]) \in Seq(Nat) /\ Listing(valid[p]) \in Seq(Nat)
      <4>1. kind[p].size \in Nat /\ IsFiniteSet(valid[p]) /\ valid[p] \subseteq Nat
        BY <1>1, SlotFacts, IndexNat DEF PmrTypes
      <4>2. Listing(valid[p]) \in Seq(valid[p])
        BY <4>1, ListingOf
      <4> QED
        BY <4>1, <4>2 DEF AllSlots
    <3>3. CallTypes'
      BY <1>2, <1>4, <2>1, <3>1, <3>2
    <3>4. LruTypes'
      BY <1>1, <2>1, <3>1 DEF LruTypes
    <3> QED
      BY <1>1, <2>1, <2>2, <3>3, <3>4, PartsStay, TypesNext
  <2> QED
    BY <2>3, <2>4
<1>9. CASE Change(p)
  <2>1. PICK c \in Changes :
          /\ chg' = [chg EXCEPT ![p] = [to |-> MovedTo(c), from |-> c.free,
                                        remap |-> c.remap]]
          /\ ask' = [ask EXCEPT ![p] = NewSlots(c)]
          /\ Goto(p, IF NewSlots(c) = << >> THEN "move" ELSE "alloc")
    BY <1>9 DEF Change
  <2>2. /\ op' = [op EXCEPT ![p] = "change"]
        /\ UNCHANGED <<loaded, osVars, poolVars, taskVars, lruVars, kind, pageVars, unpinned,
                       mapVars, tmp>>
    BY <1>9 DEF Change
  <2>3. MovedTo(c) \in Seq(Nat) /\ NewSlots(c) \in Seq(Nat) /\ c.free \in Seq(Nat)
        /\ c.remap \in BOOLEAN
    BY ChangeParts
  <2>4. [to |-> MovedTo(c), from |-> c.free, remap |-> c.remap] \in
          [to : Seq(Nat), from : Seq(Nat), remap : BOOLEAN]
    BY <2>3
  <2>5. CallTypes'
    BY <1>1, <1>2, <2>1, <2>2, <2>3, <2>4 DEF CallTypes, Goto
  <2> QED
    BY <1>1, <2>2, <2>5, PartsStay, TypesNext
<1>10. CASE Finalize(p)
  <2>1. UNCHANGED <<loaded, osVars, poolVars, taskVars, lruVars, pageVars>>
    BY <1>10 DEF Finalize
  <2>2. CASE num[p] = 0
    <3>1. Return(p, "none") /\ NoArray(p)
      BY <1>10, <2>2 DEF Finalize
    <3> QED
      BY <1>1, <1>2, <2>1, <3>1, ReturnTypes, NoArrayTypes, PartsStay, TypesNext
  <2>3. CASE num[p] # 0
    <3>1. Goto(p, "finalize") /\ op' = [op EXCEPT ![p] = "finalize"]
          /\ UNCHANGED <<ask, tmp, chg, kind, unpinned, mapVars>>
      BY <1>10, <2>3 DEF Finalize
    <3>2. CallTypes'
      BY <1>2, <1>4, <3>1
    <3> QED
      BY <1>1, <2>1, <3>1, <3>2, PartsStay, TypesNext
  <2> QED
    BY <2>2, <2>3
<1> QED
  BY <1>3, <1>5, <1>6, <1>7, <1>8, <1>9, <1>10 DEF Begin

(* What _GetPagesFromPoolLocked takes.                                     *)
LEMMA GetEffect ==
  ASSUME IInv, NEW p \in Pmrs, _GetPagesFromPoolLocked(p)
  PROVE  \E got \in SUBSET Pages :
           /\ kind[p].mode \in Uncached /\ got \subseteq pool[kind[p].mode]
           /\ IsFiniteSet(got) /\ Cardinality(got) \in Nat /\ Cardinality(got) <= Len(ask[p])
           /\ tmp' = [tmp EXCEPT ![p] = got]
           /\ pool' = [pool EXCEPT ![kind[p].mode] = @ \ got]
           /\ pool_count' = [pool_count EXCEPT ![kind[p].mode] = @ - Cardinality(got)]
<1> DEFINE m == kind[p].mode
           S == pool[m]
           n == Least(Len(ask[p]), Cardinality(S))
           got == Some(S, n)
<1>1. m \in Uncached /\ ask[p] \in Seq(Nat) /\ S \subseteq Pages
  BY DEF IInv, Types, _GetPagesFromPoolLocked
<1>2. /\ tmp' = [tmp EXCEPT ![p] = got]
      /\ pool' = [pool EXCEPT ![m] = @ \ got]
      /\ pool_count' = [pool_count EXCEPT ![m] = @ - Cardinality(got)]
  BY DEF _GetPagesFromPoolLocked
<1> HIDE DEF S, m
<1>3. IsFiniteSet(S) /\ Cardinality(S) \in Nat
  BY <1>1, PagesFinite, FS_Subset, FS_CardinalityType
<1>4. n \in Nat /\ n <= Cardinality(S) /\ n <= Len(ask[p])
  BY <1>1, <1>3 DEF Least
<1> HIDE DEF n
<1>5. got \subseteq S /\ IsFiniteSet(got) /\ Cardinality(got) = n
  BY <1>3, <1>4, SomeOf
<1> HIDE DEF got
<1> QED
  BY <1>1, <1>2, <1>4, <1>5 DEF S, m

LEMMA ProceedTypes ==
  ASSUME IInv, NEW p \in Pmrs, Proceed(p) \/ ReclaimInUnpin(p)
  PROVE  Types'
<1> USE DEF IInv
<1>1. /\ OsTypes /\ PoolTypes /\ TaskTypes /\ LruTypes /\ PmrTypes /\ PageTypes /\ CallTypes
      /\ Types /\ PmrInv(p)
  BY TypesParts DEF PmrsInv
<1>2. {"alloc", "fill", "build", "free", "unpin", "reclaim", "listing", "move", "finalize",
       "none", "idle", "evicted"} \subseteq Labels
      /\ {"undo", "none"} \subseteq Ops
  BY DEF Labels, Resting, Ops
<1>3. ASSUME NEW l \in Labels, Goto(p, l), UNCHANGED <<op, ask, tmp, chg>> PROVE CallTypes'
  BY <1>1, <1>3 DEF CallTypes, Goto
<1>4. CASE AllocRefused(p)
  <2>1. AllocFailed(p)
        /\ UNCHANGED <<loaded, osVars, poolVars, taskVars, lruVars, pageVars>>
    BY <1>4 DEF AllocRefused
  <2> QED
    BY <1>1, <2>1, AllocFailedTypes, PartsStay, TypesNext
<1>5. CASE SkipPool(p)
  <2>1. CallTypes'
    BY <1>2, <1>3, <1>5 DEF SkipPool
  <2>2. UNCHANGED <<loaded, osVars, poolVars, taskVars, lruVars, kind, pageVars, unpinned,
                    mapVars>>
    BY <1>5 DEF SkipPool
  <2> QED
    BY <1>1, <2>1, <2>2, PartsStay, TypesNext
<1>6. CASE _GetPagesFromPoolLocked(p)
  <2>1. PICK got \in SUBSET Pages :
           /\ kind[p].mode \in Uncached
           /\ Cardinality(got) \in Nat
           /\ tmp' = [tmp EXCEPT ![p] = got]
           /\ pool' = [pool EXCEPT ![kind[p].mode] = @ \ got]
           /\ pool_count' = [pool_count EXCEPT ![kind[p].mode] = @ - Cardinality(got)]
    BY <1>6, GetEffect
  <2>2. Goto(p, "fill")
        /\ UNCHANGED <<loaded, osVars, taskVars, lruVars, kind, pageVars, unpinned, mapVars,
                       op, ask, chg>>
    BY <1>6 DEF _GetPagesFromPoolLocked
  <2>3. PoolTypes'
    BY <1>1, <2>1 DEF PoolTypes
  <2>4. CallTypes'
    BY <1>1, <1>2, <2>1, <2>2 DEF CallTypes, Goto
  <2> QED
    BY <1>1, <2>2, <2>3, <2>4, PartsStay, TypesNext
<1>7. CASE Fill(p)
  <2>1. /\ AllocDone(p)
        /\ UNCHANGED <<loaded, leaked, poolVars, taskVars, lruVars, kind, has_array, unpinned>>
        /\ num' = [num EXCEPT ![p] = @ + Len(ask[p])]
        /\ IF op[p] = "change"
             THEN /\ phys' = [phys EXCEPT ![p] = @ + Len(ask[p])]
                  /\ valid' = [valid EXCEPT ![p] = @ \cup Range(ask[p])]
             ELSE UNCHANGED mapVars
    BY <1>7 DEF Fill
  <2>2. PICK new, page : FillsWith(p, new, page)
    BY <1>7, FillEffect
  <2>3. Range(ask[p]) \subseteq Index
    <3>1. Range(ask[p]) \subseteq 1..kind[p].size
      BY <1>7, FillEffect
    <3> QED
      BY <1>1, <3>1, SlotFacts
  <2>4. tmp[p] \cup new \subseteq Pages
    BY <1>1, <2>2 DEF FillsWith, OsTypes, CallTypes
  <2>5. arr' \in [Pmrs -> [Index -> Pages \cup {NoPage}]]
    <3>1. \A i \in Index : (IF i \in Range(ask[p]) THEN page[i] ELSE arr[p][i])
                             \in Pages \cup {NoPage}
      BY <1>1, <2>2, <2>4 DEF FillsWith, PageTypes
    <3> QED
      BY <1>1, <2>2, <3>1 DEF FillsWith, PageTypes
  <2>6. Len(ask[p]) \in Nat
    BY <1>1 DEF CallTypes
  <2>7. PageTypes'
    <3>1. num' \in [Pmrs -> Int]
      BY <1>1, <2>1, <2>6 DEF PageTypes
    <3>2. has_array' \in [Pmrs -> BOOLEAN]
      BY <1>1, <2>1 DEF PageTypes
    <3> QED
      BY <2>5, <3>1, <3>2 DEF PageTypes
  <2>8. OsTypes'
    <3>1. kind[p].mode \in Uncached \cup {"wb"}
      BY <1>1, KindFacts DEF PmrTypes
    <3> QED
      BY <1>1, <2>1, <2>2, <3>1 DEF FillsWith, OsTypes, _ApplyOSPagesAttribute
  <2>9. PmrTypes'
    <3>1. kind' \in [Pmrs -> Kinds \cup {NoKind}] /\ unpinned' \in [Pmrs -> BOOLEAN]
      BY <1>1, <2>1 DEF PmrTypes
    <3>2. valid' \in [Pmrs -> SUBSET Index]
      BY <1>1, <2>1, <2>3 DEF PmrTypes, mapVars
    <3>3. phys' \in [Pmrs -> Int]
      BY <1>1, <2>1, <2>6 DEF PmrTypes, mapVars
    <3> QED
      BY <3>1, <3>2, <3>3 DEF PmrTypes
  <2>10. CallTypes'
    BY <1>1, <2>1, AllocDoneTypes
  <2> QED
    BY <1>1, <2>1, <2>7, <2>8, <2>9, <2>10, PartsStay, TypesNext
<1>8. CASE FillFails(p)
  <2>1. AllocFailed(p)
        /\ UNCHANGED <<loaded, leaked, poolVars, taskVars, lruVars, num, has_array>>
    BY <1>8, FailEffect DEF FillFails
  <2>2. arr' = arr /\ ToOs(tmp[p]) /\ tmp[p] \subseteq Pages
    BY <1>8, FailEffect
  <2>3. OsTypes'
    BY <1>1, <2>1, <2>2, ToOsTypes DEF OsTypes
  <2> QED
    BY <1>1, <2>1, <2>2, <2>3, AllocFailedTypes, PartsStay, TypesNext DEF pageVars
<1>9. CASE Build(p)
  <2>1. /\ valid' = [valid EXCEPT ![p] = Range(ask[p])]
        /\ phys' = [phys EXCEPT ![p] = Len(ask[p])]
        /\ Return(p, "idle")
        /\ UNCHANGED <<loaded, osVars, poolVars, taskVars, lruVars, kind, pageVars, unpinned>>
    BY <1>9 DEF Build
  <2>2. Range(ask[p]) \subseteq Index /\ Len(ask[p]) \in Nat
    <3>1. pc[p] = "build"
      BY <1>9 DEF Build, At
    <3>2. ask[p] = kind[p].first /\ kind[p] \in Kinds \cup {NoKind}
      BY <1>1, <3>1 DEF PmrInv, PmrTypes
    <3>3. /\ kind[p].first \in Seq(Nat) /\ 1..kind[p].size \subseteq Index
          /\ \A n \in 1..Len(kind[p].first) : kind[p].first[n] \in 1..kind[p].size
      BY <3>2, KindFacts
    <3>4. ask[p] \in Seq(Nat) /\ \A n \in 1..Len(ask[p]) : ask[p][n] \in Index
      BY <3>2, <3>3
    <3>5. DOMAIN ask[p] = 1..Len(ask[p]) /\ Len(ask[p]) \in Nat
      BY <3>4
    <3> QED
      BY <3>4, <3>5 DEF Range
  <2>3. PmrTypes'
    BY <1>1, <2>1, <2>2 DEF PmrTypes
  <2> QED
    BY <1>1, <1>2, <2>1, <2>3, ReturnTypes, PartsStay, TypesNext
<1>10. CASE BuildFails(p)
  <2>1. UNCHANGED <<loaded, osVars, poolVars, taskVars, lruVars, pageVars>>
    BY <1>10 DEF BuildFails
  <2>2. CASE kind[p].ondemand
    <3>1. Return(p, "none") /\ NoArray(p)
      BY <1>10, <2>2 DEF BuildFails
    <3> QED
      BY <1>1, <1>2, <2>1, <3>1, ReturnTypes, NoArrayTypes, PartsStay, TypesNext
  <2>3. CASE ~kind[p].ondemand
    <3>1. Goto(p, "free") /\ op' = [op EXCEPT ![p] = "undo"]
          /\ UNCHANGED <<ask, tmp, chg, kind, unpinned, mapVars>>
      BY <1>10, <2>3 DEF BuildFails
    <3>2. CallTypes'
      BY <1>1, <1>2, <3>1 DEF CallTypes, Goto
    <3> QED
      BY <1>1, <2>1, <3>1, <3>2, PartsStay, TypesNext
  <2> QED
    BY <2>2, <2>3
<1>11. CASE ScanStops(p) \/ ReclaimInUnpin(p)
  <2>1. CallTypes'
    BY <1>2, <1>3, <1>11 DEF ScanStops, ReclaimInUnpin
  <2>2. UNCHANGED <<loaded, osVars, poolVars, taskVars, lruVars, kind, pageVars, unpinned,
                    mapVars>>
    BY <1>11 DEF ScanStops, ReclaimInUnpin
  <2> QED
    BY <1>1, <2>1, <2>2, PartsStay, TypesNext
<1>12. CASE Unpinned(p)
  <2>1. /\ unpin_list' = unpin_list \cup {p} /\ unpin_count' = unpin_count + num[p]
        /\ unpinned' = [unpinned EXCEPT ![p] = TRUE]
        /\ lock' = Nobody /\ Return(p, "idle")
        /\ UNCHANGED <<loaded, osVars, poolVars, taskVars, to_scan, kind, pageVars, mapVars>>
    BY <1>12 DEF Unpinned, _AddUnpinListEntryUnlocked
  <2>2. IsFiniteSet(unpin_list') /\ num[p] \in Int
    BY <1>1, <2>1, FS_AddElement DEF LruTypes, PageTypes
  <2>3. LruTypes'
    BY <1>1, <2>1, <2>2 DEF LruTypes
  <2>4. PmrTypes'
    BY <1>1, <2>1 DEF PmrTypes, mapVars
  <2> QED
    BY <1>1, <1>2, <2>1, <2>3, <2>4, ReturnTypes, PartsStay, TypesNext
<1>13. CASE UnpinFails(p)
  <2>1. /\ lock' = Nobody /\ Return(p, "idle")
        /\ UNCHANGED <<loaded, osVars, poolVars, taskVars, unpin_list, unpin_count, to_scan,
                       kind, pageVars, unpinned, mapVars>>
    BY <1>13 DEF UnpinFails
  <2>2. LruTypes'
    BY <1>1, <2>1 DEF LruTypes
  <2> QED
    BY <1>1, <1>2, <2>1, <2>2, ReturnTypes, PartsStay, TypesNext
<1>14. CASE Move(p)
  <2> DEFINE i == Head(chg[p].to)
             j == Head(chg[p].from)
  <2>1. /\ chg[p].to # << >>
        /\ arr' = [arr EXCEPT ![p][i] = arr[p][j],
                              ![p][j] = IF chg[p].remap THEN arr[p][i] ELSE NoPage]
        /\ valid' = [valid EXCEPT ![p] = (IF chg[p].remap THEN @ \cup {j} ELSE @ \ {j}) \cup {i}]
        /\ chg' = [chg EXCEPT ![p] = [to |-> Tail(@.to), from |-> Tail(@.from), remap |-> @.remap]]
        /\ UNCHANGED <<loaded, osVars, poolVars, taskVars, lruVars, kind, num, has_array,
                       unpinned, phys, pc, op, ask, tmp>>
    BY <1>14 DEF Move
  <2>2. i \in Index /\ j \in Index /\ Tail(chg[p].to) \in Seq(Nat)
        /\ Tail(chg[p].from) \in Seq(Nat)
    <3>1. Changing(p) /\ valid[p] \subseteq Index
      BY <1>1, <1>14 DEF PmrInv, Move, At, PmrTypes
    <3>2. chg[p].to \in Seq(Nat) /\ chg[p].from \in Seq(Nat)
      BY <1>1 DEF CallTypes
    <3>3. chg[p].from # << >> /\ i = chg[p].to[1] /\ j = chg[p].from[1]
          /\ 1 \in 1..Len(chg[p].to) /\ 1 \in 1..Len(chg[p].from)
      BY <2>1, <3>1, <3>2 DEF Changing
    <3>4. i \in 1..kind[p].size /\ j \in valid[p]
      BY <3>1, <3>3 DEF Changing
    <3>5. 1..kind[p].size \subseteq Index
      BY <1>1, SlotFacts
    <3> HIDE DEF i, j
    <3> QED
      BY <2>1, <3>1, <3>2, <3>3, <3>4, <3>5, HeadAndTail
  <2> HIDE DEF i, j
  <2>3. PageTypes'
    <3>1. arr[p] \in [Index -> Pages \cup {NoPage}]
      BY <1>1 DEF PageTypes
    <3>2. arr' = [arr EXCEPT ![p] = [[arr[p] EXCEPT ![i] = arr[p][j]]
                     EXCEPT ![j] = IF chg[p].remap THEN arr[p][i] ELSE NoPage]]
      BY <1>1, <2>1 DEF PageTypes
    <3>3. [[arr[p] EXCEPT ![i] = arr[p][j]]
                     EXCEPT ![j] = IF chg[p].remap THEN arr[p][i] ELSE NoPage]
            \in [Index -> Pages \cup {NoPage}]
      BY <2>2, <3>1
    <3> DEFINE row == [[arr[p] EXCEPT ![i] = arr[p][j]]
                         EXCEPT ![j] = IF chg[p].remap THEN arr[p][i] ELSE NoPage]
    <3> HIDE DEF row
    <3>4. row \in [Index -> Pages \cup {NoPage}] /\ arr' = [arr EXCEPT ![p] = row]
      BY <3>2, <3>3 DEF row
    <3>5. arr' \in [Pmrs -> [Index -> Pages \cup {NoPage}]]
      BY <1>1, <3>4 DEF PageTypes
    <3>6. num' \in [Pmrs -> Int] /\ has_array' \in [Pmrs -> BOOLEAN]
      BY <1>1, <2>1 DEF PageTypes
    <3> QED
      BY <3>5, <3>6 DEF PageTypes
  <2>4. PmrTypes'
    BY <1>1, <2>1, <2>2 DEF PmrTypes
  <2>5. CallTypes'
    <3>1. chg' = [chg EXCEPT ![p] = [to |-> Tail(chg[p].to), from |-> Tail(chg[p].from),
                                     remap |-> chg[p].remap]]
      BY <1>1, <2>1 DEF CallTypes
    <3>2. [to |-> Tail(chg[p].to), from |-> Tail(chg[p].from), remap |-> chg[p].remap]
            \in [to : Seq(Nat), from : Seq(Nat), remap : BOOLEAN]
      BY <1>1, <2>2 DEF CallTypes
    <3> QED
      BY <1>1, <2>1, <3>1, <3>2 DEF CallTypes
  <2> QED
    BY <1>1, <2>1, <2>3, <2>4, <2>5, PartsStay, TypesNext
<1>15. CASE MovesDone(p)
  <2>1. UNCHANGED <<loaded, osVars, poolVars, taskVars, lruVars, kind, pageVars, unpinned,
                    mapVars>>
    BY <1>15 DEF MovesDone
  <2>2. CallTypes'
    <3>1. \/ Return(p, "idle")
          \/ Goto(p, "free") /\ UNCHANGED <<op, ask, tmp, chg>>
      BY <1>15 DEF MovesDone
    <3> QED
      BY <1>1, <1>2, <1>3, <3>1, ReturnTypes
  <2> QED
    BY <1>1, <2>1, <2>2, PartsStay, TypesNext
<1>16. CASE FinalizeUnlists(p)
  <2>1. Goto(p, "free")
        /\ UNCHANGED <<loaded, osVars, poolVars, taskVars, lock, to_scan, kind, pageVars,
                       unpinned, mapVars, op, ask, tmp, chg>>
    BY <1>16 DEF FinalizeUnlists
  <2>2. LruTypes'
    <3>1. \/ unpin_list' = unpin_list \ {p} /\ unpin_count' = unpin_count - num[p]
          \/ UNCHANGED <<unpin_list, unpin_count>>
      BY <1>16 DEF FinalizeUnlists, _RemoveUnpinListEntryUnlocked
    <3>2. IsFiniteSet(unpin_list \ {p}) /\ num[p] \in Int
      BY <1>1, FS_RemoveElement DEF LruTypes, PageTypes
    <3> QED
      BY <1>1, <2>1, <3>1, <3>2 DEF LruTypes
  <2>3. CallTypes'
    BY <1>2, <1>3, <2>1
  <2> QED
    BY <1>1, <2>1, <2>2, <2>3, PartsStay, TypesNext
<1>17. CASE Free(p)
  <2>1. UNCHANGED <<loaded, leaked, poolVars, lruVars>> /\ At(p, "free")
    BY <1>17 DEF Free
  <2>2. OsTypes' /\ TaskTypes' /\ PageTypes'
    BY <1>17, <2>1, FreeFrees, FreeTypes
  <2>3. CASE op[p] = "change"
    <3>1. /\ phys' = [phys EXCEPT ![p] = @ - Cardinality(Leaving(p))]
          /\ valid' = [valid EXCEPT ![p] = @ \ Leaving(p)]
          /\ Return(p, "idle") /\ UNCHANGED <<kind, unpinned>>
      BY <1>17, <2>3 DEF Free
    <3>2. Cardinality(Leaving(p)) \in Nat
      <4>1. IsFiniteSet(Leaving(p))
        BY <2>1, <2>3, LeavingSlots
      <4> QED
        BY <4>1, FS_CardinalityType
    <3>3. PmrTypes'
      BY <1>1, <3>1, <3>2 DEF PmrTypes
    <3> QED
      BY <1>1, <1>2, <2>1, <2>2, <3>1, <3>3, ReturnTypes, PartsStay, TypesNext
  <2>4. CASE op[p] = "unlock"
    <3>1. Return(p, "idle") /\ UNCHANGED <<kind, unpinned, mapVars>>
      BY <1>17, <2>4 DEF Free
    <3> QED
      BY <1>1, <1>2, <2>1, <2>2, <3>1, ReturnTypes, PartsStay, TypesNext
  <2>5. CASE op[p] \notin {"change", "unlock"}
    <3>1. Return(p, "none") /\ NoArray(p)
      BY <1>17, <2>5 DEF Free
    <3> QED
      BY <1>1, <1>2, <2>1, <2>2, <3>1, ReturnTypes, NoArrayTypes, PartsStay, TypesNext
  <2> QED
    BY <2>3, <2>4, <2>5
<1>18. CASE FreeFails(p)
  <2>1. UNCHANGED <<loaded, os_free, attr, poolVars, taskVars, lruVars, has_array>>
    BY <1>18 DEF FreeFails
  <2>2. CASE op[p] = "change"
    <3>1. Return(p, "idle") /\ UNCHANGED <<leaked, arr, num, kind, unpinned, mapVars>>
      BY <1>18, <2>2 DEF FreeFails
    <3> QED
      BY <1>1, <1>2, <2>1, <3>1, ReturnTypes, PartsStay, TypesNext DEF osVars, pageVars
  <2>3. CASE op[p] # "change"
    <3>1. /\ Return(p, "none") /\ NoArray(p)
          /\ leaked' = leaked \cup Held(p)
          /\ arr' = [arr EXCEPT ![p] = [i \in Index |-> NoPage]]
          /\ num' = [num EXCEPT ![p] = 0]
      BY <1>18, <2>3 DEF FreeFails
    <3>2. Held(p) \subseteq Pages
      BY <1>1 DEF Held, PagesIn, PageTypes
    <3>3. OsTypes'
      BY <1>1, <2>1, <3>1, <3>2 DEF OsTypes
    <3>4. PageTypes'
      BY <1>1, <2>1, <3>1 DEF PageTypes
    <3> QED
      BY <1>1, <1>2, <2>1, <3>1, <3>3, <3>4, ReturnTypes, NoArrayTypes, PartsStay, TypesNext
  <2> QED
    BY <2>2, <2>3
<1> QED
  BY <1>4, <1>5, <1>6, <1>7, <1>8, <1>9, <1>10, <1>11, <1>12, <1>13, <1>14, <1>15, <1>16,
     <1>17, <1>18 DEF Proceed

LEMMA NextTypes == IInv /\ [Next]_vars => Types'
<1> SUFFICES ASSUME IInv, [Next]_vars PROVE Types'
  OBVIOUS
<1>1. CASE UNCHANGED vars
  BY <1>1, TypesParts, TypesNext, PartsStay DEF IInv, vars
<1>2. CASE Next
  BY <1>2, SharedTypes, BeginTypes, ProceedTypes DEF Next, Scan
<1> QED
  BY <1>1, <1>2

-----------------------------------------------------------------------------
(* A step keeps what is true of each PMR and its operation.                *)

SamePmr(p) ==
  /\ kind'[p] = kind[p] /\ unpinned'[p] = unpinned[p]
  /\ arr'[p] = arr[p] /\ num'[p] = num[p]
  /\ valid'[p] = valid[p] /\ phys'[p] = phys[p]
  /\ pc'[p] = pc[p] /\ op'[p] = op[p] /\ ask'[p] = ask[p] /\ tmp'[p] = tmp[p]
  /\ chg'[p] = chg[p]

LEMMA PmrFrame ==
  ASSUME NEW p \in Pmrs, PmrInv(p), SamePmr(p)
  PROVE  PmrInv(p)'
<1>1. Filled(p)' = Filled(p)
  BY DEF Filled, SamePmr
<1>2. Changing(p)' <=> Changing(p)
  BY <1>1 DEF Changing, SamePmr
<1>3. Settled(p)' <=> Settled(p)
  BY <1>1 DEF Settled, SamePmr
<1>4. Asking(p)' <=> Asking(p)
  BY <1>1, <1>2 DEF Asking, SamePmr
<1>5. Freeing(p)' <=> Freeing(p)
  BY <1>1, <1>2 DEF Freeing, SamePmr
<1> QED
  BY <1>1, <1>2, <1>3, <1>4, <1>5 DEF PmrInv, SamePmr

(* The counts of a PMR are right.                                          *)
Counted(p) ==
  /\ Filled(p) \subseteq 1..kind[p].size /\ num[p] = Cardinality(Filled(p))
  /\ valid[p] \subseteq 1..kind[p].size /\ phys[p] = Cardinality(valid[p])

LEMMA CountedStays ==
  ASSUME NEW p \in Pmrs, PmrInv(p), arr'[p] = arr[p], num'[p] = num[p],
         valid'[p] = valid[p], phys'[p] = phys[p], kind'[p] = kind[p]
  PROVE  Counted(p)' /\ Filled(p)' = Filled(p)
BY DEF Counted, PmrInv, Filled

(* The ends of an operation.                                               *)
LEMMA BackToIdle ==
  ASSUME Types, NEW p \in Pmrs, PmrInv(p), pc[p] # "none", kind'[p] = kind[p],
         Return(p, "idle"), Counted(p)', Settled(p)'
  PROVE  PmrInv(p)'
<1>1. pc'[p] = "idle" /\ tmp'[p] = {}
  BY DEF Return, Goto, Types
<1>2. kind'[p] # NoKind
  BY DEF PmrInv
<1> QED
  BY <1>1, <1>2 DEF PmrInv, Counted, Unpinning

LEMMA BackToNone ==
  ASSUME Types, NEW p \in Pmrs, Return(p, "none"), NoArray(p), Filled(p)' = {}, num'[p] = 0
  PROVE  PmrInv(p)'
<1>1. pc'[p] = "none" /\ tmp'[p] = {} /\ kind'[p] = NoKind /\ valid'[p] = {} /\ phys'[p] = 0
  BY DEF Return, Goto, NoArray, Types
<1>2. ~unpinned'[p]
  BY DEF NoArray, Types
<1>3. Cardinality({}) = 0
  BY FS_EmptySet
<1> QED
  BY <1>1, <1>2, <1>3 DEF PmrInv, Unpinning

LEMMA KindSorts ==
  ASSUME NEW k \in Kinds
  PROVE  /\ ~k.sparse => Range(k.first) = 1..k.size
         /\ ~(k.sparse /\ k.ondemand)
<1>1. ~k.sparse => k.first = [i \in 1..k.size |-> i]
  BY OsMemAssumption
<1>2. ~(k.sparse /\ k.ondemand)
  BY OsMemAssumption
<1>3. ASSUME ~k.sparse PROVE Range(k.first) = 1..k.size
  <2>1. DOMAIN k.first = 1..k.size /\ \A i \in 1..k.size : k.first[i] = i
    BY <1>1, <1>3
  <2>2. {k.first[i] : i \in 1..k.size} = 1..k.size
    BY <2>1
  <2> QED
    BY <2>1, <2>2 DEF Range
<1> QED
  BY <1>2, <1>3

LEMMA AllSlotsFacts ==
  ASSUME NEW k \in Kinds
  PROVE  /\ AllSlots(k) \in Seq(Nat) /\ Len(AllSlots(k)) = k.size
         /\ IsInjective(AllSlots(k)) /\ Range(AllSlots(k)) = 1..k.size
<1>1. k.size \in Nat
  BY OsMemAssumption
<1> QED
  BY <1>1 DEF AllSlots, IsInjective, Range

(* What is left of a PMR when an allocation fails.                         *)
LEMMA AllocFailedPmr ==
  ASSUME IInv, NEW p \in Pmrs, pc[p] \in {"alloc", "fill"}, AllocFailed(p),
         arr' = arr, num' = num
  PROVE  PmrInv(p)'
<1>1. Types /\ PmrInv(p) /\ Asking(p) /\ ~unpinned[p]
  BY DEF IInv, PmrsInv, PmrInv
<1>2. kind[p] \in Kinds
  BY <1>1 DEF PmrInv, Types
<1>3. Filled(p)' = Filled(p)
  BY DEF Filled
<1>4. op[p] # "change" => Filled(p) = {} /\ num[p] = 0
  BY <1>1, SlotFacts DEF Asking
<1>5. CASE op[p] = "create"
  BY <1>1, <1>3, <1>4, <1>5, BackToNone DEF AllocFailed
<1>6. CASE op[p] = "pin"
  <2>1. Return(p, "evicted") /\ UNCHANGED <<kind, unpinned, mapVars>>
    BY <1>6 DEF AllocFailed
  <2>2. pc'[p] = "evicted" /\ tmp'[p] = {}
    BY <1>1, <2>1 DEF Return, Goto, Types
  <2>3. Counted(p)'
    BY <1>1, <2>1, CountedStays DEF mapVars
  <2> QED
    BY <1>1, <1>4, <1>6, <2>1, <2>2, <2>3 DEF PmrInv, Counted, Unpinning
<1>7. CASE op[p] \notin {"create", "pin"}
  <2>1. Return(p, "idle") /\ UNCHANGED <<kind, unpinned, mapVars>>
    BY <1>7 DEF AllocFailed
  <2>2. Counted(p)'
    BY <1>1, <2>1, CountedStays DEF mapVars
  <2>3. Settled(p)
    <3>1. CASE op[p] = "lock"
      BY <1>1, <1>2, <1>4, <3>1, KindSorts DEF Asking, Settled
    <3>2. CASE op[p] = "change"
      BY <1>1, <1>2, <3>2, KindSorts DEF Asking, Changing, Settled
    <3> QED
      BY <1>1, <1>7, <3>1, <3>2 DEF Asking
  <2>4. Settled(p)'
    BY <1>3, <2>1, <2>3 DEF Settled, mapVars
  <2> QED
    BY <1>1, <2>1, <2>2, <2>4, BackToIdle DEF PmrInv
<1> QED
  BY <1>5, <1>6, <1>7

LEMMA ChangeChecked ==
  ASSUME Types, Misuse = {}, NEW p \in Pmrs, PmrInv(p), pc[p] = "idle", kind[p].sparse,
         ~unpinned[p], NEW c \in Changes, ChangeValid(p, c),
         Range(NewSlots(c)) \cap Filled(p) = {},
         chg'[p] = [to |-> MovedTo(c), from |-> c.free, remap |-> c.remap],
         ask'[p] = NewSlots(c), arr'[p] = arr[p], valid'[p] = valid[p], kind'[p] = kind[p]
  PROVE  /\ Changing(p)' /\ IsInjective(ask'[p])
         /\ \A n \in 1..Len(ask'[p]) : ask'[p][n] \notin Filled(p)
         /\ \A n \in 1..Len(ask'[p]), l \in 1..Len(chg'[p].to) : ask'[p][n] # chg'[p].to[l]
<1> DEFINE new == Len(c.alloc) - Common(c)
<1>1. /\ c.alloc \in Seq(Nat) /\ c.free \in Seq(Nat) /\ c.remap \in BOOLEAN
      /\ new \in 0..Len(c.alloc) /\ Len(c.alloc) - new <= Len(c.free)
      /\ NewSlots(c) \in Seq(Nat) /\ Len(NewSlots(c)) = new
      /\ \A n \in 1..new : NewSlots(c)[n] = c.alloc[n]
      /\ MovedTo(c) \in Seq(Nat) /\ Len(MovedTo(c)) = Len(c.alloc) - new
      /\ \A n \in 1..(Len(c.alloc) - new) : MovedTo(c)[n] = c.alloc[new + n]
  BY ChangeParts
<1> HIDE DEF new
<1>2. IsInjective(c.alloc) /\ IsInjective(c.free)
  BY OsMemAssumption
<1>3. \A n, l \in 1..Len(c.alloc) : c.alloc[n] = c.alloc[l] => n = l
  BY <1>1, <1>2 DEF IsInjective
<1>4. IsInjective(NewSlots(c))
  <2>1. DOMAIN NewSlots(c) = 1..new /\ \A n \in 1..new : n \in 1..Len(c.alloc)
    BY <1>1
  <2> QED
    BY <1>1, <1>3, <2>1 DEF IsInjective
<1>5. \A n \in 1..(Len(c.alloc) - new) : new + n \in 1..Len(c.alloc)
  BY <1>1
<1>6. IsInjective(MovedTo(c))
  <2>1. DOMAIN MovedTo(c) = 1..(Len(c.alloc) - new)
    BY <1>1
  <2>2. ASSUME NEW n \in 1..(Len(c.alloc) - new), NEW l \in 1..(Len(c.alloc) - new),
               MovedTo(c)[n] = MovedTo(c)[l]
        PROVE  n = l
    <3>1. c.alloc[new + n] = c.alloc[new + l]
      BY <1>1, <2>2
    <3>2. new + n = new + l
      BY <1>3, <1>5, <3>1
    <3> QED
      BY <1>1, <3>2
  <2> QED
    BY <2>1, <2>2 DEF IsInjective
<1>7. \A n \in 1..new, l \in 1..(Len(c.alloc) - new) : NewSlots(c)[n] # MovedTo(c)[l]
  <2> SUFFICES ASSUME NEW n \in 1..new, NEW l \in 1..(Len(c.alloc) - new)
               PROVE  NewSlots(c)[n] # MovedTo(c)[l]
    OBVIOUS
  <2>1. new \in 0..Len(c.alloc) /\ Len(c.alloc) \in Nat
    BY <1>1
  <2>2. n \in 1..Len(c.alloc) /\ new + l \in 1..Len(c.alloc) /\ n # new + l
    BY <2>1
  <2>3. c.alloc[n] # c.alloc[new + l]
    BY <1>3, <2>2
  <2> QED
    BY <1>1, <2>3
<1>8. kind[p] \in Kinds
  BY DEF PmrInv, Types
<1>9. valid[p] = Filled(p) /\ Filled(p)' = Filled(p)
  BY <1>8, KindSorts DEF PmrInv, Settled, Filled
<1>10. \A n \in 1..Len(c.free) : c.free[n] \in Range(c.free)
  BY <1>1 DEF Range
<1>11. \A n \in 1..Len(c.free) : c.free[n] \in valid[p]
  BY <1>9, <1>10 DEF ChangeValid
<1>12. \A n \in 1..Len(MovedTo(c)) : MovedTo(c)[n] \in Range(MovedTo(c))
  <2>1. DOMAIN MovedTo(c) = 1..Len(MovedTo(c))
    BY <1>1
  <2> QED
    BY <2>1 DEF Range
<1>13. \A n \in 1..Len(MovedTo(c)) : /\ MovedTo(c)[n] \in 1..kind[p].size
                                     /\ (MovedTo(c)[n] \in valid[p]) = c.remap
  BY <1>12 DEF ChangeValid
<1>14. \A n \in 1..Len(NewSlots(c)) : NewSlots(c)[n] \in Range(NewSlots(c))
  <2>1. DOMAIN NewSlots(c) = 1..Len(NewSlots(c))
    BY <1>1
  <2> QED
    BY <2>1 DEF Range
<1>15. /\ chg'[p].to = MovedTo(c) /\ chg'[p].from = c.free /\ chg'[p].remap = c.remap
  OBVIOUS
<1>16. \A n \in 1..Len(MovedTo(c)) : MovedTo(c)[n] \in valid[p] <=> c.remap
  BY <1>13
<1>17. Changing(p)'
  <2>1. Len(chg'[p].to) <= Len(chg'[p].from)
    BY <1>1, <1>15
  <2>2. IsInjective(chg'[p].to) /\ IsInjective(chg'[p].from)
    BY <1>2, <1>6, <1>15
  <2> QED
    BY <1>9, <1>11, <1>13, <1>15, <1>16, <2>1, <2>2 DEF Changing
<1>18. Len(chg'[p].to) = Len(c.alloc) - new
  BY <1>1, <1>15
<1>19. IsInjective(ask'[p]) /\ \A n \in 1..Len(ask'[p]) : ask'[p][n] \notin Filled(p)
  BY <1>4, <1>14
<1>20. \A n \in 1..Len(ask'[p]), l \in 1..Len(chg'[p].to) : ask'[p][n] # chg'[p].to[l]
  <2> SUFFICES ASSUME NEW n \in 1..Len(ask'[p]), NEW l \in 1..Len(chg'[p].to)
               PROVE  ask'[p][n] # chg'[p].to[l]
    OBVIOUS
  <2>1. n \in 1..new /\ l \in 1..(Len(c.alloc) - new)
    BY <1>1, <1>18
  <2> QED
    BY <1>7, <1>15, <2>1
<1> QED
  BY <1>17, <1>19, <1>20

LEMMA BeginPmr ==
  ASSUME IInv, Misuse = {}, NEW p \in Pmrs, Begin(p)
  PROVE  PmrInv(p)'
<1>1. Types /\ PmrInv(p)
  BY DEF IInv, PmrsInv
<1>2. pc[p] # "none" => kind[p] \in Kinds
  BY <1>1 DEF PmrInv, Types
<1>3. ASSUME NEW l, NEW o, Goto(p, l), op' = [op EXCEPT ![p] = o],
             UNCHANGED <<kind, pageVars, mapVars, tmp, chg>>
      PROVE  /\ pc'[p] = l /\ op'[p] = o /\ Counted(p)' /\ Filled(p)' = Filled(p)
             /\ tmp'[p] = tmp[p] /\ kind'[p] = kind[p] /\ valid'[p] = valid[p]
             /\ num'[p] = num[p]
  BY <1>1, <1>3, CountedStays DEF Goto, Types, pageVars, mapVars
<1>4. CASE Create(p)
  <2>1. PICK k \in Kinds : /\ kind' = [kind EXCEPT ![p] = k]
                           /\ ask' = [ask EXCEPT ![p] = k.first]
                           /\ Goto(p, IF k.ondemand \/ k.first = << >> THEN "build" ELSE "alloc")
    BY <1>4 DEF Create
  <2>2. /\ op' = [op EXCEPT ![p] = "create"]
        /\ UNCHANGED <<arr, num, unpinned, mapVars, tmp>> /\ pc[p] = "none"
    BY <1>4 DEF Create, At
  <2>3. Filled(p) = {} /\ num[p] = 0 /\ ~unpinned[p] /\ valid[p] = {} /\ phys[p] = 0
    <3>1. num[p] = 0 /\ ~unpinned[p] /\ kind[p] = NoKind
      BY <1>1, <2>2 DEF PmrInv
    <3>2. Filled(p) = {}
      BY <1>1, <3>1, SlotFacts
    <3>3. valid[p] = {} /\ phys[p] = Cardinality(valid[p])
      BY <1>1, <3>1 DEF PmrInv, NoKind
    <3> QED
      BY <3>1, <3>2, <3>3, FS_EmptySet
  <2>4. /\ kind'[p] = k /\ ask'[p] = k.first /\ op'[p] = "create" /\ Filled(p)' = {}
        /\ pc'[p] = (IF k.ondemand \/ k.first = << >> THEN "build" ELSE "alloc")
        /\ valid'[p] = {} /\ phys'[p] = 0 /\ num'[p] = 0 /\ tmp'[p] = tmp[p]
        /\ unpinned'[p] = unpinned[p]
    BY <1>1, <2>1, <2>2, <2>3 DEF Types, Goto, Filled, mapVars
  <2>5. Counted(p)'
    BY <2>4, FS_EmptySet DEF Counted
  <2>6. k # NoKind /\ IsInjective(k.first)
    <3>1. k.size # 0 /\ IsInjective(k.first)
      BY KindFacts, OsMemAssumption
    <3> QED
      BY <3>1 DEF NoKind
  <2>7. CASE k.ondemand \/ k.first = << >>
    <3>1. Filled(p)' = IF kind'[p].ondemand THEN {} ELSE Range(ask'[p])
      BY <2>4, <2>7 DEF Range
    <3> QED
      BY <1>1, <2>2, <2>3, <2>4, <2>5, <2>6, <2>7, <3>1 DEF PmrInv, Counted, Unpinning
  <2>8. CASE ~(k.ondemand \/ k.first = << >>)
    <3>1. Asking(p)'
      BY <2>4, <2>6, <2>8 DEF Asking
    <3> QED
      BY <1>1, <2>2, <2>3, <2>4, <2>5, <2>6, <2>8, <3>1 DEF PmrInv, Counted, Unpinning
  <2> QED
    BY <2>7, <2>8
<1>5. CASE Lock(p)
  <2>1. /\ pc[p] = "idle" /\ kind[p].ondemand /\ num[p] = 0
        /\ ask' = [ask EXCEPT ![p] = AllSlots(kind[p])]
        /\ op' = [op EXCEPT ![p] = "lock"] /\ Goto(p, "alloc")
        /\ UNCHANGED <<kind, pageVars, unpinned, mapVars, tmp, chg>>
    BY <1>5 DEF Lock, At
  <2>2. Settled(p) /\ tmp[p] = {} /\ kind[p] \in Kinds /\ Filled(p) = {}
    BY <1>1, <1>2, <2>1, SlotFacts DEF PmrInv
  <2>3. valid[p] = 1..kind[p].size /\ ~unpinned[p]
    BY <2>1, <2>2, KindSorts DEF Settled
  <2>4. /\ ask'[p] = AllSlots(kind[p]) /\ IsInjective(ask'[p]) /\ Range(ask'[p]) = valid[p]
    BY <1>1, <2>1, <2>2, <2>3, AllSlotsFacts DEF Types
  <2>5. /\ pc'[p] = "alloc" /\ op'[p] = "lock" /\ Counted(p)' /\ Filled(p)' = Filled(p)
        /\ tmp'[p] = tmp[p] /\ kind'[p] = kind[p] /\ valid'[p] = valid[p]
    BY <1>3, <2>1
  <2>6. Asking(p)'
    BY <2>1, <2>2, <2>3, <2>4, <2>5 DEF Asking
  <2> QED
    BY <1>1, <2>1, <2>2, <2>3, <2>5, <2>6 DEF PmrInv, Counted, Unpinning
<1>6. CASE Unlock(p)
  <2>1. /\ pc[p] = "idle" /\ kind[p].ondemand /\ num[p] # 0
        /\ op' = [op EXCEPT ![p] = "unlock"] /\ Goto(p, "free")
        /\ UNCHANGED <<kind, pageVars, unpinned, mapVars, ask, tmp, chg>>
    BY <1>6 DEF Unlock, At
  <2>2. Settled(p) /\ tmp[p] = {} /\ kind[p] \in Kinds
    BY <1>1, <1>2, <2>1 DEF PmrInv
  <2>3. valid[p] = 1..kind[p].size /\ ~unpinned[p] /\ valid[p] = Filled(p)
    BY <2>1, <2>2, KindSorts DEF Settled
  <2>4. /\ pc'[p] = "free" /\ op'[p] = "unlock" /\ Counted(p)' /\ Filled(p)' = Filled(p)
        /\ tmp'[p] = tmp[p] /\ kind'[p] = kind[p] /\ valid'[p] = valid[p]
    BY <1>3, <2>1
  <2>5. Freeing(p)'
    BY <2>1, <2>3, <2>4 DEF Freeing
  <2> QED
    BY <1>1, <2>1, <2>2, <2>4, <2>5 DEF PmrInv, Counted, Unpinning
<1>7. CASE Unpin(p)
  <2>1. /\ pc[p] = "idle" /\ num[p] # 0 /\ ~unpinned[p] /\ ~kind[p].ondemand
        /\ op' = [op EXCEPT ![p] = "unpin"] /\ Goto(p, "unpin")
        /\ UNCHANGED <<kind, pageVars, unpinned, mapVars, ask, tmp, chg>>
    BY <1>7 DEF Unpin
  <2>2. Settled(p) /\ tmp[p] = {}
    BY <1>1, <2>1 DEF PmrInv
  <2>3. /\ pc'[p] = "unpin" /\ op'[p] = "unpin" /\ Counted(p)' /\ Filled(p)' = Filled(p)
        /\ tmp'[p] = tmp[p] /\ kind'[p] = kind[p] /\ valid'[p] = valid[p] /\ num'[p] = num[p]
    BY <1>3, <2>1
  <2>4. Settled(p)'
    BY <2>1, <2>2, <2>3 DEF Settled
  <2> QED
    BY <1>1, <2>1, <2>2, <2>3, <2>4 DEF PmrInv, Counted, Unpinning
<1>8. CASE Pin(p)
  <2>1. /\ pc[p] = "idle" /\ unpinned[p] /\ unpinned' = [unpinned EXCEPT ![p] = FALSE]
        /\ UNCHANGED <<kind, pageVars, mapVars, tmp, chg>>
    BY <1>8 DEF Pin, At
  <2>2. Settled(p) /\ tmp[p] = {} /\ kind[p] \in Kinds /\ ~kind[p].ondemand
    BY <1>1, <1>2, <2>1 DEF PmrInv, Settled
  <2>3. ~unpinned'[p]
    BY <1>1, <2>1 DEF Types
  <2>4. CASE num[p] # 0
    <3>1. UNCHANGED <<pc, op, ask>>
      BY <1>8, <2>4 DEF Pin
    <3>2. Counted(p)' /\ Filled(p)' = Filled(p)
      BY <1>1, <2>1, CountedStays DEF pageVars, mapVars
    <3>3. Settled(p)'
      BY <2>1, <2>2, <2>4, <3>2 DEF Settled, mapVars
    <3> QED
      BY <1>1, <2>1, <2>2, <3>1, <3>2, <3>3 DEF PmrInv, Counted, Unpinning
  <2>5. CASE num[p] = 0
    <3>1. /\ Goto(p, "alloc") /\ op' = [op EXCEPT ![p] = "pin"]
          /\ ask' = [ask EXCEPT ![p] = IF kind[p].sparse THEN Listing(valid[p])
                                                         ELSE AllSlots(kind[p])]
      BY <1>8, <2>5 DEF Pin
    <3>2. /\ pc'[p] = "alloc" /\ op'[p] = "pin" /\ Counted(p)' /\ Filled(p)' = Filled(p)
          /\ tmp'[p] = tmp[p] /\ kind'[p] = kind[p] /\ valid'[p] = valid[p]
      BY <1>3, <2>1, <3>1
    <3>3. ask'[p] = (IF kind[p].sparse THEN Listing(valid[p]) ELSE AllSlots(kind[p]))
      BY <1>1, <3>1 DEF Types
    <3>4. IsInjective(ask'[p]) /\ Range(ask'[p]) = valid[p]
      <4>1. CASE kind[p].sparse
        <5>1. IsFiniteSet(valid[p])
          BY <1>1, SlotFacts
        <5> QED
          BY <3>3, <4>1, <5>1, ListingOf
      <4>2. CASE ~kind[p].sparse
        <5>1. valid[p] = 1..kind[p].size
          BY <2>2, <4>2 DEF Settled
        <5> QED
          BY <2>2, <3>3, <4>2, <5>1, AllSlotsFacts
      <4> QED
        BY <4>1, <4>2
    <3>5. Filled(p) = {}
      BY <1>1, <2>5, SlotFacts
    <3>6. Asking(p)'
      BY <2>2, <3>2, <3>4, <3>5 DEF Asking, Settled
    <3> QED
      BY <1>1, <2>1, <2>2, <2>3, <3>2, <3>6 DEF PmrInv, Counted, Unpinning
  <2> QED
    BY <2>4, <2>5
<1>9. CASE Change(p)
  <2>1. PICK c \in Changes :
          /\ ChangeValid(p, c)
          /\ "taken_slot" \in Misuse \/ Range(NewSlots(c)) \cap Filled(p) = {}
          /\ chg' = [chg EXCEPT ![p] = [to |-> MovedTo(c), from |-> c.free,
                                        remap |-> c.remap]]
          /\ ask' = [ask EXCEPT ![p] = NewSlots(c)]
          /\ Goto(p, IF NewSlots(c) = << >> THEN "move" ELSE "alloc")
    BY <1>9 DEF Change
  <2>2. /\ pc[p] = "idle" /\ kind[p].sparse /\ ~unpinned[p]
        /\ op' = [op EXCEPT ![p] = "change"]
        /\ UNCHANGED <<kind, pageVars, unpinned, mapVars, tmp>>
    BY <1>9 DEF Change, At
  <2>3. /\ chg'[p] = [to |-> MovedTo(c), from |-> c.free, remap |-> c.remap]
        /\ ask'[p] = NewSlots(c) /\ op'[p] = "change"
        /\ pc'[p] = (IF NewSlots(c) = << >> THEN "move" ELSE "alloc")
    BY <1>1, <2>1, <2>2 DEF Types, Goto
  <2>4. /\ arr'[p] = arr[p] /\ num'[p] = num[p] /\ valid'[p] = valid[p] /\ phys'[p] = phys[p]
        /\ kind'[p] = kind[p] /\ tmp'[p] = tmp[p] /\ unpinned'[p] = unpinned[p]
    BY <2>2 DEF pageVars, mapVars
  <2>5. /\ Changing(p)' /\ IsInjective(ask'[p])
        /\ \A n \in 1..Len(ask'[p]) : ask'[p][n] \notin Filled(p)
        /\ \A n \in 1..Len(ask'[p]), l \in 1..Len(chg'[p].to) : ask'[p][n] # chg'[p].to[l]
    BY <1>1, <2>1, <2>2, <2>3, <2>4, ChangeChecked
  <2>6. Counted(p)' /\ Filled(p)' = Filled(p)
    BY <1>1, <2>4, CountedStays
  <2>7. Asking(p)'
    BY <2>3, <2>5, <2>6 DEF Asking
  <2> QED
    BY <1>1, <2>2, <2>3, <2>4, <2>5, <2>6, <2>7 DEF PmrInv, Counted, Unpinning
<1>10. CASE Finalize(p)
  <2>1. UNCHANGED <<pageVars>> /\ pc[p] \in {"idle", "evicted"}
    BY <1>10 DEF Finalize, At
  <2>2. CASE num[p] = 0
    <3>1. Return(p, "none") /\ NoArray(p)
      BY <1>10, <2>2 DEF Finalize
    <3>2. Filled(p)' = {} /\ num'[p] = 0
      BY <1>1, <2>1, <2>2, SlotFacts DEF Filled, pageVars
    <3> QED
      BY <1>1, <3>1, <3>2, BackToNone
  <2>3. CASE num[p] # 0
    <3>1. Goto(p, "finalize") /\ op' = [op EXCEPT ![p] = "finalize"]
          /\ UNCHANGED <<ask, tmp, chg, kind, unpinned, mapVars>>
      BY <1>10, <2>3 DEF Finalize
    <3>2. /\ pc'[p] = "finalize" /\ op'[p] = "finalize" /\ Counted(p)'
          /\ tmp'[p] = tmp[p] /\ kind'[p] = kind[p]
      BY <1>3, <2>1, <3>1
    <3> QED
      BY <1>1, <2>1, <3>2 DEF PmrInv, Counted, Unpinning
  <2> QED
    BY <2>2, <2>3
<1> QED
  BY <1>4, <1>5, <1>6, <1>7, <1>8, <1>9, <1>10 DEF Begin

(* The slots of a PMR after a fill.                                        *)
LEMMA FilledMore ==
  ASSUME IInv, NEW p \in Pmrs, Fill(p)
  PROVE  /\ Filled(p)' = Filled(p) \cup Range(ask[p])
         /\ num'[p] = num[p] + Len(ask[p]) /\ Filled(p)' \subseteq 1..kind[p].size
         /\ num'[p] = Cardinality(Filled(p)')
<1>1. Types /\ PmrInv(p)
  BY DEF IInv, PmrsInv
<1>2. PICK new, page : FillsWith(p, new, page)
  BY FillEffect
<1>3. /\ Range(ask[p]) \subseteq 1..kind[p].size /\ Range(ask[p]) \cap Filled(p) = {}
      /\ IsFiniteSet(Range(ask[p])) /\ Cardinality(Range(ask[p])) = Len(ask[p])
  BY FillEffect
<1>4. 1..kind[p].size \subseteq Index /\ IsFiniteSet(Filled(p))
      /\ Filled(p) \subseteq 1..kind[p].size /\ num[p] = Cardinality(Filled(p))
  BY <1>1, SlotFacts DEF PmrInv
<1>5. \A i \in Range(ask[p]) : page[i] # NoPage
  BY <1>1, <1>2, PagesFinite DEF FillsWith, Types
<1>6. arr'[p] = [i \in Index |-> IF i \in Range(ask[p]) THEN page[i] ELSE arr[p][i]]
  BY <1>1, <1>2 DEF FillsWith, Types
<1>7. Filled(p)' = Filled(p) \cup Range(ask[p])
  BY <1>3, <1>4, <1>5, <1>6 DEF Filled
<1>8. num'[p] = num[p] + Len(ask[p])
  BY <1>1 DEF Fill, Types
<1> DEFINE F == Filled(p)
           R == Range(ask[p])
<1>9. IsFiniteSet(F) /\ IsFiniteSet(R) /\ F \cap R = {}
  BY <1>3, <1>4
<1> HIDE DEF F, R
<1>10. Cardinality(F \cup R) = Cardinality(F) + Cardinality(R) - Cardinality(F \cap R)
  BY <1>9, FS_Union
<1>11. Cardinality(F \cup R) = Cardinality(F) + Cardinality(R)
  <2>1. Cardinality(F \cap R) = 0 /\ Cardinality(F) \in Nat /\ Cardinality(R) \in Nat
    BY <1>9, FS_EmptySet, FS_CardinalityType
  <2> QED
    BY <1>10, <2>1
<1> QED
  BY <1>3, <1>4, <1>7, <1>8, <1>11 DEF F, R

LEMMA FillPmr ==
  ASSUME IInv, NEW p \in Pmrs, Fill(p)
  PROVE  PmrInv(p)'
<1>1. Types /\ PmrInv(p) /\ pc[p] = "fill" /\ Asking(p) /\ ~unpinned[p]
  BY DEF IInv, PmrsInv, PmrInv, Fill, At
<1>2. /\ Filled(p)' = Filled(p) \cup Range(ask[p])
      /\ num'[p] = num[p] + Len(ask[p]) /\ Filled(p)' \subseteq 1..kind[p].size
      /\ num'[p] = Cardinality(Filled(p)')
  BY FilledMore
<1>3. /\ Range(ask[p]) \subseteq 1..kind[p].size /\ Range(ask[p]) \cap Filled(p) = {}
      /\ IsFiniteSet(Range(ask[p])) /\ Cardinality(Range(ask[p])) = Len(ask[p])
  BY FillEffect
<1>4. /\ AllocDone(p) /\ UNCHANGED <<kind, unpinned>>
      /\ IF op[p] = "change"
           THEN /\ phys' = [phys EXCEPT ![p] = @ + Len(ask[p])]
                /\ valid' = [valid EXCEPT ![p] = @ \cup Range(ask[p])]
           ELSE UNCHANGED mapVars
  BY DEF Fill
<1>5. kind[p] \in Kinds /\ kind[p] # NoKind
  BY <1>1 DEF PmrInv, Types
<1>6. CASE op[p] = "create"
  <2>1. Goto(p, "build") /\ UNCHANGED <<op, ask, chg>> /\ tmp' = [tmp EXCEPT ![p] = {}]
        /\ UNCHANGED mapVars
    BY <1>4, <1>6 DEF AllocDone
  <2>2. pc'[p] = "build" /\ tmp'[p] = {} /\ valid' = valid /\ phys' = phys
    BY <1>1, <2>1 DEF Goto, Types, mapVars
  <2>3. Filled(p) = {} /\ valid[p] = {} /\ ask[p] = kind[p].first /\ ~kind[p].ondemand
    BY <1>1, <1>6 DEF Asking
  <2> QED
    BY <1>1, <1>2, <1>4, <1>5, <1>6, <2>1, <2>2, <2>3 DEF PmrInv, Unpinning
<1>7. CASE op[p] = "change"
  <2>1. Goto(p, "move") /\ UNCHANGED <<op, ask, chg>> /\ tmp' = [tmp EXCEPT ![p] = {}]
    BY <1>4, <1>7 DEF AllocDone
  <2>2. pc'[p] = "move" /\ tmp'[p] = {} /\ chg'[p] = chg[p] /\ op'[p] = "change"
        /\ kind'[p] = kind[p] /\ unpinned'[p] = unpinned[p]
    BY <1>1, <1>4, <1>7, <2>1 DEF Goto, Types
  <2>3. /\ phys'[p] = phys[p] + Len(ask[p]) /\ valid'[p] = valid[p] \cup Range(ask[p])
    BY <1>1, <1>4, <1>7 DEF Types
  <2>4. Changing(p)
        /\ \A n \in 1..Len(ask[p]), l \in 1..Len(chg[p].to) : ask[p][n] # chg[p].to[l]
    BY <1>1, <1>7 DEF Asking
  <2>5. valid[p] = Filled(p) /\ valid'[p] = Filled(p)'
    BY <1>2, <2>3, <2>4 DEF Changing
  <2>6. phys'[p] = Cardinality(valid'[p]) /\ valid'[p] \subseteq 1..kind[p].size
    BY <1>1, <1>2, <2>3, <2>5 DEF PmrInv
  <2>7. ask[p] \in Seq(Nat)
    BY <1>1 DEF Types
  <2>8. \A l \in 1..Len(chg[p].to) : chg[p].to[l] \notin Range(ask[p])
    <3>1. DOMAIN ask[p] = 1..Len(ask[p])
      BY <2>7
    <3> QED
      BY <2>4, <3>1 DEF Range
  <2>9. Changing(p)'
    BY <2>2, <2>3, <2>4, <2>5, <2>8 DEF Changing
  <2> QED
    BY <1>1, <1>2, <1>5, <2>2, <2>6, <2>9 DEF PmrInv, Unpinning
<1>8. CASE op[p] \in {"lock", "pin"}
  <2>1. Return(p, "idle") /\ UNCHANGED mapVars
    BY <1>4, <1>8 DEF AllocDone
  <2>2. Filled(p) = {} /\ Range(ask[p]) = valid[p]
        /\ (~kind[p].sparse => valid[p] = 1..kind[p].size)
    BY <1>1, <1>8 DEF Asking
  <2>3. Counted(p)' /\ Settled(p)'
    BY <1>1, <1>2, <1>4, <2>1, <2>2 DEF Counted, Settled, PmrInv, mapVars
  <2> QED
    BY <1>1, <1>4, <2>1, <2>3, BackToIdle
<1> QED
  BY <1>1, <1>6, <1>7, <1>8 DEF Asking

(* A pair of a change is moved or swapped, and the rest is still right.    *)
LEMMA TailFacts ==
  ASSUME NEW X, NEW s \in Seq(X), s # << >>, IsInjective(s)
  PROVE  /\ Head(s) = s[1] /\ 1 \in 1..Len(s) /\ IsInjective(Tail(s))
         /\ Len(Tail(s)) = Len(s) - 1 /\ Tail(s) \in Seq(X)
         /\ \A n \in 1..Len(Tail(s)) :
              n + 1 \in 1..Len(s) /\ Tail(s)[n] = s[n + 1] /\ Tail(s)[n] # s[1]
<1>1. /\ Len(s) \in Nat \ {0} /\ DOMAIN s = 1..Len(s) /\ Head(s) = s[1]
      /\ Tail(s) \in Seq(X) /\ Len(Tail(s)) = Len(s) - 1
      /\ \A n \in 1..Len(Tail(s)) : Tail(s)[n] = s[n + 1]
  OBVIOUS
<1>2. \A n \in 1..Len(Tail(s)) : n + 1 \in 1..Len(s) /\ n + 1 # 1
  BY <1>1
<1>3. \A n, l \in 1..Len(s) : s[n] = s[l] => n = l
  BY <1>1 DEF IsInjective
<1>4. 1 \in 1..Len(s)
  BY <1>1
<1>5. \A n \in 1..Len(Tail(s)) : Tail(s)[n] # s[1]
  BY <1>1, <1>2, <1>3, <1>4
<1>6. ASSUME NEW n \in 1..Len(Tail(s)), NEW l \in 1..Len(Tail(s)), Tail(s)[n] = Tail(s)[l]
      PROVE  n = l
  <2>1. n + 1 = l + 1
    BY <1>1, <1>2, <1>3, <1>6
  <2> QED
    BY <1>1, <2>1
<1>7. DOMAIN Tail(s) = 1..Len(Tail(s))
  BY <1>1
<1>8. IsInjective(Tail(s))
  BY <1>6, <1>7 DEF IsInjective
<1> QED
  BY <1>1, <1>2, <1>4, <1>5, <1>8

LEMMA MoveEffect ==
  ASSUME IInv, NEW p \in Pmrs, Move(p)
  PROVE  \E i, j \in 1..kind[p].size :
           /\ i = chg[p].to[1] /\ j = chg[p].from[1] /\ chg[p].to # << >> /\ chg[p].from # << >>
           /\ j \in valid[p] /\ (i \in valid[p] <=> chg[p].remap) /\ i \in Index /\ j \in Index
           /\ arr' = [arr EXCEPT ![p] = [l \in Index |->
                        IF l = j THEN IF chg[p].remap THEN arr[p][i] ELSE NoPage
                        ELSE IF l = i THEN arr[p][j] ELSE arr[p][l]]]
           /\ valid'[p] = (IF chg[p].remap THEN valid[p] ELSE (valid[p] \ {j}) \cup {i})
           /\ chg'[p] = [to |-> Tail(chg[p].to), from |-> Tail(chg[p].from),
                         remap |-> chg[p].remap]
<1>1. Types /\ PmrInv(p) /\ pc[p] = "move" /\ Changing(p) /\ chg[p].to # << >>
  BY DEF IInv, PmrsInv, PmrInv, Move, At
<1>2. /\ chg[p].to \in Seq(Nat) /\ chg[p].from \in Seq(Nat)
      /\ Len(chg[p].to) <= Len(chg[p].from)
  BY <1>1 DEF Types, Changing
<1>3. 1 \in 1..Len(chg[p].to) /\ 1 \in 1..Len(chg[p].from) /\ chg[p].from # << >>
  BY <1>1, <1>2
<1>4. Head(chg[p].to) = chg[p].to[1] /\ Head(chg[p].from) = chg[p].from[1]
  BY <1>2, <1>3
<1> DEFINE i == chg[p].to[1]
           j == chg[p].from[1]
           remap == chg[p].remap
<1>5. /\ i \in 1..kind[p].size /\ j \in valid[p] /\ (i \in valid[p] <=> remap)
  BY <1>1, <1>3 DEF Changing
<1>6. valid[p] \subseteq 1..kind[p].size /\ 1..kind[p].size \subseteq Index
  BY <1>1, SlotFacts DEF PmrInv
<1>7. /\ arr' = [arr EXCEPT ![p][i] = arr[p][j],
                            ![p][j] = IF remap THEN arr[p][i] ELSE NoPage]
      /\ valid' = [valid EXCEPT ![p] = (IF remap THEN @ \cup {j} ELSE @ \ {j}) \cup {i}]
      /\ chg' = [chg EXCEPT ![p] = [to |-> Tail(@.to), from |-> Tail(@.from), remap |-> @.remap]]
  BY <1>4 DEF Move
<1> HIDE DEF i, j, remap
<1>8. arr \in [Pmrs -> [Index -> Pages \cup {NoPage}]]
      /\ arr[p] \in [Index -> Pages \cup {NoPage}]
  BY <1>1 DEF Types
<1>9. i \in Index /\ j \in Index
  BY <1>5, <1>6
<1>10. arr' = [arr EXCEPT ![p] = [l \in Index |->
                 IF l = j THEN IF remap THEN arr[p][i] ELSE NoPage
                 ELSE IF l = i THEN arr[p][j] ELSE arr[p][l]]]
  BY <1>7, <1>8, <1>9
<1>11. valid'[p] = (IF remap THEN valid[p] ELSE (valid[p] \ {j}) \cup {i})
  BY <1>1, <1>5, <1>7 DEF Types
<1>12. chg'[p] = [to |-> Tail(chg[p].to), from |-> Tail(chg[p].from), remap |-> remap]
  BY <1>1, <1>7 DEF Types, remap
<1> QED
  BY <1>1, <1>3, <1>5, <1>6, <1>9, <1>10, <1>11, <1>12 DEF i, j, remap

LEMMA MovePmr ==
  ASSUME IInv, NEW p \in Pmrs, Move(p)
  PROVE  PmrInv(p)'
<1>1. Types /\ PmrInv(p) /\ pc[p] = "move" /\ Changing(p) /\ ~unpinned[p] /\ op[p] = "change"
  BY DEF IInv, PmrsInv, PmrInv, Move, At
<1>2. PICK i \in 1..kind[p].size, j \in 1..kind[p].size :
           /\ i = chg[p].to[1] /\ j = chg[p].from[1] /\ chg[p].to # << >> /\ chg[p].from # << >>
           /\ j \in valid[p] /\ (i \in valid[p] <=> chg[p].remap) /\ i \in Index /\ j \in Index
           /\ arr' = [arr EXCEPT ![p] = [l \in Index |->
                        IF l = j THEN IF chg[p].remap THEN arr[p][i] ELSE NoPage
                        ELSE IF l = i THEN arr[p][j] ELSE arr[p][l]]]
           /\ valid'[p] = (IF chg[p].remap THEN valid[p] ELSE (valid[p] \ {j}) \cup {i})
           /\ chg'[p] = [to |-> Tail(chg[p].to), from |-> Tail(chg[p].from),
                         remap |-> chg[p].remap]
  BY MoveEffect
<1>3. /\ kind'[p] = kind[p] /\ num'[p] = num[p] /\ unpinned'[p] = unpinned[p]
      /\ phys'[p] = phys[p] /\ pc'[p] = pc[p] /\ op'[p] = op[p] /\ tmp'[p] = tmp[p]
  BY DEF Move
<1>4. valid[p] = Filled(p)
  BY <1>1 DEF Changing
<1>5. arr'[p] = [l \in Index |-> IF l = j THEN IF chg[p].remap THEN arr[p][i] ELSE NoPage
                                 ELSE IF l = i THEN arr[p][j] ELSE arr[p][l]]
  BY <1>1, <1>2 DEF Types
<1>6. Filled(p)' = valid'[p]
  <2>1. arr[p][j] # NoPage /\ (arr[p][i] # NoPage <=> chg[p].remap)
    BY <1>2, <1>4 DEF Filled
  <2>2. \A l \in Index :
          arr'[p][l] = IF l = j THEN IF chg[p].remap THEN arr[p][i] ELSE NoPage
                       ELSE IF l = i THEN arr[p][j] ELSE arr[p][l]
    BY <1>5
  <2>3. \A l \in Index : l \in valid[p] <=> arr[p][l] # NoPage
    BY <1>4 DEF Filled
  <2>4. \A l \in Index : arr'[p][l] # NoPage <=> l \in valid'[p]
    <3>1. CASE chg[p].remap
      <4>1. valid'[p] = valid[p]
        BY <1>2, <3>1
      <4> QED
        BY <2>1, <2>2, <2>3, <3>1, <4>1
    <3>2. CASE ~chg[p].remap
      <4>1. valid'[p] = (valid[p] \ {j}) \cup {i} /\ i # j
        BY <1>2, <3>2
      <4> QED
        BY <2>1, <2>2, <2>3, <3>2, <4>1
    <3> QED
      BY <3>1, <3>2
  <2>5. valid[p] \subseteq Index
    BY <1>4 DEF Filled
  <2>6. valid'[p] \subseteq Index
    BY <1>2, <2>5
  <2> QED
    BY <2>4, <2>6 DEF Filled
<1>7. Cardinality(valid'[p]) = Cardinality(valid[p]) /\ valid'[p] \subseteq 1..kind[p].size
  <2>1. valid[p] \subseteq 1..kind[p].size /\ IsFiniteSet(valid[p])
    BY <1>1, SlotFacts DEF PmrInv
  <2>2. CASE chg[p].remap
    BY <1>2, <2>1, <2>2
  <2>3. CASE ~chg[p].remap
    <3> DEFINE V == valid[p]
               W == V \ {j}
    <3>1. IsFiniteSet(V) /\ j \in V /\ i \notin V
      BY <1>2, <2>1, <2>3
    <3> HIDE DEF V
    <3>2. IsFiniteSet(W) /\ Cardinality(W) = Cardinality(V) - 1 /\ Cardinality(V) \in Nat
      BY <3>1, FS_RemoveElement, FS_CardinalityType
    <3>3. i \notin W
      BY <3>1
    <3> HIDE DEF W
    <3>4. Cardinality(W \cup {i}) = Cardinality(W) + 1
      BY <3>2, <3>3, FS_AddElement
    <3>5. Cardinality(W \cup {i}) = Cardinality(V)
      BY <3>2, <3>4
    <3> QED
      BY <1>2, <2>1, <2>3, <3>5 DEF V, W
  <2> QED
    BY <2>2, <2>3
<1>8. Changing(p)'
  <2>1. /\ chg[p].to \in Seq(Nat) /\ chg[p].from \in Seq(Nat)
        /\ IsInjective(chg[p].to) /\ IsInjective(chg[p].from)
        /\ Len(chg[p].to) <= Len(chg[p].from)
    BY <1>1 DEF Types, Changing
  <2>2. /\ 1 \in 1..Len(chg[p].to) /\ IsInjective(Tail(chg[p].to))
        /\ Len(Tail(chg[p].to)) = Len(chg[p].to) - 1
        /\ \A n \in 1..Len(Tail(chg[p].to)) :
              /\ n + 1 \in 1..Len(chg[p].to) /\ Tail(chg[p].to)[n] = chg[p].to[n + 1]
              /\ Tail(chg[p].to)[n] # chg[p].to[1]
    BY <1>2, <2>1, TailFacts
  <2>3. /\ 1 \in 1..Len(chg[p].from) /\ IsInjective(Tail(chg[p].from))
        /\ Len(Tail(chg[p].from)) = Len(chg[p].from) - 1
        /\ \A n \in 1..Len(Tail(chg[p].from)) :
              /\ n + 1 \in 1..Len(chg[p].from) /\ Tail(chg[p].from)[n] = chg[p].from[n + 1]
              /\ Tail(chg[p].from)[n] # chg[p].from[1]
    BY <1>2, <2>1, TailFacts
  <2>4. /\ chg'[p].to = Tail(chg[p].to) /\ chg'[p].from = Tail(chg[p].from)
        /\ chg'[p].remap = chg[p].remap
    BY <1>2
  <2>5. Len(chg'[p].to) <= Len(chg'[p].from)
    BY <2>1, <2>2, <2>3, <2>4
  <2>6. \A n \in 1..Len(chg'[p].from) : chg'[p].from[n] \in valid'[p]
    <3>1. \A n \in 1..Len(chg[p].from) : chg[p].from[n] \in valid[p]
      BY <1>1 DEF Changing
    <3> QED
      BY <1>2, <2>3, <2>4, <3>1
  <2>7. \A n \in 1..Len(chg'[p].to) :
          /\ chg'[p].to[n] \in 1..kind[p].size
          /\ chg'[p].to[n] \in valid'[p] <=> chg'[p].remap
    <3>1. \A n \in 1..Len(chg[p].to) : /\ chg[p].to[n] \in 1..kind[p].size
                                       /\ chg[p].to[n] \in valid[p] <=> chg[p].remap
      BY <1>1 DEF Changing
    <3> QED
      BY <1>2, <2>2, <2>4, <3>1
  <2>8. kind'[p].sparse
    BY <1>1, <1>3 DEF Changing
  <2>9. IsInjective(chg'[p].to) /\ IsInjective(chg'[p].from)
    BY <2>2, <2>3, <2>4
  <2> QED
    BY <1>3, <1>6, <2>5, <2>6, <2>7, <2>8, <2>9 DEF Changing
<1> QED
  BY <1>1, <1>3, <1>4, <1>6, <1>7, <1>8 DEF PmrInv, Unpinning

(* The slots of a PMR after some were freed.                               *)
LEMMA FilledLess ==
  ASSUME IInv, NEW p \in Pmrs, NEW slots \in SUBSET Index, Frees(p, slots)
  PROVE  /\ Filled(p)' = Filled(p) \ slots /\ num'[p] = Cardinality(Filled(p)')
         /\ Filled(p)' \subseteq 1..kind[p].size
<1>1. Types /\ PmrInv(p) /\ PagesInv
  BY DEF IInv, PmrsInv
<1>2. /\ arr' = [arr EXCEPT ![p] = Cleared(arr[p], slots)]
      /\ num' = [num EXCEPT ![p] = num[p] - Cardinality(PagesIn(p, slots))]
  BY FreeEffect, Zenon
<1>3. /\ arr'[p] = Cleared(arr[p], slots)
      /\ num'[p] = num[p] - Cardinality(PagesIn(p, slots))
  BY <1>1, <1>2 DEF Types
<1>4. Filled(p)' = Filled(p) \ slots
  BY <1>3 DEF Filled, Cleared
<1>5. Cardinality(Filled(p) \ slots) = num[p] - Cardinality(PagesIn(p, slots))
  BY <1>1, PagesInCount
<1> QED
  BY <1>1, <1>3, <1>4, <1>5 DEF PmrInv

LEMMA FreePmr ==
  ASSUME IInv, NEW p \in Pmrs, Free(p)
  PROVE  PmrInv(p)'
<1>1. Types /\ PmrInv(p) /\ pc[p] = "free" /\ Freeing(p)
  BY DEF IInv, PmrsInv, PmrInv, Free, At
<1>2. Frees(p, Leaving(p)) /\ Leaving(p) \in SUBSET Index
  BY FreeFrees
<1>3. PICK slots \in SUBSET Index : slots = Leaving(p)
  BY <1>2
<1>4. Frees(p, slots)
  BY <1>2, <1>3
<1>5. /\ Filled(p)' = Filled(p) \ slots /\ num'[p] = Cardinality(Filled(p)')
      /\ Filled(p)' \subseteq 1..kind[p].size
  BY <1>4, FilledLess
<1>6. /\ op[p] # "change" => slots = Index
      /\ op[p] = "change" => slots \subseteq valid[p] /\ IsFiniteSet(slots)
  BY <1>3, LeavingSlots DEF Free
<1>7. CASE op[p] = "change"
  <2>1. /\ phys' = [phys EXCEPT ![p] = @ - Cardinality(slots)]
        /\ valid' = [valid EXCEPT ![p] = @ \ slots]
        /\ Return(p, "idle") /\ UNCHANGED <<kind, unpinned>>
    BY <1>3, <1>7 DEF Free
  <2>2. phys'[p] = phys[p] - Cardinality(slots) /\ valid'[p] = valid[p] \ slots
    BY <1>1, <2>1 DEF Types
  <2>3. Changing(p) /\ ~unpinned[p]
    BY <1>1, <1>7 DEF Freeing
  <2>4. valid'[p] = Filled(p)' /\ kind[p].sparse
    BY <1>5, <2>2, <2>3 DEF Changing
  <2>5. Cardinality(valid[p] \ slots) = Cardinality(valid[p]) - Cardinality(slots)
    <3> DEFINE V == valid[p]
    <3>1. IsFiniteSet(V) /\ IsFiniteSet(slots) /\ V \cap slots = slots
      BY <1>1, <1>6, <1>7, SlotFacts
    <3> HIDE DEF V
    <3>2. Cardinality(V \ slots) = Cardinality(V) - Cardinality(V \cap slots)
      BY <3>1, FS_Difference
    <3> QED
      BY <3>1, <3>2 DEF V
  <2>6. Counted(p)'
    BY <1>1, <1>5, <2>1, <2>2, <2>4, <2>5 DEF Counted, PmrInv
  <2>7. Settled(p)'
    <3>1. kind[p] \in Kinds
      BY <1>1 DEF PmrInv, Types
    <3>2. ~kind[p].ondemand
      BY <2>4, <3>1, KindSorts
    <3> QED
      BY <2>1, <2>3, <2>4, <3>2 DEF Settled
  <2> QED
    BY <1>1, <2>1, <2>6, <2>7, BackToIdle
<1>8. CASE op[p] # "change"
  <2>1. Filled(p)' = {} /\ num'[p] = 0
    BY <1>5, <1>6, <1>8, FS_EmptySet DEF Filled
  <2>2. CASE op[p] = "unlock"
    <3>1. Return(p, "idle") /\ UNCHANGED <<kind, unpinned, mapVars>>
      BY <2>2 DEF Free
    <3>2. kind[p].ondemand /\ ~unpinned[p] /\ valid[p] = 1..kind[p].size
      BY <1>1, <2>2 DEF Freeing
    <3>3. Counted(p)'
      BY <1>1, <1>5, <3>1 DEF Counted, PmrInv, mapVars
    <3>4. Settled(p)'
      BY <2>1, <3>1, <3>2 DEF Settled, mapVars
    <3> QED
      BY <1>1, <3>1, <3>3, <3>4, BackToIdle
  <2>3. CASE op[p] # "unlock"
    <3>1. Return(p, "none") /\ NoArray(p)
      BY <1>8, <2>3 DEF Free
    <3> QED
      BY <1>1, <2>1, <3>1, BackToNone
  <2> QED
    BY <2>2, <2>3
<1> QED
  BY <1>7, <1>8

LEMMA FreeFailsPmr ==
  ASSUME IInv, NEW p \in Pmrs, FreeFails(p)
  PROVE  PmrInv(p)'
<1>1. Types /\ PmrInv(p) /\ pc[p] = "free" /\ Freeing(p)
  BY DEF IInv, PmrsInv, PmrInv, FreeFails, At
<1>2. CASE op[p] = "change"
  <2>1. Return(p, "idle") /\ UNCHANGED <<leaked, arr, num, kind, unpinned, mapVars>>
    BY <1>2 DEF FreeFails
  <2>2. Changing(p) /\ ~unpinned[p]
    BY <1>1, <1>2 DEF Freeing
  <2>3. kind[p] \in Kinds
    BY <1>1 DEF PmrInv, Types
  <2>4. Counted(p)' /\ Filled(p)' = Filled(p)
    BY <1>1, <2>1, CountedStays DEF mapVars
  <2>5. ~kind[p].ondemand /\ kind[p].sparse /\ valid[p] = Filled(p)
    BY <2>2, <2>3, KindSorts DEF Changing
  <2>6. Settled(p)'
    BY <2>1, <2>2, <2>4, <2>5 DEF Settled, mapVars
  <2> QED
    BY <1>1, <2>1, <2>4, <2>6, BackToIdle
<1>3. CASE op[p] # "change"
  <2>1. /\ Return(p, "none") /\ NoArray(p)
        /\ arr' = [arr EXCEPT ![p] = [i \in Index |-> NoPage]]
        /\ num' = [num EXCEPT ![p] = 0]
    BY <1>3 DEF FreeFails
  <2>2. arr'[p] = [i \in Index |-> NoPage] /\ num'[p] = 0
    BY <1>1, <2>1 DEF Types
  <2>3. Filled(p)' = {}
    BY <2>2 DEF Filled
  <2> QED
    BY <1>1, <2>1, <2>2, <2>3, BackToNone
<1> QED
  BY <1>2, <1>3

LEMMA ScanPmr ==
  ASSUME IInv, NEW p \in Pmrs, ScanUnpinned(p)
  PROVE  PmrInv(p)'
<1>1. Types /\ PmrInv(p) /\ ListExact
  BY DEF IInv, PmrsInv
<1>2. pc[p] \in {"idle", "finalize"} /\ unpinned[p] /\ num[p] # 0
  BY <1>1 DEF ListExact, ScanUnpinned
<1>3. PICK slots \in SUBSET Index : Frees(p, slots) /\ slots = Index
  BY ScanFrees
<1>4. /\ Filled(p)' = Filled(p) \ slots /\ num'[p] = Cardinality(Filled(p)')
      /\ Filled(p)' \subseteq 1..kind[p].size
  BY <1>3, FilledLess
<1>5. Filled(p)' = {} /\ num'[p] = 0
  BY <1>3, <1>4, FS_EmptySet DEF Filled
<1>6. UNCHANGED <<kind, unpinned, mapVars, callVars>>
  BY DEF ScanUnpinned
<1>7. pc[p] = "idle" => Settled(p)'
  <2>1. pc[p] = "idle" => Settled(p)
    BY <1>1 DEF PmrInv
  <2> QED
    BY <1>2, <1>5, <1>6, <2>1 DEF Settled, mapVars
<1> QED
  BY <1>1, <1>2, <1>4, <1>5, <1>6, <1>7 DEF PmrInv, Unpinning, mapVars, callVars

LEMMA ProceedPmr ==
  ASSUME IInv, NEW p \in Pmrs, Proceed(p) \/ ReclaimInUnpin(p)
  PROVE  PmrInv(p)'
<1>1. Types /\ PmrInv(p) /\ LockInv
  BY DEF IInv, PmrsInv
<1>2. pc[p] # "none" => kind[p] \in Kinds /\ kind[p] # NoKind
  BY <1>1 DEF PmrInv, Types
<1>3. ASSUME NEW l, Goto(p, l), UNCHANGED <<kind, pageVars, unpinned, mapVars>>
      PROVE  /\ pc'[p] = l /\ Counted(p)' /\ Filled(p)' = Filled(p) /\ kind'[p] = kind[p]
             /\ num'[p] = num[p] /\ valid'[p] = valid[p] /\ unpinned'[p] = unpinned[p]
  BY <1>1, <1>3, CountedStays DEF Goto, Types, pageVars, mapVars
<1>4. CASE AllocRefused(p)
  <2>1. /\ pc[p] = "alloc" /\ AllocFailed(p) /\ UNCHANGED pageVars
    BY <1>4 DEF AllocRefused, At
  <2> QED
    BY <2>1, AllocFailedPmr DEF pageVars
<1>5. CASE SkipPool(p)
  <2>1. /\ pc[p] = "alloc" /\ Goto(p, "fill")
        /\ UNCHANGED <<kind, pageVars, unpinned, mapVars>> /\ UNCHANGED <<op, ask, tmp, chg>>
    BY <1>5 DEF SkipPool, At
  <2>2. /\ pc'[p] = "fill" /\ Counted(p)' /\ Filled(p)' = Filled(p) /\ kind'[p] = kind[p]
        /\ num'[p] = num[p] /\ valid'[p] = valid[p] /\ unpinned'[p] = unpinned[p]
    BY <1>3, <2>1
  <2>3. Asking(p) /\ tmp[p] = {} /\ ~unpinned[p]
    BY <1>1, <2>1 DEF PmrInv
  <2>4. Asking(p)'
    BY <2>1, <2>2, <2>3 DEF Asking, Changing
  <2>5. Cardinality({}) <= Len(ask[p])
    <3>1. Len(ask[p]) \in Nat /\ Cardinality({}) = 0
      BY <1>1, FS_EmptySet DEF Types
    <3> QED
      BY <3>1
  <2> QED
    BY <1>2, <2>1, <2>2, <2>3, <2>4, <2>5 DEF PmrInv, Counted, Unpinning
<1>6. CASE _GetPagesFromPoolLocked(p)
  <2>1. PICK got \in SUBSET Pages :
           /\ kind[p].mode \in Uncached
           /\ Cardinality(got) <= Len(ask[p]) /\ tmp' = [tmp EXCEPT ![p] = got]
    BY <1>6, GetEffect
  <2>2. /\ pc[p] = "alloc" /\ Goto(p, "fill") /\ UNCHANGED <<op, ask, chg>>
        /\ UNCHANGED <<kind, pageVars, unpinned, mapVars>>
    BY <1>6 DEF _GetPagesFromPoolLocked, At
  <2>3. /\ pc'[p] = "fill" /\ Counted(p)' /\ Filled(p)' = Filled(p) /\ kind'[p] = kind[p]
        /\ num'[p] = num[p] /\ valid'[p] = valid[p] /\ unpinned'[p] = unpinned[p]
    BY <1>3, <2>2
  <2>4. Asking(p) /\ ~unpinned[p]
    BY <1>1, <2>2 DEF PmrInv
  <2>5. Asking(p)'
    BY <2>2, <2>3, <2>4 DEF Asking, Changing
  <2>6. tmp'[p] = got /\ ask'[p] = ask[p]
    BY <1>1, <2>1, <2>2 DEF Types
  <2> QED
    BY <1>2, <2>1, <2>2, <2>3, <2>4, <2>5, <2>6 DEF PmrInv, Counted, Unpinning
<1>7. CASE Fill(p)
  BY <1>7, FillPmr
<1>8. CASE FillFails(p)
  <2>1. pc[p] = "fill" /\ AllocFailed(p) /\ num' = num
    BY <1>8 DEF FillFails, At
  <2>2. arr' = arr
    BY <1>8, FailEffect
  <2> QED
    BY <2>1, <2>2, AllocFailedPmr
<1>9. CASE Build(p)
  <2>1. /\ pc[p] = "build" /\ Return(p, "idle")
        /\ valid' = [valid EXCEPT ![p] = Range(ask[p])]
        /\ phys' = [phys EXCEPT ![p] = Len(ask[p])]
        /\ UNCHANGED <<kind, pageVars, unpinned>>
    BY <1>9 DEF Build, At
  <2>2. /\ ~unpinned[p] /\ ask[p] = kind[p].first /\ kind[p] \in Kinds
        /\ Filled(p) = IF kind[p].ondemand THEN {} ELSE Range(ask[p])
    BY <1>1, <1>2, <2>1 DEF PmrInv
  <2>3. /\ ask[p] \in Seq(Nat) /\ IsInjective(ask[p])
        /\ \A n \in 1..Len(ask[p]) : ask[p][n] \in 1..kind[p].size
    BY <2>2, KindFacts
  <2>4. Cardinality(Range(ask[p])) = Len(ask[p]) /\ Range(ask[p]) \subseteq 1..kind[p].size
    <3>1. DOMAIN ask[p] = 1..Len(ask[p])
      BY <2>3
    <3> QED
      BY <2>3, <3>1, RangeSize DEF Range
  <2>5. /\ valid'[p] = Range(ask[p]) /\ phys'[p] = Len(ask[p]) /\ kind'[p] = kind[p]
        /\ num'[p] = num[p] /\ Filled(p)' = Filled(p) /\ unpinned'[p] = unpinned[p]
    BY <1>1, <2>1 DEF Types, pageVars, Filled
  <2>6. Counted(p)'
    BY <1>1, <2>4, <2>5 DEF Counted, PmrInv
  <2>7. Settled(p)'
    <3>1. kind[p].ondemand => num[p] = 0
      BY <1>1, <2>2, SlotFacts
    <3> QED
      BY <2>2, <2>5, <3>1, KindSorts DEF Settled
  <2> QED
    BY <1>1, <2>1, <2>5, <2>6, <2>7, BackToIdle
<1>10. CASE BuildFails(p)
  <2>1. pc[p] = "build" /\ UNCHANGED pageVars
    BY <1>10 DEF BuildFails, At
  <2>2. Filled(p)' = Filled(p) /\ num'[p] = num[p]
    BY <2>1 DEF Filled, pageVars
  <2>3. CASE kind[p].ondemand
    <3>1. Return(p, "none") /\ NoArray(p)
      BY <1>10, <2>3 DEF BuildFails
    <3>2. Filled(p) = {} /\ num[p] = 0
      BY <1>1, <2>1, <2>3, SlotFacts DEF PmrInv
    <3> QED
      BY <1>1, <2>2, <3>1, <3>2, BackToNone
  <2>4. CASE ~kind[p].ondemand
    <3>1. /\ Goto(p, "free") /\ op' = [op EXCEPT ![p] = "undo"]
          /\ UNCHANGED <<ask, tmp, chg, kind, unpinned, mapVars>>
      BY <1>10, <2>4 DEF BuildFails
    <3>2. pc'[p] = "free" /\ Counted(p)' /\ kind'[p] = kind[p]
      BY <1>3, <2>1, <3>1
    <3>3. op'[p] = "undo"
      BY <1>1, <3>1 DEF Types
    <3>4. Freeing(p)'
      BY <3>3 DEF Freeing
    <3>5. tmp'[p] = {}
      BY <1>1, <2>1, <3>1 DEF PmrInv
    <3> QED
      BY <1>2, <2>1, <3>2, <3>4, <3>5 DEF PmrInv, Counted, Unpinning
  <2> QED
    BY <2>3, <2>4
<1>11. CASE ScanStops(p) \/ ReclaimInUnpin(p)
  <2>1. /\ pc[p] \in Unpinning /\ UNCHANGED <<kind, pageVars, unpinned, mapVars>>
        /\ UNCHANGED <<op, ask, tmp, chg>>
        /\ Goto(p, "listing") \/ Goto(p, "reclaim")
    BY <1>11 DEF ScanStops, ReclaimInUnpin, At, Unpinning
  <2>2. PICK l \in {"listing", "reclaim"} : Goto(p, l)
    BY <2>1
  <2>3. /\ pc'[p] = l /\ Counted(p)' /\ Filled(p)' = Filled(p) /\ kind'[p] = kind[p]
        /\ num'[p] = num[p] /\ valid'[p] = valid[p] /\ unpinned'[p] = unpinned[p]
    BY <1>3, <2>1, <2>2
  <2>4. Settled(p) /\ num[p] # 0 /\ ~unpinned[p] /\ ~kind[p].ondemand /\ tmp[p] = {}
    BY <1>1, <2>1 DEF PmrInv, Unpinning
  <2>5. Settled(p)'
    BY <2>3, <2>4 DEF Settled
  <2>6. kind[p] # NoKind
    BY <1>2, <2>1 DEF Unpinning
  <2> QED
    BY <2>1, <2>2, <2>3, <2>4, <2>5, <2>6 DEF PmrInv, Counted, Unpinning
<1>12. CASE Unpinned(p) \/ UnpinFails(p)
  <2>1. /\ pc[p] \in Unpinning /\ Return(p, "idle") /\ UNCHANGED <<kind, pageVars, mapVars>>
    BY <1>12 DEF Unpinned, UnpinFails, At, Unpinning
  <2>2. Settled(p) /\ num[p] # 0 /\ ~unpinned[p] /\ ~kind[p].ondemand /\ tmp[p] = {}
    BY <1>1, <2>1 DEF PmrInv, Unpinning
  <2>3. Counted(p)' /\ Filled(p)' = Filled(p)
    BY <1>1, <2>1, CountedStays DEF pageVars, mapVars
  <2>4. Settled(p)'
    BY <2>1, <2>2, <2>3 DEF Settled, pageVars, mapVars
  <2> QED
    BY <1>1, <2>1, <2>3, <2>4, BackToIdle DEF Unpinning
<1>13. CASE Move(p)
  BY <1>13, MovePmr
<1>14. CASE MovesDone(p)
  <2>1. /\ pc[p] = "move" /\ chg[p].to = << >> /\ UNCHANGED <<kind, pageVars, unpinned, mapVars>>
    BY <1>14 DEF MovesDone, At
  <2>2. op[p] = "change" /\ Changing(p) /\ ~unpinned[p] /\ tmp[p] = {}
    BY <1>1, <2>1 DEF PmrInv
  <2>3. CASE chg[p].from = << >>
    <3>1. Return(p, "idle")
      BY <1>14, <2>3 DEF MovesDone
    <3>2. Counted(p)' /\ Filled(p)' = Filled(p)
      BY <1>1, <2>1, CountedStays DEF pageVars, mapVars
    <3>3. Settled(p)
      BY <1>2, <2>1, <2>2, KindSorts DEF Settled, Changing
    <3>4. Settled(p)'
      BY <2>1, <3>2, <3>3 DEF Settled, pageVars, mapVars
    <3> QED
      BY <1>1, <2>1, <3>1, <3>2, <3>4, BackToIdle
  <2>4. CASE chg[p].from # << >>
    <3>1. Goto(p, "free") /\ UNCHANGED <<op, ask, tmp, chg>>
      BY <1>14, <2>4 DEF MovesDone
    <3>2. /\ pc'[p] = "free" /\ Counted(p)' /\ Filled(p)' = Filled(p) /\ kind'[p] = kind[p]
          /\ valid'[p] = valid[p] /\ unpinned'[p] = unpinned[p]
      BY <1>3, <2>1, <3>1
    <3>3. Freeing(p)'
      BY <2>1, <2>2, <3>1, <3>2 DEF Freeing, Changing
    <3> QED
      BY <1>2, <2>1, <2>2, <3>1, <3>2, <3>3 DEF PmrInv, Counted, Unpinning
  <2> QED
    BY <2>3, <2>4
<1>15. CASE FinalizeUnlists(p)
  <2>1. /\ pc[p] = "finalize" /\ Goto(p, "free")
        /\ UNCHANGED <<kind, pageVars, unpinned, mapVars>> /\ UNCHANGED <<op, ask, tmp, chg>>
    BY <1>15 DEF FinalizeUnlists, At
  <2>2. pc'[p] = "free" /\ Counted(p)' /\ kind'[p] = kind[p]
    BY <1>3, <2>1
  <2>3. op[p] = "finalize" /\ tmp[p] = {}
    BY <1>1, <2>1 DEF PmrInv
  <2>4. Freeing(p)'
    BY <2>1, <2>3 DEF Freeing
  <2> QED
    BY <1>2, <2>1, <2>2, <2>3, <2>4 DEF PmrInv, Counted, Unpinning
<1>16. CASE Free(p)
  BY <1>16, FreePmr
<1>17. CASE FreeFails(p)
  BY <1>17, FreeFailsPmr
<1> QED
  BY <1>4, <1>5, <1>6, <1>7, <1>8, <1>9, <1>10, <1>11, <1>12, <1>13, <1>14, <1>15, <1>16,
     <1>17 DEF Proceed

(* An operation leaves the other PMRs alone.                               *)
SameCall(q) ==
  /\ pc'[q] = pc[q] /\ op'[q] = op[q] /\ ask'[q] = ask[q] /\ tmp'[q] = tmp[q]
  /\ chg'[q] = chg[q]

SameKind(q) ==
  /\ kind'[q] = kind[q] /\ unpinned'[q] = unpinned[q]
  /\ valid'[q] = valid[q] /\ phys'[q] = phys[q]

SamePages(q) == arr'[q] = arr[q] /\ num'[q] = num[q]

LEMMA SameParts ==
  ASSUME NEW q
  PROVE  /\ SamePmr(q) <=> SameCall(q) /\ SameKind(q) /\ SamePages(q)
         /\ UNCHANGED callVars => SameCall(q)
         /\ UNCHANGED kind /\ UNCHANGED unpinned /\ UNCHANGED mapVars => SameKind(q)
         /\ UNCHANGED pageVars => SamePages(q)
BY DEF SamePmr, SameCall, SameKind, SamePages, callVars, mapVars, pageVars

LEMMA ReturnApart ==
  ASSUME Types, NEW p \in Pmrs, NEW q \in Pmrs \ {p}
  PROVE  /\ \A l : Return(p, l) => SameCall(q)
         /\ \A l : Goto(p, l) /\ UNCHANGED <<op, ask, tmp, chg>> => SameCall(q)
         /\ NoArray(p) => SameKind(q)
<1>1. q \in DOMAIN pc /\ q \in DOMAIN op /\ q \in DOMAIN ask /\ q \in DOMAIN tmp /\ q \in DOMAIN chg
  BY DEF Types
<1>2. q \in DOMAIN kind /\ q \in DOMAIN valid /\ q \in DOMAIN phys /\ q \in DOMAIN unpinned
  BY DEF Types
<1>3. ASSUME NEW l, Return(p, l) PROVE SameCall(q)
  BY <1>1, <1>3 DEF Return, Goto, SameCall
<1>4. ASSUME NEW l, Goto(p, l) /\ UNCHANGED <<op, ask, tmp, chg>> PROVE SameCall(q)
  BY <1>1, <1>4 DEF Goto, SameCall
<1>5. ASSUME NoArray(p) PROVE SameKind(q)
  BY <1>2, <1>5 DEF NoArray, SameKind
<1> QED
  BY <1>3, <1>4, <1>5

LEMMA AllocApart ==
  ASSUME Types, NEW p \in Pmrs, NEW q \in Pmrs \ {p}
  PROVE  /\ AllocFailed(p) => SameCall(q) /\ SameKind(q)
         /\ AllocDone(p) => SameCall(q)
<1>1. AllocFailed(p) => SameCall(q) /\ SameKind(q)
  BY ReturnApart, SameParts DEF AllocFailed
<1>2. AllocDone(p) => SameCall(q)
  <2>1. ASSUME NEW l, Goto(p, l), UNCHANGED <<op, ask, chg>>, tmp' = [tmp EXCEPT ![p] = {}]
        PROVE  SameCall(q)
    BY <2>1 DEF Types, Goto, SameCall
  <2> QED
    BY <2>1, ReturnApart DEF AllocDone
<1> QED
  BY <1>1, <1>2

LEMMA FreesApart ==
  ASSUME IInv, NEW p \in Pmrs, NEW q \in Pmrs \ {p}, NEW slots \in SUBSET Index,
         Frees(p, slots)
  PROVE  SamePages(q)
<1>1. /\ arr' = [arr EXCEPT ![p] = Cleared(arr[p], slots)]
      /\ num' = [num EXCEPT ![p] = num[p] - Cardinality(PagesIn(p, slots))]
  BY FreeEffect, Zenon
<1> QED
  BY <1>1 DEF IInv, Types, SamePages

LEMMA BeginApart ==
  ASSUME IInv, NEW p \in Pmrs, NEW q \in Pmrs \ {p}, Begin(p)
  PROVE  SamePmr(q)
<1>1. Types
  BY DEF IInv
<1>2. ASSUME NEW l, NEW o, Goto(p, l), op' = [op EXCEPT ![p] = o],
             UNCHANGED ask \/ \E s : ask' = [ask EXCEPT ![p] = s],
             UNCHANGED chg \/ \E c : chg' = [chg EXCEPT ![p] = c], UNCHANGED tmp
      PROVE  SameCall(q)
  BY <1>1, <1>2 DEF Types, Goto, SameCall
<1>3. CASE Create(p)
  <2>1. SameCall(q)
    BY <1>2, <1>3 DEF Create
  <2>2. SameKind(q) /\ SamePages(q)
    BY <1>1, <1>3 DEF Create, Types, SameKind, SamePages, mapVars
  <2> QED
    BY <2>1, <2>2, SameParts
<1>4. CASE Lock(p)
  <2>1. SameCall(q)
    BY <1>2, <1>4 DEF Lock
  <2> QED
    BY <1>4, <2>1, SameParts DEF Lock
<1>5. CASE Unlock(p)
  <2>1. SameCall(q)
    BY <1>2, <1>5 DEF Unlock
  <2> QED
    BY <1>5, <2>1, SameParts DEF Unlock
<1>6. CASE Unpin(p)
  <2>1. SameCall(q)
    BY <1>2, <1>6 DEF Unpin
  <2> QED
    BY <1>6, <2>1, SameParts DEF Unpin
<1>7. CASE Pin(p)
  <2>1. SameKind(q) /\ SamePages(q)
    BY <1>1, <1>7 DEF Pin, Types, SameKind, SamePages, mapVars, pageVars
  <2>2. SameCall(q)
    <3>1. CASE num[p] # 0
      BY <1>7, <3>1 DEF Pin, SameCall
    <3>2. CASE num[p] = 0
      BY <1>2, <1>7, <3>2 DEF Pin
    <3> QED
      BY <3>1, <3>2
  <2> QED
    BY <2>1, <2>2, SameParts
<1>8. CASE Change(p)
  <2>1. SameCall(q)
    BY <1>2, <1>8 DEF Change
  <2> QED
    BY <1>8, <2>1, SameParts DEF Change
<1>9. CASE Finalize(p)
  <2>1. UNCHANGED pageVars
    BY <1>9 DEF Finalize
  <2>2. CASE num[p] = 0
    BY <1>1, <1>9, <2>1, <2>2, ReturnApart, SameParts DEF Finalize
  <2>3. CASE num[p] # 0
    <3>1. /\ Goto(p, "finalize") /\ op' = [op EXCEPT ![p] = "finalize"]
          /\ UNCHANGED <<ask, tmp, chg, kind, unpinned, mapVars>>
      BY <1>9, <2>3 DEF Finalize
    <3>2. SameCall(q)
      BY <1>2, <3>1
    <3> QED
      BY <2>1, <3>1, <3>2, SameParts
  <2> QED
    BY <2>2, <2>3
<1> QED
  BY <1>3, <1>4, <1>5, <1>6, <1>7, <1>8, <1>9 DEF Begin

LEMMA ProceedApart ==
  ASSUME IInv, NEW p \in Pmrs, NEW q \in Pmrs \ {p}, Proceed(p) \/ ReclaimInUnpin(p)
  PROVE  SamePmr(q)
<1>1. Types
  BY DEF IInv
<1>2. CASE AllocRefused(p)
  BY <1>1, <1>2, AllocApart, SameParts DEF AllocRefused
<1>3. CASE SkipPool(p)
  BY <1>1, <1>3, ReturnApart, SameParts DEF SkipPool
<1>4. CASE _GetPagesFromPoolLocked(p)
  <2>1. PICK got : tmp' = [tmp EXCEPT ![p] = got]
    BY <1>4 DEF _GetPagesFromPoolLocked
  <2>2. SameCall(q)
    BY <1>1, <1>4, <2>1 DEF _GetPagesFromPoolLocked, Types, Goto, SameCall
  <2> QED
    BY <1>4, <2>2, SameParts DEF _GetPagesFromPoolLocked
<1>5. CASE Fill(p)
  <2>1. SameCall(q)
    BY <1>1, <1>5, AllocApart DEF Fill
  <2>2. SameKind(q)
    BY <1>1, <1>5 DEF Fill, Types, SameKind, mapVars
  <2>3. SamePages(q)
    BY <1>1, <1>5 DEF Fill, Types, SamePages
  <2> QED
    BY <2>1, <2>2, <2>3, SameParts
<1>6. CASE FillFails(p)
  <2>1. SameCall(q) /\ SameKind(q)
    BY <1>1, <1>6, AllocApart DEF FillFails
  <2>2. SamePages(q)
    BY <1>6, FailEffect DEF FillFails, SamePages
  <2> QED
    BY <2>1, <2>2, SameParts
<1>7. CASE Build(p)
  <2>1. SameKind(q)
    BY <1>1, <1>7 DEF Build, Types, SameKind
  <2> QED
    BY <1>1, <1>7, <2>1, ReturnApart, SameParts DEF Build
<1>8. CASE BuildFails(p)
  <2>1. UNCHANGED pageVars
    BY <1>8 DEF BuildFails
  <2>2. CASE kind[p].ondemand
    BY <1>1, <1>8, <2>1, <2>2, ReturnApart, SameParts DEF BuildFails
  <2>3. CASE ~kind[p].ondemand
    <3>1. /\ Goto(p, "free") /\ op' = [op EXCEPT ![p] = "undo"]
          /\ UNCHANGED <<ask, tmp, chg, kind, unpinned, mapVars>>
      BY <1>8, <2>3 DEF BuildFails
    <3>2. SameCall(q)
      BY <1>1, <3>1 DEF Types, Goto, SameCall
    <3> QED
      BY <2>1, <3>1, <3>2, SameParts
  <2> QED
    BY <2>2, <2>3
<1>9. CASE ScanStops(p)
  BY <1>1, <1>9, ReturnApart, SameParts DEF ScanStops
<1>10. CASE ReclaimInUnpin(p)
  BY <1>1, <1>10, ReturnApart, SameParts DEF ReclaimInUnpin
<1>11. CASE Unpinned(p)
  <2>1. SameKind(q)
    BY <1>1, <1>11 DEF Unpinned, Types, SameKind, mapVars
  <2> QED
    BY <1>1, <1>11, <2>1, ReturnApart, SameParts DEF Unpinned
<1>12. CASE UnpinFails(p)
  BY <1>1, <1>12, ReturnApart, SameParts DEF UnpinFails
<1>13. CASE Move(p)
  <2>1. /\ UNCHANGED <<num, kind, unpinned, phys, pc, op, ask, tmp>>
        /\ \E v : valid' = [valid EXCEPT ![p] = v]
    BY <1>13 DEF Move
  <2>2. arr'[q] = arr[q]
    <3>1. PICK i, j, f, g : arr' = [arr EXCEPT ![p][i] = f, ![p][j] = g]
      BY <1>13 DEF Move
    <3> QED
      BY <1>1, <3>1 DEF Types
  <2>3. chg'[q] = chg[q]
    BY <1>1, <1>13 DEF Move, Types
  <2>4. valid'[q] = valid[q]
    BY <1>1, <2>1 DEF Types
  <2> QED
    BY <2>1, <2>2, <2>3, <2>4 DEF SamePmr
<1>14. CASE MovesDone(p)
  BY <1>1, <1>14, ReturnApart, SameParts DEF MovesDone
<1>15. CASE FinalizeUnlists(p)
  BY <1>1, <1>15, ReturnApart, SameParts DEF FinalizeUnlists
<1>16. CASE Free(p)
  <2>1. SamePages(q)
    BY <1>16, FreeFrees, FreesApart
  <2>2. CASE op[p] = "change"
    <3>1. /\ Return(p, "idle") /\ UNCHANGED <<kind, unpinned>>
          /\ \E n, v : phys' = [phys EXCEPT ![p] = n] /\ valid' = [valid EXCEPT ![p] = v]
      BY <1>16, <2>2 DEF Free
    <3>2. SameKind(q)
      BY <1>1, <3>1 DEF Types, SameKind
    <3> QED
      BY <1>1, <2>1, <3>1, <3>2, ReturnApart, SameParts
  <2>3. CASE op[p] # "change"
    <3>1. \/ Return(p, "idle") /\ UNCHANGED <<kind, unpinned, mapVars>>
          \/ Return(p, "none") /\ NoArray(p)
      BY <1>16, <2>3 DEF Free
    <3> QED
      BY <1>1, <2>1, <3>1, ReturnApart, SameParts
  <2> QED
    BY <2>2, <2>3
<1>17. CASE FreeFails(p)
  <2>1. CASE op[p] = "change"
    BY <1>1, <1>17, <2>1, ReturnApart, SameParts DEF FreeFails, SamePages
  <2>2. CASE op[p] # "change"
    <3>1. SamePages(q)
      BY <1>1, <1>17, <2>2 DEF FreeFails, Types, SamePages
    <3> QED
      BY <1>1, <1>17, <2>2, <3>1, ReturnApart, SameParts DEF FreeFails
  <2> QED
    BY <2>1, <2>2
<1> QED
  BY <1>2, <1>3, <1>4, <1>5, <1>6, <1>7, <1>8, <1>9, <1>10, <1>11, <1>12, <1>13, <1>14,
     <1>15, <1>16, <1>17 DEF Proceed

LEMMA ScanApart ==
  ASSUME IInv, NEW p \in Pmrs, NEW q \in Pmrs \ {p}, ScanUnpinned(p)
  PROVE  SamePmr(q)
<1>1. SamePages(q)
  BY ScanFrees, FreesApart
<1> QED
  BY <1>1, SameParts DEF ScanUnpinned

(* Steps that concern no PMR.                                              *)
Shared == CleanToPool \/ CleanToOs \/ ScanPool \/ ScanEnds \/ LinuxDeinitPhysmem

LEMMA SharedApart ==
  ASSUME Shared \/ UNCHANGED vars, NEW q \in Pmrs
  PROVE  SamePmr(q) /\ arr' = arr /\ unpinned' = unpinned /\ pc' = pc
BY DEF Shared, CleanToPool, CleanToOs, ScanPool, ScanEnds, LinuxDeinitPhysmem, SamePmr,
       pageVars, mapVars, callVars, vars

LEMMA NextKinds ==
  [Next]_vars => \/ Shared \/ UNCHANGED vars
                 \/ \E p \in Pmrs : \/ Begin(p) \/ Proceed(p) \/ ReclaimInUnpin(p)
                                    \/ ScanUnpinned(p)
BY DEF Next, Scan, Shared

LEMMA NextPmrs ==
  ASSUME IInv, Misuse = {}, [Next]_vars
  PROVE  PmrsInv'
<1>1. \A q \in Pmrs : PmrInv(q)
  BY DEF IInv, PmrsInv
<1>2. CASE Shared \/ UNCHANGED vars
  BY <1>1, <1>2, SharedApart, PmrFrame DEF PmrsInv
<1>3. ASSUME NEW p \in Pmrs,
             Begin(p) \/ Proceed(p) \/ ReclaimInUnpin(p) \/ ScanUnpinned(p)
      PROVE  PmrsInv'
  <2>1. PmrInv(p)'
    BY <1>3, BeginPmr, ProceedPmr, ScanPmr
  <2>2. ASSUME NEW q \in Pmrs \ {p} PROVE PmrInv(q)'
    <3>1. SamePmr(q)
      BY <1>3, BeginApart, ProceedApart, ScanApart
    <3> QED
      BY <1>1, <3>1, PmrFrame
  <2> QED
    BY <2>1, <2>2 DEF PmrsInv
<1> QED
  BY <1>2, <1>3, NextKinds

-----------------------------------------------------------------------------
(* Who holds the mutex, and who is on the list of unpinned PMRs.           *)

Takes(p) ==
  \/ lock' = lock /\ (pc'[p] \in Unpinning <=> pc[p] \in Unpinning)
  \/ lock = Nobody /\ lock' = p /\ pc'[p] \in Unpinning
  \/ pc[p] \in Unpinning /\ lock' = Nobody /\ pc'[p] \notin Unpinning

LEMMA BeginTakes ==
  ASSUME IInv, NEW p \in Pmrs, Begin(p)
  PROVE  Takes(p)
<1>1. pc \in [Pmrs -> Labels]
  BY DEF IInv, Types
<1>2. CASE Unpin(p)
  BY <1>1, <1>2 DEF Unpin, Goto, Takes, Unpinning
<1>3. CASE Create(p)
  BY <1>1, <1>3 DEF Create, At, Goto, Takes, Unpinning, lruVars
<1>4. CASE Lock(p) \/ Unlock(p)
  BY <1>1, <1>4 DEF Lock, Unlock, At, Goto, Takes, Unpinning, lruVars
<1>5. CASE Pin(p)
  BY <1>1, <1>5 DEF Pin, At, Goto, Takes, Unpinning
<1>6. CASE Change(p)
  BY <1>1, <1>6 DEF Change, At, Goto, Takes, Unpinning, lruVars
<1>7. CASE Finalize(p)
  BY <1>1, <1>7 DEF Finalize, At, Goto, Return, Takes, Unpinning, lruVars
<1> QED
  BY <1>2, <1>3, <1>4, <1>5, <1>6, <1>7 DEF Begin

LEMMA ProceedTakes ==
  ASSUME IInv, NEW p \in Pmrs, Proceed(p) \/ ReclaimInUnpin(p)
  PROVE  Takes(p)
<1>1. pc \in [Pmrs -> Labels]
  BY DEF IInv, Types
<1>2. AllocFailed(p) \/ AllocDone(p) => pc'[p] \notin Unpinning
  BY <1>1 DEF AllocFailed, AllocDone, Return, Goto, Unpinning
<1>3. CASE AllocRefused(p) \/ Fill(p) \/ FillFails(p)
  <2>1. FillFails(p) => UNCHANGED lruVars
    BY FailEffect
  <2> QED
    BY <1>1, <1>2, <1>3, <2>1 DEF AllocRefused, Fill, FillFails, At, Takes, Unpinning, lruVars
<1>4. CASE SkipPool(p) \/ _GetPagesFromPoolLocked(p) \/ FinalizeUnlists(p)
  BY <1>1, <1>4 DEF SkipPool, _GetPagesFromPoolLocked, FinalizeUnlists, At, Goto, Takes,
     Unpinning, lruVars
<1>5. CASE Build(p) \/ BuildFails(p)
  BY <1>1, <1>5 DEF Build, BuildFails, At, Goto, Return, Takes, Unpinning, lruVars
<1>6. CASE ScanStops(p) \/ ReclaimInUnpin(p)
  BY <1>1, <1>6 DEF ScanStops, ReclaimInUnpin, At, Goto, Takes, Unpinning, lruVars
<1>7. CASE Unpinned(p) \/ UnpinFails(p)
  BY <1>1, <1>7 DEF Unpinned, UnpinFails, At, Goto, Return, Takes, Unpinning
<1>8. CASE Move(p) \/ MovesDone(p)
  BY <1>1, <1>8 DEF Move, MovesDone, At, Goto, Return, Takes, Unpinning, lruVars
<1>9. CASE Free(p) \/ FreeFails(p)
  <2>1. lock' = lock /\ pc[p] = "free"
    BY <1>9 DEF Free, FreeFails, At, lruVars
  <2>2. Return(p, "idle") \/ Return(p, "none")
    BY <1>9 DEF Free, FreeFails
  <2> QED
    BY <1>1, <2>1, <2>2 DEF Takes, Return, Goto, Unpinning
<1> QED
  BY <1>3, <1>4, <1>5, <1>6, <1>7, <1>8, <1>9 DEF Proceed

LEMMA NextLock ==
  ASSUME IInv, [Next]_vars
  PROVE  LockInv'
<1>1. LockInv /\ pc \in [Pmrs -> Labels]
  BY DEF IInv, Types
<1>2. ASSUME pc' = pc, lock' = lock \/ (lock \notin Pmrs /\ lock' \in {Nobody, Shrinker})
      PROVE  LockInv'
  BY <1>1, <1>2, NobodyApart DEF LockInv
<1>3. CASE Shared \/ UNCHANGED vars
  BY <1>2, <1>3, NobodyApart DEF Shared, CleanToPool, CleanToOs, ScanPool, ScanEnds,
     LinuxDeinitPhysmem, lruVars, callVars, vars
<1>4. ASSUME NEW p \in Pmrs, ScanUnpinned(p) PROVE LockInv'
  BY <1>2, <1>4, NobodyApart DEF ScanUnpinned, callVars
<1>5. ASSUME NEW p \in Pmrs, Begin(p) \/ Proceed(p) \/ ReclaimInUnpin(p) PROVE LockInv'
  <2>1. Takes(p)
    BY <1>5, BeginTakes, ProceedTakes
  <2>2. \A q \in Pmrs \ {p} : pc'[q] = pc[q]
    BY <1>5, BeginApart, ProceedApart DEF SamePmr
  <2>3. pc[p] \in Unpinning <=> lock = p
    BY <1>1 DEF LockInv
  <2>4. pc'[p] \in Unpinning <=> lock' = p
    BY <2>1, <2>3, NobodyApart DEF Takes
  <2>5. ASSUME NEW q \in Pmrs \ {p} PROVE pc'[q] \in Unpinning <=> lock' = q
    <3>1. pc'[q] = pc[q] /\ (pc[q] \in Unpinning <=> lock = q)
      BY <1>1, <2>2 DEF LockInv
    <3> QED
      BY <2>1, <2>3, <3>1, NobodyApart DEF Takes
  <2> QED
    BY <2>4, <2>5 DEF LockInv
<1> QED
  BY <1>3, <1>4, <1>5, NextKinds

(* What a step does with the list, and with the pages of who is on it.     *)
Listed(p) == pc[p] \in {"idle", "finalize"} /\ unpinned[p] /\ num[p] # 0

KeepsList(p) ==
  /\ unpin_list' = unpin_list /\ unpin_count' = unpin_count
  /\ Listed(p)' <=> Listed(p)
  /\ Listed(p) => arr'[p] = arr[p]

LeavesList(p) ==
  /\ unpin_list' = unpin_list \ {p} /\ unpin_count' = unpin_count - num[p]
  /\ Listed(p) /\ ~Listed(p)'

JoinsList(p) ==
  /\ unpin_list' = unpin_list \cup {p} /\ unpin_count' = unpin_count + num[p]
  /\ ~Listed(p) /\ Listed(p)' /\ arr'[p] = arr[p]

Lists(p) == KeepsList(p) \/ LeavesList(p) \/ JoinsList(p)

LEMMA BeginLists ==
  ASSUME IInv, Misuse = {}, NEW p \in Pmrs, Begin(p)
  PROVE  Lists(p)
<1>1. Types /\ PmrInv(p)
  BY DEF IInv, PmrsInv
<1>2. ASSUME UNCHANGED lruVars, ~Listed(p), ~Listed(p)' PROVE Lists(p)
  BY <1>2 DEF Lists, KeepsList, lruVars
<1>3. CASE Create(p)
  <2>1. pc[p] = "none" /\ pc'[p] \in {"build", "alloc"} /\ UNCHANGED lruVars
    BY <1>1, <1>3 DEF Create, At, Goto, Types
  <2> QED
    BY <1>2, <2>1 DEF Listed
<1>4. CASE Lock(p) \/ Unlock(p)
  <2>1. pc[p] = "idle" /\ pc'[p] \in {"free", "alloc"} /\ UNCHANGED lruVars /\ kind[p].ondemand
    BY <1>1, <1>4 DEF Lock, Unlock, At, Goto, Types
  <2>2. ~unpinned[p]
    BY <1>1, <2>1 DEF PmrInv, Settled
  <2> QED
    BY <1>2, <2>1, <2>2 DEF Listed
<1>5. CASE Unpin(p)
  <2>1. /\ ~unpinned[p] /\ pc'[p] = "unpin"
        /\ unpin_list' = unpin_list /\ unpin_count' = unpin_count
    BY <1>1, <1>5 DEF Unpin, Goto, Types
  <2> QED
    BY <2>1 DEF Listed, Lists, KeepsList
<1>6. CASE Pin(p)
  <2>1. /\ pc[p] = "idle" /\ unpinned[p] /\ unpinned' = [unpinned EXCEPT ![p] = FALSE]
    BY <1>6 DEF Pin, At
  <2>2. ~Listed(p)'
    BY <1>1, <2>1 DEF Listed, Types
  <2>3. CASE num[p] # 0
    <3>1. unpin_list' = unpin_list \ {p} /\ unpin_count' = unpin_count - num[p]
      BY <1>6, <2>3 DEF Pin, _RemoveUnpinListEntryUnlocked
    <3> QED
      BY <2>1, <2>2, <2>3, <3>1 DEF Lists, LeavesList, Listed
  <2>4. CASE num[p] = 0
    <3>1. unpin_list' = unpin_list /\ unpin_count' = unpin_count
      BY <1>6, <2>4 DEF Pin
    <3> QED
      BY <2>2, <2>4, <3>1 DEF Lists, KeepsList, Listed
  <2> QED
    BY <2>3, <2>4
<1>7. CASE Change(p)
  <2>1. ~unpinned[p] /\ unpinned'[p] = unpinned[p] /\ UNCHANGED lruVars
    BY <1>7 DEF Change
  <2> QED
    BY <1>2, <2>1 DEF Listed
<1>8. CASE Finalize(p)
  <2>1. UNCHANGED lruVars /\ UNCHANGED pageVars /\ pc[p] \in {"idle", "evicted"}
    BY <1>8 DEF Finalize, At
  <2>2. CASE num[p] = 0
    BY <1>2, <2>1, <2>2 DEF Listed, pageVars
  <2>3. CASE num[p] # 0
    <3>1. Goto(p, "finalize") /\ UNCHANGED unpinned
      BY <1>8, <2>3 DEF Finalize
    <3>2. pc'[p] = "finalize" /\ unpinned'[p] = unpinned[p] /\ num'[p] = num[p]
          /\ arr'[p] = arr[p] /\ pc[p] = "idle"
      BY <1>1, <2>1, <2>3, <3>1 DEF Goto, Types, pageVars, PmrInv
    <3> QED
      BY <2>1, <3>2 DEF Lists, KeepsList, Listed, lruVars
  <2> QED
    BY <2>2, <2>3
<1> QED
  BY <1>3, <1>4, <1>5, <1>6, <1>7, <1>8 DEF Begin

LEMMA ProceedLists ==
  ASSUME IInv, NEW p \in Pmrs, Proceed(p) \/ ReclaimInUnpin(p)
  PROVE  Lists(p)
<1>1. Types /\ PmrInv(p) /\ ListExact
  BY DEF IInv, PmrsInv
<1>2. ASSUME UNCHANGED lruVars, pc[p] \notin {"idle", "finalize"},
             pc'[p] \notin {"idle", "finalize"} \/ ~unpinned'[p]
      PROVE  Lists(p)
  BY <1>2 DEF Lists, KeepsList, lruVars, Listed
<1>3. NoArray(p) => ~unpinned'[p]
  BY <1>1 DEF NoArray, Types
<1>4. UNCHANGED unpinned => unpinned'[p] = unpinned[p]
  OBVIOUS
<1>5. CASE AllocRefused(p) \/ FillFails(p) \/ Fill(p)
  <2>1. pc[p] \in {"alloc", "fill"} /\ UNCHANGED lruVars
    BY <1>5, FailEffect DEF AllocRefused, FillFails, Fill, At
  <2>2. ~unpinned[p]
    BY <1>1, <2>1 DEF PmrInv
  <2>3. AllocFailed(p) => ~unpinned'[p]
    BY <1>3, <1>4, <2>2 DEF AllocFailed
  <2>4. ~unpinned'[p]
    BY <1>5, <2>2, <2>3 DEF AllocRefused, FillFails, Fill
  <2> QED
    BY <1>2, <2>1, <2>4
<1>6. CASE SkipPool(p) \/ _GetPagesFromPoolLocked(p)
  <2>1. pc[p] = "alloc" /\ UNCHANGED lruVars /\ pc'[p] = "fill"
    BY <1>1, <1>6 DEF SkipPool, _GetPagesFromPoolLocked, At, Goto, Types
  <2> QED
    BY <1>2, <2>1
<1>7. CASE Build(p) \/ BuildFails(p)
  <2>1. pc[p] = "build" /\ UNCHANGED lruVars
    BY <1>7 DEF Build, BuildFails, At
  <2>2. ~unpinned[p]
    BY <1>1, <2>1 DEF PmrInv
  <2>3. ~unpinned'[p]
    BY <1>3, <1>7, <2>2 DEF Build, BuildFails
  <2> QED
    BY <1>2, <2>1, <2>3
<1>8. CASE ScanStops(p) \/ ReclaimInUnpin(p)
  <2>1. pc[p] \in Unpinning /\ UNCHANGED lruVars /\ pc'[p] \in {"listing", "reclaim"}
    BY <1>1, <1>8 DEF ScanStops, ReclaimInUnpin, At, Goto, Types, Unpinning
  <2> QED
    BY <1>2, <2>1 DEF Unpinning
<1>9. CASE Unpinned(p)
  <2>1. /\ pc[p] \in Unpinning /\ Return(p, "idle") /\ UNCHANGED pageVars
        /\ unpinned' = [unpinned EXCEPT ![p] = TRUE]
        /\ unpin_list' = unpin_list \cup {p} /\ unpin_count' = unpin_count + num[p]
    BY <1>9 DEF Unpinned, At, Unpinning, _AddUnpinListEntryUnlocked
  <2>2. num[p] # 0 /\ ~unpinned[p]
    BY <1>1, <2>1 DEF PmrInv
  <2>3. pc'[p] = "idle" /\ unpinned'[p] /\ num'[p] = num[p] /\ arr'[p] = arr[p]
    BY <1>1, <2>1 DEF Return, Goto, Types, pageVars
  <2> QED
    BY <2>1, <2>2, <2>3 DEF Lists, JoinsList, Listed
<1>10. CASE UnpinFails(p)
  <2>1. /\ pc[p] \in Unpinning /\ UNCHANGED unpinned
        /\ unpin_list' = unpin_list /\ unpin_count' = unpin_count
    BY <1>10 DEF UnpinFails, At, Unpinning
  <2>2. ~unpinned[p]
    BY <1>1, <2>1 DEF PmrInv
  <2> QED
    BY <2>1, <2>2 DEF Lists, KeepsList, Listed
<1>11. CASE Move(p) \/ MovesDone(p)
  <2>1. pc[p] = "move" /\ UNCHANGED lruVars /\ UNCHANGED unpinned
    BY <1>11 DEF Move, MovesDone, At
  <2>2. ~unpinned[p]
    BY <1>1, <2>1 DEF PmrInv
  <2> QED
    BY <1>2, <2>1, <2>2
<1>12. CASE FinalizeUnlists(p)
  <2>1. pc[p] = "finalize" /\ UNCHANGED pageVars /\ pc'[p] = "free"
    BY <1>1, <1>12 DEF FinalizeUnlists, At, Goto, Types
  <2>2. ~Listed(p)'
    BY <2>1 DEF Listed
  <2>3. CASE unpinned[p]
    <3>1. unpin_list' = unpin_list \ {p} /\ unpin_count' = unpin_count - num[p]
      BY <1>12, <2>3 DEF FinalizeUnlists, _RemoveUnpinListEntryUnlocked
    <3>2. CASE num[p] # 0
      BY <2>1, <2>2, <2>3, <3>1, <3>2 DEF Lists, LeavesList, Listed
    <3>3. CASE num[p] = 0
      <4>1. p \notin unpin_list /\ unpin_count \in Int
        BY <1>1, <3>3 DEF ListExact, Types
      <4>2. unpin_list' = unpin_list /\ unpin_count' = unpin_count
        BY <3>1, <3>3, <4>1
      <4> QED
        BY <2>2, <3>3, <4>2 DEF Lists, KeepsList, Listed
    <3> QED
      BY <3>2, <3>3
  <2>4. CASE ~unpinned[p]
    <3>1. unpin_list' = unpin_list /\ unpin_count' = unpin_count
      BY <1>12, <2>4 DEF FinalizeUnlists
    <3> QED
      BY <2>2, <2>4, <3>1 DEF Lists, KeepsList, Listed
  <2> QED
    BY <2>3, <2>4
<1>13. CASE Free(p) \/ FreeFails(p)
  <2>1. pc[p] = "free" /\ UNCHANGED lruVars /\ Freeing(p)
    BY <1>1, <1>13 DEF Free, FreeFails, At, PmrInv
  <2>2. CASE op[p] \in {"undo", "finalize"}
    <3>1. NoArray(p)
      BY <1>13, <2>2 DEF Free, FreeFails
    <3> QED
      BY <1>2, <1>3, <2>1, <3>1
  <2>3. CASE op[p] \in {"change", "unlock"}
    <3>1. ~unpinned[p]
      BY <2>1, <2>3 DEF Freeing
    <3>2. ~unpinned'[p]
      BY <1>3, <1>13, <2>3, <3>1 DEF Free, FreeFails
    <3> QED
      BY <1>2, <2>1, <3>2
  <2> QED
    BY <2>1, <2>2, <2>3 DEF Freeing
<1> QED
  BY <1>5, <1>6, <1>7, <1>8, <1>9, <1>10, <1>11, <1>12, <1>13 DEF Proceed

LEMMA ScanLists ==
  ASSUME IInv, NEW p \in Pmrs, ScanUnpinned(p)
  PROVE  LeavesList(p)
<1>1. Types /\ PmrInv(p) /\ ListExact
  BY DEF IInv, PmrsInv
<1>2. pc[p] \in {"idle", "finalize"} /\ unpinned[p] /\ num[p] # 0
  BY <1>1 DEF ListExact, ScanUnpinned
<1>3. PICK slots \in SUBSET Index : Frees(p, slots) /\ slots = Index
  BY ScanFrees
<1>4. Filled(p)' = Filled(p) \ slots /\ num'[p] = Cardinality(Filled(p)')
  BY <1>3, FilledLess
<1>5. num'[p] = 0
  <2>1. Filled(p)' = {}
    BY <1>3, <1>4 DEF Filled
  <2> QED
    BY <1>4, <2>1, FS_EmptySet
<1>6. Least(num[p], kind[p].size) = num[p]
  BY <1>1, SlotFacts DEF Least
<1>7. unpin_list' = unpin_list \ {p} /\ unpin_count' = unpin_count - num[p]
  BY <1>6 DEF ScanUnpinned
<1> QED
  BY <1>2, <1>5, <1>7 DEF LeavesList, Listed

LEMMA NextLists ==
  ASSUME IInv, Misuse = {}, [Next]_vars
  PROVE  /\ ListExact'
         /\ \/ /\ unpin_list' = unpin_list /\ unpin_count' = unpin_count
               /\ \A q \in unpin_list : arr'[q] = arr[q]
            \/ \E p \in Pmrs : Lists(p) /\ \A q \in Pmrs \ {p} : SamePmr(q)
<1>1. \A q \in Pmrs : q \in unpin_list <=> Listed(q)
  BY DEF IInv, ListExact, Listed
<1>2. SUFFICES /\ \A q \in Pmrs : q \in unpin_list' <=> Listed(q)'
               /\ \/ /\ unpin_list' = unpin_list /\ unpin_count' = unpin_count
                     /\ \A q \in unpin_list : arr'[q] = arr[q]
                  \/ \E p \in Pmrs : Lists(p) /\ \A q \in Pmrs \ {p} : SamePmr(q)
  BY DEF ListExact, Listed
<1>3. CASE Shared \/ UNCHANGED vars
  <2>1. unpin_list' = unpin_list /\ unpin_count' = unpin_count
    BY <1>3 DEF Shared, CleanToPool, CleanToOs, ScanPool, ScanEnds, LinuxDeinitPhysmem,
       lruVars, vars
  <2>2. arr' = arr /\ \A q \in Pmrs : SamePmr(q)
    BY <1>3, SharedApart, Zenon DEF Shared, CleanToPool, CleanToOs, ScanPool, ScanEnds,
       LinuxDeinitPhysmem, pageVars, vars
  <2>3. \A q \in Pmrs : Listed(q)' <=> Listed(q)
    BY <2>2 DEF SamePmr, Listed
  <2> QED
    BY <1>1, <2>1, <2>2, <2>3
<1>4. ASSUME NEW p \in Pmrs,
             Begin(p) \/ Proceed(p) \/ ReclaimInUnpin(p) \/ ScanUnpinned(p)
      PROVE  /\ \A q \in Pmrs : q \in unpin_list' <=> Listed(q)'
             /\ Lists(p) /\ \A q \in Pmrs \ {p} : SamePmr(q)
  <2>1. \A q \in Pmrs \ {p} : SamePmr(q)
    BY <1>4, BeginApart, ProceedApart, ScanApart
  <2>2. Lists(p)
    BY <1>4, BeginLists, ProceedLists, ScanLists DEF Lists
  <2>3. p \in unpin_list' <=> Listed(p)'
    BY <1>1, <2>2 DEF Lists, KeepsList, LeavesList, JoinsList
  <2>4. ASSUME NEW q \in Pmrs \ {p} PROVE q \in unpin_list' <=> Listed(q)'
    <3>1. Listed(q)' <=> Listed(q)
      BY <2>1 DEF SamePmr, Listed
    <3>2. q \in unpin_list' <=> q \in unpin_list
      BY <2>2 DEF Lists, KeepsList, LeavesList, JoinsList
    <3> QED
      BY <1>1, <3>1, <3>2
  <2> QED
    BY <2>1, <2>2, <2>3, <2>4
<1> QED
  BY <1>3, <1>4, NextKinds

-----------------------------------------------------------------------------
(* The counter of unpinned memory follows the list.                        *)

LEMMA SlotCount ==
  ASSUME IInv, NEW p \in Pmrs
  PROVE  IsFiniteSet({p} \X Filled(p)) /\ Cardinality({p} \X Filled(p)) = num[p]
<1> DEFINE F == Filled(p)
           S == {p} \X F
           f == [i \in F |-> <<p, i>>]
<1>1. IsFiniteSet(F) /\ Cardinality(F) = num[p]
  <2>1. Types /\ PmrInv(p)
    BY DEF IInv, PmrsInv
  <2> QED
    BY <2>1, SlotFacts DEF PmrInv
<1> HIDE DEF F
<1>2. f \in Bijection(F, S)
  BY DEF Bijection, Injection, Surjection, IsInjective
<1>3. ExistsBijection(F, S)
  BY <1>2 DEF ExistsBijection
<1> HIDE DEF S
<1>4. IsFiniteSet(S) /\ Cardinality(S) = Cardinality(F)
  BY <1>1, <1>3, FS_Bijection
<1> QED
  BY <1>1, <1>4 DEF F, S

LEMMA NextUnpinned ==
  ASSUME IInv, Misuse = {}, [Next]_vars
  PROVE  (unpin_count = Cardinality(UnpinnedSlots) /\ IsFiniteSet(UnpinnedSlots))'
<1>1. /\ unpin_count = Cardinality(UnpinnedSlots) /\ IsFiniteSet(UnpinnedSlots)
      /\ unpin_list \subseteq Pmrs /\ \A q \in Pmrs : q \in unpin_list <=> Listed(q)
  BY DEF IInv, BooksInv, Types, ListExact, Listed
<1>2. CASE /\ unpin_list' = unpin_list /\ unpin_count' = unpin_count
           /\ \A q \in unpin_list : arr'[q] = arr[q]
  <2>1. UnpinnedSlots' = UnpinnedSlots
    BY <1>2 DEF UnpinnedSlots
  <2> QED
    BY <1>1, <1>2, <2>1
<1>3. ASSUME NEW p \in Pmrs, Lists(p), \A q \in Pmrs \ {p} : SamePmr(q)
      PROVE  (unpin_count = Cardinality(UnpinnedSlots) /\ IsFiniteSet(UnpinnedSlots))'
  <2>1. \A q \in Pmrs \ {p} : arr'[q] = arr[q]
    BY <1>3 DEF SamePmr
  <2> DEFINE S == {p} \X Filled(p)
             U == UnpinnedSlots
  <2>2. IsFiniteSet(S) /\ Cardinality(S) = num[p]
    BY SlotCount
  <2>3. CASE KeepsList(p)
    BY <1>1, <1>2, <2>1, <2>3 DEF KeepsList
  <2>4. CASE LeavesList(p)
    <3>1. S \subseteq U /\ UnpinnedSlots' = U \ S
      <4>1. p \in unpin_list /\ unpin_list' = unpin_list \ {p}
        BY <1>1, <2>4 DEF LeavesList
      <4>2. S \subseteq U
        BY <4>1 DEF UnpinnedSlots, Filled
      <4>3. UnpinnedSlots' = U \ S
        BY <1>1, <2>1, <4>1 DEF UnpinnedSlots, Filled
      <4> QED
        BY <4>2, <4>3
    <3>2. U \cap S = S
      BY <3>1
    <3> HIDE DEF S, U
    <3>3. IsFiniteSet(U)
      BY <1>1 DEF U
    <3>4. IsFiniteSet(U \ S) /\ Cardinality(U \ S) = Cardinality(U) - Cardinality(S)
      BY <2>2, <3>2, <3>3, FS_Difference
    <3> QED
      BY <1>1, <2>2, <2>4, <3>1, <3>4 DEF LeavesList, U
  <2>5. CASE JoinsList(p)
    <3>1. U \cap S = {} /\ UnpinnedSlots' = U \cup S
      <4>1. p \notin unpin_list /\ unpin_list' = unpin_list \cup {p} /\ arr'[p] = arr[p]
        BY <1>1, <2>5 DEF JoinsList
      <4>2. U \cap S = {}
        BY <4>1 DEF UnpinnedSlots
      <4>3. UnpinnedSlots' = U \cup S
        BY <1>1, <2>1, <4>1 DEF UnpinnedSlots, Filled
      <4> QED
        BY <4>2, <4>3
    <3> HIDE DEF S, U
    <3>3. IsFiniteSet(U)
      BY <1>1 DEF U
    <3>4. /\ IsFiniteSet(U \cup S)
          /\ Cardinality(U \cup S) = Cardinality(U) + Cardinality(S) - Cardinality(U \cap S)
      BY <2>2, <3>3, FS_Union
    <3>5. Cardinality(U \cap S) = 0 /\ Cardinality(U) \in Nat /\ Cardinality(S) \in Nat
      BY <2>2, <3>1, <3>3, FS_EmptySet, FS_CardinalityType
    <3> QED
      BY <1>1, <2>2, <2>5, <3>1, <3>4, <3>5 DEF JoinsList, U
  <2> QED
    BY <1>3, <2>3, <2>4, <2>5 DEF Lists
<1> QED
  BY <1>2, <1>3, NextLists

-----------------------------------------------------------------------------
(* The counters of the pool follow its lists.                              *)

Gives(gone) ==
  \A m \in Uncached :
    /\ gone[m] \subseteq pool[m] /\ Cardinality(gone[m]) \in Nat
    /\ pool'[m] = pool[m] \ gone[m] /\ pool_count'[m] = pool_count[m] - Cardinality(gone[m])

LEMMA SharedGives ==
  ASSUME IInv, CleanToOs \/ ScanPool \/ LinuxDeinitPhysmem
  PROVE  \E gone, own :
           /\ Gives(gone) /\ own \subseteq Pages
           /\ gone["uc"] \cup gone["wc"] \cup own \subseteq Pages
           /\ ToOs(gone["uc"] \cup gone["wc"] \cup own)
           /\ CleanToOs => own = Head(tasks).pages
           /\ ~CleanToOs => own = {}
           /\ LinuxDeinitPhysmem => gone = pool
<1>1. Types /\ TaskTypes /\ \A m \in Uncached : IsFiniteSet(pool[m])
  BY PagesFinite, FS_Subset DEF IInv, Types, TaskTypes
<1>2. CleanToOs => tasks # << >>
  BY DEF CleanToOs
<1>3. LinuxDeinitPhysmem => tasks = << >>
  BY DEF LinuxDeinitPhysmem
<1>4. ASSUME NEW gone, NEW own \in SUBSET Pages,
             \A m \in Uncached : gone[m] \subseteq pool[m] /\ IsFiniteSet(gone[m]),
             _FreePagesFromPoolUnlocked(gone, own)
      PROVE  /\ Gives(gone)
             /\ gone["uc"] \cup gone["wc"] \cup own \subseteq Pages
             /\ ToOs(gone["uc"] \cup gone["wc"] \cup own)
  BY <1>1, <1>4, DrainEffect DEF Gives
<1>5. CASE CleanToOs
  <2> DEFINE n == IF _PagesInPoolUnlocked > MaxPool
                    THEN _PagesInPoolUnlocked - MaxPool \div 2 ELSE 0
  <2>1. _FreePagesFromPoolUnlocked(Drained(n), Head(tasks).pages)
    BY <1>5 DEF CleanToOs
  <2>2. n \in Nat
    <3>1. _PagesInPoolUnlocked \in Int
      BY <1>1 DEF _PagesInPoolUnlocked, Types, Uncached
    <3>2. MaxPool \in Nat /\ MaxPool \div 2 \in Nat /\ MaxPool \div 2 <= MaxPool
      BY OsMemAssumption
    <3> HIDE DEF _PagesInPoolUnlocked
    <3> QED
      BY <3>1, <3>2
  <2> HIDE DEF n
  <2>3. \A m \in Uncached : Drained(n)[m] \subseteq pool[m] /\ IsFiniteSet(Drained(n)[m])
    BY <1>1, <2>2, DrainedOf
  <2>4. Head(tasks).pages \in SUBSET Pages
    <3>1. Head(tasks) \in [mode : Uncached, pages : SUBSET Pages]
      BY <1>1, <1>2, <1>5, HeadAndTail DEF TaskTypes
    <3> QED
      BY <3>1
  <2>5. /\ Gives(Drained(n))
        /\ Drained(n)["uc"] \cup Drained(n)["wc"] \cup Head(tasks).pages \subseteq Pages
        /\ ToOs(Drained(n)["uc"] \cup Drained(n)["wc"] \cup Head(tasks).pages)
    BY <1>4, <2>1, <2>3, <2>4
  <2> QED
    BY <1>2, <1>3, <1>5, <2>4, <2>5
<1>6. CASE ScanPool /\ ~CleanToOs /\ ~LinuxDeinitPhysmem
  <2>1. PICK n \in Scans : _FreePagesFromPoolUnlocked(Drained(n), {})
    BY <1>6 DEF ScanPool
  <2>2. n \in Nat
    BY OsMemAssumption
  <2>3. \A m \in Uncached : Drained(n)[m] \subseteq pool[m] /\ IsFiniteSet(Drained(n)[m])
    BY <1>1, <2>2, DrainedOf
  <2>4. /\ Gives(Drained(n))
        /\ Drained(n)["uc"] \cup Drained(n)["wc"] \cup {} \subseteq Pages
        /\ ToOs(Drained(n)["uc"] \cup Drained(n)["wc"] \cup {})
    BY <1>4, <2>1, <2>3
  <2> WITNESS Drained(n), {}
  <2> QED
    BY <1>6, <2>4
<1>7. CASE LinuxDeinitPhysmem
  <2>1. _FreePagesFromPoolUnlocked(pool, {})
    BY <1>7 DEF LinuxDeinitPhysmem
  <2>2. /\ Gives(pool) /\ pool["uc"] \cup pool["wc"] \cup {} \subseteq Pages
        /\ ToOs(pool["uc"] \cup pool["wc"] \cup {})
    BY <1>1, <1>4, <2>1
  <2>3. ~CleanToOs
    BY <1>2, <1>3, <1>7
  <2> WITNESS pool, {}
  <2> QED
    BY <2>2, <2>3
<1> QED
  BY <1>5, <1>6, <1>7

LEMMA NextPool ==
  ASSUME IInv, [Next]_vars
  PROVE  CleanToPool \/ UNCHANGED poolVars \/ \E gone : Gives(gone)
<1>1. CASE CleanToOs \/ ScanPool \/ LinuxDeinitPhysmem
  BY <1>1, SharedGives
<1>2. ASSUME NEW p \in Pmrs, _GetPagesFromPoolLocked(p) PROVE \E gone : Gives(gone)
  <2>1. PICK got \in SUBSET Pages :
           /\ kind[p].mode \in Uncached /\ got \subseteq pool[kind[p].mode]
           /\ Cardinality(got) \in Nat
           /\ pool' = [pool EXCEPT ![kind[p].mode] = @ \ got]
           /\ pool_count' = [pool_count EXCEPT ![kind[p].mode] = @ - Cardinality(got)]
    BY <1>2, GetEffect
  <2> DEFINE gone == [m \in Uncached |-> IF m = kind[p].mode THEN got ELSE {}]
  <2>2. ASSUME NEW m \in Uncached
        PROVE  /\ gone[m] \subseteq pool[m] /\ Cardinality(gone[m]) \in Nat
               /\ pool'[m] = pool[m] \ gone[m]
               /\ pool_count'[m] = pool_count[m] - Cardinality(gone[m])
    <3>1. pool \in [Uncached -> SUBSET Pages] /\ pool_count \in [Uncached -> Int]
      BY DEF IInv, Types
    <3>2. CASE m = kind[p].mode
      BY <2>1, <3>1, <3>2
    <3>3. CASE m # kind[p].mode
      <4>1. gone[m] = {} /\ Cardinality({}) = 0
        BY <3>3, FS_EmptySet
      <4>2. pool'[m] = pool[m] /\ pool_count'[m] = pool_count[m] /\ pool_count[m] \in Int
        BY <2>1, <3>1, <3>3
      <4>3. pool_count[m] - Cardinality({}) = pool_count[m]
        BY <4>1, <4>2
      <4> QED
        BY <4>1, <4>2, <4>3
    <3> QED
      BY <3>2, <3>3
  <2>3. Gives(gone)
    BY <2>2 DEF Gives
  <2> QED
    BY <2>3
<1>3. CASE ScanEnds \/ UNCHANGED vars
  BY <1>3 DEF ScanEnds, vars
<1>4. ASSUME NEW p \in Pmrs, Begin(p) PROVE UNCHANGED poolVars
  BY <1>4 DEF Begin, Create, Lock, Unlock, Unpin, Pin, Change, Finalize
<1>5. ASSUME NEW p \in Pmrs, Proceed(p) \/ ReclaimInUnpin(p), ~_GetPagesFromPoolLocked(p)
      PROVE  UNCHANGED poolVars
  BY <1>5 DEF Proceed, AllocRefused, SkipPool, Fill, FillFails, Build, BuildFails, ScanStops,
     Unpinned, UnpinFails, Move, MovesDone, FinalizeUnlists, Free, FreeFails, ReclaimInUnpin
<1>6. ASSUME NEW p \in Pmrs, ScanUnpinned(p) PROVE UNCHANGED poolVars
  BY <1>6 DEF ScanUnpinned
<1> QED
  BY <1>1, <1>2, <1>3, <1>4, <1>5, <1>6, NextKinds DEF Shared

LEMMA NextBooks ==
  ASSUME IInv, Misuse = {}, [Next]_vars
  PROVE  BooksInv'
<1>1. /\ \A m \in Uncached : pool_count[m] = Cardinality(pool[m])
      /\ pool_count["uc"] + pool_count["wc"] < MaxPool + MaxExcess
      /\ Types /\ PagesInv
  BY DEF IInv, BooksInv, _PagesInPoolUnlocked
<1>2. \A m \in Uncached : IsFiniteSet(pool[m]) /\ pool_count[m] \in Int
  BY <1>1, PagesFinite, FS_Subset DEF Types
<1>3. MaxPool \in Nat /\ MaxExcess \in Nat /\ "uc" \in Uncached /\ "wc" \in Uncached
  BY OsMemAssumption DEF Uncached
<1>4. SUFFICES /\ \A m \in Uncached : pool_count'[m] = Cardinality(pool'[m])
               /\ pool_count'["uc"] + pool_count'["wc"] < MaxPool + MaxExcess
  BY NextUnpinned DEF BooksInv, _PagesInPoolUnlocked
<1>5. CASE UNCHANGED poolVars
  BY <1>1, <1>5 DEF poolVars
<1>6. ASSUME NEW gone, Gives(gone)
      PROVE  /\ \A m \in Uncached : pool_count'[m] = Cardinality(pool'[m])
             /\ pool_count'["uc"] + pool_count'["wc"] < MaxPool + MaxExcess
  <2>1. ASSUME NEW m \in Uncached PROVE pool_count'[m] = Cardinality(pool'[m])
    <3> DEFINE P == pool[m]
               G == gone[m]
    <3>1. /\ G \subseteq P /\ pool'[m] = P \ G /\ IsFiniteSet(P)
          /\ pool_count'[m] = Cardinality(P) - Cardinality(G)
      BY <1>1, <1>2, <1>6 DEF Gives
    <3> HIDE DEF P, G
    <3>2. Cardinality(P \ G) = Cardinality(P) - Cardinality(P \cap G) /\ P \cap G = G
      BY <3>1, FS_Difference
    <3> QED
      BY <3>1, <3>2
  <2>2. /\ pool_count'["uc"] = pool_count["uc"] - Cardinality(gone["uc"])
        /\ pool_count'["wc"] = pool_count["wc"] - Cardinality(gone["wc"])
        /\ Cardinality(gone["uc"]) \in Nat /\ Cardinality(gone["wc"]) \in Nat
        /\ pool_count["uc"] \in Int /\ pool_count["wc"] \in Int
    BY <1>2, <1>3, <1>6 DEF Gives
  <2> QED
    BY <1>1, <1>3, <2>1, <2>2
<1>7. CASE CleanToPool
  <2> DEFINE t == Head(tasks)
  <2>1. /\ tasks # << >>
        /\ pool_count["uc"] + pool_count["wc"] + Cardinality(t.pages) < MaxPool + MaxExcess
        /\ pool' = [pool EXCEPT ![t.mode] = @ \cup t.pages]
        /\ pool_count' = [pool_count EXCEPT ![t.mode] = @ + Cardinality(t.pages)]
    BY <1>7 DEF CleanToPool, _PagesInPoolUnlocked
  <2>2. t \in [mode : Uncached, pages : SUBSET Pages] /\ t = tasks[1] /\ 1 \in 1..Len(tasks)
    <3>1. tasks \in Seq([mode : Uncached, pages : SUBSET Pages])
      BY <1>1 DEF Types
    <3>2. Head(tasks) \in [mode : Uncached, pages : SUBSET Pages] /\ Len(tasks) \in Nat \ {0}
      BY <2>1, <3>1, HeadAndTail
    <3>3. Head(tasks) = tasks[1] /\ 1 \in 1..Len(tasks)
      BY <3>1, <3>2
    <3> QED
      BY <3>2, <3>3
  <2> HIDE DEF t
  <2>3. t.mode \in Uncached /\ t.pages \subseteq Pages
    BY <2>2
  <2>4. IsFiniteSet(t.pages) /\ Cardinality(t.pages) \in Nat
    BY <2>3, PagesFinite, FS_Subset, FS_CardinalityType
  <2>5. pool[t.mode] \cap t.pages = {}
    <3> SUFFICES ASSUME NEW g \in t.pages, g \in pool[t.mode] PROVE FALSE
      OBVIOUS
    <3>1. OnePlace(g) /\ InPool(g) /\ InTask(g)
      BY <1>1, <2>2, <2>3 DEF PagesInv, InPool, InTask
    <3> QED
      BY <3>1 DEF OnePlace, OneKind
  <2>6. Cardinality(pool[t.mode] \cup t.pages) = Cardinality(pool[t.mode]) + Cardinality(t.pages)
    <3> DEFINE P == pool[t.mode]
               Q == t.pages
    <3>1. IsFiniteSet(P) /\ IsFiniteSet(Q) /\ P \cap Q = {}
      BY <1>2, <2>3, <2>4, <2>5
    <3> HIDE DEF P, Q
    <3>2. /\ Cardinality(P \cup Q) = Cardinality(P) + Cardinality(Q) - Cardinality(P \cap Q)
          /\ Cardinality(P) \in Nat /\ Cardinality(Q) \in Nat
      BY <3>1, FS_Union, FS_CardinalityType
    <3>3. Cardinality(P \cap Q) = 0
      BY <3>1, FS_EmptySet
    <3> QED
      BY <3>2, <3>3 DEF P, Q
  <2>7. \A m \in Uncached : pool_count'[m] = Cardinality(pool'[m])
    BY <1>1, <2>1, <2>3, <2>6 DEF Types
  <2>8. /\ pool_count'["uc"] = pool_count["uc"] + IF t.mode = "uc" THEN Cardinality(t.pages) ELSE 0
        /\ pool_count'["wc"] = pool_count["wc"] + IF t.mode = "wc" THEN Cardinality(t.pages) ELSE 0
    BY <1>1, <1>2, <1>3, <2>1, <2>3 DEF Types
  <2>9. t.mode = "uc" \/ t.mode = "wc"
    BY <2>3 DEF Uncached
  <2>10. pool_count["uc"] \in Int /\ pool_count["wc"] \in Int
    BY <1>2, <1>3
  <2>11. pool_count'["uc"] + pool_count'["wc"] =
           pool_count["uc"] + pool_count["wc"] + Cardinality(t.pages)
    <3>1. CASE t.mode = "uc"
      BY <2>4, <2>8, <2>10, <3>1
    <3>2. CASE t.mode = "wc"
      BY <2>4, <2>8, <2>10, <3>2
    <3> QED
      BY <2>9, <3>1, <3>2
  <2> QED
    BY <2>1, <2>7, <2>11
<1> QED
  BY <1>5, <1>6, <1>7, NextPool

-----------------------------------------------------------------------------
(* Every page stays in one place.                                          *)

PagesStay ==
  /\ UNCHANGED osVars /\ pool' = pool /\ tasks' = tasks /\ tmp' = tmp /\ arr' = arr

LEMMA NothingReceived ==
  ASSUME IInv, NEW p \in Pmrs, pc[p] # "fill", tmp' = [tmp EXCEPT ![p] = {}]
  PROVE  tmp' = tmp
<1>1. tmp[p] = {} /\ tmp \in [Pmrs -> SUBSET Pages]
  BY DEF IInv, PmrsInv, PmrInv, Types
<1> QED
  BY <1>1

(* The steps that move pages.                                              *)
Moves(p) ==
  \/ _GetPagesFromPoolLocked(p) \/ Fill(p) \/ FillFails(p) \/ Move(p)
  \/ Free(p) \/ ScanUnpinned(p)
  \/ FreeFails(p) /\ op[p] # "change"

LEMMA NextMoves ==
  ASSUME IInv, [Next]_vars
  PROVE  \/ PagesStay
         \/ CleanToPool \/ CleanToOs \/ ScanPool \/ LinuxDeinitPhysmem
         \/ \E p \in Pmrs : Moves(p)
<1>1. CASE ScanEnds \/ UNCHANGED vars
  BY <1>1 DEF ScanEnds, vars, osVars, poolVars, taskVars, pageVars, callVars, PagesStay
<1>2. ASSUME NEW p \in Pmrs, pc[p] # "fill",
             UNCHANGED <<osVars, poolVars, taskVars, arr>>,
             \/ \E l : Return(p, l)
             \/ UNCHANGED tmp
      PROVE  PagesStay
  <2>1. tmp' = tmp
    BY <1>2, NothingReceived DEF Return
  <2> QED
    BY <1>2, <2>1 DEF PagesStay, poolVars, taskVars
<1>3. ASSUME NEW p \in Pmrs, Begin(p) PROVE PagesStay
  <2>1. CASE Create(p)
    BY <1>2, <2>1 DEF Create, At
  <2>2. CASE Lock(p) \/ Unlock(p)
    BY <1>2, <2>2 DEF Lock, Unlock, At, pageVars
  <2>3. CASE Unpin(p)
    BY <1>2, <2>3 DEF Unpin, pageVars
  <2>4. CASE Pin(p)
    BY <1>2, <2>4 DEF Pin, At, pageVars
  <2>5. CASE Change(p)
    BY <1>2, <2>5 DEF Change, At, pageVars
  <2>6. CASE Finalize(p)
    <3>1. pc[p] # "fill" /\ UNCHANGED <<osVars, poolVars, taskVars, arr>>
      BY <2>6 DEF Finalize, At, pageVars
    <3>2. (\E l : Return(p, l)) \/ UNCHANGED tmp
      BY <2>6 DEF Finalize
    <3> QED
      BY <1>2, <3>1, <3>2
  <2> QED
    BY <1>3, <2>1, <2>2, <2>3, <2>4, <2>5, <2>6 DEF Begin
<1>4. ASSUME NEW p \in Pmrs, Proceed(p) \/ ReclaimInUnpin(p), ~Moves(p) PROVE PagesStay
  <2>1. CASE AllocRefused(p)
    <3>1. /\ pc[p] # "fill" /\ UNCHANGED <<osVars, poolVars, taskVars, arr>> /\ AllocFailed(p)
      BY <2>1 DEF AllocRefused, At, pageVars
    <3>2. \E l : Return(p, l)
      BY <3>1 DEF AllocFailed
    <3> QED
      BY <1>2, <3>1, <3>2
  <2>2. CASE SkipPool(p) \/ ScanStops(p) \/ ReclaimInUnpin(p) \/ FinalizeUnlists(p)
    BY <1>2, <2>2 DEF SkipPool, ScanStops, ReclaimInUnpin, FinalizeUnlists, At, pageVars
  <2>3. CASE Build(p)
    BY <1>2, <2>3 DEF Build, At, pageVars
  <2>4. CASE BuildFails(p)
    <3>1. pc[p] # "fill" /\ UNCHANGED <<osVars, poolVars, taskVars, arr>>
      BY <2>4 DEF BuildFails, At, pageVars
    <3>2. (\E l : Return(p, l)) \/ UNCHANGED tmp
      BY <2>4 DEF BuildFails
    <3> QED
      BY <1>2, <3>1, <3>2
  <2>5. CASE Unpinned(p) \/ UnpinFails(p)
    BY <1>2, <2>5 DEF Unpinned, UnpinFails, At, pageVars
  <2>6. CASE MovesDone(p)
    <3>1. pc[p] # "fill" /\ UNCHANGED <<osVars, poolVars, taskVars, arr>>
      BY <2>6 DEF MovesDone, At, pageVars
    <3>2. (\E l : Return(p, l)) \/ UNCHANGED tmp
      BY <2>6 DEF MovesDone
    <3> QED
      BY <1>2, <3>1, <3>2
  <2>7. CASE FreeFails(p)
    <3>1. op[p] = "change"
      BY <1>4, <2>7 DEF Moves
    <3>2. /\ pc[p] # "fill" /\ Return(p, "idle")
          /\ UNCHANGED <<os_free, attr, leaked, poolVars, taskVars, arr>>
      BY <2>7, <3>1 DEF FreeFails, At
    <3> QED
      BY <1>2, <3>2 DEF osVars
  <2> QED
    BY <1>4, <2>1, <2>2, <2>3, <2>4, <2>5, <2>6, <2>7 DEF Proceed, Moves
<1> QED
  BY <1>1, <1>3, <1>4, NextKinds DEF Shared, Moves

(* How the list of tasks changes.                                          *)
LEMMA TaskTaken ==
  ASSUME TaskTypes, tasks # << >>, tasks' = Tail(tasks), NEW g, OneTask(g)
  PROVE  /\ OneTask(g)'
         /\ InTask(g)' <=> InTask(g) /\ g \notin Head(tasks).pages
         /\ g \in Head(tasks).pages => InTask(g)
<1> DEFINE X == [mode : Uncached, pages : SUBSET Pages]
<1>1. tasks \in Seq(X)
  BY DEF TaskTypes
<1> HIDE DEF X
<1>2. /\ Len(tasks) \in Nat \ {0} /\ Head(tasks) = tasks[1]
      /\ Len(tasks') = Len(tasks) - 1
      /\ \A n \in 1..Len(tasks') : tasks'[n] = tasks[n + 1]
  BY <1>1
<1>3. \A n \in 1..Len(tasks') : n \in Nat /\ n + 1 \in 1..Len(tasks) /\ n + 1 # 1
  BY <1>2
<1>4. 1 \in 1..Len(tasks)
  BY <1>2
<1>5. \A n \in 1..Len(tasks) : n # 1 => n - 1 \in 1..Len(tasks') /\ (n - 1) + 1 = n
  BY <1>2
<1>6. OneTask(g)'
  <2> SUFFICES ASSUME NEW n \in 1..Len(tasks'), NEW k \in 1..Len(tasks'),
                      g \in tasks'[n].pages, g \in tasks'[k].pages
               PROVE  n = k
    BY DEF OneTask
  <2>1. n + 1 = k + 1
    BY <1>2, <1>3 DEF OneTask
  <2> QED
    BY <1>3, <2>1
<1>7. ASSUME InTask(g)' PROVE InTask(g) /\ g \notin Head(tasks).pages
  <2>1. PICK n \in 1..Len(tasks') : g \in tasks'[n].pages
    BY <1>7 DEF InTask
  <2> QED
    BY <1>2, <1>3, <1>4, <2>1 DEF InTask, OneTask
<1>8. ASSUME InTask(g), g \notin Head(tasks).pages PROVE InTask(g)'
  <2>1. PICK n \in 1..Len(tasks) : g \in tasks[n].pages
    BY <1>8 DEF InTask
  <2>2. n # 1
    BY <1>2, <1>8, <2>1
  <2>3. n - 1 \in 1..Len(tasks') /\ tasks'[n - 1] = tasks[n]
    BY <1>2, <1>5, <2>2
  <2> QED
    BY <2>1, <2>3 DEF InTask
<1> QED
  BY <1>2, <1>4, <1>6, <1>7, <1>8 DEF InTask

LEMMA TaskAdded ==
  ASSUME TaskTypes, NEW t \in [mode : Uncached, pages : SUBSET Pages],
         tasks' = Append(tasks, t), NEW g, OneTask(g), g \in t.pages => ~InTask(g)
  PROVE  OneTask(g)' /\ (InTask(g)' <=> InTask(g) \/ g \in t.pages)
<1> DEFINE X == [mode : Uncached, pages : SUBSET Pages]
<1>1. tasks \in Seq(X) /\ t \in X
  BY DEF TaskTypes
<1> HIDE DEF X
<1> DEFINE l == Len(tasks) + 1
<1>2. /\ Len(tasks) \in Nat /\ Len(tasks') = l /\ tasks'[l] = t
      /\ \A n \in 1..Len(tasks) : tasks'[n] = tasks[n]
  BY <1>1
<1>3. /\ l \in 1..Len(tasks') /\ \A n \in 1..Len(tasks) : n \in 1..Len(tasks') /\ n # l
      /\ \A n \in 1..Len(tasks') : n = l \/ n \in 1..Len(tasks)
  BY <1>2
<1> HIDE DEF l
<1>4. OneTask(g)'
  <2> SUFFICES ASSUME NEW n \in 1..Len(tasks'), NEW k \in 1..Len(tasks'),
                      g \in tasks'[n].pages, g \in tasks'[k].pages
               PROVE  n = k
    BY DEF OneTask
  <2> QED
    BY <1>2, <1>3 DEF OneTask, InTask
<1>5. InTask(g)' <=> InTask(g) \/ g \in t.pages
  BY <1>2, <1>3 DEF InTask
<1> QED
  BY <1>4, <1>5

LEMMA DrainPages ==
  ASSUME IInv, CleanToOs \/ ScanPool \/ LinuxDeinitPhysmem, NEW g \in Pages
  PROVE  OnePlace(g)'
<1>1. Types /\ TaskTypes /\ OnePlace(g)
  BY DEF IInv, Types, TaskTypes, PagesInv
<1>2. PICK gone, own :
           /\ Gives(gone) /\ own \subseteq Pages
           /\ gone["uc"] \cup gone["wc"] \cup own \subseteq Pages
           /\ ToOs(gone["uc"] \cup gone["wc"] \cup own)
           /\ CleanToOs => own = Head(tasks).pages
           /\ ~CleanToOs => own = {}
           /\ LinuxDeinitPhysmem => gone = pool
  BY SharedGives
<1>3. leaked' = leaked /\ tmp' = tmp /\ arr' = arr
  BY DEF CleanToOs, ScanPool, LinuxDeinitPhysmem, pageVars, callVars
<1>4. /\ InTmp(g)' <=> InTmp(g)
      /\ InSlot(g)' <=> InSlot(g)
      /\ OneTmp(g)' /\ OneSlot(g)'
  BY <1>1, <1>3 DEF InTmp, InSlot, OneTmp, OneSlot, OnePlace
<1> DEFINE given == g \in gone["uc"] \/ g \in gone["wc"]
<1>5. g \in os_free' <=> g \in os_free \/ given \/ g \in own
  BY <1>2 DEF ToOs
<1>6. /\ OnePool(g)' /\ (given => InPool(g))
      /\ InPool(g)' <=> InPool(g) /\ ~given
  BY <1>1, <1>2 DEF Gives, OnePool, InPool, OnePlace, Uncached
<1>7. /\ OneTask(g)' /\ (g \in own => InTask(g))
      /\ InTask(g)' <=> InTask(g) /\ g \notin own
  <2>1. CASE CleanToOs
    <3>1. tasks # << >> /\ tasks' = Tail(tasks) /\ own = Head(tasks).pages
      BY <1>2, <2>1 DEF CleanToOs
    <3> QED
      BY <1>1, <3>1, TaskTaken DEF OnePlace
  <2>2. CASE ~CleanToOs
    <3>1. tasks' = tasks /\ own = {}
      BY <1>2, <2>2 DEF ScanPool, LinuxDeinitPhysmem, taskVars
    <3> QED
      BY <1>1, <3>1 DEF OnePlace, OneTask, InTask
  <2> QED
    BY <2>1, <2>2
<1>8. g \in leaked' <=> g \in leaked
  BY <1>3
<1> QED
  BY <1>1, <1>4, <1>5, <1>6, <1>7, <1>8, Zenon DEF OnePlace, OneKind

LEMMA PoolPages ==
  ASSUME IInv, CleanToPool, NEW g \in Pages
  PROVE  OnePlace(g)'
<1>1. Types /\ TaskTypes /\ OnePlace(g)
  BY DEF IInv, Types, TaskTypes, PagesInv
<1>2. /\ tasks # << >> /\ tasks' = Tail(tasks)
      /\ pool' = [pool EXCEPT ![Head(tasks).mode] = @ \cup Head(tasks).pages]
      /\ os_free' = os_free /\ leaked' = leaked /\ tmp' = tmp /\ arr' = arr
  BY DEF CleanToPool, osVars, pageVars, callVars
<1>3. Head(tasks).mode \in Uncached
  <2>1. Head(tasks) \in [mode : Uncached, pages : SUBSET Pages]
    BY <1>1, <1>2, HeadAndTail DEF TaskTypes
  <2> QED
    BY <2>1
<1>4. /\ InTmp(g)' <=> InTmp(g)
      /\ InSlot(g)' <=> InSlot(g)
      /\ OneTmp(g)' /\ OneSlot(g)'
  BY <1>1, <1>2 DEF InTmp, InSlot, OneTmp, OneSlot, OnePlace
<1>5. /\ OneTask(g)' /\ (g \in Head(tasks).pages => InTask(g))
      /\ InTask(g)' <=> InTask(g) /\ g \notin Head(tasks).pages
  BY <1>1, <1>2, TaskTaken DEF OnePlace
<1>6. InPool(g)' <=> InPool(g) \/ g \in Head(tasks).pages
  BY <1>1, <1>2, <1>3 DEF InPool, Types
<1>7. OnePool(g)'
  <2>1. g \in Head(tasks).pages => ~InPool(g)
    BY <1>1, <1>5 DEF OnePlace, OneKind
  <2> QED
    BY <1>1, <1>2, <1>3, <2>1 DEF OnePlace, OnePool, InPool, Types
<1>8. /\ g \in leaked' <=> g \in leaked
      /\ g \in os_free' <=> g \in os_free
  BY <1>2
<1> QED
  BY <1>1, <1>4, <1>5, <1>6, <1>7, <1>8, Zenon DEF OnePlace, OneKind

LEMMA GetPages ==
  ASSUME IInv, NEW p \in Pmrs, _GetPagesFromPoolLocked(p), NEW g \in Pages
  PROVE  OnePlace(g)'
<1>1. Types /\ OnePlace(g) /\ PmrInv(p)
  BY DEF IInv, PagesInv, PmrsInv
<1>2. PICK got \in SUBSET Pages :
         /\ kind[p].mode \in Uncached /\ got \subseteq pool[kind[p].mode]
         /\ tmp' = [tmp EXCEPT ![p] = got]
         /\ pool' = [pool EXCEPT ![kind[p].mode] = @ \ got]
  BY GetEffect
<1>3. /\ os_free' = os_free /\ leaked' = leaked /\ tasks' = tasks /\ arr' = arr
      /\ pc[p] = "alloc"
  BY DEF _GetPagesFromPoolLocked, At, osVars, taskVars, pageVars
<1>4. tmp[p] = {}
  BY <1>1, <1>3 DEF PmrInv
<1>5. /\ InTask(g)' <=> InTask(g)
      /\ InSlot(g)' <=> InSlot(g)
      /\ OneTask(g)' /\ OneSlot(g)'
      /\ g \in leaked' <=> g \in leaked
      /\ g \in os_free' <=> g \in os_free
  BY <1>1, <1>3 DEF InTask, InSlot, OneTask, OneSlot, OnePlace
<1>6. /\ OnePool(g)' /\ (g \in got => InPool(g))
      /\ InPool(g)' <=> InPool(g) /\ g \notin got
  BY <1>1, <1>2 DEF OnePool, InPool, OnePlace, Types
<1>7. /\ g \in got => ~InTmp(g)
  BY <1>1, <1>6 DEF OnePlace, OneKind
<1>8. /\ InTmp(g)' <=> InTmp(g) \/ g \in got
      /\ OneTmp(g)'
  BY <1>1, <1>2, <1>4, <1>7 DEF InTmp, OneTmp, OnePlace, Types
<1> QED
  BY <1>1, <1>5, <1>6, <1>8, Zenon DEF OnePlace, OneKind

LEMMA TmpGone ==
  ASSUME Types, NEW p \in Pmrs, tmp' = [tmp EXCEPT ![p] = {}], NEW g, OneTmp(g)
  PROVE  /\ OneTmp(g)' /\ (g \in tmp[p] => InTmp(g))
         /\ InTmp(g)' <=> InTmp(g) /\ g \notin tmp[p]
BY DEF Types, InTmp, OneTmp

LEMMA FillPages ==
  ASSUME IInv, NEW p \in Pmrs, Fill(p), NEW g \in Pages
  PROVE  OnePlace(g)'
<1>1. Types /\ OnePlace(g) /\ PmrInv(p)
  BY DEF IInv, PagesInv, PmrsInv
<1>2. PICK new, page : FillsWith(p, new, page)
  BY FillEffect
<1>3. Range(ask[p]) \subseteq Index /\ Range(ask[p]) \cap Filled(p) = {}
  <2>1. Range(ask[p]) \subseteq 1..kind[p].size /\ Range(ask[p]) \cap Filled(p) = {}
    BY FillEffect
  <2> QED
    BY <1>1, <2>1, SlotFacts
<1>4. /\ leaked' = leaked /\ tasks' = tasks /\ pool' = pool /\ AllocDone(p)
  BY DEF Fill, poolVars, taskVars
<1>5. tmp' = [tmp EXCEPT ![p] = {}]
  BY <1>4 DEF AllocDone, Return
<1>6. /\ InTask(g)' <=> InTask(g)
      /\ InPool(g)' <=> InPool(g)
      /\ OneTask(g)' /\ OnePool(g)'
      /\ g \in leaked' <=> g \in leaked
  BY <1>1, <1>4 DEF InTask, InPool, OneTask, OnePool, OnePlace
<1>7. /\ OneTmp(g)' /\ (g \in tmp[p] => InTmp(g))
      /\ InTmp(g)' <=> InTmp(g) /\ g \notin tmp[p]
  BY <1>1, <1>5, TmpGone DEF OnePlace
<1>8. /\ g \in new => g \in os_free
      /\ g \in os_free' <=> g \in os_free /\ g \notin new
  BY <1>2 DEF FillsWith
<1> DEFINE R == Range(ask[p])
           B == tmp[p] \cup new
<1>9. /\ arr' = [arr EXCEPT ![p] = [i \in Index |-> IF i \in R THEN page[i] ELSE arr[p][i]]]
      /\ page \in [R -> B] /\ \A i, j \in R : page[i] = page[j] => i = j
      /\ \A x \in B : \E i \in R : page[i] = x
  BY <1>2 DEF FillsWith, IsInjective
<1>10. R \subseteq Index /\ \A i \in R : arr[p][i] = NoPage
  BY <1>3 DEF Filled
<1>11. g \in B => ~InSlot(g)
  BY <1>1, <1>7, <1>8 DEF OnePlace, OneKind
<1> HIDE DEF R, B
<1>12. /\ arr'[p] = [i \in Index |-> IF i \in R THEN page[i] ELSE arr[p][i]]
       /\ \A q \in Pmrs \ {p} : arr'[q] = arr[q]
  BY <1>1, <1>9 DEF Types
<1>13. ASSUME NEW q \in Pmrs, NEW i \in Index, arr'[q][i] = g
       PROVE  arr[q][i] = g \/ (q = p /\ i \in R /\ page[i] = g /\ g \in B)
  BY <1>9, <1>12, <1>13
<1>14. ASSUME NEW q \in Pmrs, NEW i \in Index, arr[q][i] = g
       PROVE  arr'[q][i] = g
  <2>1. g # NoPage
    BY PagesFinite
  <2> QED
    BY <1>10, <1>12, <1>14, <2>1
<1>15. g \in B => InSlot(g)'
  <2> SUFFICES ASSUME g \in B PROVE \E i \in Index : arr'[p][i] = g
    BY DEF InSlot
  <2>1. PICK i \in R : page[i] = g
    BY <1>9
  <2> QED
    BY <1>10, <1>12, <2>1
<1>16. InSlot(g)' <=> InSlot(g) \/ g \in B
  <2>1. InSlot(g)' => InSlot(g) \/ g \in B
    BY <1>13 DEF InSlot
  <2>2. InSlot(g) => InSlot(g)'
    BY <1>14 DEF InSlot
  <2> QED
    BY <1>15, <2>1, <2>2
<1>17. OneSlot(g)'
  <2> SUFFICES ASSUME NEW q \in Pmrs, NEW r \in Pmrs, NEW i \in Index, NEW j \in Index,
                      arr'[q][i] = g, arr'[r][j] = g
               PROVE  q = r /\ i = j
    BY DEF OneSlot
  <2>1. OneSlot(g)
    BY <1>1 DEF OnePlace
  <2>2. CASE g \in B
    BY <1>9, <1>11, <1>13, <2>2 DEF InSlot
  <2>3. CASE g \notin B
    BY <1>13, <2>1, <2>3 DEF OneSlot
  <2> QED
    BY <2>2, <2>3
<1>18. g \in B <=> g \in tmp[p] \/ g \in new
  BY DEF B
<1> QED
  BY <1>1, <1>6, <1>7, <1>8, <1>16, <1>17, <1>18, Zenon DEF OnePlace, OneKind

LEMMA FailPages ==
  ASSUME IInv, NEW p \in Pmrs, FillFails(p), NEW g \in Pages
  PROVE  OnePlace(g)'
<1>1. Types /\ OnePlace(g)
  BY DEF IInv, PagesInv
<1>2. arr' = arr /\ ToOs(tmp[p]) /\ leaked' = leaked
  BY FailEffect
<1>3. leaked' = leaked /\ tasks' = tasks /\ pool' = pool /\ AllocFailed(p)
  BY <1>2 DEF FillFails, poolVars, taskVars
<1>4. tmp' = [tmp EXCEPT ![p] = {}]
  BY <1>3 DEF AllocFailed, Return
<1>5. /\ InTask(g)' <=> InTask(g)
      /\ InPool(g)' <=> InPool(g)
      /\ InSlot(g)' <=> InSlot(g)
      /\ OneTask(g)' /\ OnePool(g)' /\ OneSlot(g)'
      /\ g \in leaked' <=> g \in leaked
  BY <1>1, <1>2, <1>3 DEF InTask, InPool, InSlot, OneTask, OnePool, OneSlot, OnePlace
<1>6. /\ OneTmp(g)' /\ (g \in tmp[p] => InTmp(g))
      /\ InTmp(g)' <=> InTmp(g) /\ g \notin tmp[p]
  BY <1>1, <1>4, TmpGone DEF OnePlace
<1>7. g \in os_free' <=> g \in os_free \/ g \in tmp[p]
  BY <1>2 DEF ToOs
<1> QED
  BY <1>1, <1>5, <1>6, <1>7, Zenon DEF OnePlace, OneKind

(* Pages that leave the slots of a PMR.                                    *)
LEMMA SlotsCleared ==
  ASSUME Types, NEW p \in Pmrs, NEW slots \in SUBSET Index,
         arr' = [arr EXCEPT ![p] = Cleared(arr[p], slots)], NEW g \in Pages, OneSlot(g)
  PROVE  /\ OneSlot(g)' /\ (g \in PagesIn(p, slots) => InSlot(g))
         /\ InSlot(g)' <=> InSlot(g) /\ g \notin PagesIn(p, slots)
<1>1. /\ arr'[p] = [i \in Index |-> IF i \in slots THEN NoPage ELSE arr[p][i]]
      /\ \A q \in Pmrs \ {p} : arr'[q] = arr[q]
  BY DEF Types, Cleared
<1>2. g # NoPage
  BY PagesFinite
<1>3. g \in PagesIn(p, slots) <=> \E i \in slots : arr[p][i] = g
  BY <1>2 DEF PagesIn
<1>4. \A q \in Pmrs, i \in Index : arr'[q][i] = g <=> arr[q][i] = g /\ ~(q = p /\ i \in slots)
  BY <1>1, <1>2
<1>5. OneSlot(g)'
  BY <1>4 DEF OneSlot
<1>6. g \in PagesIn(p, slots) => InSlot(g)
  BY <1>3 DEF InSlot
<1>7. InSlot(g)' <=> InSlot(g) /\ g \notin PagesIn(p, slots)
  BY <1>3, <1>4 DEF InSlot, OneSlot
<1> QED
  BY <1>5, <1>6, <1>7

LEMMA FreedPages ==
  ASSUME IInv, NEW p \in Pmrs, NEW slots \in SUBSET Index, Frees(p, slots),
         leaked' = leaked, pool' = pool, tmp' = tmp, NEW g \in Pages
  PROVE  OnePlace(g)'
<1>1. Types /\ TaskTypes /\ OnePlace(g) /\ PmrInv(p) /\ PagesInv
  BY DEF IInv, Types, TaskTypes, PagesInv, PmrsInv
<1> DEFINE S == PagesIn(p, slots)
<1>2. /\ arr' = [arr EXCEPT ![p] = Cleared(arr[p], slots)]
      /\ ToTask(p, S) \/ (ToOs(S) /\ UNCHANGED taskVars)
  BY FreeEffect, Zenon
<1>3. /\ OneSlot(g)' /\ (g \in S => InSlot(g))
      /\ InSlot(g)' <=> InSlot(g) /\ g \notin S
  BY <1>1, <1>2, SlotsCleared DEF OnePlace
<1>4. S \subseteq Pages
  BY <1>1, PagesInCount
<1> HIDE DEF S
<1>5. /\ InPool(g)' <=> InPool(g)
      /\ InTmp(g)' <=> InTmp(g)
      /\ OnePool(g)' /\ OneTmp(g)'
      /\ g \in leaked' <=> g \in leaked
  BY <1>1 DEF InPool, InTmp, OnePool, OneTmp, OnePlace
<1>6. CASE ToTask(p, S)
  <2>1. /\ tasks' = Append(tasks, [mode |-> kind[p].mode, pages |-> S])
        /\ os_free' = os_free /\ kind[p].mode \in Uncached
    BY <1>6 DEF ToTask
  <2>2. [mode |-> kind[p].mode, pages |-> S] \in [mode : Uncached, pages : SUBSET Pages]
    BY <1>4, <2>1
  <2>3. g \in S => ~InTask(g)
    BY <1>1, <1>3 DEF OnePlace, OneKind
  <2>4. OneTask(g)' /\ (InTask(g)' <=> InTask(g) \/ g \in S)
    <3> DEFINE t == [mode |-> kind[p].mode, pages |-> S]
    <3>1. t.pages = S /\ t \in [mode : Uncached, pages : SUBSET Pages] /\ tasks' = Append(tasks, t)
      BY <2>1, <2>2
    <3> HIDE DEF t
    <3>2. OneTask(g)
      BY <1>1 DEF OnePlace
    <3> QED
      BY <1>1, <2>3, <3>1, <3>2, TaskAdded
  <2>5. g \in os_free' <=> g \in os_free
    BY <2>1
  <2> QED
    BY <1>1, <1>3, <1>5, <2>4, <2>5, Zenon DEF OnePlace, OneKind
<1>7. CASE ToOs(S) /\ UNCHANGED taskVars
  <2>1. g \in os_free' <=> g \in os_free \/ g \in S
    BY <1>7 DEF ToOs
  <2>2. OneTask(g)' /\ (InTask(g)' <=> InTask(g))
    BY <1>1, <1>7 DEF OneTask, InTask, OnePlace, taskVars
  <2> QED
    BY <1>1, <1>3, <1>5, <2>1, <2>2, Zenon DEF OnePlace, OneKind
<1> QED
  BY <1>2, <1>6, <1>7

LEMMA LeakedPages ==
  ASSUME IInv, NEW p \in Pmrs, FreeFails(p), op[p] # "change", NEW g \in Pages
  PROVE  OnePlace(g)'
<1>1. Types /\ OnePlace(g) /\ PmrInv(p)
  BY DEF IInv, PagesInv, PmrsInv
<1>2. /\ pc[p] = "free" /\ Return(p, "none") /\ leaked' = leaked \cup Held(p)
      /\ arr' = [arr EXCEPT ![p] = [i \in Index |-> NoPage]]
      /\ os_free' = os_free /\ pool' = pool /\ tasks' = tasks
  BY DEF FreeFails, At, poolVars, taskVars
<1>3. tmp' = tmp
  BY <1>2, NothingReceived DEF Return
<1>4. arr' = [arr EXCEPT ![p] = Cleared(arr[p], Index)]
  BY <1>2 DEF Cleared
<1>5. /\ OneSlot(g)' /\ (g \in Held(p) => InSlot(g))
      /\ InSlot(g)' <=> InSlot(g) /\ g \notin Held(p)
  BY <1>1, <1>4, SlotsCleared DEF OnePlace, Held
<1>6. /\ InPool(g)' <=> InPool(g)
      /\ InTmp(g)' <=> InTmp(g)
      /\ InTask(g)' <=> InTask(g)
      /\ OnePool(g)' /\ OneTmp(g)' /\ OneTask(g)'
      /\ g \in os_free' <=> g \in os_free
  BY <1>1, <1>2, <1>3 DEF InPool, InTmp, InTask, OnePool, OneTmp, OneTask, OnePlace
<1>7. g \in leaked' <=> g \in leaked \/ g \in Held(p)
  BY <1>2
<1> QED
  BY <1>1, <1>5, <1>6, <1>7, Zenon DEF OnePlace, OneKind

LEMMA MovedPages ==
  ASSUME IInv, NEW p \in Pmrs, Move(p), NEW g \in Pages
  PROVE  OnePlace(g)'
<1>1. Types /\ OnePlace(g) /\ PmrInv(p)
  BY DEF IInv, PagesInv, PmrsInv
<1>2. PICK i \in 1..kind[p].size, j \in 1..kind[p].size :
           /\ i = chg[p].to[1] /\ j = chg[p].from[1] /\ chg[p].to # << >> /\ chg[p].from # << >>
           /\ j \in valid[p] /\ (i \in valid[p] <=> chg[p].remap) /\ i \in Index /\ j \in Index
           /\ arr' = [arr EXCEPT ![p] = [l \in Index |->
                        IF l = j THEN IF chg[p].remap THEN arr[p][i] ELSE NoPage
                        ELSE IF l = i THEN arr[p][j] ELSE arr[p][l]]]
           /\ valid'[p] = (IF chg[p].remap THEN valid[p] ELSE (valid[p] \ {j}) \cup {i})
           /\ chg'[p] = [to |-> Tail(chg[p].to), from |-> Tail(chg[p].from),
                         remap |-> chg[p].remap]
  BY MoveEffect
<1>3. valid[p] = Filled(p)
  BY <1>1 DEF PmrInv, Changing, Move, At
<1>4. arr[p][j] # NoPage /\ (arr[p][i] # NoPage <=> chg[p].remap) /\ g # NoPage
  BY <1>2, <1>3, PagesFinite DEF Filled
<1>5. /\ arr'[p] = [l \in Index |-> IF l = j THEN IF chg[p].remap THEN arr[p][i] ELSE NoPage
                                    ELSE IF l = i THEN arr[p][j] ELSE arr[p][l]]
      /\ \A q \in Pmrs \ {p} : arr'[q] = arr[q]
  BY <1>1, <1>2 DEF Types
<1>6. /\ OneSlot(g)
      /\ os_free' = os_free /\ leaked' = leaked /\ pool' = pool /\ tasks' = tasks /\ tmp' = tmp
  BY <1>1 DEF Move, osVars, poolVars, taskVars, OnePlace
<1>7. \A l \in Index : arr'[p][l] = g =>
        \/ l = j /\ chg[p].remap /\ arr[p][i] = g
        \/ l = i /\ l # j /\ arr[p][j] = g
        \/ l # i /\ l # j /\ arr[p][l] = g
  BY <1>4, <1>5
<1>8. OneSlot(g)'
  <2> SUFFICES ASSUME NEW q \in Pmrs, NEW r \in Pmrs, NEW k \in Index, NEW l \in Index,
                      arr'[q][k] = g, arr'[r][l] = g
               PROVE  q = r /\ k = l
    BY DEF OneSlot
  <2>1. \A s \in Pmrs, m \in Index : arr'[s][m] = g =>
          \E n \in Index : arr[s][n] = g /\ (s = p => \/ m = j /\ n = i
                                                      \/ m = i /\ m # j /\ n = j
                                                      \/ m # i /\ m # j /\ n = m)
                                         /\ (s # p => n = m)
    <3> SUFFICES ASSUME NEW s \in Pmrs, NEW m \in Index, arr'[s][m] = g
                 PROVE  \E n \in Index : arr[s][n] = g /\ (s = p => \/ m = j /\ n = i
                                                                    \/ m = i /\ m # j /\ n = j
                                                                    \/ m # i /\ m # j /\ n = m)
                                                       /\ (s # p => n = m)
      OBVIOUS
    <3>1. CASE s # p
      <4>1. arr[s][m] = g
        BY <1>5, <3>1
      <4> WITNESS m \in Index
      <4> QED
        BY <3>1, <4>1
    <3>2. CASE s = p /\ m = j /\ arr[p][i] = g
      <4>1. i \in Index
        BY <1>2
      <4> WITNESS i \in Index
      <4> QED
        BY <3>2
    <3>3. CASE s = p /\ m = i /\ m # j /\ arr[p][j] = g
      <4>1. j \in Index
        BY <1>2
      <4> WITNESS j \in Index
      <4> QED
        BY <3>3
    <3>4. CASE s = p /\ m # i /\ m # j /\ arr[p][m] = g
      <4> WITNESS m \in Index
      <4> QED
        BY <3>4
    <3> QED
      BY <1>7, <3>1, <3>2, <3>3, <3>4
  <2>2. PICK k0 \in Index : arr[q][k0] = g /\ (q = p => \/ k = j /\ k0 = i
                                                        \/ k = i /\ k # j /\ k0 = j
                                                        \/ k # i /\ k # j /\ k0 = k)
                                           /\ (q # p => k0 = k)
    BY <2>1
  <2>3. PICK l0 \in Index : arr[r][l0] = g /\ (r = p => \/ l = j /\ l0 = i
                                                        \/ l = i /\ l # j /\ l0 = j
                                                        \/ l # i /\ l # j /\ l0 = l)
                                           /\ (r # p => l0 = l)
    BY <2>1
  <2>4. q = r /\ k0 = l0
    BY <1>6, <2>2, <2>3 DEF OneSlot
  <2> QED
    BY <2>2, <2>3, <2>4
<1>9. InSlot(g)' <=> InSlot(g)
  <2>1. ASSUME InSlot(g)' PROVE InSlot(g)
    <3>1. PICK q \in Pmrs, l \in Index : arr'[q][l] = g
      BY <2>1 DEF InSlot
    <3>2. CASE q = p
      BY <1>2, <1>7, <3>1, <3>2 DEF InSlot
    <3>3. CASE q # p
      BY <1>5, <3>1, <3>3 DEF InSlot
    <3> QED
      BY <3>2, <3>3
  <2>2. ASSUME InSlot(g) PROVE InSlot(g)'
    <3>1. PICK q \in Pmrs, l \in Index : arr[q][l] = g
      BY <2>2 DEF InSlot
    <3>2. CASE q = p
      <4>1. /\ arr[p][l] = g
            /\ arr'[p][j] = IF chg[p].remap THEN arr[p][i] ELSE NoPage
            /\ i # j => arr'[p][i] = arr[p][j]
            /\ l # i /\ l # j => arr'[p][l] = arr[p][l]
        <5>1. \A n \in Index :
                arr'[p][n] = IF n = j THEN IF chg[p].remap THEN arr[p][i] ELSE NoPage
                             ELSE IF n = i THEN arr[p][j] ELSE arr[p][n]
          BY <1>5
        <5>2. i \in Index /\ j \in Index /\ l \in Index /\ arr[p][l] = g
          BY <1>2, <3>1, <3>2
        <5> QED
          BY <5>1, <5>2
      <4>2. \E k \in Index : arr'[p][k] = g
        <5>1. CASE l = i
          <6>1. arr'[p][j] = g
            BY <1>4, <4>1, <5>1
          <6> QED
            BY <1>2, <6>1
        <5>2. CASE l = j /\ l # i
          <6>1. arr'[p][i] = g
            BY <4>1, <5>2
          <6> QED
            BY <1>2, <6>1
        <5>3. CASE l # i /\ l # j
          BY <4>1, <5>3
        <5> QED
          BY <5>1, <5>2, <5>3
      <4> QED
        BY <4>2 DEF InSlot
    <3>3. CASE q # p
      BY <1>5, <3>1, <3>3 DEF InSlot
    <3> QED
      BY <3>2, <3>3
  <2> QED
    BY <2>1, <2>2
<1>10. /\ InPool(g)' <=> InPool(g)
       /\ InTmp(g)' <=> InTmp(g)
       /\ InTask(g)' <=> InTask(g)
       /\ OnePool(g)' /\ OneTmp(g)' /\ OneTask(g)'
       /\ g \in os_free' <=> g \in os_free
       /\ g \in leaked' <=> g \in leaked
  BY <1>1, <1>6 DEF InPool, InTmp, InTask, OnePool, OneTmp, OneTask, OnePlace
<1> QED
  BY <1>1, <1>8, <1>9, <1>10, Zenon DEF OnePlace, OneKind

LEMMA MovesPages ==
  ASSUME IInv, NEW p \in Pmrs, Moves(p), NEW g \in Pages
  PROVE  OnePlace(g)'
<1>1. CASE _GetPagesFromPoolLocked(p)
  BY <1>1, GetPages
<1>2. CASE Fill(p)
  BY <1>2, FillPages
<1>3. CASE FillFails(p)
  BY <1>3, FailPages
<1>4. CASE Move(p)
  BY <1>4, MovedPages
<1>5. CASE Free(p)
  <2>1. Frees(p, Leaving(p)) /\ Leaving(p) \in SUBSET Index
    BY <1>5, FreeFrees
  <2>2. /\ pc[p] = "free" /\ leaked' = leaked /\ pool' = pool
        /\ \E l : Return(p, l)
    BY <1>5 DEF Free, At, poolVars
  <2>3. tmp' = tmp
    BY <2>2, NothingReceived DEF Return
  <2>4. PICK slots \in SUBSET Index : slots = Leaving(p)
    BY <2>1
  <2> QED
    BY <2>1, <2>2, <2>3, <2>4, FreedPages
<1>6. CASE ScanUnpinned(p)
  <2>1. leaked' = leaked /\ pool' = pool /\ tmp' = tmp
    BY <1>6 DEF ScanUnpinned, poolVars, callVars
  <2> QED
    BY <1>6, <2>1, ScanFrees, FreedPages
<1>7. CASE FreeFails(p) /\ op[p] # "change"
  BY <1>7, LeakedPages
<1> QED
  BY <1>1, <1>2, <1>3, <1>4, <1>5, <1>6, <1>7 DEF Moves

(* Nothing happens before LinuxInitPhysmem or after LinuxDeinitPhysmem.    *)
LEMMA NextLoaded ==
  ASSUME [Next]_vars
  PROVE  \/ loaded' = loaded /\ (loaded \/ UNCHANGED vars)
         \/ LinuxDeinitPhysmem
<1>1. ASSUME NEW p \in Pmrs, Begin(p) PROVE loaded' = loaded /\ loaded
  BY <1>1 DEF Begin, Create, Lock, Unlock, Unpin, Pin, Change, Finalize, At, Running
<1>2. ASSUME NEW p \in Pmrs, Proceed(p) \/ ReclaimInUnpin(p) PROVE loaded' = loaded /\ loaded
  <2>1. CASE AllocRefused(p) \/ SkipPool(p) \/ _GetPagesFromPoolLocked(p) \/ Fill(p) \/ FillFails(p)
    BY <2>1 DEF AllocRefused, SkipPool, _GetPagesFromPoolLocked, Fill, FillFails, At, Running
  <2>2. CASE Build(p) \/ BuildFails(p) \/ ScanStops(p) \/ Unpinned(p) \/ UnpinFails(p) \/ ReclaimInUnpin(p)
    BY <2>2 DEF Build, BuildFails, ScanStops, Unpinned, UnpinFails, ReclaimInUnpin, At, Running
  <2>3. CASE Move(p) \/ MovesDone(p) \/ FinalizeUnlists(p) \/ Free(p) \/ FreeFails(p)
    BY <2>3 DEF Move, MovesDone, FinalizeUnlists, Free, FreeFails, At, Running
  <2> QED
    BY <1>2, <2>1, <2>2, <2>3 DEF Proceed
<1>3. ASSUME NEW p \in Pmrs, ScanUnpinned(p) PROVE loaded' = loaded /\ loaded
  BY <1>3 DEF ScanUnpinned, Running
<1>4. ASSUME Shared, ~LinuxDeinitPhysmem PROVE loaded' = loaded /\ loaded
  BY <1>4 DEF Shared, CleanToPool, CleanToOs, ScanPool, ScanEnds, Running
<1>5. UNCHANGED vars => loaded' = loaded
  BY DEF vars
<1> QED
  BY <1>1, <1>2, <1>3, <1>4, <1>5, NextKinds

(* When the module goes, the pages that are not lost are with the          *)
(* operating system: no PMR has pages, and the pool is given back.         *)
LEMMA DeinitPages ==
  ASSUME IInv, LinuxDeinitPhysmem
  PROVE  os_free' = Pages \ leaked'
<1>1. Types /\ \A g \in Pages : OnePlace(g)
  BY DEF IInv, PagesInv
<1>2. leaked' = leaked /\ tasks = << >> /\ \A p \in Pmrs : pc[p] = "none"
  BY DEF LinuxDeinitPhysmem
<1>3. os_free' = os_free \cup (pool["uc"] \cup pool["wc"])
  BY DEF LinuxDeinitPhysmem, _FreePagesFromPoolUnlocked, ToOs
<1>4. \A p \in Pmrs : tmp[p] = {} /\ Filled(p) = {}
  <2> SUFFICES ASSUME NEW p \in Pmrs PROVE tmp[p] = {} /\ Filled(p) = {}
    OBVIOUS
  <2>1. PmrInv(p) /\ pc[p] = "none"
    BY <1>2 DEF IInv, PmrsInv
  <2>2. tmp[p] = {} /\ num[p] = 0
    BY <2>1 DEF PmrInv
  <2> QED
    BY <1>1, <2>1, <2>2, SlotFacts
<1>5. \A g \in Pages : ~InTask(g) /\ ~InTmp(g) /\ ~InSlot(g)
  <2> SUFFICES ASSUME NEW g \in Pages PROVE ~InTask(g) /\ ~InTmp(g) /\ ~InSlot(g)
    OBVIOUS
  <2>1. ~InTask(g)
    BY <1>2 DEF InTask
  <2>2. ~InTmp(g)
    BY <1>4 DEF InTmp
  <2>3. ~InSlot(g)
    BY <1>4, PagesFinite DEF InSlot, Filled
  <2> QED
    BY <2>1, <2>2, <2>3
<1>6. ASSUME NEW g \in Pages PROVE g \in os_free' <=> g \notin leaked'
  <2>1. InPool(g) <=> g \in pool["uc"] \cup pool["wc"]
    BY DEF InPool, Uncached
  <2> QED
    BY <1>1, <1>2, <1>3, <1>5, <2>1 DEF OnePlace, OneKind
<1>7. os_free' \subseteq Pages /\ leaked' \subseteq Pages
  BY <1>1, <1>2, <1>3 DEF Types, Uncached
<1> QED
  BY <1>6, <1>7

LEMMA NextPages ==
  ASSUME IInv, [Next]_vars
  PROVE  PagesInv'
<1>1. ASSUME NEW g \in Pages PROVE OnePlace(g)'
  <2>1. CASE PagesStay
    <3>1. OnePlace(g)
      BY DEF IInv, PagesInv
    <3>2. /\ os_free' = os_free /\ leaked' = leaked /\ pool' = pool /\ tasks' = tasks
          /\ tmp' = tmp /\ arr' = arr
      BY <2>1 DEF PagesStay, osVars
    <3>3. /\ InPool(g)' <=> InPool(g)
          /\ InTask(g)' <=> InTask(g)
          /\ InTmp(g)' <=> InTmp(g)
          /\ InSlot(g)' <=> InSlot(g)
      BY <3>2 DEF InPool, InTask, InTmp, InSlot
    <3>4. OnePool(g)' /\ OneTask(g)' /\ OneTmp(g)' /\ OneSlot(g)'
      BY <3>1, <3>2 DEF OnePlace, OnePool, OneTask, OneTmp, OneSlot
    <3>5. /\ g \in os_free' <=> g \in os_free
          /\ g \in leaked' <=> g \in leaked
      BY <3>2
    <3> QED
      BY <3>1, <3>3, <3>4, <3>5, Zenon DEF OnePlace, OneKind
  <2>2. CASE CleanToPool
    BY <2>2, PoolPages
  <2>3. CASE CleanToOs \/ ScanPool \/ LinuxDeinitPhysmem
    BY <2>3, DrainPages
  <2>4. ASSUME NEW p \in Pmrs, Moves(p) PROVE OnePlace(g)'
    BY <2>4, MovesPages
  <2> QED
    BY <2>1, <2>2, <2>3, <2>4, NextMoves
<1>2. ~loaded' => os_free' = Pages \ leaked'
  <2>1. CASE LinuxDeinitPhysmem
    BY <2>1, DeinitPages
  <2>2. CASE ~LinuxDeinitPhysmem /\ ~loaded'
    <3>1. ~loaded /\ UNCHANGED vars
      BY <2>2, NextLoaded
    <3> QED
      BY <3>1 DEF vars, osVars, IInv, PagesInv
  <2> QED
    BY <2>1, <2>2
<1> QED
  BY <1>1, <1>2 DEF PagesInv

-----------------------------------------------------------------------------
(* Memory types follow the pages.                                          *)

HasPage(p, g) == g \in tmp[p] \/ \E i \in Index : arr[p][i] = g

Typed(g) ==
  /\ g \in os_free => attr[g] = "wb"
  /\ \A m \in Uncached : g \in pool[m] => attr[g] = m
  /\ \A n \in 1..Len(tasks) : g \in tasks[n].pages => attr[g] = tasks[n].mode
  /\ \A p \in Pmrs : HasPage(p, g) => attr[g] = kind[p].mode

LEMMA HonouredTyped ==
  ASSUME Types, TypesHonoured, NEW g \in Pages
  PROVE  Typed(g)
<1>1. g # NoPage
  BY PagesFinite
<1> QED
  BY <1>1 DEF TypesHonoured, Typed, HasPage, Held, PagesIn

LEMMA TypedHonoured ==
  ASSUME Types', \A g \in Pages : Typed(g)'
  PROVE  TypesHonoured'
<1>1. /\ os_free' \subseteq Pages /\ \A m \in Uncached : pool'[m] \subseteq Pages
      /\ tasks' \in Seq([mode : Uncached, pages : SUBSET Pages])
      /\ \A p \in Pmrs : tmp'[p] \subseteq Pages /\ \A i \in Index : arr'[p][i] \in Pages \cup {NoPage}
  BY DEF Types
<1>2. \A n \in 1..Len(tasks') : tasks'[n].pages \subseteq Pages
  <2> DEFINE X == [mode : Uncached, pages : SUBSET Pages]
  <2>1. tasks' \in Seq(X) /\ \A t \in X : t.pages \subseteq Pages
    BY <1>1
  <2> HIDE DEF X
  <2> QED
    BY <2>1
<1>3. \A p \in Pmrs : tmp'[p] \cup Held(p)' \subseteq Pages
  BY <1>1 DEF Held, PagesIn
<1>4. \A p \in Pmrs : \A g \in tmp'[p] \cup Held(p)' : HasPage(p, g)'
  BY DEF Held, PagesIn, HasPage
<1> QED
  BY <1>1, <1>2, <1>3, <1>4 DEF TypesHonoured, Typed

(* A page that is given to a place and has the right type there.           *)
LEMMA TypedIn ==
  ASSUME NEW g, OnePlace(g)',
         \/ g \in os_free' /\ attr'[g] = "wb"
         \/ \E m \in Uncached : g \in pool'[m] /\ attr'[g] = m
         \/ \E n \in 1..Len(tasks') : g \in tasks'[n].pages /\ attr'[g] = tasks'[n].mode
         \/ \E p \in Pmrs : HasPage(p, g)' /\ attr'[g] = kind'[p].mode
  PROVE  Typed(g)'
<1>1. (\E p \in Pmrs : HasPage(p, g)') <=> InTmp(g)' \/ InSlot(g)'
  BY DEF HasPage, InTmp, InSlot
<1>2. \A p, q \in Pmrs : HasPage(p, g)' /\ HasPage(q, g)' => p = q
  BY DEF HasPage, InTmp, InSlot, OneTmp, OneSlot, OnePlace, OneKind
<1>3. CASE g \in os_free' /\ attr'[g] = "wb"
  BY <1>1, <1>3 DEF OnePlace, OneKind, InPool, InTask, Typed
<1>4. ASSUME NEW m \in Uncached, g \in pool'[m], attr'[g] = m PROVE Typed(g)'
  <2>1. InPool(g)'
    BY <1>4 DEF InPool
  <2> QED
    BY <1>1, <1>4, <2>1 DEF OnePlace, OneKind, OnePool, InTask, Typed
<1>5. ASSUME NEW n \in 1..Len(tasks'), g \in tasks'[n].pages, attr'[g] = tasks'[n].mode
      PROVE  Typed(g)'
  <2>1. InTask(g)'
    BY <1>5 DEF InTask
  <2> QED
    BY <1>1, <1>5, <2>1 DEF OnePlace, OneKind, OneTask, InPool, Typed
<1>6. ASSUME NEW p \in Pmrs, HasPage(p, g)', attr'[g] = kind'[p].mode PROVE Typed(g)'
  BY <1>1, <1>2, <1>6 DEF OnePlace, OneKind, InPool, InTask, Typed
<1> QED
  BY <1>3, <1>4, <1>5, <1>6

(* A page that keeps its type and comes to no new place.                   *)
LEMMA TypedKept ==
  ASSUME NEW g, Typed(g), attr'[g] = attr[g],
         g \in os_free' => g \in os_free,
         \A m \in Uncached : g \in pool'[m] => g \in pool[m],
         \A n \in 1..Len(tasks') : g \in tasks'[n].pages =>
           \E l \in 1..Len(tasks) : tasks'[n] = tasks[l],
         \A p \in Pmrs : HasPage(p, g)' => HasPage(p, g) /\ kind'[p] = kind[p]
  PROVE  Typed(g)'
<1>1. \A m \in Uncached : g \in pool'[m] => attr'[g] = m
  BY DEF Typed
<1>2. ASSUME NEW n \in 1..Len(tasks'), g \in tasks'[n].pages PROVE attr'[g] = tasks'[n].mode
  <2>1. PICK l \in 1..Len(tasks) : tasks'[n] = tasks[l]
    BY <1>2
  <2> QED
    BY <1>2, <2>1 DEF Typed
<1>3. \A p \in Pmrs : HasPage(p, g)' => attr'[g] = kind'[p].mode
  BY DEF Typed
<1> QED
  BY <1>1, <1>2, <1>3 DEF Typed

(* The parameters of a PMR change when it has no page.                     *)
LEMMA NoArrayKind ==
  ASSUME IInv, NEW p \in Pmrs, [Next]_vars, kind'[p] # kind[p]
  PROVE  Create(p) \/ pc'[p] = "none"
<1>1. Types
  BY DEF IInv
<1>2. ASSUME Return(p, "none") PROVE pc'[p] = "none"
  BY <1>1, <1>2 DEF Return, Goto, Types
<1>3. AllocFailed(p) => pc'[p] = "none"
  BY <1>2 DEF AllocFailed
<1>4. PICK q \in Pmrs : Begin(q) \/ Proceed(q) \/ ReclaimInUnpin(q) \/ ScanUnpinned(q)
  BY NextKinds, SharedApart DEF SamePmr
<1>5. q = p
  BY <1>4, BeginApart, ProceedApart, ScanApart DEF SamePmr
<1>6. CASE Begin(p)
  <2>1. CASE Lock(p) \/ Unlock(p) \/ Unpin(p) \/ Pin(p) \/ Change(p)
    BY <2>1 DEF Lock, Unlock, Unpin, Pin, Change
  <2>2. CASE Finalize(p)
    BY <1>2, <2>2 DEF Finalize
  <2> QED
    BY <1>6, <2>1, <2>2 DEF Begin
<1>7. CASE Proceed(p)
  <2>1. CASE AllocRefused(p) \/ FillFails(p)
    BY <1>3, <2>1 DEF AllocRefused, FillFails
  <2>2. CASE SkipPool(p) \/ _GetPagesFromPoolLocked(p) \/ Fill(p)
    BY <2>2 DEF SkipPool, _GetPagesFromPoolLocked, Fill
  <2>3. CASE Build(p) \/ ScanStops(p) \/ Unpinned(p) \/ UnpinFails(p)
    BY <2>3 DEF Build, ScanStops, Unpinned, UnpinFails
  <2>4. CASE BuildFails(p)
    BY <1>2, <2>4 DEF BuildFails
  <2>5. CASE Move(p) \/ MovesDone(p) \/ FinalizeUnlists(p)
    BY <2>5 DEF Move, MovesDone, FinalizeUnlists
  <2>6. CASE Free(p)
    BY <1>2, <2>6 DEF Free
  <2>7. CASE FreeFails(p)
    BY <1>2, <2>7 DEF FreeFails
  <2> QED
    BY <1>7, <2>1, <2>2, <2>3, <2>4, <2>5, <2>6, <2>7 DEF Proceed
<1>8. CASE ReclaimInUnpin(p) \/ ScanUnpinned(p)
  BY <1>8 DEF ReclaimInUnpin, ScanUnpinned
<1> QED
  BY <1>4, <1>5, <1>6, <1>7, <1>8

LEMMA KindStays ==
  ASSUME IInv, Misuse = {}, [Next]_vars, NEW p \in Pmrs, NEW g \in Pages, HasPage(p, g)'
  PROVE  kind'[p] = kind[p]
<1> SUFFICES ASSUME kind'[p] # kind[p] PROVE FALSE
  OBVIOUS
<1>1. g # NoPage
  BY PagesFinite
<1>2. CASE Create(p)
  <2>1. PmrInv(p) /\ pc[p] = "none" /\ tmp' = tmp /\ arr' = arr
    BY <1>2 DEF IInv, PmrsInv, Create, At
  <2>2. tmp[p] = {} /\ kind[p] = NoKind /\ Filled(p) \subseteq 1..kind[p].size
    BY <2>1 DEF PmrInv
  <2>3. Filled(p) = {}
    BY <2>2 DEF NoKind
  <2> QED
    BY <1>1, <2>1, <2>2, <2>3 DEF HasPage, Filled
<1>3. CASE pc'[p] = "none"
  <2>1. PmrInv(p)'
    BY NextPmrs DEF PmrsInv
  <2>2. tmp'[p] = {} /\ kind'[p] = NoKind /\ Filled(p)' \subseteq 1..kind'[p].size
    BY <1>3, <2>1 DEF PmrInv
  <2>3. Filled(p)' = {}
    BY <2>2 DEF NoKind
  <2> QED
    BY <1>1, <2>2, <2>3 DEF HasPage, Filled
<1> QED
  BY <1>2, <1>3, NoArrayKind

(* The steps that move pages, page by page.                                *)
LEMMA DrainTyped ==
  ASSUME IInv, CleanToOs \/ ScanPool \/ LinuxDeinitPhysmem, NEW g \in Pages, OnePlace(g)'
  PROVE  Typed(g)'
<1>1. Types /\ TaskTypes /\ Typed(g)
  BY HonouredTyped DEF IInv, Types, TaskTypes
<1>2. PICK gone, own :
           /\ Gives(gone) /\ own \subseteq Pages
           /\ gone["uc"] \cup gone["wc"] \cup own \subseteq Pages
           /\ ToOs(gone["uc"] \cup gone["wc"] \cup own)
           /\ CleanToOs => own = Head(tasks).pages
           /\ ~CleanToOs => own = {}
           /\ LinuxDeinitPhysmem => gone = pool
  BY SharedGives
<1> DEFINE S == gone["uc"] \cup gone["wc"] \cup own
<1>3. os_free' = os_free \cup S /\ attr' = [h \in Pages |-> IF h \in S THEN "wb" ELSE attr[h]]
  BY <1>2 DEF ToOs
<1> HIDE DEF S
<1>4. CASE g \in S
  BY <1>3, <1>4, TypedIn
<1>5. CASE g \notin S
  <2>1. attr'[g] = attr[g] /\ (g \in os_free' => g \in os_free)
    BY <1>3, <1>5
  <2>2. \A m \in Uncached : g \in pool'[m] => g \in pool[m]
    BY <1>2 DEF Gives
  <2>3. kind' = kind /\ tmp' = tmp /\ arr' = arr
    BY DEF CleanToOs, ScanPool, LinuxDeinitPhysmem, pageVars, callVars
  <2>4. \A p \in Pmrs : HasPage(p, g)' => HasPage(p, g) /\ kind'[p] = kind[p]
    BY <2>3 DEF HasPage
  <2>5. \A n \in 1..Len(tasks') : \E l \in 1..Len(tasks) : tasks'[n] = tasks[l]
    <3>1. CASE CleanToOs
      <4> DEFINE X == [mode : Uncached, pages : SUBSET Pages]
      <4>1. tasks \in Seq(X) /\ tasks # << >> /\ tasks' = Tail(tasks)
        BY <1>1, <3>1 DEF CleanToOs, TaskTypes
      <4> HIDE DEF X
      <4>2. \A n \in 1..Len(tasks') : n + 1 \in 1..Len(tasks) /\ tasks'[n] = tasks[n + 1]
        BY <4>1
      <4> QED
        BY <4>2
    <3>2. CASE ScanPool \/ LinuxDeinitPhysmem
      <4>1. tasks' = tasks
        BY <3>2 DEF ScanPool, LinuxDeinitPhysmem, taskVars
      <4> QED
        BY <4>1
    <3> QED
      BY <3>1, <3>2
  <2> QED
    BY <1>1, <2>1, <2>2, <2>4, <2>5, TypedKept
<1> QED
  BY <1>4, <1>5

LEMMA PoolTyped ==
  ASSUME IInv, CleanToPool, NEW g \in Pages, OnePlace(g)'
  PROVE  Typed(g)'
<1>1. Types /\ TaskTypes /\ Typed(g)
  BY HonouredTyped DEF IInv, Types, TaskTypes
<1> DEFINE X == [mode : Uncached, pages : SUBSET Pages]
           t == Head(tasks)
<1>2. tasks \in Seq(X) /\ tasks # << >> /\ tasks' = Tail(tasks)
  BY <1>1 DEF CleanToPool, TaskTypes
<1>3. t \in X
  BY <1>2, HeadAndTail
<1>4. t.mode \in Uncached
  BY <1>3
<1>5. /\ pool' = [pool EXCEPT ![t.mode] = @ \cup t.pages]
      /\ os_free' = os_free /\ attr' = attr /\ tmp' = tmp /\ arr' = arr /\ kind' = kind
  BY DEF CleanToPool, osVars, pageVars, callVars
<1> HIDE DEF X
<1>6. /\ 1 \in 1..Len(tasks) /\ t = tasks[1]
      /\ \A n \in 1..Len(tasks') : n + 1 \in 1..Len(tasks) /\ tasks'[n] = tasks[n + 1]
  BY <1>2
<1> HIDE DEF t
<1>7. CASE g \in t.pages
  <2>1. attr'[g] = t.mode
    BY <1>1, <1>5, <1>6, <1>7 DEF Typed
  <2>2. g \in pool'[t.mode]
    BY <1>1, <1>4, <1>5, <1>7 DEF Types
  <2> QED
    BY <1>4, <2>1, <2>2, TypedIn
<1>8. CASE g \notin t.pages
  <2>1. \A m \in Uncached : g \in pool'[m] => g \in pool[m]
    BY <1>1, <1>5, <1>8 DEF Types
  <2>2. \A n \in 1..Len(tasks') : \E l \in 1..Len(tasks) : tasks'[n] = tasks[l]
    BY <1>6
  <2>3. \A p \in Pmrs : HasPage(p, g)' => HasPage(p, g) /\ kind'[p] = kind[p]
    BY <1>5 DEF HasPage
  <2> QED
    BY <1>1, <1>5, <2>1, <2>2, <2>3, TypedKept
<1> QED
  BY <1>7, <1>8

LEMMA GetTyped ==
  ASSUME IInv, NEW p \in Pmrs, _GetPagesFromPoolLocked(p), NEW g \in Pages, OnePlace(g)'
  PROVE  Typed(g)'
<1>1. Types /\ Typed(g)
  BY HonouredTyped DEF IInv
<1>2. PICK got \in SUBSET Pages :
         /\ kind[p].mode \in Uncached /\ got \subseteq pool[kind[p].mode]
         /\ tmp' = [tmp EXCEPT ![p] = got]
         /\ pool' = [pool EXCEPT ![kind[p].mode] = @ \ got]
  BY GetEffect
<1>3. /\ os_free' = os_free /\ attr' = attr /\ tasks' = tasks /\ arr' = arr /\ kind' = kind
  BY DEF _GetPagesFromPoolLocked, osVars, taskVars, pageVars
<1>4. CASE g \in got
  <2>1. attr'[g] = kind'[p].mode
    BY <1>1, <1>2, <1>3, <1>4 DEF Typed
  <2>2. HasPage(p, g)'
    BY <1>1, <1>2, <1>4 DEF HasPage, Types
  <2> QED
    BY <2>1, <2>2, TypedIn
<1>5. CASE g \notin got
  <2>1. \A m \in Uncached : g \in pool'[m] => g \in pool[m]
    BY <1>1, <1>2 DEF Types
  <2>2. \A n \in 1..Len(tasks') : \E l \in 1..Len(tasks) : tasks'[n] = tasks[l]
    BY <1>3
  <2>3. \A q \in Pmrs : HasPage(q, g)' => HasPage(q, g) /\ kind'[q] = kind[q]
    BY <1>1, <1>2, <1>3, <1>5 DEF HasPage, Types
  <2> QED
    BY <1>1, <1>3, <2>1, <2>2, <2>3, TypedKept
<1> QED
  BY <1>4, <1>5

LEMMA FillTyped ==
  ASSUME IInv, NEW p \in Pmrs, Fill(p), NEW g \in Pages, OnePlace(g), OnePlace(g)'
  PROVE  Typed(g)'
<1>1. Types /\ Typed(g)
  BY HonouredTyped DEF IInv
<1>2. PICK new, page : FillsWith(p, new, page)
  BY FillEffect
<1>3. Range(ask[p]) \subseteq Index
  <2>1. Range(ask[p]) \subseteq 1..kind[p].size
    BY FillEffect
  <2> QED
    BY <2>1, SlotFacts DEF IInv, PmrsInv
<1>4. /\ tasks' = tasks /\ pool' = pool /\ kind' = kind
      /\ tmp' = [tmp EXCEPT ![p] = {}]
  BY DEF Fill, poolVars, taskVars, AllocDone, Return
<1> DEFINE R == Range(ask[p])
           B == tmp[p] \cup new
<1>5. /\ new \subseteq os_free /\ os_free' = os_free \ new
      /\ attr' = [h \in Pages |-> IF h \in new THEN kind[p].mode ELSE attr[h]]
      /\ arr' = [arr EXCEPT ![p] = [i \in Index |-> IF i \in R THEN page[i] ELSE arr[p][i]]]
      /\ page \in [R -> B] /\ \A x \in B : \E i \in R : page[i] = x
  BY <1>2 DEF FillsWith, _ApplyOSPagesAttribute
<1>6. R \subseteq Index
  BY <1>3
<1> HIDE DEF R
<1>7. /\ arr'[p] = [i \in Index |-> IF i \in R THEN page[i] ELSE arr[p][i]]
      /\ tmp'[p] = {}
      /\ \A q \in Pmrs \ {p} : arr'[q] = arr[q] /\ tmp'[q] = tmp[q]
  BY <1>1, <1>4, <1>5 DEF Types
<1>8. CASE g \in B
  <2>1. HasPage(p, g)'
    BY <1>5, <1>6, <1>7, <1>8 DEF HasPage
  <2>2. g \in tmp[p] => HasPage(p, g)
    BY DEF HasPage
  <2>3. attr'[g] = kind'[p].mode
    BY <1>1, <1>4, <1>5, <1>8, <2>2 DEF Typed
  <2> QED
    BY <2>1, <2>3, TypedIn
<1>9. CASE g \notin B
  <2>1. attr'[g] = attr[g] /\ (g \in os_free' => g \in os_free)
    BY <1>5, <1>9
  <2>2. \A m \in Uncached : g \in pool'[m] => g \in pool[m]
    BY <1>4
  <2>3. \A n \in 1..Len(tasks') : \E l \in 1..Len(tasks) : tasks'[n] = tasks[l]
    BY <1>4
  <2>4. \A i \in Index : arr'[p][i] = g => arr[p][i] = g
    BY <1>5, <1>7, <1>9
  <2>5. \A q \in Pmrs : HasPage(q, g)' => HasPage(q, g) /\ kind'[q] = kind[q]
    BY <1>4, <1>7, <2>4 DEF HasPage
  <2> QED
    BY <1>1, <2>1, <2>2, <2>3, <2>5, TypedKept
<1> QED
  BY <1>8, <1>9

LEMMA FailTyped ==
  ASSUME IInv, Misuse = {}, [Next]_vars, NEW p \in Pmrs, FillFails(p),
         NEW g \in Pages, OnePlace(g)'
  PROVE  Typed(g)'
<1>1. Types /\ Typed(g)
  BY HonouredTyped DEF IInv
<1>2. arr' = arr /\ ToOs(tmp[p])
  BY FailEffect
<1>3. tasks' = tasks /\ pool' = pool /\ AllocFailed(p)
  BY DEF FillFails, poolVars, taskVars
<1>4. tmp' = [tmp EXCEPT ![p] = {}]
  BY <1>3 DEF AllocFailed, Return
<1>5. CASE g \in tmp[p]
  BY <1>2, <1>5, TypedIn DEF ToOs
<1>6. CASE g \notin tmp[p]
  <2>1. attr'[g] = attr[g] /\ (g \in os_free' => g \in os_free)
    BY <1>2, <1>6 DEF ToOs
  <2>2. /\ \A m \in Uncached : g \in pool'[m] => g \in pool[m]
        /\ \A n \in 1..Len(tasks') : \E l \in 1..Len(tasks) : tasks'[n] = tasks[l]
    BY <1>3
  <2>3. \A q \in Pmrs : HasPage(q, g)' => HasPage(q, g)
    BY <1>1, <1>2, <1>4 DEF HasPage, Types
  <2>4. \A q \in Pmrs : HasPage(q, g)' => HasPage(q, g) /\ kind'[q] = kind[q]
    BY <2>3, KindStays
  <2> QED
    BY <1>1, <2>1, <2>2, <2>4, TypedKept
<1> QED
  BY <1>5, <1>6

LEMMA MoveTyped ==
  ASSUME IInv, NEW p \in Pmrs, Move(p), NEW g \in Pages
  PROVE  Typed(g)'
<1>1. Types /\ Typed(g) /\ g # NoPage
  BY HonouredTyped, PagesFinite DEF IInv
<1>2. PICK i \in 1..kind[p].size, j \in 1..kind[p].size :
           /\ i = chg[p].to[1] /\ j = chg[p].from[1] /\ chg[p].to # << >> /\ chg[p].from # << >>
           /\ j \in valid[p] /\ (i \in valid[p] <=> chg[p].remap) /\ i \in Index /\ j \in Index
           /\ arr' = [arr EXCEPT ![p] = [l \in Index |->
                        IF l = j THEN IF chg[p].remap THEN arr[p][i] ELSE NoPage
                        ELSE IF l = i THEN arr[p][j] ELSE arr[p][l]]]
           /\ valid'[p] = (IF chg[p].remap THEN valid[p] ELSE (valid[p] \ {j}) \cup {i})
           /\ chg'[p] = [to |-> Tail(chg[p].to), from |-> Tail(chg[p].from),
                         remap |-> chg[p].remap]
  BY MoveEffect
<1>3. /\ os_free' = os_free /\ attr' = attr /\ pool' = pool /\ tasks' = tasks /\ tmp' = tmp
      /\ kind' = kind
  BY DEF Move, osVars, poolVars, taskVars
<1>4. /\ arr'[p] = [l \in Index |-> IF l = j THEN IF chg[p].remap THEN arr[p][i] ELSE NoPage
                                    ELSE IF l = i THEN arr[p][j] ELSE arr[p][l]]
      /\ \A q \in Pmrs \ {p} : arr'[q] = arr[q]
  BY <1>1, <1>2 DEF Types
<1>5. ASSUME NEW l \in Index, arr'[p][l] = g PROVE \E n \in Index : arr[p][n] = g
  <2>1. arr[p][i] = g \/ arr[p][j] = g \/ arr[p][l] = g
    BY <1>1, <1>4, <1>5
  <2> QED
    BY <1>2, <2>1
<1>6. \A q \in Pmrs : HasPage(q, g)' => HasPage(q, g) /\ kind'[q] = kind[q]
  BY <1>3, <1>4, <1>5 DEF HasPage
<1>7. /\ \A m \in Uncached : g \in pool'[m] => g \in pool[m]
      /\ \A n \in 1..Len(tasks') : \E l \in 1..Len(tasks) : tasks'[n] = tasks[l]
  BY <1>3
<1> QED
  BY <1>1, <1>3, <1>6, <1>7, TypedKept

LEMMA FreedTyped ==
  ASSUME IInv, Misuse = {}, [Next]_vars, NEW p \in Pmrs, NEW slots \in SUBSET Index,
         Frees(p, slots), pool' = pool, tmp' = tmp, NEW g \in Pages, OnePlace(g)'
  PROVE  Typed(g)'
<1>1. Types /\ TaskTypes /\ Typed(g) /\ PmrInv(p) /\ PagesInv /\ g # NoPage
  BY HonouredTyped, PagesFinite DEF IInv, Types, TaskTypes, PmrsInv
<1> DEFINE S == PagesIn(p, slots)
<1>2. /\ arr' = [arr EXCEPT ![p] = Cleared(arr[p], slots)]
      /\ ToTask(p, S) \/ (ToOs(S) /\ UNCHANGED taskVars)
  BY FreeEffect, Zenon
<1>3. g \in S => HasPage(p, g)
  BY DEF PagesIn, HasPage
<1>4. \A q \in Pmrs : HasPage(q, g)' => HasPage(q, g)
  BY <1>1, <1>2 DEF HasPage, Types, Cleared
<1>5. \A q \in Pmrs : HasPage(q, g)' => HasPage(q, g) /\ kind'[q] = kind[q]
  BY <1>4, KindStays
<1>6. S \subseteq Pages
  BY <1>1, PagesInCount
<1>7. \A m \in Uncached : g \in pool'[m] => g \in pool[m]
  OBVIOUS
<1> HIDE DEF S
<1>8. CASE ToTask(p, S)
  <2> DEFINE X == [mode : Uncached, pages : SUBSET Pages]
             t == [mode |-> kind[p].mode, pages |-> S]
             l == Len(tasks) + 1
  <2>1. tasks' = Append(tasks, t) /\ os_free' = os_free /\ attr' = attr /\ t \in X
        /\ t.pages = S /\ t.mode = kind[p].mode /\ tasks \in Seq(X)
    BY <1>1, <1>6, <1>8 DEF ToTask, TaskTypes
  <2> HIDE DEF X, t
  <2>2. /\ l \in 1..Len(tasks') /\ tasks'[l] = t
        /\ \A n \in 1..Len(tasks') : n = l \/ (n \in 1..Len(tasks) /\ tasks'[n] = tasks[n])
    BY <2>1
  <2> HIDE DEF l
  <2>3. CASE g \in S
    <3>1. attr'[g] = kind[p].mode
      BY <1>1, <1>3, <2>1, <2>3 DEF Typed
    <3> QED
      BY <2>1, <2>2, <2>3, <3>1, TypedIn
  <2>4. CASE g \notin S
    <3>1. \A n \in 1..Len(tasks') : g \in tasks'[n].pages =>
            \E k \in 1..Len(tasks) : tasks'[n] = tasks[k]
      BY <2>1, <2>2, <2>4
    <3> QED
      BY <1>1, <1>5, <1>7, <2>1, <3>1, TypedKept
  <2> QED
    BY <2>3, <2>4
<1>9. CASE ToOs(S) /\ UNCHANGED taskVars
  <2>1. \A n \in 1..Len(tasks') : \E l \in 1..Len(tasks) : tasks'[n] = tasks[l]
    BY <1>9 DEF taskVars
  <2>2. CASE g \in S
    BY <1>9, <2>2, TypedIn DEF ToOs
  <2>3. CASE g \notin S
    <3>1. attr'[g] = attr[g] /\ (g \in os_free' => g \in os_free)
      BY <1>9, <2>3 DEF ToOs
    <3> QED
      BY <1>1, <1>5, <1>7, <2>1, <3>1, TypedKept
  <2> QED
    BY <2>2, <2>3
<1> QED
  BY <1>2, <1>8, <1>9

(* A step that leaves the pages of others alone and takes them from one    *)
(* PMR at most, or from none.                                              *)
LEMMA StayTyped ==
  ASSUME IInv, Misuse = {}, [Next]_vars,
         os_free' = os_free, attr' = attr, pool' = pool, tasks' = tasks, tmp' = tmp,
         NEW g \in Pages, \A p \in Pmrs, i \in Index : arr'[p][i] = g => arr[p][i] = g
  PROVE  Typed(g)'
<1>1. Typed(g)
  BY HonouredTyped DEF IInv
<1>2. \A q \in Pmrs : HasPage(q, g)' => HasPage(q, g) /\ kind'[q] = kind[q]
  BY KindStays DEF HasPage
<1>3. /\ \A m \in Uncached : g \in pool'[m] => g \in pool[m]
      /\ \A n \in 1..Len(tasks') : \E l \in 1..Len(tasks) : tasks'[n] = tasks[l]
  OBVIOUS
<1> QED
  BY <1>1, <1>2, <1>3, TypedKept

LEMMA NextTypesHonoured ==
  ASSUME IInv, Misuse = {}, [Next]_vars
  PROVE  TypesHonoured'
<1>1. Types /\ Types' /\ \A g \in Pages : OnePlace(g) /\ OnePlace(g)'
  BY NextTypes, NextPages DEF IInv, PagesInv
<1> SUFFICES ASSUME NEW g \in Pages PROVE Typed(g)'
  BY <1>1, TypedHonoured
<1>2. OnePlace(g) /\ OnePlace(g)' /\ g # NoPage
  BY <1>1, PagesFinite
<1>3. CASE PagesStay
  BY <1>3, StayTyped DEF PagesStay, osVars
<1>4. CASE CleanToPool
  BY <1>2, <1>4, PoolTyped
<1>5. CASE CleanToOs \/ ScanPool \/ LinuxDeinitPhysmem
  BY <1>2, <1>5, DrainTyped
<1>6. ASSUME NEW p \in Pmrs, Moves(p) PROVE Typed(g)'
  <2>1. CASE _GetPagesFromPoolLocked(p)
    BY <1>2, <2>1, GetTyped
  <2>2. CASE Fill(p)
    BY <1>2, <2>2, FillTyped
  <2>3. CASE FillFails(p)
    BY <1>2, <2>3, FailTyped
  <2>4. CASE Move(p)
    BY <2>4, MoveTyped
  <2>5. CASE Free(p)
    <3>1. Frees(p, Leaving(p)) /\ Leaving(p) \in SUBSET Index
      BY <2>5, FreeFrees
    <3>2. /\ pc[p] = "free" /\ pool' = pool
          /\ \E l : Return(p, l)
      BY <2>5 DEF Free, At, poolVars
    <3>3. tmp' = tmp
      BY <3>2, NothingReceived DEF Return
    <3>4. PICK slots \in SUBSET Index : slots = Leaving(p)
      BY <3>1
    <3> QED
      BY <1>2, <3>1, <3>2, <3>3, <3>4, FreedTyped
  <2>6. CASE ScanUnpinned(p)
    <3>1. pool' = pool /\ tmp' = tmp
      BY <2>6 DEF ScanUnpinned, poolVars, callVars
    <3> QED
      BY <1>2, <2>6, <3>1, ScanFrees, FreedTyped
  <2>7. CASE FreeFails(p) /\ op[p] # "change"
    <3>1. /\ pc[p] = "free" /\ Return(p, "none")
          /\ arr' = [arr EXCEPT ![p] = [i \in Index |-> NoPage]]
          /\ os_free' = os_free /\ attr' = attr /\ pool' = pool /\ tasks' = tasks
      BY <2>7 DEF FreeFails, At, poolVars, taskVars
    <3>2. tmp' = tmp
      BY <3>1, NothingReceived DEF Return
    <3>3. \A q \in Pmrs, i \in Index : arr'[q][i] = g => arr[q][i] = g
      BY <1>1, <1>2, <3>1 DEF Types
    <3> QED
      BY <3>1, <3>2, <3>3, StayTyped
  <2> QED
    BY <1>6, <2>1, <2>2, <2>3, <2>4, <2>5, <2>6, <2>7 DEF Moves
<1> QED
  BY <1>3, <1>4, <1>5, <1>6, NextMoves

-----------------------------------------------------------------------------
(* The invariant, and what follows from it.                                *)

(* Only the removal of an entry can take the head of the list for one, and *)
(* a removal that begins with pages finds its entry.                       *)
LEMMA NextWreck ==
  ASSUME IInv, [Next]_vars
  PROVE  WreckInv'
<1>1. Types /\ ListExact /\ PmrsInv /\ WreckInv
  BY DEF IInv
<1>2. CASE UNCHANGED vars
  BY <1>1, <1>2 DEF WreckInv, EmptiedLate, vars, callVars, lruVars, pageVars
<1>3. ASSUME NEW p \in Pmrs, Begin(p) PROVE wrecked' = FALSE
  <2>1. CASE Pin(p)
    <3>1. ~wrecked /\ pc[p] = "idle" /\ unpinned[p]
      BY <2>1 DEF Pin, At, Running
    <3>2. num[p] # 0 => p \in unpin_list
      BY <1>1, <3>1 DEF ListExact
    <3>3. wrecked' = wrecked \/ (num[p] # 0 /\ wrecked' = (p \notin unpin_list))
      BY <2>1 DEF Pin, _RemoveUnpinListEntryUnlocked
    <3> QED
      BY <1>1, <3>1, <3>2, <3>3 DEF WreckInv
  <2>2. CASE Create(p) \/ Lock(p) \/ Unlock(p) \/ Unpin(p)
    BY <1>1, <2>2 DEF Create, Lock, Unlock, Unpin, At, Running, lruVars, WreckInv
  <2>3. CASE Change(p) \/ Finalize(p)
    BY <1>1, <2>3 DEF Change, Finalize, At, Running, lruVars, WreckInv
  <2> QED
    BY <1>3, <2>1, <2>2, <2>3 DEF Begin
<1>4. ASSUME NEW p \in Pmrs, FinalizeUnlists(p) PROVE WreckInv'
  <2>1. /\ ~wrecked /\ pc[p] = "finalize" /\ op[p] = "finalize"
        /\ pc' = [pc EXCEPT ![p] = "free"]
        /\ op' = op /\ num' = num /\ unpinned' = unpinned
    BY <1>1, <1>4 DEF FinalizeUnlists, At, Running, Goto, pageVars, PmrsInv, PmrInv
  <2>2. wrecked' = wrecked \/ (unpinned[p] /\ wrecked' = (p \notin unpin_list))
    BY <1>4 DEF FinalizeUnlists, _RemoveUnpinListEntryUnlocked
  <2>3. CASE wrecked' = wrecked
    BY <1>1, <2>1, <2>3 DEF WreckInv
  <2>4. CASE unpinned[p] /\ wrecked' = (p \notin unpin_list)
    <3>1. wrecked' => num[p] = 0
      BY <1>1, <2>1, <2>4 DEF ListExact
    <3>2. pc'[p] = "free"
      BY <1>1, <2>1 DEF Types
    <3>3. wrecked' => EmptiedLate(p)'
      BY <2>1, <2>4, <3>1, <3>2 DEF EmptiedLate
    <3>4. wrecked' \in BOOLEAN
      BY <2>4
    <3> QED
      BY <3>3, <3>4 DEF WreckInv
  <2> QED
    BY <2>2, <2>3, <2>4
<1>5. ASSUME NEW p \in Pmrs, Proceed(p) \/ ReclaimInUnpin(p), ~FinalizeUnlists(p)
      PROVE  wrecked' = FALSE
  <2>1. CASE AllocRefused(p) \/ SkipPool(p) \/ _GetPagesFromPoolLocked(p) \/ Fill(p) \/ FillFails(p)
    BY <1>1, <2>1, FailEffect DEF AllocRefused, SkipPool, _GetPagesFromPoolLocked, Fill, At,
       Running, lruVars, WreckInv
  <2>2. CASE Build(p) \/ BuildFails(p) \/ ScanStops(p) \/ ReclaimInUnpin(p)
    BY <1>1, <2>2 DEF Build, BuildFails, ScanStops, ReclaimInUnpin, At, Running, lruVars, WreckInv
  <2>3. CASE Unpinned(p) \/ UnpinFails(p)
    BY <1>1, <2>3 DEF Unpinned, UnpinFails, _AddUnpinListEntryUnlocked, At, Running, WreckInv
  <2>4. CASE Move(p) \/ MovesDone(p) \/ Free(p) \/ FreeFails(p)
    BY <1>1, <2>4 DEF Move, MovesDone, Free, FreeFails, At, Running, lruVars, WreckInv
  <2> QED
    BY <1>5, <2>1, <2>2, <2>3, <2>4 DEF Proceed
<1>6. ASSUME NEW p \in Pmrs, ScanUnpinned(p) PROVE wrecked' = FALSE
  BY <1>1, <1>6 DEF ScanUnpinned, Running, WreckInv
<1>7. ASSUME Shared PROVE wrecked' = FALSE
  BY <1>1, <1>7 DEF Shared, CleanToPool, CleanToOs, ScanPool, ScanEnds, LinuxDeinitPhysmem,
     Running, lruVars, WreckInv
<1>8. wrecked' = FALSE => WreckInv'
  BY DEF WreckInv
<1> QED
  BY <1>2, <1>3, <1>4, <1>5, <1>6, <1>7, <1>8, NextKinds

LEMMA NextIInv ==
  ASSUME Misuse = {}, IInv, [Next]_vars
  PROVE  IInv'
BY NextTypes, NextPmrs, NextLock, NextLists, NextPages, NextTypesHonoured, NextBooks,
   NextWreck DEF IInv

LEMMA Invariance == ASSUME Misuse = {} PROVE Spec => []IInv
<1>1. IInv /\ [Next]_vars => IInv'
  BY NextIInv
<1> QED
  BY <1>1, InitIInv, PTL DEF Spec

(* One kind of place, and one place of that kind.                          *)
LEMMA PlaceIsOne ==
  ASSUME NEW g \in Pages, OnePlace(g)
  PROVE  Cardinality(Places(g)) = 1
<1> DEFINE Os == {<<"os">> : x \in {g} \cap os_free}
           Lost == {<<"lost">> : x \in {g} \cap leaked}
           Pool == {<<"pool", m>> : m \in {m \in Uncached : g \in pool[m]}}
           Task == {<<"task", n>> : n \in {n \in 1..Len(tasks) : g \in tasks[n].pages}}
           Tmp == {<<"tmp", p>> : p \in {p \in Pmrs : g \in tmp[p]}}
           Slot == {<<"slot", s>> : s \in {s \in Pmrs \X Index : arr[s[1]][s[2]] = g}}
<1>1. Places(g) = Os \cup Lost \cup Pool \cup Task \cup Tmp \cup Slot
  BY DEF Places
<1>2. /\ g \notin os_free => Os = {}
      /\ g \in os_free => \E x : Os = {x}
  OBVIOUS
<1>3. /\ g \notin leaked => Lost = {}
      /\ g \in leaked => \E x : Lost = {x}
  OBVIOUS
<1>4. /\ ~InPool(g) => Pool = {}
      /\ InPool(g) => \E x : Pool = {x}
  <2>1. ~InPool(g) => Pool = {}
    BY DEF InPool
  <2>2. ASSUME NEW m \in Uncached, g \in pool[m] PROVE Pool = {<<"pool", m>>}
    BY <2>2 DEF OnePlace, OnePool
  <2> QED
    BY <2>1, <2>2 DEF InPool
<1>5. /\ ~InTask(g) => Task = {}
      /\ InTask(g) => \E x : Task = {x}
  <2>1. ~InTask(g) => Task = {}
    BY DEF InTask
  <2>2. ASSUME NEW n \in 1..Len(tasks), g \in tasks[n].pages PROVE Task = {<<"task", n>>}
    BY <2>2 DEF OnePlace, OneTask
  <2> QED
    BY <2>1, <2>2 DEF InTask
<1>6. /\ ~InTmp(g) => Tmp = {}
      /\ InTmp(g) => \E x : Tmp = {x}
  <2>1. ~InTmp(g) => Tmp = {}
    BY DEF InTmp
  <2>2. ASSUME NEW p \in Pmrs, g \in tmp[p] PROVE Tmp = {<<"tmp", p>>}
    BY <2>2 DEF OnePlace, OneTmp
  <2> QED
    BY <2>1, <2>2 DEF InTmp
<1>7. /\ ~InSlot(g) => Slot = {}
      /\ InSlot(g) => \E x : Slot = {x}
  <2>1. ~InSlot(g) => Slot = {}
    BY DEF InSlot
  <2>2. ASSUME NEW p \in Pmrs, NEW i \in Index, arr[p][i] = g
        PROVE  Slot = {<<"slot", <<p, i>>>>}
    <3>1. {s \in Pmrs \X Index : arr[s[1]][s[2]] = g} = {<<p, i>>}
      BY <2>2 DEF OnePlace, OneSlot
    <3> QED
      BY <3>1
  <2> QED
    BY <2>1, <2>2 DEF InSlot
<1> HIDE DEF Os, Lost, Pool, Task, Tmp, Slot
<1>8. OneKind(g \in os_free, g \in leaked, InPool(g), InTask(g), InTmp(g), InSlot(g))
  BY DEF OnePlace
<1>9. \E x : Places(g) = {x}
  <2>1. CASE g \in os_free
    <3>1. Lost = {} /\ Pool = {} /\ Task = {} /\ Tmp = {} /\ Slot = {}
      BY <1>3, <1>4, <1>5, <1>6, <1>7, <1>8, <2>1 DEF OneKind
    <3> QED
      BY <1>1, <1>2, <2>1, <3>1
  <2>2. CASE g \in leaked
    <3>1. Os = {} /\ Pool = {} /\ Task = {} /\ Tmp = {} /\ Slot = {}
      BY <1>2, <1>4, <1>5, <1>6, <1>7, <1>8, <2>2 DEF OneKind
    <3> QED
      BY <1>1, <1>3, <2>2, <3>1
  <2>3. CASE InPool(g)
    <3>1. Os = {} /\ Lost = {} /\ Task = {} /\ Tmp = {} /\ Slot = {}
      BY <1>2, <1>3, <1>5, <1>6, <1>7, <1>8, <2>3 DEF OneKind
    <3> QED
      BY <1>1, <1>4, <2>3, <3>1
  <2>4. CASE InTask(g)
    <3>1. Os = {} /\ Lost = {} /\ Pool = {} /\ Tmp = {} /\ Slot = {}
      BY <1>2, <1>3, <1>4, <1>6, <1>7, <1>8, <2>4 DEF OneKind
    <3> QED
      BY <1>1, <1>5, <2>4, <3>1
  <2>5. CASE InTmp(g)
    <3>1. Os = {} /\ Lost = {} /\ Pool = {} /\ Task = {} /\ Slot = {}
      BY <1>2, <1>3, <1>4, <1>5, <1>7, <1>8, <2>5 DEF OneKind
    <3> QED
      BY <1>1, <1>6, <2>5, <3>1
  <2>6. CASE InSlot(g)
    <3>1. Os = {} /\ Lost = {} /\ Pool = {} /\ Task = {} /\ Tmp = {}
      BY <1>2, <1>3, <1>4, <1>5, <1>6, <1>8, <2>6 DEF OneKind
    <3> QED
      BY <1>1, <1>7, <2>6, <3>1
  <2> QED
    BY <1>8, <2>1, <2>2, <2>3, <2>4, <2>5, <2>6 DEF OneKind
<1> QED
  BY <1>9, FS_Singleton

(* Every page has one owner through every operation and every failure, and *)
(* unloading gives back what was not lost: no page of _AllocOSPages,       *)
(* _FreeOSPages, PMRChangeSparseMemOSMem or the pool is freed twice, used  *)
(* by two PMRs, or forgotten.                                              *)
THEOREM EveryPageHasOneOwner == ASSUME Misuse = {} PROVE Spec => []PagesAccounted
<1>1. IInv => PagesAccounted
  BY PlaceIsOne DEF IInv, PagesInv, PagesAccounted
<1> QED
  BY <1>1, Invariance, PTL

LEMMA Books ==
  ASSUME IInv
  PROVE  BooksAgree
<1>1. CountersAgree
  BY DEF IInv, BooksInv, Types, CountersAgree, UnpinnedSlots
<1>2. ASSUME NEW p \in Pmrs
      PROVE  /\ num[p] = Cardinality(Filled(p))
             /\ pc[p] \in Resting => phys[p] = Cardinality(valid[p])
             /\ pc[p] = "idle" /\ (num[p] # 0 \/ ~(unpinned[p] \/ kind[p].ondemand))
                  => valid[p] = Filled(p)
             /\ pc[p] \in {"none", "evicted"} => num[p] = 0
  BY DEF IInv, PmrsInv, PmrInv, Settled
<1> QED
  BY <1>1, <1>2 DEF IInv, BooksInv, BooksAgree, TablesAgree

(* The counters of the pool and of unpinned memory and the page counts and *)
(* mapping tables of the PMRs always say what is there, and the pool stays *)
(* within g_ui32PagePoolMaxEntries and its excess, although tasks that     *)
(* fill it were queued when it had room (_CleanupThread_CleanPages).       *)
THEOREM CountersSayWhatIsThere == ASSUME Misuse = {} PROVE Spec => []BooksAgree
BY Books, Invariance, PTL

(* The operating system gets no page back that is not write-back, and no   *)
(* PMR gets a page of another memory type from the pool.                   *)
THEOREM MemoryTypesFollow == ASSUME Misuse = {} PROVE Spec => []TypesHonoured
<1>1. IInv => TypesHonoured
  BY DEF IInv
<1> QED
  BY <1>1, Invariance, PTL

(* The shrinker finds on its list the unpinned PMRs that have pages and no *)
(* other, whatever pins, destroys or empties them in between; and the head *)
(* of the list is freed (_RemoveUnpinListEntryUnlocked, 421) in no other   *)
(* way than by PMRFinalizeOSMem, for a PMR that the shrinker emptied       *)
(* between the look at its page count (3004) and the mutex (3024).         *)
THEOREM ListIsExact == ASSUME Misuse = {} PROVE Spec => []UnpinListExact
<1>1. IInv => UnpinListExact
  BY DEF IInv, WreckInv, UnpinListExact
<1> QED
  BY <1>1, Invariance, PTL

LEMMA PagesChange ==
  ASSUME IInv, [Next]_vars, NEW p \in Pmrs, arr'[p] # arr[p]
  PROVE  pc'[p] # pc[p] \/ chg'[p] # chg[p] \/ unpinned[p]
<1>1. Types
  BY DEF IInv
<1>2. ASSUME Moves(p) PROVE pc'[p] # pc[p] \/ chg'[p] # chg[p] \/ unpinned[p]
  <2>1. CASE _GetPagesFromPoolLocked(p) \/ FillFails(p)
    <3>1. arr' = arr
      BY <2>1, FailEffect DEF _GetPagesFromPoolLocked, pageVars
    <3> QED
      BY <3>1
  <2>2. CASE Fill(p)
    <3>1. pc[p] = "fill" /\ AllocDone(p)
      BY <2>2 DEF Fill, At
    <3> QED
      BY <1>1, <3>1 DEF AllocDone, Return, Goto, Types
  <2>3. CASE Move(p)
    <3>1. chg[p].to \in Seq(Nat) /\ chg[p].to # << >>
      BY <1>1, <2>3 DEF Types, Move
    <3>2. chg'[p] = [to |-> Tail(chg[p].to), from |-> Tail(chg[p].from),
                     remap |-> chg[p].remap]
      BY <2>3, MoveEffect
    <3>3. chg'[p].to # chg[p].to
      <4>1. Len(Tail(chg[p].to)) # Len(chg[p].to)
        BY <3>1
      <4>2. chg'[p].to = Tail(chg[p].to)
        BY <3>2
      <4> QED
        BY <4>1, <4>2, Zenon
    <3> QED
      BY <3>3
  <2>4. CASE Free(p)
    <3>1. pc[p] = "free" /\ (Return(p, "idle") \/ Return(p, "none"))
      BY <2>4 DEF Free, At
    <3> QED
      BY <1>1, <3>1 DEF Return, Goto, Types
  <2>5. CASE ScanUnpinned(p)
    <3>1. p \in unpin_list
      BY <2>5 DEF ScanUnpinned
    <3> QED
      BY <3>1 DEF IInv, ListExact
  <2>6. CASE FreeFails(p)
    <3>1. pc[p] = "free" /\ (Return(p, "idle") \/ Return(p, "none"))
      BY <2>6 DEF FreeFails, At
    <3> QED
      BY <1>1, <3>1 DEF Return, Goto, Types
  <2> QED
    BY <1>2, <2>1, <2>2, <2>3, <2>4, <2>5, <2>6 DEF Moves
<1>3. ASSUME NEW q \in Pmrs, Moves(q) PROVE q = p
  <2>1. Proceed(q) \/ ScanUnpinned(q)
    BY <1>3 DEF Moves, Proceed
  <2>2. q # p => SamePmr(p)
    BY <2>1, ProceedApart, ScanApart
  <2> QED
    BY <2>2 DEF SamePmr
<1>4. ~PagesStay /\ ~CleanToPool /\ ~CleanToOs /\ ~ScanPool /\ ~LinuxDeinitPhysmem
  BY SharedApart DEF PagesStay, Shared
<1> QED
  BY <1>2, <1>3, <1>4, NextMoves

(* The pages of a PMR change only in a step of its own operation or, by    *)
(* the hand of the shrinker, while it is unpinned: never under a PMR that  *)
(* somebody uses.                                                          *)
THEOREM OnlyUnpinnedReclaimed == ASSUME Misuse = {} PROVE Spec => ReclaimOnlyUnpinned
<1>1. IInv /\ [Next]_vars =>
        [\A p \in Pmrs : arr'[p] # arr[p] => pc'[p] # pc[p] \/ chg'[p] # chg[p] \/ unpinned[p]]_vars
  BY PagesChange
<1> QED
  BY <1>1, Invariance, PTL DEF Spec, ReclaimOnlyUnpinned

(* Every variable keeps its type; no counter goes below zero, and no more  *)
(* tasks are counted than may be queued.                                   *)
THEOREM TypeCorrect == ASSUME Misuse = {} PROVE Spec => []TypeOK
<1>1. ASSUME IInv PROVE TypeOK
  <2>1. Types
    BY <1>1 DEF IInv
  <2>2. \A m \in Uncached : pool_count[m] \in Nat
    <3> SUFFICES ASSUME NEW m \in Uncached PROVE pool_count[m] \in Nat
      OBVIOUS
    <3>1. pool[m] \subseteq Pages /\ pool_count[m] = Cardinality(pool[m])
      BY <1>1, <2>1 DEF Types, IInv, BooksInv
    <3> QED
      BY <3>1, PagesFinite, FS_Subset, FS_CardinalityType
  <2>3. unpin_count \in Nat
    BY <1>1, FS_CardinalityType DEF IInv, BooksInv
  <2>4. \A p \in Pmrs : num[p] \in Nat /\ phys[p] \in Nat
    BY <1>1, <2>1, SlotFacts DEF IInv, PmrsInv
  <2>5. clean_tasks \in 0..MaxTasks
    <3> DEFINE X == [mode : Uncached, pages : SUBSET Pages]
    <3>1. tasks \in Seq(X) /\ clean_tasks = Len(tasks) /\ Len(tasks) <= MaxTasks
      BY <2>1 DEF Types
    <3> HIDE DEF X
    <3> QED
      BY <3>1, OsMemAssumption
  <2>6. \A n \in 1..Len(tasks) : tasks[n].mode \in Uncached /\ tasks[n].pages \subseteq Pages
    <3> DEFINE X == [mode : Uncached, pages : SUBSET Pages]
    <3>1. tasks \in Seq(X) /\ \A t \in X : t.mode \in Uncached /\ t.pages \subseteq Pages
      BY <2>1 DEF Types
    <3> HIDE DEF X
    <3> QED
      BY <3>1
  <2>7. pool_count \in [Uncached -> Nat] /\ num \in [Pmrs -> Nat] /\ phys \in [Pmrs -> Nat]
    BY <2>1, <2>2, <2>4 DEF Types
  <2> QED
    BY <1>1, <2>1, <2>3, <2>5, <2>6, <2>7 DEF Types, TypeOK, IInv, WreckInv
<1> QED
  BY <1>1, Invariance, PTL

=============================================================================
