--------------------------- MODULE MCPhysmemOsMem ---------------------------
(* PhysmemOsMem on small instances.                                        *)
EXTENDS PhysmemOsMem, TLC
CONSTANTS p1, p2

Kind(size, mode, first) ==
  [size |-> size, mode |-> mode, sparse |-> Len(first) < size, ondemand |-> FALSE,
   cma |-> FALSE, zero |-> FALSE, first |-> first]

\* Uncached memory; sparse write combining memory; memory on demand, of a
\* higher order and zeroed.
MixedKinds ==
  {Kind(2, "uc", <<1, 2>>), Kind(3, "wc", <<2>>),
   [Kind(1, "uc", <<1>>) EXCEPT !.ondemand = TRUE, !.cma = TRUE, !.zero = TRUE]}

\* Get two pages, ask for one out of range, give one back, move one and give
\* one back, swap two pairs that share a slot.
\* The slots of the first two may have pages already.
MixedChanges ==
  {[alloc |-> <<3, 1>>, free |-> << >>, remap |-> FALSE],
   [alloc |-> <<3, 4>>, free |-> << >>, remap |-> FALSE],
   [alloc |-> << >>, free |-> <<1>>, remap |-> FALSE],
   [alloc |-> <<1>>, free |-> <<2, 3>>, remap |-> FALSE],
   [alloc |-> <<1, 2>>, free |-> <<2, 3>>, remap |-> TRUE]}

\* One kind is enough for what waits on what.
OneKind == {Kind(1, "uc", <<1>>)}

SwapPmrs == Permutations(Pmrs)
=============================================================================
