-------------------------- MODULE MCPvrBufferSync ---------------------------
(* PvrBufferSync on small instances.                                       *)
EXTENDS PvrBufferSync, TLC
CONSTANTS j1, j2, c1, c2, p, q, r

Use(pmr, write) == [pmr |-> pmr, write |-> write]

\* A context for each kick.
TwoContexts == [j \in Jobs |-> IF j = j2 THEN c2 ELSE c1]

\* Two buffers in either order, one of them twice, and one that is not shared.
MixedRequests ==
  {<<Use(p, TRUE), Use(q, FALSE)>>, <<Use(q, TRUE), Use(p, TRUE)>>,
   <<Use(p, TRUE), Use(p, FALSE)>>, <<Use(q, FALSE), Use(r, FALSE)>>,
   <<Use(p, FALSE)>>}

\* Opposite orders of two buffers.
CrossRequests == {<<Use(p, TRUE), Use(q, FALSE)>>, <<Use(q, TRUE), Use(p, TRUE)>>}

\* Another driver reads or writes either buffer, or writes one.
AnyUse == {Use(p, TRUE), Use(p, FALSE), Use(q, TRUE), Use(q, FALSE)}
WriteUse == {Use(p, TRUE)}
=============================================================================
