--------------------------- MODULE MCPvrSyncFile ---------------------------
(* PvrSyncFile on a small instance.                                        *)
EXTENDS PvrSyncFile, TLC
CONSTANTS k1, k2, m1, x1, fd1, fd2, fd3
Symmetry == Permutations(Kicks) \cup Permutations(Fds)
=============================================================================
