---------------------------- MODULE MCPvrFence ----------------------------
(* PvrFence on small instances.                                            *)
EXTENDS PvrFence, TLC

CONSTANTS c1, c2, f1, f2, x1, n1, n2

OneContext == {c1}
TwoContexts == {c1, c2}
OneFence == {f1}
TwoFences == {f1, f2}
NoForeigns == {}
OneForeign == {x1}
OneNotifier == {n1}
TwoNotifiers == {n1, n2}

Symmetry == Permutations(Contexts) \cup Permutations(Fences) \cup Permutations(Notifiers)
=============================================================================
