-------------------------- MODULE MCDisplayCommit --------------------------
(* Two crtcs, or one with two connectors.  Each encoder can serve one crtc, *)
(* as those of the driver do.                                              *)
EXTENDS DisplayCommit, TLC

CONSTANTS c1, c2, m1, m2, m3

Wirings ==
  {[k \in Connectors |-> {c1}]} \cup
  {[k \in Connectors |-> IF k = first THEN {c1} ELSE {c2}] : first \in Connectors}

Boards ==
  {[sudi104 |-> generic, possible_crtcs |-> wiring,
    mode_valid |-> [c \in Crtcs |-> IF c = c1 THEN {m1, m2} ELSE {m3}]] :
      generic \in BOOLEAN, wiring \in Wirings}

(* Nothing tells the members of these sets from one another.               *)
Symmetric ==
  Permutations(Workers) \cup Permutations({m1, m2}) \cup Permutations(Connectors)
=============================================================================
