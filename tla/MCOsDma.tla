------------------------------ MODULE MCOsDma ------------------------------
(* OsDma on a small instance.                                              *)
EXTENDS OsDma
=============================================================================
