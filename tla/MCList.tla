------------------------------- MODULE MCList -------------------------------
(* Model checking of the linked lists; see the .cfg files.  Links and      *)
(* lists are interchangeable.                                              *)
EXTENDS List, TLC

Symmetry == Permutations(Links) \cup Permutations(Lists)
=============================================================================
