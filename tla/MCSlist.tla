------------------------------- MODULE MCSlist -------------------------------
(* Slist as the configurations of TLC instantiate it. *)
EXTENDS Slist

Symmetry == Permutations(Nodes) \cup Permutations(Lists)
===============================================================================
