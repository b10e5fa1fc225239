---- MODULE MCResearch ----
(* Two processes on a run of two planned episodes.                         *)
EXTENDS Research, TLC
Symmetry == Permutations(Procs)
====
