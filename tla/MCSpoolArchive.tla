--------------------------- MODULE MCSpoolArchive ---------------------------
(* SpoolArchive with the symmetry of a small instance.                     *)
EXTENDS SpoolArchive, TLC

MCSize == [a \in Names |-> IF a = 3 THEN 2 ELSE 1]

Symmetry == Permutations(Paths) \cup Permutations(Admins) \cup Permutations(Modes)
=============================================================================
