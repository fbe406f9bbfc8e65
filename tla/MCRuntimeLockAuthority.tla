----------------------- MODULE MCRuntimeLockAuthority -----------------------
(* RuntimeLockAuthority with the symmetries of a small instance.           *)
EXTENDS RuntimeLockAuthority, TLC

Symmetry == Permutations(Previews) \cup Permutations(Operations)
=============================================================================
