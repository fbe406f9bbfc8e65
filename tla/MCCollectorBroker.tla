------------------------- MODULE MCCollectorBroker -------------------------
(* Model-checking instances of CollectorBroker.                            *)
EXTENDS CollectorBroker, TLC

Symmetry == Permutations(Plans)
=============================================================================
