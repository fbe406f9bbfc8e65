------------------------ MODULE MCDockerOptimization ------------------------
(* DockerOptimization with the symmetry of a small instance.               *)
EXTENDS DockerOptimization, TLC

Symmetry == Permutations(Manifests)
=============================================================================
