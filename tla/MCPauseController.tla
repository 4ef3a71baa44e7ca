-------------------------- MODULE MCPauseController --------------------------
(* Instances of PauseController for TLC: the threads are model values. The     *)
(* safety run permutes them; a run with a liveness property does not.          *)
EXTENDS PauseController, TLC

Symmetry == Permutations(Workers) \union Permutations(Admins) \union Permutations(Probes)
=============================================================================
