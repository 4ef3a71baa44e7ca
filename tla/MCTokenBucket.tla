---------------------------- MODULE MCTokenBucket ----------------------------
(* Instances of TokenBucket for TLC: interchangeable threads.                  *)
EXTENDS TokenBucket, TLC

Symmetry == Permutations(Threads)
=============================================================================
