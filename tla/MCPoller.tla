------------------------------ MODULE MCPoller ------------------------------
(* Poller on small instances.                                              *)
EXTENDS Poller, TLC

Symmetry == Permutations(Codes) \cup Permutations(Checkers)
=============================================================================
