---------------------------- MODULE MCConnection ----------------------------
(* Instances of Connection for TLC.                                        *)
EXTENDS Connection, TLC

\* Handlers, sessions and descriptors are only compared for equality.
Symmetry == Permutations(Handlers) \cup Permutations(Sessions) \cup Permutations(Fds)
=============================================================================
