------------------------------ MODULE MCL2Fwd ------------------------------
(* L2Fwd for TLC: hosts and mbufs are interchangeable.                     *)
EXTENDS L2Fwd, TLC

HostSymmetry == Permutations(Hosts) \cup Permutations(Mbufs)
=============================================================================
