---------------------------- MODULE MCOcppClient ----------------------------
(* OcppClient for TLC.  Sockets and calls are interchangeable. *)
EXTENDS OcppClient, TLC
Symmetry == Permutations(Sockets) \cup Permutations(Requests)
=============================================================================
