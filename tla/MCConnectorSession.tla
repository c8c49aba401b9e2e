------------------------ MODULE MCConnectorSession ------------------------
(* ConnectorSession for TLC.  The requests are interchangeable. *)
EXTENDS ConnectorSession, TLC

Symmetry == Permutations(Calls)
=============================================================================
