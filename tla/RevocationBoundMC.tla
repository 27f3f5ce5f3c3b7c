------------------------- MODULE RevocationBoundMC -------------------------
(* An instance of RevocationBound for TLC: the requests of one user. *)
EXTENDS AccessLifecycleMC, RevocationBound
=============================================================================
