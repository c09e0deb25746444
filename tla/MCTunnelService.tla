-------------------------- MODULE MCTunnelService --------------------------
(* Instances of TunnelService for TLC.                                     *)
EXTENDS TunnelService, TLC

Symmetry == Permutations(Links) \cup Permutations(Tokens)
=============================================================================
