---------------------------- MODULE MCTunnelApi ----------------------------
(* Instances of TunnelApi for TLC.                                          *)
EXTENDS TunnelApi
=============================================================================
