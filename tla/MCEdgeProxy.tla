---------------------------- MODULE MCEdgeProxy -----------------------------
(* Instances of EdgeProxy for TLC.                                          *)
EXTENDS EdgeProxy
=============================================================================
