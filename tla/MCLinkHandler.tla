--------------------------- MODULE MCLinkHandler ---------------------------
(* Instances of LinkHandler for TLC.                                       *)
EXTENDS LinkHandler
=============================================================================
