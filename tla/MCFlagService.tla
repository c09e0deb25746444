--------------------------- MODULE MCFlagService ----------------------------
(* Instances of FlagService for TLC.                                        *)
EXTENDS FlagService
=============================================================================
