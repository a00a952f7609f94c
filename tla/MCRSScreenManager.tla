------------------------- MODULE MCRSScreenManager -------------------------
(***************************************************************************)
(* An instance of RSScreenManager for TLC.                                 *)
(***************************************************************************)
EXTENDS RSScreenManager

CONSTANTS p1, p2
=============================================================================
