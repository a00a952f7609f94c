------------------------- MODULE MCRSRenderService -------------------------
(***************************************************************************)
(* An instance of RSRenderService for TLC.                                 *)
(***************************************************************************)
EXTENDS RSRenderService

CONSTANTS c1, c2, a, b, s1

MCSurfaceOf == [cl \in Clients |-> IF cl = a THEN {s1} ELSE {}]
=============================================================================
