-------------------------- MODULE MCRSRenderThread --------------------------
(***************************************************************************)
(* An instance of RSRenderThread for TLC: animation a1 plays one frame, a2 *)
(* has no duration, a3 has no end, and all are on one node.                *)
(***************************************************************************)
EXTENDS RSRenderThread

CONSTANTS a1, a2, a3, n1

MCNodeOf == [a \in Animations |-> n1]
MCTotal  == [a \in Animations |-> IF a = a2 THEN 0 ELSE 1]
=============================================================================
