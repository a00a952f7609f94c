------------------------ MODULE MCBufferQueueClients ------------------------
(* BufferQueueClients on a small instance; a request config carries no      *)
(* meaning of its own, so the configs are interchangeable.                  *)
EXTENDS BufferQueueClients, TLC

ConfigSymmetry == Permutations(Configs)
=============================================================================
