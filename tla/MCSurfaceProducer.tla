------------------------- MODULE MCSurfaceProducer -------------------------
(* SurfaceProducer on small instances.                                    *)
EXTENDS SurfaceProducer, TLC

CONSTANTS t1, t2, t3, srv, p1

\* A client process with two threads, and the server producing too.
ClientAndServer == [t \in Threads |-> IF t = t3 THEN srv ELSE p1]

\* The server produces alone.
ServerOnly == [t \in Threads |-> srv]

SeqSymmetry == Permutations(Seqs)
ThreadSymmetry == Permutations(Seqs) \cup Permutations({t1, t2})
=============================================================================
