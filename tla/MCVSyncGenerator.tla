------------------------- MODULE MCVSyncGenerator -------------------------
(* VSyncGenerator with two modes, one of them with a phase and a reference  *)
(* time, and with constants in the proportion of the code's: the threshold  *)
(* exceeds what one average takes off the delay, and the delay stays below  *)
(* three fifths of the shortest period.                                     *)
EXTENDS VSyncGenerator, TLC

NoMode   == [period |-> 0, phase |-> 0, ref |-> 3]
SlowMode == [period |-> 8, phase |-> -1, ref |-> 2]
FastMode == [period |-> 5, phase |-> 1, ref |-> 0]
BadMode  == [period |-> -1, phase |-> 0, ref |-> 0]
MCModes  == {NoMode, SlowMode, FastMode, BadMode}

CallbackSymmetry == Permutations(Callbacks)
=============================================================================
