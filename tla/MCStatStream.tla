---------------------------- MODULE MCStatStream ----------------------------
(* StatStream with interchangeable streams for TLC.                         *)
EXTENDS StatStream, TLC

StreamSymmetry == Permutations(Streams)
=============================================================================
