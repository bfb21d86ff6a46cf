---------------------------- MODULE MCStreamGate ----------------------------
(* StreamGateHistory on a small instance.                                  *)
EXTENDS StreamGateHistory, TLC

StreamSymmetry == Permutations(Streams)
=============================================================================
