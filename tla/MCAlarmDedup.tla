---------------------------- MODULE MCAlarmDedup ----------------------------
(* AlarmDedup on small instances; the calls are interchangeable.           *)
EXTENDS AlarmDedup, TLC

CallSymmetry == Permutations(Calls)
=============================================================================
