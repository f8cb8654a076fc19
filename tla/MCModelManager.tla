---------------------------- MODULE MCModelManager ----------------------------
(* Constants for model checking ModelManager. *)
EXTENDS ModelManager, TLC

CONSTANTS r1, r2, r3, small, large, noName, free, theMonitor, never

MCSymmetry == Permutations(Callers) \cup Permutations(Names)
===============================================================================
