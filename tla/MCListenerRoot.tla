----------------------------- MODULE MCListenerRoot -----------------------------
(* Constants for model checking ListenerRoot. *)
EXTENDS ListenerRoot, TLC

CONSTANTS alpha, beta, s1, s2, s3, noSession, noSup

MCSymmetry == Permutations(Supervisors) \cup Permutations(Sessions)
===============================================================================
