---------------------------- MODULE MCRecordingLease ----------------------------
EXTENDS RecordingLease, TLC

CONSTANTS a, b, c, t1, t2, noStart, noTitle

MCSymmetry == Permutations({a, b, c} \cap Starts) \cup Permutations({t1, t2})
===============================================================================
