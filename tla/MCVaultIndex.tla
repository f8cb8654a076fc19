----------------------------- MODULE MCVaultIndex -----------------------------
(* Instances of VaultIndex for TLC.                                          *)
EXTENDS VaultIndex, TLC

\* Sessions, tasks of a kind and notes are interchangeable; the runs state no
\* liveness.
Symmetry == Permutations(Sessions) \cup Permutations(Writers) \cup Permutations(Readers)
                \cup Permutations(Notes)

\* A session never leaves lapse and the invariants say nothing of one that is in
\* it: where every session is, there is nothing more to look at; where one is,
\* whether it is skew as well makes no difference.
Unlapsed == IF lapse = Sessions THEN <<>>
            ELSE <<disk, store, lock, task, bounds, known, doomed, skew \ lapse, lapse>>
=============================================================================
