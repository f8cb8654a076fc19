----------------------- MODULE MCLiveTranscriptBuffer -----------------------
(* Instances of LiveTranscriptBuffer for TLC.                               *)
EXTENDS LiveTranscriptBuffer, TLC

\* Tasks of a kind, transcripts and words are interchangeable; the runs state
\* no liveness.
Symmetry ==
    Permutations(Flushers) \cup Permutations(Callers)
        \cup Permutations(Transcripts) \cup Permutations(Spoken)
=============================================================================
