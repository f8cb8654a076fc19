\* Two words, two transcripts, two debounce tasks and two commands, one file
\* failure of a debounced flush or of a batch write.
SPECIFICATION Spec
CONSTANTS
    Flushers = {f1, f2}
    Callers = {c1, c2}
    Transcripts = {t1, t2}
    Spoken = {w1, w2}
    BatchWord = b
    FailingOps = {"debounce", "write", "replace"}
    MaxFail = 1
    None = None
SYMMETRY Symmetry
INVARIANTS
    NothingForgotten
    
    SupersededStaysOut

    
