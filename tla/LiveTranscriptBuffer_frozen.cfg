\* The vault is frozen for a move while a flush waits for the write lock.
SPECIFICATION Spec
CONSTANTS
    Flushers = {f1}
    Callers = {c1}
    Transcripts = {t1}
    Spoken = {w1}
    BatchWord = b
    FailingOps = {}
    MaxFail = 0
    None = None
PROPERTIES
    FrozenIsComplete
