SPECIFICATION Spec
CONSTANTS
    Sessions = {s1}
    Writers = {w1, w2}
    Readers = {r1}
    Notes = {n1}
    MaxDeletes = 1
    MaxExternal = 1
    None = None
SYMMETRY Symmetry
VIEW Unlapsed
INVARIANTS
    NothingVanishes
    IndexAgrees
    CatalogSound
