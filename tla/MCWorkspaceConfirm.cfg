SPECIFICATION Spec
CONSTANTS
    c1 = c1
    c2 = c2
    k1 = k1
    k2 = k2
    None = None
    Cases = {c1, c2}
    Tasks = {k1, k2}
    MaxErrors = 1
    Perils = {}
INVARIANTS
    ConsentWasPrompted
