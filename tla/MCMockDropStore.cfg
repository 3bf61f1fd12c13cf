SPECIFICATION Spec
CONSTANTS
    c1 = c1
    c2 = c2
    a1 = a1
    a2 = a2
    i1 = i1
    None = None
    Cases = {c1, c2}
    Appeals = {a1, a2}
    Calls = {i1}
SYMMETRY Symmetry
INVARIANTS
    TypeOK
    AccountReflectsApprovals
    ReceiptsNumberWrites
    AppealsAreRecorded
PROPERTIES
    HistoryIsKept
