SPECIFICATION Spec
CONSTANTS
    c1 = c1
    c2 = c2
    a1 = a1
    a2 = a2
    a3 = a3
    i1 = i1
    i2 = i2
    t1 = t1
    t2 = t2
    None = None
    DeviceLog = DeviceLog
    Receipt = Receipt
    Cases = {c1, c2}
    Appeals = {a1, a2, a3}
    Calls = {i1, i2}
    Threads = {t1, t2}
    Artifacts <- MCArtifacts
    ConsentChoices <- MCDeviceLogOnly
    Perils = {"crash", "publish", "restart", "ack"}
    MaxFaults = 2
SYMMETRY Symmetry
INVARIANTS
    IInv
    OneAppealPerCase
    NoKeyReuse
    DecisionsAreReal
    ProcessedMeansFinished
CHECK_DEADLOCK FALSE
