SPECIFICATION FairSpec
CONSTANTS
    c1 = c1
    a1 = a1
    a2 = a2
    i1 = i1
    i2 = i2
    t1 = t1
    t2 = t2
    None = None
    DeviceLog = DeviceLog
    Receipt = Receipt
    Cases = {c1}
    Appeals = {a1, a2}
    Calls = {i1, i2}
    Threads = {t1, t2}
    Artifacts = {DeviceLog}
    ConsentChoices <- MCDeviceLogOnly
    Perils = {"crash", "publish", "ack", "tamper", "expire"}
    MaxFaults = 2
PROPERTIES
    LockIsReleased
    EventCompletesCase
    
    EventsDrain
CHECK_DEADLOCK FALSE
