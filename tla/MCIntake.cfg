SPECIFICATION FairSpec
CONSTANTS
    Receipt = Receipt
    DeviceLog = DeviceLog
    Unknown = Unknown
    None = None
    Order <- MCOrder
    Releases = {"now", "before"}
    Current = "now"
    Seeders = {s1, s2}
    MaxFaults = 1
    MaxItems = 2
INVARIANTS
    TypeOK
    VerifiedIsFixture
    ReadIsAtomic
    ShownIsVerified
    ClaimsAreGrounded
PROPERTIES
    NothingHalfDone
    SeedingHeals
