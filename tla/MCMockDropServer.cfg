SPECIFICATION FairSpec
CONSTANTS
    c1 = c1
    c2 = c2
    a1 = a1
    i1 = i1
    i2 = i2
    None = None
    Cases = {c1, c2}
    Appeals = {a1}
    Calls = {i1, i2}
INVARIANTS
    EventsPublishedOnce
PROPERTIES
    OvertakingNeedsTwoClients
    EveryRequestAnswered
