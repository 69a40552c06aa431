SPECIFICATION FairSpec
CONSTANTS
    h1 = h1
    h2 = h2
    a = a
    b = b
    d = d
    e = e
    p = p
    c1 = c1
    c2 = c2
    c3 = c3
    c4 = c4
    Host = Host
    Nobody = Nobody
    Runs <- MCRuns
    Asked <- MCAsked
    Rebuilds <- MCRebuilds
    Deps <- MCDeps
    Slots <- MCSlots
    Demand <- MCDemand
    Uses <- MCUses
    Via <- MCVia
    Expiring = {c1, c2}
    MayCancel = {h2}
    Capacity = 2
INVARIANTS
    WaitsAreBounded
PROPERTIES
    EveryRunEnds
    NotObtainedTwice
    StarvedForEver
CHECK_DEADLOCK FALSE
