SPECIFICATION Spec
CONSTANTS
    Users <- MCUsers
    Factories <- MCFactories
    Scopes <- MCScopes
    ReadScopes <- MCReads
    Seed <- MCSeed
    Sessions <- MCSessions
    Tools <- MCTools
    RegisteredTools <- MCRegistry
    ExemptTools <- MCExempt
    Plants <- MCPlants
    UnknownSession = unknown
    None = None
    c1 = c1
    c2 = c2
    c3 = c3
    alice = alice
    bob = bob
    mbr = mbr
    beta = beta
    ghost = ghost
    read = read
    write = write
    s1 = s1
    s2 = s2
    unknown = unknown
    Calls = {c1}
    Requests <- IdentityMix
    Grantable <- MCGrantNone
    MaxNow = 1
    MaxCrashes = 0
    Pieces = {}
SYMMETRY CallSymmetry
CHECK_DEADLOCK FALSE
INVARIANTS
    EveryCallIsAudited
