SPECIFICATION SessionSpec
CONSTANTS
    None = None
    alice = alice
    mbr = mbr
    Users <- MCUsers
    Factories <- MCFactories
    Seed <- MCGrants
    Plants <- MCFactories
    Grantable <- MCGrants
    Calls = {1, 2, 3}
    OwnCalls <- MCOwn
    OwnWants <- MCWants
    MaxVanish = 1
    MaxTurns = 2
    MaxToolCalls = 2
    MaxLate = 1
CHECK_DEADLOCK FALSE
INVARIANTS
    EvidenceIsOnRecord
    ConversationIsComplete
PROPERTIES
    SessionEnds
