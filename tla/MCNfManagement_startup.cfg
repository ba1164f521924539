CONSTANTS
    u1 = u1
    u2 = u2
    u3 = u3
    Uuids = {u1, u2, u3}
    NfTypes <- MCNfTypes
    Rank <- MCRank
SPECIFICATION FairSpec
INVARIANTS
    TypeOK
    RegistrationIsAccepted
    OneIdPerProcess
    DiscoveryInOrder
PROPERTIES
    StartupEnds
CHECK_DEADLOCK FALSE
