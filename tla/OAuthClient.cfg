SPECIFICATION FairSpec
CONSTANTS
    Absent = Absent
    Clients <- OneClient
    ClientSpecs <- Specs
    Draws = {1, 2}
    UserOps <- KeepingOps
    MaxEdits = 4
    MaxFaults = 1
    MaxLag = 2
INVARIANTS TypeOK NoLostWakeup DigestMatches
PROPERTIES NeverRotated ImplementsKeyring Converges
CHECK_DEADLOCK FALSE
