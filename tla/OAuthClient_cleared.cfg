SPECIFICATION Spec
CONSTANTS
    Absent = Absent
    Clients <- OneClient
    ClientSpecs <- Specs
    Draws = {1, 2}
    UserOps <- ClearingOps
    MaxEdits = 2
    MaxFaults = 0
    MaxLag = 2
INVARIANT DigestMatches
CHECK_DEADLOCK FALSE
