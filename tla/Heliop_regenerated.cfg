SPECIFICATION HeliopSpec
CONSTANTS
    Absent = Absent
    Clients <- OneClient
    ClientSpecs <- OneConfidential
    Draws = {1, 2}
    UserOps <- RegenerateOps
    MaxEdits = 2
    MaxFaults = 0
    MaxLag = 2
    Authelias <- OneAuthelia
    AutheliaSpecs <- OneSpec
    Ingresses <- None
    IngressSpecs <- None
    NamespaceOf <- InAuth
    MaxAEdits = 1
    MaxFailures = 0
    MaxBehind = 2
INVARIANT NoStaleConfig
CHECK_DEADLOCK FALSE
