SPECIFICATION HeliopFairSpec
CONSTANTS
    Absent = Absent
    Clients <- OneClient
    ClientSpecs <- Retargeted
    Draws = {1}
    UserOps <- ClientOps
    MaxEdits = 2
    MaxFaults = 1
    MaxLag = 1
    Authelias <- OneAuthelia
    AutheliaSpecs <- ClaimSpec
    Ingresses <- None
    IngressSpecs <- None
    NamespaceOf <- InAuth
    MaxAEdits = 1
    MaxFailures = 1
    MaxBehind = 1
INVARIANTS HeliopTypeOK NoStaleConfig
PROPERTY HeliopConverges
CHECK_DEADLOCK FALSE
