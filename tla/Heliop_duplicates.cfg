SPECIFICATION HeliopSpec
CONSTANTS
    Absent = Absent
    Clients <- TwoClients
    ClientSpecs <- SameID
    Draws = {1}
    UserOps <- ClientOps
    MaxEdits = 2
    MaxFaults = 0
    MaxLag = 1
    Authelias <- OneAuthelia
    AutheliaSpecs <- OneSpec
    Ingresses <- None
    IngressSpecs <- None
    NamespaceOf <- InAuth
    MaxAEdits = 1
    MaxFailures = 0
    MaxBehind = 1
PROPERTY StableConfig
CHECK_DEADLOCK FALSE
