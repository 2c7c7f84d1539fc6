SPECIFICATION HeliopSpec
CONSTANTS
    Absent = Absent
    Clients <- None
    ClientSpecs <- None
    Draws = {1, 2}
    UserOps <- RecreateOps
    MaxEdits = 0
    MaxFaults = 0
    MaxLag = 2
    Authelias <- OneAuthelia
    AutheliaSpecs <- ClaimSpec
    Ingresses <- None
    IngressSpecs <- None
    NamespaceOf <- InAuth
    MaxAEdits = 3
    MaxFailures = 0
    MaxBehind = 2
INVARIANT DataReadable
CHECK_DEADLOCK FALSE
