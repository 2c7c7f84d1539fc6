SPECIFICATION HeliopSpec
CONSTANTS
    Absent = Absent
    Clients <- None
    ClientSpecs <- None
    Draws = {1, 2}
    UserOps <- AutheliaOps
    MaxEdits = 0
    MaxFaults = 0
    MaxLag = 1
    Authelias <- OneAuthelia
    AutheliaSpecs <- MixedSpecs
    Ingresses <- OneIngress
    IngressSpecs <- Rule
    NamespaceOf <- InAuth
    MaxAEdits = 3
    MaxFailures = 0
    MaxBehind = 2
INVARIANT NoStaleConfig
PROPERTY CoreImplementsKeyring
CHECK_DEADLOCK FALSE
