SPECIFICATION HeliopSpec
CONSTANTS
    Absent = Absent
    Clients <- None
    ClientSpecs <- None
    Draws = {1}
    UserOps <- EditOps
    MaxEdits = 0
    MaxFaults = 0
    MaxLag = 2
    Authelias <- OneAuthelia
    AutheliaSpecs <- SettingsSpecs
    Ingresses <- None
    IngressSpecs <- None
    NamespaceOf <- InAuth
    MaxAEdits = 3
    MaxFailures = 0
    MaxBehind = 2
INVARIANT PodsCurrent
CHECK_DEADLOCK FALSE
