SPECIFICATION Spec
CONSTANTS
    Names = {1, 2}
    HostLists <- Unmixed
    WildcardHosts = {1}
    RuleKeys = {1, 2}
    Values <- SomeValues
    Paths = {2, 5}
    KeyOrder <- StringOrder
INVARIANTS NoRuleLost MostSpecificFirst
PROPERTY Deterministic
