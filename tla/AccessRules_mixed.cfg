SPECIFICATION Spec
CONSTANTS
    Names = {1, 2}
    HostLists <- Mixed
    WildcardHosts = {1}
    RuleKeys = {1}
    Values <- OneValue
    Paths = {2}
    KeyOrder <- StringOrder
INVARIANT MostSpecificFirst
