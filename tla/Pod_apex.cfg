SPECIFICATION Spec
CONSTANTS
    Normal <- Chars
    NameLimit = 5
    Options <- ApexValues
    First <- Start
    MaxChanges = 2
INVARIANT CookieCovers
