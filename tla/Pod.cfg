SPECIFICATION Spec
CONSTANTS
    Normal <- Chars
    NameLimit = 5
    Options <- Values
    First <- Start
    MaxChanges = 4
INVARIANTS ConfigKept CookieCovers FilesResolve RefusedOnlyAlike
