SPECIFICATION Spec
CONSTANTS
    Servers = {s1, s2}
    Keys = {k1, k2}
    None = None
    Stale = Stale
    Other = Other
INVARIANTS
    TypeOK
    Owned
PROPERTIES
    RemovesOnlyItsOwn
    Recovers
