SPECIFICATION FairSpec
CONSTANTS
    Docs = {1, 2}
    BootRange = {1, 2}
    RebuildRange = {1}
    Main = main
    Workers = {w1, w2}
    Nothing = Nothing
    Junk = Junk
    MaxCrash = 2
    MaxEdit = 1
INVARIANTS
    NoTornIndex
    DiskMatchesServed
PROPERTIES
    ComesBack
