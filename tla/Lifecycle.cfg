SPECIFICATION FairSpec
CONSTANTS
    Workers = {w1, w2}
    Clients = {c1, c2}
    Nobody = Nobody
    Platforms = {"linux", "windows"}
    MaxErrors = 1
INVARIANTS
    TypeOK
    OneMoreAtMost
PROPERTIES
    ExitAnswersAll
    Answered
    StopEnds
