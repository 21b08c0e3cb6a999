SPECIFICATION Spec
CONSTANTS
    Terms = {"a", "b", "c", "d"}
    StopWord = "the"
    Docs = {1, 2, 3}
    Texts <- MCTexts
    Hash <- MCHash
    NotFound = NotFound
    InitWidth = 1
    MaxCalls = 4
INVARIANTS
    TableSound
    PostingsExact
    CountsAgree
PROPERTIES
    ImplementsAbstractIndex
