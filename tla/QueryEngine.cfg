SPECIFICATION Spec
CONSTANTS
    Words = {"cat", "cot"}
    NoWord = ""
    FieldParts <- MCFieldParts
    MaxDepth = 1
    Spelling <- Letters
    Frequency <- MCFrequency
    Cap = 4
    Docs = {1, 2, 3}
    TermScore <- MCTermScore
    Modified <- MCModified
    Eps = 2
    Threshold = 3
    MaxDistance = 1
    Considered = 3
    Asked <- MCAsked
    Limits = {0, 1, 2, 3}
    MaxTokens = 5
INVARIANTS
    GrammarAccepted
    NoWordDropped
    Ranked
    MeantIsNearest
    SuggestTop
