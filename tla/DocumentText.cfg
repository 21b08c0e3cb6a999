SPECIFICATION Spec
CONSTANTS
    Pieces <- MCPieces
    MaxPieces = 4
    MinLen = 2
    MaxLen = 3
    BufSize = 5
    Untitled <- MCUntitled
    Stride = 2
    Window = 5
    Slack = 19
    Queries <- MCQueries
INVARIANTS
    BodyIsVisible
    FieldsFound
    TokensExact
    LinearScan
    SnippetIsExcerpt
    WordEndsMarked
CHECK_DEADLOCK FALSE
