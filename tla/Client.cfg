SPECIFICATION Spec
CONSTANTS
    Stamps = {1}
    FirstId = 0
    Words = {a, b}
    NoQuery = NoQuery
    MaxTabs = 2
    Calls = {1, 2}
    Texts = {a, b}
    NoText = NoQuery
    NoList = NoList
SYMMETRY MCSymmetry
INVARIANTS
    ClientSound
    OwnSuggestions
    ButtonMatches
