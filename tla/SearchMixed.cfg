SPECIFICATION Spec
CONSTANTS
    Threads = {t1, t2}
    Queries <- MCQueries
    BadQueries <- MCBadQueries
    Pages <- MCPages
    Paths <- MCPaths
    NoQuery = ""
    FirstPage = 1
    NoAnswer = NoAnswer
    Capacity = 1
    Runtimes = {"glibc", "msvcrt"}
    MaxVersion = 2
INVARIANTS
    CachedUnderOwnPath
