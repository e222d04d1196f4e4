SPECIFICATION Spec
CONSTANTS
    Procs = {p1, p2}
    Shell = p1
    NINODES = 4
    NINODE = 4
    NFILE = 2
    NOFILE = 2
    Names = {"a", "b"}
    MkfsFiles <- MCMkfsFiles
    Calls = {"mkdir", "unlink", "link", "chdir", "copy_file"}
    Paths <- MCPaths
    Pairs <- MCPairs
    MaxCalls = 4
INVARIANTS
    NamesFound
    RefsMatch
    CacheCoherent
    LinksCoverEntries
CHECK_DEADLOCK FALSE
