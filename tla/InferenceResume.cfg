SPECIFICATION Spec
CONSTANTS
    Instances = {1, 2}
    MaxConcurrency = 2
    Patches = {empty, p}
    EmptyPatch = empty
    NoPatch = noPatch
    CachedRepos = {2}
    ForceOnResume = FALSE
    CrashKinds = {"process", "host"}
    MaxStarts = 3
INVARIANT TypeOK
INVARIANT RowsBacked
INVARIANT StatusNotAhead
INVARIANT ExitAccounts
PROPERTY RowsFinal
PROPERTY ImplementsPublishedRun
CHECK_DEADLOCK FALSE
