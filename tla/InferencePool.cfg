SPECIFICATION FairSpec
CONSTANTS
    Instances = {1, 2, 3}
    MaxConcurrency = 2
    Patches = {empty, p}
    EmptyPatch = empty
    NoPatch = noPatch
    CachedRepos = {2}
    ForceOnResume = FALSE
    CrashKinds = {}
    MaxStarts = 1
INVARIANT PoolIsVisible
PROPERTY BatchTerminates
CHECK_DEADLOCK FALSE
