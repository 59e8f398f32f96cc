SPECIFICATION Spec
CONSTANTS
    Instances = {1, 2}
    MaxConcurrency = 2
    Patches = {empty, p, q}
    EmptyPatch = empty
    NoPatch = noPatch
    CachedRepos = {2}
    ForceOnResume = TRUE
    CrashKinds = {"host"}
    MaxStarts = 3
PROPERTY CliStartsAtBase
CHECK_DEADLOCK FALSE
