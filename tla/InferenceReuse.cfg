SPECIFICATION Spec
CONSTANTS
    Instances = {1, 2}
    MaxConcurrency = 2
    Patches = {empty, p}
    EmptyPatch = empty
    NoPatch = noPatch
    CachedRepos = {2}
    ForceOnResume = FALSE
    CrashKinds = {}
    MaxStarts = 2
PROPERTY CliStartsAtBase
CHECK_DEADLOCK FALSE
