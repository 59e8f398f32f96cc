SPECIFICATION Spec
CONSTANTS
    OneProducer = "p"
    TwoProducers = {"p", "q"}
    StreamSubs = {1, 2}
    StreamCacheSize = 2
    MaxOneEvents = 4
    MaxTwoEvents = 3
    MaxOneChanges = 2
    MaxTwoChanges = 1
    MaxStreamCrashes = 1
    MaxAgentIterations = 3
    MaxAgentMessages = 3
    MaxAgentChanges = 3
    MaxAgentFailures = 2
    MaxHastyIterations = 2
    MaxHastyMessages = 2
    MaxHastyChanges = 3
    MaxHastyFailures = 2
    DelegatingLevels = {1}
    MaxDelegateIterations = 3
    MaxDelegateMessages = 2
    MaxDelegateChanges = 1
    MaxDelegateFailures = 1
    ManagerSids = {"s1", "s2"}
    OneSid = "s1"
    ManagerConns = {"c1"}
    ManagerRequests = {"r1", "r2"}
    OneRequest = "r1"
    ServedLimit = 2
    AgainLimit = 1
    LimitedLimit = 1
    MaxServedSessions = 2
    MaxAgainSessions = 3
    MaxLimitedSessions = 2
    AttachRequests = {"r1", "r2", "r3"}
    MaxAttachObjects = 4
    MaxAttachLoops = 2
    MaxShellCalls = 3
    MaxShellLines = 2
    ShellHistory = 16
    InteractiveHistory = 3
    HistorySize = 8
    HistoryKept = 2
    MaxHistoryCalls = 2
    MaxHistoryEvents = 20
    MaxHistoryUser = 1
    MaxHistoryOverflows = 2
    HookPaths = {"a", "b"}
    FirstWriter = "w1"
    SecondWriter = "w2"
    FirstPaths = {"a"}
    HookSizes = {1}
    HookLimit = 2
    HookAttempts = 2
    MaxHookWrites = 3
    MaxHookFlushes = 1
    MaxHookFailures = 2
    MaxJobs = 2
    MaxJobCalls = 4
    MaxPromptCalls = 3
    MaxJobLines = 2
    NestedSids = {"s1"}
    NestedRequests = {"r1", "r2"}
    NestedKeepsAlive = FALSE
    MaxNestedRequests = 4
    MaxNestedFaults = 2
    MaxNestedPauses = 1
    MaxNestedCrashes = 1
    LocalSids = {"s1", "s2"}
    LocalRuntimes = {"r1", "r2"}
    MixedRuntimes = {"r1", "a1"}
    AttachedRuntimes = {"a1"}
    WarmInitial = 1
    WarmDesired = 1
    MaxLocalServers = 3
    MaxLocalConnects = 3
    MaxLocalDeaths = 1
    ClusterServers = {1, 2}
    MaxClusterRequests = 2
    MaxCrowdedRequests = 1
    MaxClusterFailures = 1
    MaxClusterCrashes = 1
    TokenRequests = {"r1", "r2"}
    TokenLogins = {"l1", "l2"}
    MaxTokens = 4
    MaxLostAnswers = 1
    DockerSids = {"s1", "s2", "s3"}
    DockerPorts = {"p", "q"}
    MaxDockerStarts = 1
    MaxLockFiles = 4
    MaxDockerCrashes = 1
    HookWorkflows = {1, 2, 3}
    MaxLostHooks = 1
    MaxCleaned = 1
INVARIANTS OpenHandsTypeOK StreamKept CallsAccounted EachAnsweredOnce SessionsKept
           UsedIsOpen OutputOnce 
PROPERTIES SentToShell
CHECK_DEADLOCK FALSE
