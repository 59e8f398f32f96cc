SPECIFICATION Spec
CONSTANTS
    RecordedTotal = 2
    RecorderStarts = 2
    RecorderTorn = 1
    ViewRequests = {"r1", "r2"}
    DeleteRequests = {"r1"}
    ViewedTotal = 1
    DeletedTotal = 2
    PageRuns = {1, 2}
    PageCases = {"c1", "c2"}
    NoRun = 0
    NoCase = "none"
    PageCalls = 2
    PageClicks = 2
    PageLost = 1
    AgentRequeries = 3
    AgentTimeouts = 2
    AgentCostLimit = 8
    AgentTimeLimit = 4
    AgentVersions = {0, 1, 2}
    ScoringLimit = 4
    ScoringCosts = {1, 2}
    ChoosingLimit = 4
    ChoosingCosts = {2}
    AttemptLimit = 3
    ScoringBudget = 1
    ChoosingBudget = 0
    MaxQueries = 5
    MaxAttempts = 3
    MaxAccepts = 1
    Scores = {0, 1}
    AcceptScore = 1
    Penalty = 1
    BatchInstances = {1, 2, 3}
    BatchWorkers = 2
    BatchCrashes = 2
    LegacyCases = 2
    MaxLegacyStarts = 2
    LegacyTests = {"t"}
    LegacyStatuses = {"PASSED", "FAILED", "XFAIL", "none"}
    NoStatus = "none"
    PullCount = 3
    MaxCollects = 3
    MaxCollectKills = 2
    GradedInstances = {"a"}
    SharedInstances = {"a"}
    ForcedInstances = {"a", "b"}
    Passing = {"good"}
    Failing = {"bad"}
    Unapplied = {"odd"}
    Grader = "p1"
    Keepers = {"p2"}
    GradedWorkers = 2
    ForcedWorkers = 1
    GradedStarts = 3
    SharedStarts = 2
    ForcedStarts = 2
    GradedCrashes = 2
    SharedCrashes = 1
    ForcedCrashes = 0
    CleanImages = FALSE
    RemoveFails = TRUE
    ImageInstances = {i1, i2, i3}
    ImageEnvs = {{i1, i2}, {i3}}
    ImageCalls = 2
    GradedTests = {"t1", "t2", "t3"}
INVARIANTS BatchTypeOK WatchersFaithful PatchOfTheLiving AttemptChosen PredictionMatches
           ImagesStand ResolvedHasNoFailure
PROPERTIES SummaryKept VerdictsEarned
CHECK_DEADLOCK FALSE
