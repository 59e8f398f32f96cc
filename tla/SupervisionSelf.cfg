SPECIFICATION FairSpec
CONSTANTS
    Instances = {1}
    DefaultTotal = 4
    MaxKills = 1
    SupervisorDies = TRUE
PROPERTY SupervisorIsKeptAlive
CHECK_DEADLOCK FALSE
