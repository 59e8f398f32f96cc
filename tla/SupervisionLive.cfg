SPECIFICATION FairSpec
CONSTANTS
    Instances = {1}
    DefaultTotal = 4
    MaxKills = 2
    SupervisorDies = FALSE
PROPERTY RunnerIsRestarted
PROPERTY RunCompletes
CHECK_DEADLOCK FALSE
