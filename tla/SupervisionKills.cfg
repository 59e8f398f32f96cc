SPECIFICATION Spec
CONSTANTS
    Instances = {1, 2}
    DefaultTotal = 4
    MaxKills = 1
    SupervisorDies = TRUE
INVARIANT SupervisionTypeOK
INVARIANT MonitorDoneSound
INVARIANT SupervisorLeavesCompleteRun
CHECK_DEADLOCK FALSE
