SPECIFICATION Spec
CONSTANTS
    Mode = "agent"
    OnDemand = FALSE
    Pids = {1, 2, 3}
    MissMax = 1
    MaxFaults = 2
    Quick = TRUE
    OpSignals = TRUE
    ExitSignal = TRUE
INVARIANTS
    OneInstance
CHECK_DEADLOCK FALSE
