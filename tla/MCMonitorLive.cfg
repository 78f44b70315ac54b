\* Controller, agent and data plane in one container, one fault, and an exit signal.
SPECIFICATION FairSpec
CONSTANTS
    Mode = "ctrl_agent"
    OnDemand = FALSE
    Pids = {1, 2, 3, 4}
    MissMax = 1
    MaxFaults = 1
    Quick = FALSE
    OpSignals = FALSE
    ExitSignal = TRUE
PROPERTIES
    
    HungDpKilled
    DpRestartedWithAgent
    ShutdownCompletes
CHECK_DEADLOCK FALSE
