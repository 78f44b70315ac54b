\* The policy and the mode change under a TCP flow.
SPECIFICATION Spec
CONSTANTS
    Flows = {"t"}
    Proto <- OneTcp
    Packets <- VerdictPackets
    Rules <- SomeRules
    MaxPolicyVer = 1
    TapModes = {TRUE, FALSE}
    SpillModes = {FALSE}
PROPERTIES
    
    BlockedIsNotSent
    
CHECK_DEADLOCK FALSE
