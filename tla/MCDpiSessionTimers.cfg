\* A TCP, a UDP and an ICMP flow under a policy that allows all.
SPECIFICATION FairSpec
CONSTANTS
    Flows = {"t", "u", "i"}
    Proto <- OfEach
    Packets <- TimerPackets
    Rules <- OnlyOpen
    MaxPolicyVer = 0
    TapModes = {FALSE}
    SpillModes = {FALSE}
INVARIANTS
    WheelHoldsSessions
    CountersMatch
    
PROPERTIES
    Drained
CHECK_DEADLOCK FALSE
