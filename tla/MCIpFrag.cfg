SPECIFICATION Spec
CONSTANTS
    Versions = {4, 6}
    Nfq = FALSE
    Tracs = {t1, t2}
    Keys = {"k1"}
    Frags <- AllFrags
INVARIANTS
    FreedIsUnreachable
    
    HeldMatches
    
    
CHECK_DEADLOCK FALSE
