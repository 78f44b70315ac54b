SPECIFICATION Spec
CONSTANTS
    Versions = {6}
    Nfq = FALSE
    Tracs = {t1, t2}
    Keys = {"k1"}
    Frags <- AllFrags
INVARIANTS
    FreedIsUnreachable6
CHECK_DEADLOCK FALSE
