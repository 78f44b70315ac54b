SPECIFICATION Spec
CONSTANTS
    Mem = {c1, c2, c3, c4}
    None = None
    Taps = {"t1"}
    Pairs = TRUE
    Readd = FALSE
    Timeout = 1
SYMMETRY Symmetry
INVARIANTS
    
    ReleasedOnce
    
CHECK_DEADLOCK FALSE
