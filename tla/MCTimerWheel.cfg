SPECIFICATION Spec
CONSTANTS
    Entries = {e1, e2}
    NoEntry = NoEntry
    N = 8
    Timeouts = {1, 3}
    MaxStall = 2
    FirstStall = 1
    MaxSeconds = 9
INVARIANTS TypeOK ActiveIsLinked
PROPERTIES ImplementsDeadlines DeadlinesMet
CHECK_DEADLOCK FALSE
