\* Every request is answered in time.
SPECIFICATION FairSpec
CONSTANTS
    Sessions <- TwoSessions
    Conn <- OneConn
    Mac <- TwoMacs
    Table <- TwoTables
    Nodes = {n1, n2}
    None = None
    Requests <- SomeRequests
    TimesOut = FALSE
    Limits = TRUE
INVARIANTS NoUseAfterFree CountedOnce 
PROPERTIES StoredIsSent RequestEnds
