\* A ring of four entries and two contents.
SPECIFICATION FairSpec
CONSTANTS
    Logs = {a, b}
    None = None
    N = 4
INVARIANTS EntryIsNotShared
PROPERTIES ImplementsQueue LogsAreSent
