SPECIFICATION FairSpec
CONSTANTS
    Kinds = {"monitor", "control", "exit"}
    ConsoleCommands = {"m", "c", "q"}
    Faults = {"header", "payload", "write"}
    MaxMessages = 4
INVARIANTS
    NothingBlocks
    ExecutedAtMostOnce
PROPERTIES
    PortIsReleased
CHECK_DEADLOCK FALSE
