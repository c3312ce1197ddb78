SPECIFICATION FairSpec
CONSTANTS
    Kinds = {"monitor", "control", "reserved", "exit"}
    ConsoleCommands = {}
    Faults = {"header", "payload"}
    MaxMessages = 4
PROPERTIES
    KeepsService
    ServesEveryMessage
CHECK_DEADLOCK FALSE
