SPECIFICATION ShutdownSpec
CONSTANTS
    Modes = {"OPERATIONAL"}
    Faults = {}
    FETIM_EXT_SENSORS_NUMBER = 2
PROPERTIES
    ShutdownFollowsTrigger
CHECK_DEADLOCK FALSE
