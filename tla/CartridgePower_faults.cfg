SPECIFICATION Spec
CONSTANTS
    CARTRIDGES_NUMBER = 2
    Available = {0, 1}
    Standby2Bands = {}
    MAX_POWERED_BANDS_OPERATIONAL = 1
    MAX_POWERED_BANDS_TROUBLESHOOTING = 2
    MAX_STANDBY2_BANDS_OPERATIONAL = 1
    Commands = {0, 1}
    Modes = {"TROUBLESHOOTING", "MAINTENANCE"}
    Operations = {"address", "console", "restart"}
    Faults = {"enable", "disable", "init", "startup"}
INVARIANTS
    OnlyCurrentIniting
    TimerDiscipline
    CountersExact
PROPERTIES
    OnlyCommandsFeed
