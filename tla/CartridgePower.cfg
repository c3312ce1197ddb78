SPECIFICATION Spec
CONSTANTS
    CARTRIDGES_NUMBER = 3
    Available = {0, 1, 2}
    Standby2Bands = {2}
    MAX_POWERED_BANDS_OPERATIONAL = 1
    MAX_POWERED_BANDS_TROUBLESHOOTING = 3
    MAX_STANDBY2_BANDS_OPERATIONAL = 1
    Commands = {0, 1, 2}
    Modes = {"OPERATIONAL", "TROUBLESHOOTING"}
    Operations = {"address"}
    Faults = {}
INVARIANTS
    CountersExact
PROPERTIES
    KeepsPowerBudget
