SPECIFICATION FairSpec
CONSTANTS
    CARTRIDGES_NUMBER = 2
    Available = {0, 1}
    Standby2Bands = {1}
    MAX_POWERED_BANDS_OPERATIONAL = 1
    MAX_POWERED_BANDS_TROUBLESHOOTING = 2
    MAX_STANDBY2_BANDS_OPERATIONAL = 1
    Commands = {0, 1, 2}
    Modes = {"TROUBLESHOOTING"}
    Operations = {"console"}
    Faults = {"standby2", "init"}
INVARIANTS
    NothingBlocks
PROPERTIES
    InitialisationEnds
