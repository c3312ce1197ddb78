SPECIFICATION Spec
CONSTANTS
    Modes = {"OPERATIONAL", "SIMULATION"}
    Faults = {"write", "read", "wait", "startup", "domain"}
    Units = {"cryostat", "bias", "lo", "lpr", "if", "fetim", "owb"}
    Bands = {2, 4, 6, 9}
    Commanded <- MCCommanded
    LoSwitches = {"photomixer", "upperSideband", "alternateBandwidth"}
    LoPots = {"multiplierD"}
    LoopBandwidthDefault = TRUE
    Ports = {0, 1}
    IF_CHANNELS_NUMBER = 2
    Ways = {1}
    Attenuations = {0, 15, 16}
    FETIM_EXT_SENSORS_NUMBER = 2
    ROM_BITS = 2
    MAX_DEVICES_NUMBER = 3
    Buses <- MCBuses
    ReadBound = 3
INVARIANTS
    TypeOK
    TimersReleased
    NothingFailsSilently
    CommandsTellTruth
    Standby2IsDark
    LoMemoryMatches
    SwitchWhereTold
    IfMemoryMatches
    FetimIsTold
    EsnsAreTold
PROPERTIES
    KeepsLine
