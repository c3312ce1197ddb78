SPECIFICATION Spec
CONSTANTS
    TABLE_SIZES = 4
    Ytos = {0, 2, 4, 5}
    YTO_COARSE_SET_MAX = 4
    Volts = {3, 6}
    POT_VALUES = 8
    EntryPols = {1, 2}
    EntryYtos = {1, 4}
    EntryVolts = {5}
    Modes = {"OPERATIONAL", "TROUBLESHOOTING"}
    BypassCold = FALSE
    ChannelsSwapped = FALSE
    Faults = {"pot", "areg"}
INVARIANTS
    TypeOK
    FindsWhatTableMeans
    MemoryMatchesHardware
    ClientKnows
PROPERTIES
    DrainStaysSafe
    WarmStaysDown
