SPECIFICATION Spec
CONSTANTS
    CRYOSTAT_TEMP_SENSORS_NUMBER = 1
    VACUUM_SENSORS_NUMBER = 1
    Stages = {0}
    CRYO_ADC_MAX_RETRIES = 1
    Faults = {"write", "read", "busy"}
    WithinSample = FALSE
INVARIANTS
    NothingBlocks
    ValuesBelong
    HoursAreSaved
PROPERTIES
    RoundGoesOn
