-------------------------- MODULE CryostatSensors --------------------------
(***************************************************************************)
(* The sensors of the cryostat. async() measures them one after another,   *)
(* one short step at a time, in turn with the cartridges and the FETIM; a  *)
(* sample takes six states, and monitor requests, which may come between   *)
(* any two steps, are answered from memory. Once a round it also counts    *)
(* the hours of the cold head, which are written to a file on request.     *)
(***************************************************************************)
EXTENDS Naturals, FiniteSets

CONSTANTS CRYOSTAT_TEMP_SENSORS_NUMBER, VACUUM_SENSORS_NUMBER,
          Stages,       \* the sensors of the cold head's three stages
          CRYO_ADC_MAX_RETRIES,
          Faults,       \* what may fail: subset of {"write", "read", "busy", "file"}
          WithinSample  \* the mode may change between two steps of a sample

TempSensors == 0 .. CRYOSTAT_TEMP_SENSORS_NUMBER - 1
Points == 0 .. CRYOSTAT_TEMP_SENSORS_NUMBER + VACUUM_SENSORS_NUMBER
Supply == CRYOSTAT_TEMP_SENSORS_NUMBER + VACUUM_SENSORS_NUMBER
\* A value is the point it was sampled from, FLOAT_UNINIT or FLOAT_ERROR.
NotMeasured == Supply + 1
ConversionError == Supply + 2
Values == Points \cup {NotMeasured, ConversionError}

ASSUME CryostatSensorsAssumption ==
    /\ CRYOSTAT_TEMP_SENSORS_NUMBER \in Nat \ {0} /\ VACUUM_SENSORS_NUMBER \in Nat \ {0}
    /\ Stages \subseteq TempSensors
    /\ CRYO_ADC_MAX_RETRIES \in Nat
    /\ Faults \subseteq {"write", "read", "busy", "file"}
    /\ WithinSample \in BOOLEAN

AsyncStates == {"CRYOSTAT", "CARTRIDGE", "FETIM", "OFF", "ON"}
AnalogStates == {"AREG", "SET_WAIT", "WAIT", "ADC_CONV", "ADC_READY", "ADC_READ"}
LogHoursStates == {"SET_TIMER", "READ_TIMER", "CHECK_TEMPS"}
Results == {"NO_ERROR", "ASYNC_DONE", "ERROR"}

VARIABLES
    asyncState,     \* whose turn it is
    point,          \* the point measured: asyncCryoGetState and its two counters
    logging,        \* asyncCryoGetState is ASYNC_CRYO_LOG_HOURS
    analogState,    \* asyncCryoAnalogState
    retries,
    mux,            \* the point selected in the hardware
    sampled,        \* the point selected when the last conversion started
    value,          \* the last known value of each point
    asyncError,     \* the points whose error variable is ERROR
    logHoursState,  \* asyncCryoLogHoursState
    dirty,          \* coldHeadHoursDirty
    inFile,         \* the file holds coldHeadHours
    edom,           \* errno holds EDOM: nothing ever clears it
    simulating      \* frontend.mode is SIMULATION_MODE

analogVars == <<analogState, retries, mux, sampled>>
hoursVars == <<dirty, inFile>>
settings == <<edom, simulating>>
vars == <<asyncState, point, logging, analogVars, value, asyncError, logHoursState,
          hoursVars, settings>>

-----------------------------------------------------------------------------
(* cryostatSerialInterface.c *)

\* getCryoAnalogMonitor makes one step per call. Its two timers are its own:
\* they can always be started, and are asked for until they have expired.
To(state) == analogState' = state
AnalogError(fault) == fault \in Faults /\ To("AREG")

SelectPoint(p, result) ==
    /\ analogState = "AREG"
    /\ \/ result = "NO_ERROR" /\ mux' = p /\ To("SET_WAIT")
       \/ result = "ERROR" /\ AnalogError("write") /\ UNCHANGED mux
    /\ UNCHANGED <<retries, sampled>>

WaitForPoint(result) ==
    /\ result = "NO_ERROR"
    /\ \/ analogState = "SET_WAIT" /\ To("WAIT")
       \/ analogState = "WAIT" /\ To("ADC_CONV")
    /\ UNCHANGED <<retries, mux, sampled>>

StartConversion(result) ==
    /\ analogState = "ADC_CONV"
    /\ \/ result = "NO_ERROR" /\ sampled' = mux /\ To("ADC_READY")
       \/ result = "ERROR" /\ AnalogError("write") /\ UNCHANGED sampled
    /\ UNCHANGED <<retries, mux>>

\* Mutated form: a status that cannot be read leaves the sample where it is.
ConversionReadyStays(result) ==
    /\ analogState = "ADC_READY"
    /\ \/ result = "NO_ERROR" /\ To("ADC_READ") /\ retries' = 0
       \/ result = "ERROR" /\ "read" \in Faults /\ UNCHANGED <<analogState, retries>>
       \/ /\ "busy" \in Faults
          /\ IF retries + 1 > CRYO_ADC_MAX_RETRIES
             THEN result = "ERROR" /\ To("AREG") /\ retries' = 0
             ELSE result = "NO_ERROR" /\ retries' = retries + 1 /\ UNCHANGED analogState
    /\ UNCHANGED <<mux, sampled>>

\* A status that cannot be read leaves the retries counted so far.
ConversionReady(result) ==
    /\ analogState = "ADC_READY"
    /\ \/ result = "NO_ERROR" /\ To("ADC_READ") /\ retries' = 0
       \/ result = "ERROR" /\ AnalogError("read") /\ UNCHANGED retries
       \/ /\ "busy" \in Faults
          /\ IF retries + 1 > CRYO_ADC_MAX_RETRIES
             THEN result = "ERROR" /\ To("AREG") /\ retries' = 0
             ELSE result = "NO_ERROR" /\ retries' = retries + 1 /\ UNCHANGED analogState
    /\ UNCHANGED <<mux, sampled>>

ReadConversion(result) ==
    /\ analogState = "ADC_READ"
    /\ \/ result = "ASYNC_DONE" /\ To("AREG")
       \/ result = "ERROR" /\ AnalogError("read")
    /\ UNCHANGED <<retries, mux, sampled>>

GetCryoAnalogMonitor(p, result) ==
    \/ SelectPoint(p, result)
    \/ WaitForPoint(result)
    \/ StartConversion(result)
    \/ ConversionReady(result)
    \/ ReadConversion(result)

\* getCryostatTemp, getVacuumSensor, getSupplyCurrent230V. In SIMULATION mode
\* the value is made up at once; a sample in progress stays where it is. The
\* current is converted without a function that could fail.
Measure(p, result) ==
    \/ /\ simulating
       /\ result = "ASYNC_DONE"
       /\ value' = [value EXCEPT ![p] = p]
       /\ UNCHANGED analogVars
    \/ /\ ~simulating
       /\ \E analog \in Results :
            /\ GetCryoAnalogMonitor(p, analog)
            /\ LET converts == p = Supply \/ ~edom IN
               /\ result = IF analog = "ASYNC_DONE" /\ ~converts THEN "ERROR" ELSE analog
               /\ value' = IF analog # "ASYNC_DONE" THEN value
                           ELSE [value EXCEPT ![p] = IF converts THEN sampled ELSE ConversionError]

-----------------------------------------------------------------------------
(* cryostat.c *)

\* Two of the three stages were measured, and may be cold.
MayBeCold == 2 * Cardinality({s \in Stages : value[s] \in Points}) > Cardinality(Stages)

\* Mutated form: hours that were counted are not marked to be written.
CountHoursMutant ==
    \/ UNCHANGED hoursVars
    \/ MayBeCold /\ inFile' = FALSE /\ UNCHANGED dirty

CountHours ==
    \/ UNCHANGED hoursVars
    \/ MayBeCold /\ dirty' = TRUE /\ inFile' = FALSE

\* cryostatAsyncLogHours. Mutated form: a cold head that is not cold has no
\* branch of its own.
LogHoursMutant(result) ==
    \/ /\ logHoursState = "SET_TIMER"
       /\ logHoursState' = "READ_TIMER" /\ result = "NO_ERROR"
       /\ UNCHANGED hoursVars
    \/ /\ logHoursState = "READ_TIMER"
       /\ \/ logHoursState' = "CHECK_TEMPS" /\ result = "NO_ERROR"
          \/ UNCHANGED logHoursState /\ result = "ASYNC_DONE"
       /\ UNCHANGED hoursVars
    \/ /\ logHoursState = "CHECK_TEMPS" /\ MayBeCold
       /\ logHoursState' = "SET_TIMER" /\ result = "ASYNC_DONE"
       /\ CountHours

LogHours(result) ==
    \/ /\ logHoursState = "SET_TIMER"
       /\ logHoursState' = "READ_TIMER" /\ result = "NO_ERROR"
       /\ UNCHANGED hoursVars
    \/ /\ logHoursState = "READ_TIMER"
       /\ \/ logHoursState' = "CHECK_TEMPS" /\ result = "NO_ERROR"
          \/ UNCHANGED logHoursState /\ result = "ASYNC_DONE"
       /\ UNCHANGED hoursVars
    \/ /\ logHoursState = "CHECK_TEMPS"
       /\ logHoursState' = "SET_TIMER" /\ result = "ASYNC_DONE"
       /\ CountHours

\* Mutated form: a point whose measurement failed is tried until it succeeds.
MeasurePointMutant ==
    \E result \in Results :
        /\ ~logging
        /\ Measure(point, result)
        /\ asyncError' = IF result = "ERROR" THEN asyncError \cup {point} ELSE asyncError \ {point}
        /\ IF result # "ASYNC_DONE" THEN UNCHANGED <<point, logging, asyncState>>
           ELSE /\ point' = (point + 1) % (Supply + 1)
                /\ logging' = (point = Supply)
                /\ asyncState' = IF logging' THEN "CARTRIDGE" ELSE asyncState
        /\ UNCHANGED <<logHoursState, hoursVars>>

\* A measurement that goes on forgets the error of the last one; one that ends,
\* well or not, gives way to the next point, and after the last point to the
\* hours. The cartridges get their turn when the last point or the hours are done.
MeasurePoint ==
    \E result \in Results :
        /\ ~logging
        /\ Measure(point, result)
        /\ asyncError' = IF result = "ERROR" THEN asyncError \cup {point} ELSE asyncError \ {point}
        /\ IF result = "NO_ERROR" THEN UNCHANGED <<point, logging, asyncState>>
           ELSE /\ point' = (point + 1) % (Supply + 1)
                /\ logging' = (point = Supply)
                /\ asyncState' = IF logging' THEN "CARTRIDGE" ELSE asyncState
        /\ UNCHANGED <<logHoursState, hoursVars>>

LogHoursTurn ==
    \E result \in Results :
        /\ logging
        /\ LogHours(result)
        /\ logging' = (result = "NO_ERROR")
        /\ asyncState' = IF logging' THEN asyncState ELSE "CARTRIDGE"
        /\ UNCHANGED <<point, analogVars, value, asyncError>>

CryostatAsync == asyncState = "CRYOSTAT" /\ (MeasurePoint \/ LogHoursTurn)

\* async.c: the turn of the others is one step.
OthersAsync ==
    /\ \/ asyncState = "CARTRIDGE" /\ asyncState' = "FETIM"
       \/ asyncState \in {"FETIM", "ON"} /\ asyncState' = "CRYOSTAT"
    /\ UNCHANGED <<point, logging, analogVars, value, asyncError, logHoursState, hoursVars>>

Async == (CryostatAsync \/ OthersAsync) /\ UNCHANGED settings

-----------------------------------------------------------------------------
(* Messages and commands that come between two steps *)

\* pdModule.c: a cartridge that is switched gets its turn at once, also when
\* the console has stopped async().
PowerCommand ==
    /\ asyncState' = "CARTRIDGE"
    /\ UNCHANGED <<point, logging, analogVars, value, asyncError, logHoursState, hoursVars, settings>>

\* console.c, 'a'
ToggleAsync ==
    /\ asyncState' = IF asyncState = "OFF" THEN "ON" ELSE "OFF"
    /\ UNCHANGED <<point, logging, analogVars, value, asyncError, logHoursState, hoursVars, settings>>

\* coldHeadHoursHandler
SetColdHeadHours ==
    /\ dirty' = TRUE
    /\ inFile' \in BOOLEAN
    /\ UNCHANGED <<asyncState, point, logging, analogVars, value, asyncError, logHoursState,
                   settings>>

\* frontendWriteNVMemory, on request only. Whether the file was written is not
\* looked at.
WriteNVMemory ==
    /\ dirty
    /\ dirty' = FALSE
    /\ inFile' \in IF "file" \in Faults THEN {TRUE, inFile} ELSE {TRUE}
    /\ UNCHANGED <<asyncState, point, logging, analogVars, value, asyncError, logHoursState,
                   settings>>

SetFeMode ==
    /\ WithinSample \/ analogState = "AREG"
    /\ simulating' = ~simulating
    /\ UNCHANGED <<asyncState, point, logging, analogVars, value, asyncError, logHoursState,
                   hoursVars, edom>>

\* A conversion of another device was out of its domain.
OtherConversionFailed ==
    /\ ~edom
    /\ edom' = TRUE
    /\ UNCHANGED <<asyncState, point, logging, analogVars, value, asyncError, logHoursState,
                   hoursVars, simulating>>

Init ==
    /\ asyncState = "CRYOSTAT"
    /\ point = 0 /\ logging = FALSE
    /\ analogState = "AREG" /\ retries = 0 /\ mux = 0 /\ sampled = 0
    /\ value = [p \in Points |-> NotMeasured]
    /\ asyncError = {}
    /\ logHoursState = "SET_TIMER"
    /\ dirty = FALSE /\ inFile = TRUE
    /\ edom = FALSE /\ simulating = FALSE

\* The hours are read from the file, and are zero if they cannot be.
Restart ==
    /\ asyncState' = "CRYOSTAT"
    /\ point' = 0 /\ logging' = FALSE
    /\ analogState' = "AREG" /\ retries' = 0 /\ UNCHANGED <<mux, sampled>>
    /\ value' = [p \in Points |-> NotMeasured]
    /\ asyncError' = {}
    /\ logHoursState' = "SET_TIMER"
    /\ \/ inFile' = TRUE /\ dirty' = FALSE
       \/ inFile' = FALSE /\ dirty' = TRUE
    /\ edom' = FALSE /\ simulating' = FALSE

Next ==
    \/ Async
    \/ PowerCommand \/ ToggleAsync \/ SetColdHeadHours \/ WriteNVMemory
    \/ SetFeMode \/ OtherConversionFailed
    \/ Restart

Spec == Init /\ [][Next]_vars /\ WF_vars(Async)

-----------------------------------------------------------------------------
(* What a monitor request answers: vacuumSensor.c, cryostatTemp.c, cryostat.c *)

Status(p) ==
    IF asyncState = "OFF" THEN "HARDW_BLKD_ERR"
    ELSE IF p \notin asyncError THEN "NO_ERROR"
    ELSE IF value[p] = ConversionError THEN "HARDW_CON_ERR"
    ELSE "ERROR"

-----------------------------------------------------------------------------

\* Every variable stays in its range.
TypeOK ==
    /\ asyncState \in AsyncStates
    /\ point \in Points /\ logging \in BOOLEAN
    /\ analogState \in AnalogStates
    /\ retries \in 0 .. CRYO_ADC_MAX_RETRIES
    /\ mux \in Points /\ sampled \in Points
    /\ value \in [Points -> Values]
    /\ asyncError \subseteq Points
    /\ logHoursState \in LogHoursStates
    /\ dirty \in BOOLEAN /\ inFile \in BOOLEAN
    /\ edom \in BOOLEAN /\ simulating \in BOOLEAN

\* The value kept for a sensor was sampled from that sensor, whatever failed and
\* whoever got its turn in between, although the states of the sample are kept
\* in one variable for all sensors (cryostatSerialInterface.c:58); and what is
\* answered as a measured value is not that of a failed conversion, but while
\* the sensor is measured again (cryostat.c:478). Broken with WithinSample: in
\* SIMULATION mode a sample stays where it is while the sensors go on, and ends
\* as the value of another.
ValuesBelong ==
    \A p \in Points :
        /\ value[p] \in {p, NotMeasured, ConversionError}
        /\ Status(p) = "NO_ERROR" /\ point # p => value[p] # ConversionError

\* Hours that differ from those in the file are marked to be written, so that
\* the next request to write them does (frontend.c:209). Broken with "file": a
\* file that cannot be written is taken for written (frontend.c:216).
HoursAreSaved == ~inFile => dirty

\* No call of async() gets stuck: in every state of a sample and of the hours,
\* in SIMULATION mode or not, there is something it can do next
\* (cryostatSerialInterface.c:58-285, cryostat.c:388-560).
NothingBlocks == asyncState # "OFF" => ENABLED <<Async>>_vars

\* Whatever fails, every sensor is measured again and again and the hours are
\* looked at, as long as the console does not stop async() for good and no
\* endless series of restarts or of power commands takes the cryostat's turn.
RoundGoesOn ==
    <>[](asyncState # "OFF") /\ <>[][~PowerCommand /\ ~Restart]_vars
    => /\ \A p \in Points : []<>(point = p /\ analogState = "AREG")
       /\ []<>logging
=============================================================================
