------------------------------- MODULE Fetim -------------------------------
(***************************************************************************)
(* The FETIM, which watches the compressor and interlocks the front end:   *)
(* its monitor requests, its part of async(), which measures the           *)
(* compressor's temperatures and helium pressure in several steps, tells   *)
(* the FETIM whether the cryostat may be cooled and shuts the front end    *)
(* down, and the nitrogen fill of the dewar.                               *)
(***************************************************************************)
EXTENDS Handlers

CONSTANT FETIM_EXT_SENSORS_NUMBER

ASSUME FetimAssumption == FETIM_EXT_SENSORS_NUMBER \in Nat \ {0}

ExtSensors == 0 .. FETIM_EXT_SENSORS_NUMBER - 1
He2Press == FETIM_EXT_SENSORS_NUMBER    \* the last of the analog points

AsyncFetimStates == {"GET_EXT_TEMP", "GET_HE2_PRESS", "SET_FE_STATUS", "SHUTDOWN_FE"}
\* The pressure in the cryostat: not measured yet or not readable, at most
\* MAX_CRYO_COOLING_PRESSURE, above it.
Pressures == {"error", "low", "high"}
Outputs == {"feStatus", "n2Fill"}

VARIABLES
    fetimUp,            \* "available", "unavailable", or the program has "exited"
    asyncFetimState,
    extTempModule,      \* currentAsyncFetimExtTempModule
    serialState,        \* asyncFetimSerialState
    fetimErrors,        \* the analog points whose error variable is ERROR
    pressure,           \* vacuumSensor[CRYOSTAT_PRESSURE].pressure
    currentState,       \* the static variable of fetimAsync: the FE is SAFE
    fetimOn,            \* the outputs that are on in memory
    fetimHw,            \* the outputs that are on in the hardware
    fetimHeard,         \* history: those whose last change reached the hardware
    judgedSafe,         \* history: the pressure was low when it was last judged
    trigger,            \* the FETIM has triggered the ultimate shutdown
    shutdownTrig        \* interlock.state.shutdownTrig

fetimOutputs == <<fetimOn, fetimHw, fetimHeard>>
fetimRound == <<asyncFetimState, extTempModule, serialState, fetimErrors>>
fetimVars == <<fetimUp, fetimRound, pressure, currentState, fetimOutputs, judgedSafe,
               trigger, shutdownTrig>>

-----------------------------------------------------------------------------
(* fetimSerialInterface.c *)

\* One read of the port, of which one bit is kept.
GetFetimDigital(ok) == ok \/ Fails("read")

\* The parallel converter: two writes and a read. It is waited for by nobody.
GetFetimParallelMonitor(ok) == ok \/ Fails("write") \/ Fails("read")

\* An output is written; its shadow register takes its old value back when that
\* fails, so it need not be told from the hardware.
SetOutput(o, on, ok) ==
    /\ ok \/ Fails("write")
    /\ fetimOn' = IF ok THEN With(fetimOn, o, on) ELSE fetimOn
    /\ fetimHw' = IF ok /\ ~Simulated THEN With(fetimHw, o, on) ELSE fetimHw
    /\ fetimHeard' = With(fetimHeard, o, ok /\ ~Simulated)

\* The serial converter: the point is selected in one call, and read in the next.
SerialResults ==
    IF Simulated THEN {"ASYNC_DONE"}
    ELSE (IF serialState = "BREG" THEN {"NO_ERROR"} ELSE {"ASYNC_DONE"})
         \cup {r \in {"ERROR"} : Fails(IF serialState = "BREG" THEN "write" ELSE "read")}

SerialNext(result) ==
    serialState' = IF Simulated THEN serialState
                   ELSE IF result = "NO_ERROR" THEN "ADC_READ" ELSE "BREG"

-----------------------------------------------------------------------------
(* fetimAsync *)

\* While a measurement goes on the error of the last one is forgotten.
Measured(point, result) ==
    /\ SerialNext(result)
    /\ fetimErrors' = With(fetimErrors, point, result = "ERROR")

GetExtTemp(result) ==
    /\ asyncFetimState = "GET_EXT_TEMP"
    /\ Measured(extTempModule, result)
    /\ IF result = "NO_ERROR" THEN UNCHANGED <<asyncFetimState, extTempModule>>
       ELSE /\ extTempModule' = (extTempModule + 1) % FETIM_EXT_SENSORS_NUMBER
            /\ asyncFetimState' = IF extTempModule' = 0 THEN "GET_HE2_PRESS" ELSE asyncFetimState

GetHe2Press(result) ==
    /\ asyncFetimState = "GET_HE2_PRESS"
    /\ Measured(He2Press, result)
    /\ asyncFetimState' = IF result = "NO_ERROR" THEN asyncFetimState ELSE "SET_FE_STATUS"
    /\ UNCHANGED extTempModule

\* Mutated form: a pressure that was not measured passes for a low one.
PressureIsSafeMutant == pressure # "high"

\* A pressure that was not measured is not safe.
PressureIsSafe == pressure # "error" /\ pressure # "high"

\* The status is written only when it changes, and is taken to have been
\* written when it was not.
SetFeStatus ==
    /\ asyncFetimState = "SET_FE_STATUS"
    /\ IF PressureIsSafe = currentState THEN UNCHANGED fetimOutputs
       ELSE \E ok \in BOOLEAN : SetOutput("feStatus", PressureIsSafe, ok)
    /\ currentState' = PressureIsSafe
    /\ judgedSafe' = (pressure = "low")
    /\ asyncFetimState' = "SHUTDOWN_FE"
    /\ UNCHANGED <<extTempModule, serialState, fetimErrors, fetimUp>>

\* The front end is shut down if a monitor request has found the trigger.
ShutdownFe ==
    /\ asyncFetimState = "SHUTDOWN_FE"
    /\ IF shutdownTrig THEN fetimUp' = "exited" /\ UNCHANGED asyncFetimState
       ELSE asyncFetimState' = "GET_EXT_TEMP" /\ UNCHANGED fetimUp
    /\ UNCHANGED <<extTempModule, serialState, fetimErrors, currentState, fetimOutputs, judgedSafe>>

FetimAsync ==
    /\ fetimUp = "available"
    /\ \/ /\ \E result \in SerialResults : GetExtTemp(result) \/ GetHe2Press(result)
          /\ UNCHANGED <<fetimUp, currentState, fetimOutputs, judgedSafe>>
       \/ SetFeStatus
       \/ ShutdownFe
    /\ UNCHANGED <<pressure, trigger, shutdownTrig, shared>>

-----------------------------------------------------------------------------
(* The messages *)

\* Interlock and compressor: a digital or a parallel point.
MonitorDigital == \E ok \in BOOLEAN : GetFetimDigital(ok) /\ Told(ok)
MonitorParallel == \E ok \in BOOLEAN : GetFetimParallelMonitor(ok) /\ Told(ok)

\* An analog point of the compressor is answered from memory.
MonitorAnalog == \E p \in ExtSensors \cup {He2Press} : Told(p \notin fetimErrors)

\* The two outputs are answered from memory too.
MonitorOutput == Done

MonitorShutdownTrig ==
    \E ok \in BOOLEAN :
        /\ GetFetimDigital(ok)
        /\ Told(ok)
        /\ shutdownTrig' = IF ok THEN trigger /\ ~Simulated ELSE shutdownTrig

N2FillEnable(on) == \E ok \in BOOLEAN : SetOutput("n2Fill", on, ok) /\ Told(ok)

FetimHandler ==
    \/ fetimUp = "unavailable" /\ RangeError /\ UNCHANGED <<shutdownTrig, fetimOutputs>>
    \/ /\ fetimUp = "available"
       /\ \/ /\ \/ MonitorDigital \/ MonitorParallel \/ MonitorAnalog \/ MonitorOutput
                \/ RangeError
             /\ UNCHANGED <<shutdownTrig, fetimOutputs>>
          \/ MonitorShutdownTrig /\ UNCHANGED fetimOutputs
          \/ \E on \in BOOLEAN : N2FillEnable(on) /\ UNCHANGED shutdownTrig

FetimMessage ==
    /\ FetimHandler
    /\ UNCHANGED <<fetimUp, fetimRound, pressure, currentState, judgedSafe, trigger,
                   mode, running, edom, simulated>>

-----------------------------------------------------------------------------
(* The world, and the start *)

\* The cryostat's part of async() measures the pressure. The console may make
\* it run at any time (async.c:85).
PressureMeasured ==
    /\ fetimUp = "available"
    /\ pressure' \in Pressures \ {pressure}
    /\ UNCHANGED <<fetimUp, fetimRound, currentState, fetimOutputs, judgedSafe, trigger,
                   shutdownTrig, shared>>

ShutdownTriggered ==
    /\ ~trigger
    /\ trigger' = TRUE
    /\ UNCHANGED <<fetimUp, fetimRound, pressure, currentState, fetimOutputs, judgedSafe,
                   shutdownTrig, shared>>

FetimInit ==
    /\ fetimUp = "available"
    /\ asyncFetimState = "GET_EXT_TEMP" /\ extTempModule = 0 /\ serialState = "BREG"
    /\ fetimErrors = {}
    /\ pressure = "error"
    /\ currentState = FALSE /\ judgedSafe = FALSE
    /\ fetimOn = {} /\ fetimHw = {} /\ fetimHeard = Outputs
    /\ trigger = FALSE /\ shutdownTrig = FALSE

\* fetimStartup reads the revision: the start ends if it cannot be read, and
\* there is no FETIM if it is zero. The outputs are not written: they are taken
\* to be off, which is true only if the FETIM lost its power too. A start of the
\* cryostat that ends early leaves the pressure zero, which counts as low.
FetimRestart ==
    /\ HandlersRestart
    /\ \/ fetimUp' \in {"available", "unavailable"}
       \/ "startup" \in Faults /\ fetimUp' = "exited"
    /\ asyncFetimState' = "GET_EXT_TEMP" /\ extTempModule' = 0 /\ serialState' = "BREG"
    /\ fetimErrors' = {}
    /\ pressure' \in {"error"} \cup {p \in {"low"} : "startup" \in Faults}
    /\ currentState' = FALSE /\ judgedSafe' = FALSE
    /\ fetimOn' = {} /\ fetimHeard' = {} /\ shutdownTrig' = FALSE
    /\ \/ UNCHANGED <<fetimHw, trigger>>
       \/ fetimHw' = {} /\ trigger' = FALSE

FetimNext == FetimAsync \/ FetimMessage \/ PressureMeasured \/ ShutdownTriggered \/ FetimRestart

\* The computer stays on: the idle loop runs async() again and again.
ShutdownSpec ==
    /\ HandlersInit /\ FetimInit
    /\ [][FetimAsync \/ FetimMessage \/ PressureMeasured \/ ShutdownTriggered]_<<fetimVars, shared>>
    /\ WF_<<fetimVars, shared>>(FetimAsync)

-----------------------------------------------------------------------------

\* Every variable stays in its range.
FetimTypeOK ==
    /\ fetimUp \in {"available", "unavailable", "exited"}
    /\ asyncFetimState \in AsyncFetimStates
    /\ extTempModule \in ExtSensors
    /\ serialState \in {"BREG", "ADC_READ"}
    /\ fetimErrors \subseteq ExtSensors \cup {He2Press}
    /\ pressure \in Pressures
    /\ currentState \in BOOLEAN /\ judgedSafe \in BOOLEAN
    /\ fetimOn \subseteq Outputs /\ fetimHw \subseteq Outputs /\ fetimHeard \subseteq Outputs
    /\ trigger \in BOOLEAN /\ shutdownTrig \in BOOLEAN

\* The FETIM, which keeps the compressor running, was told that the cryostat
\* may be cooled exactly if the pressure was measured and low when fetimAsync
\* last looked (fetim.c:233), and each of its outputs is what the monitor
\* requests answer. It needs that the last change was written: the result of
\* the write is not looked at and not tried again (fetim.c:251), nothing is
\* written in SIMULATION mode, and a restart takes an output that was left on
\* for off (fetim.c:223).
FetimIsTold ==
    /\ "feStatus" \in fetimHeard => ("feStatus" \in fetimHw <=> judgedSafe)
    /\ \A o \in fetimHeard : o \in fetimOn <=> o \in fetimHw

\* The FETIM holds the status that was judged last. The code breaks it: a write
\* of the status that fails is taken to have been made (fetim.c:251), and a
\* cryostat that has become unsafe stays safe for the FETIM until it is safe
\* and unsafe again.
StatusReachesFetim == "feStatus" \in fetimHw <=> judgedSafe

\* `Gracefully shutdown the Front End if the ultimate shutdown sequence has been
\* started' (fetim.c:126): what fetimAsync looks at is a copy of the trigger
\* that only a monitor request for it refreshes (interlockState.c:296).
ShutdownFollowsTrigger == trigger ~> fetimUp = "exited"

\* What a monitor request has found is acted on, though, whatever fails and
\* whatever the console and the cryostat do meanwhile (fetim.c:270).
HeardTriggerShutsDown == shutdownTrig ~> fetimUp = "exited"

\* async() always has something to do: what the liveness of the shut down needs
\* of the model.
AsyncNeverBlocks == fetimUp = "available" => ENABLED <<FetimAsync>>_<<fetimVars, shared>>

\* The front end is not shut down unless the FETIM has triggered it: neither a
\* read that failed nor a trigger made up in SIMULATION mode does (fetim.c:270,
\* interlockState.c:296). A start may fail.
OnlyTriggerShutsDown ==
    [][fetimUp # "exited" /\ fetimUp' = "exited" => trigger \/ FetimRestart]_fetimVars
=============================================================================
