-------------------------------- MODULE Lpr ---------------------------------
(***************************************************************************)
(* The LO photonic receiver: an optical switch that sends the light of the *)
(* laser synthesizer to one band or to a shutter, and the amplifier (EDFA) *)
(* with its modulation input. The receiver keeps its power when the        *)
(* computer restarts.                                                      *)
(***************************************************************************)
EXTENDS Handlers

CONSTANTS Ports         \* the bands the switch is sent to, of 0 .. 9

PORT_SHUTTERED == 255

ASSUME LprAssumption == Ports \subseteq 0 .. 9

VARIABLES
    lprPhase,           \* of the program: "down", "up", "stopping", "stopped"
    port,               \* frontend.lpr.opticalSwitch.port
    shutter,            \* frontend.lpr.opticalSwitch.shutter
    switchError,        \* frontend.lpr.opticalSwitch.state
    switchBusy,         \* frontend.lpr.opticalSwitch.busy
    driverTempAlarm,    \* frontend.lpr.edfa.driverTempAlarm
    modulation,         \* frontend.lpr.edfa.modulationInput.value is not zero
    lastModulation,     \* ... .lastValue, the value of the last command
    lprAReg,            \* lprRegisters.aReg.port
    switchAt,           \* where the last strobe sent the switch
    modulationHw        \* the converter is not at zero

lprStates == <<switchError, switchBusy, driverTempAlarm>>
lprSwitch == <<port, shutter, lprAReg, switchAt>>
lprModulation == <<modulation, lastModulation, modulationHw>>
lprVars == <<lprPhase, lprSwitch, lprStates, lprModulation>>

-----------------------------------------------------------------------------
(* lprSerialInterface.c *)

GetLprAnalogMonitor(ok) == Measures("LPR_ADC", ok)

GetLprTemp(ok) == GetLprAnalogMonitor(ok)
GetLaserDriveCurrent(ok) == GetLprAnalogMonitor(ok)
GetLaserPhotoDetectCurrent(ok) == GetLprAnalogMonitor(ok)
GetPhotoDetectorCurrent(ok) == GetLprAnalogMonitor(ok)
GetPhotoDetectorPower(ok) == GetLprAnalogMonitor(ok)
\* Fails, measured or not, once any conversion of the program left EDOM behind.
GetLaserPumpTemperature(ok) == GetLprAnalogMonitor(ok)
PumpTemperatureUnusable == edom /\ ~Simulated

\* The state of the switch and of the driver. In SIMULATION mode there is
\* nothing wrong with either.
GetLprStates(ok) ==
    IF Simulated
    THEN ok /\ switchError' = FALSE /\ switchBusy' = FALSE /\ driverTempAlarm' = FALSE
    ELSE IF ok
    THEN switchError' \in BOOLEAN /\ switchBusy' \in BOOLEAN /\ driverTempAlarm' \in BOOLEAN
    ELSE "read" \in Faults /\ UNCHANGED lprStates

\* A register write and a strobe. If the strobe fails the copy stays changed,
\* like the register, and the switch where it is.
MoveSwitch(to, ok) ==
    IF ok THEN lprAReg' = to /\ switchAt' = to
    ELSE /\ "write" \in Faults
         /\ lprAReg' \in {lprAReg, to}
         /\ UNCHANGED switchAt

\* The state that is tested for "busy" is the error bit of the status register.
SwitchRefuses == switchError'

SetOpticalSwitchPort(to, ok) ==
    IF Simulated
    THEN ok /\ port' = to /\ UNCHANGED <<lprAReg, switchAt, lprStates>>
    ELSE \/ /\ GetLprStates(TRUE)
            /\ ~SwitchRefuses
            /\ MoveSwitch(to, ok)
            /\ port' = IF ok THEN to ELSE port
         \/ /\ ~ok
            /\ GetLprStates(FALSE) \/ (GetLprStates(TRUE) /\ SwitchRefuses)
            /\ lprAReg' = to
            /\ UNCHANGED <<port, switchAt>>

SetOpticalSwitchShutter(forced, ok) ==
    IF Simulated
    THEN ok /\ shutter' = TRUE /\ UNCHANGED <<lprAReg, switchAt, lprStates>>
    ELSE \/ /\ IF forced THEN UNCHANGED lprStates ELSE GetLprStates(TRUE) /\ ~SwitchRefuses
            /\ MoveSwitch(PORT_SHUTTERED, ok)
            /\ shutter' = (ok \/ shutter)
         \/ /\ ~ok /\ ~forced
            /\ GetLprStates(FALSE) \/ (GetLprStates(TRUE) /\ SwitchRefuses)
            /\ lprAReg' = PORT_SHUTTERED
            /\ UNCHANGED <<shutter, switchAt>>

SetModulationInputValue(nonzero, ok) ==
    IF Simulated THEN ok /\ UNCHANGED modulationHw
    ELSE IF ok THEN modulationHw' = nonzero
    ELSE "write" \in Faults /\ UNCHANGED modulationHw

\* The strobe zeroes the converter or leaves it.
SetLprDacStrobe(ok) ==
    IF Simulated THEN ok /\ UNCHANGED modulationHw
    ELSE IF ok THEN modulationHw' \in {modulationHw, FALSE}
    ELSE "write" \in Faults /\ UNCHANGED modulationHw

-----------------------------------------------------------------------------
(* The handlers *)

LprKept == UNCHANGED <<mode, simulated, edom, lprPhase>>

LprMonitor(Get(_)) ==
    /\ \E ok \in BOOLEAN : Get(ok) /\ Told(ok)
    /\ LprKept /\ UNCHANGED <<lprSwitch, lprStates, lprModulation>>
LprMemory(Answered) ==
    Answered /\ LprKept /\ UNCHANGED <<running, lprSwitch, lprStates, lprModulation>>

\* lprTemp.c
LprTempHandler == LprMonitor(GetLprTemp)

\* Mutated form: a port that is selected does not take the shutter back.
PortSetMutant(to) ==
    /\ IF to \in 0 .. 9
       THEN \E ok \in BOOLEAN : SetOpticalSwitchPort(to, ok) /\ shutter' = shutter /\ Told(ok)
       ELSE /\ Answer("CON_ERROR_RNG", FALSE)
            /\ UNCHANGED <<lprSwitch, lprStates>>
    /\ LprKept /\ UNCHANGED <<running, lprModulation>>

\* opticalSwitch.c: the port and the shutter
PortSet(to) ==
    /\ IF to \in 0 .. 9
       THEN \E ok \in BOOLEAN :
                /\ SetOpticalSwitchPort(to, ok)
                /\ shutter' = (shutter /\ ~ok)
                /\ Told(ok)
       ELSE /\ Answer("CON_ERROR_RNG", FALSE)
            /\ UNCHANGED <<lprSwitch, lprStates>>
    /\ LprKept /\ UNCHANGED <<running, lprModulation>>

\* Mutated form: the result of the shutter command is not looked at.
ShutterSetMutant(forced) ==
    /\ \E ok \in BOOLEAN :
          /\ SetOpticalSwitchShutter(forced, ok)
          /\ port' = IF ok THEN PORT_SHUTTERED ELSE port
          /\ Answer("NO_ERROR", ~ok)
    /\ LprKept /\ UNCHANGED <<running, lprModulation>>

ShutterSet(forced) ==
    /\ \E ok \in BOOLEAN :
          /\ SetOpticalSwitchShutter(forced, ok)
          /\ port' = IF ok THEN PORT_SHUTTERED ELSE port
          /\ Told(ok)
    /\ LprKept /\ UNCHANGED <<running, lprModulation>>

PortHandler == LprMemory(Done) \/ \E to \in Ports \cup {10} : PortSet(to)
ShutterHandler == LprMemory(Done) \/ ShutterSet(FALSE)
ForceShutterHandler == LprMemory(NoMonitor) \/ ShutterSet(TRUE)

\* The state and busy points, each of which reads everything.
StateAndBusyHandler ==
    /\ \E ok \in BOOLEAN : GetLprStates(ok) /\ Told(ok)
    /\ LprKept /\ UNCHANGED <<running, lprSwitch, lprModulation>>

OpticalSwitchHandler ==
    \/ PortHandler \/ ShutterHandler \/ ForceShutterHandler
    \/ StateAndBusyHandler
    \/ LprMemory(RangeError)

\* laser.c
LaserPumpTemp ==
    \/ ~PumpTemperatureUnusable /\ LprMonitor(GetLaserPumpTemperature)
    \/ /\ PumpTemperatureUnusable
       /\ \E ok \in BOOLEAN :
             /\ GetLaserPumpTemperature(ok)
             /\ IF ok THEN Answer("HARDW_CON_ERR", TRUE) ELSE Error
       /\ LprKept /\ UNCHANGED <<lprSwitch, lprStates, lprModulation>>

LaserCurrents == LprMonitor(GetLaserDriveCurrent) \/ LprMonitor(GetLaserPhotoDetectCurrent)
LaserHandler == LaserPumpTemp \/ LaserCurrents \/ LprMemory(RangeError)

\* photoDetector.c
PhotoDetectorPoints ==
    \/ LprMonitor(GetPhotoDetectorCurrent)
    \/ LprMemory(Done)
    \/ LprMonitor(GetPhotoDetectorPower)
PhotoDetectorHandler == PhotoDetectorPoints \/ LprMemory(RangeError)

\* modulationInput.c. The monitor request answers, and remembers, the value of
\* the last command, carried out or not.
ModulationValueSet(nonzero) ==
    /\ lastModulation' = nonzero
    /\ \E ok \in BOOLEAN : SetModulationInputValue(nonzero, ok) /\ Told(ok)
    /\ LprKept /\ UNCHANGED <<running, modulation, lprSwitch, lprStates>>

ModulationValue ==
    \/ \E nonzero \in BOOLEAN : ModulationValueSet(nonzero)
    \/ /\ modulation' = lastModulation
       /\ Done
       /\ LprKept
       /\ UNCHANGED <<running, lastModulation, modulationHw, lprSwitch, lprStates>>

\* miDac.c
MiDacStrobe ==
    \/ /\ \E ok \in BOOLEAN : SetLprDacStrobe(ok) /\ Told(ok)
       /\ LprKept /\ UNCHANGED <<running, modulation, lastModulation, lprSwitch, lprStates>>
    \/ LprMemory(NoMonitor)
MiDacHandler == MiDacStrobe \/ LprMemory(RangeError)
MiSpecialMsgsHandler == MiDacHandler \/ LprMemory(RangeError)

ModulationInputHandler == ModulationValue \/ MiSpecialMsgsHandler \/ LprMemory(RangeError)

\* edfa.c. An alarm, or the last one known if the state cannot be read, sets
\* the modulation to zero; what comes of that replaces the status.
DriverState ==
    /\ \E read, ok \in BOOLEAN :
          /\ GetLprStates(read)
          /\ IF driverTempAlarm'
             THEN /\ SetModulationInputValue(FALSE, ok)
                  /\ modulation' = (modulation /\ ~ok)
                  /\ Answer(IF ok THEN "MON_ERROR_ACT" ELSE "ERROR", ~read \/ ~ok)
             ELSE Told(read) /\ UNCHANGED <<modulation, modulationHw>>
    /\ LprKept /\ UNCHANGED <<running, lastModulation, lprSwitch>>

EdfaHandler ==
    \/ LaserHandler \/ PhotoDetectorHandler \/ ModulationInputHandler \/ DriverState
    \/ LprMemory(RangeError)

\* lpr.c
LprHandler ==
    /\ lprPhase = "up"
    /\ LprTempHandler \/ OpticalSwitchHandler \/ EdfaHandler \/ LprMemory(RangeError)

-----------------------------------------------------------------------------
(* Start and stop *)

\* lpr.c: for five seconds the shutter is tried, then it is forced. When that
\* fails an earlier try may still have closed it.
CloseShutter(ok) ==
    IF Simulated THEN ok /\ shutter' = TRUE /\ UNCHANGED <<lprAReg, switchAt, lprStates>>
    ELSE /\ switchError' \in BOOLEAN /\ switchBusy' \in BOOLEAN /\ driverTempAlarm' \in BOOLEAN
         /\ IF ok THEN switchAt' = PORT_SHUTTERED /\ shutter' = TRUE /\ lprAReg' = PORT_SHUTTERED
            ELSE /\ "write" \in Faults
                 /\ lprAReg' \in {lprAReg, PORT_SHUTTERED}
                 /\ \/ UNCHANGED <<switchAt, shutter>>
                    \/ switchAt' = PORT_SHUTTERED /\ shutter' = TRUE

\* The modulation is set to zero, then the shutter closed.
Darken(ok) ==
    \/ /\ ok
       /\ SetModulationInputValue(FALSE, TRUE)
       /\ CloseShutter(TRUE)
       /\ port' = PORT_SHUTTERED
    \/ /\ ~ok
       /\ \/ SetModulationInputValue(FALSE, FALSE) /\ UNCHANGED <<lprSwitch, lprStates>>
          \/ SetModulationInputValue(FALSE, TRUE) /\ CloseShutter(FALSE) /\ UNCHANGED port

\* What is not yet set by lprStartup is zero. A step that fails ends the
\* initialization of the front end, and the program.
LprStartup ==
    /\ lprPhase = "down"
    /\ \E ok \in BOOLEAN : Darken(ok) /\ Told(ok) /\ lprPhase' = IF ok THEN "up" ELSE "stopped"
    /\ UNCHANGED <<mode, simulated, running, edom, modulation, lastModulation>>

\* globalOperations.c: shutDown leaves SIMULATION mode first.
ShutDown ==
    /\ lprPhase = "up"
    /\ lprPhase' = "stopping"
    /\ mode' = "MAINTENANCE"
    /\ Done
    /\ UNCHANGED <<simulated, running, edom, lprSwitch, lprStates, lprModulation>>

\* frontend.c: frontendStop. The receiver is only darkened when the power
\* distribution and the local oscillators were stopped without an error.
FrontendStop ==
    /\ lprPhase = "stopping"
    /\ lprPhase' = "stopped"
    /\ \/ \E ok \in BOOLEAN : Darken(ok) /\ Told(ok)
       \/ Fails("write") /\ Error /\ UNCHANGED <<lprSwitch, lprStates, modulationHw>>
    /\ UNCHANGED <<mode, simulated, running, edom, modulation, lastModulation>>

\* The computer restarts.
LprRestart ==
    /\ lprPhase' = "down"
    /\ port' = 0 /\ shutter' = FALSE /\ lprAReg' = 0
    /\ switchError' = FALSE /\ switchBusy' = FALSE /\ driverTempAlarm' = FALSE
    /\ modulation' = FALSE /\ lastModulation' = FALSE
    /\ HandlersRestart
    /\ UNCHANGED <<switchAt, modulationHw>>

LprInit ==
    /\ lprPhase = "down"
    /\ port = 0 /\ shutter = FALSE /\ lprAReg = 0
    /\ switchError = FALSE /\ switchBusy = FALSE /\ driverTempAlarm = FALSE
    /\ modulation = FALSE /\ lastModulation = FALSE /\ modulationHw = FALSE
    /\ switchAt = PORT_SHUTTERED

LprNext == LprHandler \/ LprStartup \/ ShutDown \/ FrontendStop \/ LprRestart

-----------------------------------------------------------------------------

LprTypeOK ==
    /\ lprPhase \in {"down", "up", "stopping", "stopped"}
    /\ {port, lprAReg} \subseteq Ports \cup {0, PORT_SHUTTERED}
    /\ switchAt \in Ports \cup {PORT_SHUTTERED}
    /\ {shutter, switchError, switchBusy, driverTempAlarm} \subseteq BOOLEAN
    /\ {modulation, lastModulation, modulationHw} \subseteq BOOLEAN

\* Whatever failed half way, and wherever the switch was when the computer
\* started, the port and the shutter that are answered are where the last
\* strobe sent the light (opticalSwitch.c:100, 162; lpr.c:209).
SwitchWhereTold ==
    lprPhase = "up" /\ ~simulated => port = switchAt /\ (shutter <=> switchAt = PORT_SHUTTERED)

\* lprSerialInterface.c:254 "If no error check the idle state. If busy, return
\* error": the switch is not sent to a port while it says it is busy.
\* (A shutter that is forced is meant to interrupt it.)
BusySwitchIsLeft ==
    [][switchAt' # switchAt /\ switchAt' # PORT_SHUTTERED => ~switchBusy']_lprVars

\* lpr.c:225 lprStop, "shuts down the LPR": a front end that was stopped leaves
\* the light in the shutter.
\* Broken with Faults = {"write"}: a modulation that is not set, or any earlier
\* error of the stop, ends it before the shutter (lpr.c:248, frontend.c:36).
StopsDark ==
    [][lprPhase = "stopping" /\ lprPhase' = "stopped" => switchAt' = PORT_SHUTTERED]_lprVars
=============================================================================
