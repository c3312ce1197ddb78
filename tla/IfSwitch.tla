------------------------------ MODULE IfSwitch ------------------------------
(***************************************************************************)
(* The IF switch: it selects the band whose signal is sent on, and for     *)
(* each of its channels an attenuation and a temperature servo. The module *)
(* keeps its power when the computer restarts. The monitor points of the   *)
(* power distribution's channels, which keep nothing, are here too.        *)
(***************************************************************************)
EXTENDS Handlers

CONSTANTS
    IF_CHANNELS_NUMBER,     \* 4
    Ways,                   \* the bands that are selected, of 0 .. 9
    Attenuations            \* the attenuations that are commanded

IF_CHANNEL_SET_ATTENUATION_MAX == 15

ASSUME IfSwitchAssumption ==
    /\ IF_CHANNELS_NUMBER \in 1 .. 4
    /\ Ways \subseteq 0 .. 9
    /\ Attenuations \subseteq 0 .. 255

IfChannels == 0 .. IF_CHANNELS_NUMBER - 1
\* The registers: one for each channel's attenuation, and
Band == IF_CHANNELS_NUMBER
Servo == IF_CHANNELS_NUMBER + 1

ValidAttenuations == 0 .. IF_CHANNEL_SET_ATTENUATION_MAX

VARIABLES
    ifUp,               \* the start succeeded
    hardwRevision,      \* frontend.ifSwitch.hardwRevision: 0, or later
    bandSelect,         \* frontend.ifSwitch.bandSelect
    attenuation,        \* ... .ifChannel[].attenuation
    servo,              \* the channels whose ifTempServo.enable is set
    fReg,               \* ifRegisters.fReg
    ifHw,               \* the registers of the module
    ifWritten           \* history: those written since the computer started

\* The registers, with the values memory has for them.
ifMemory == <<bandSelect, attenuation, servo>>
ifVars == <<ifUp, hardwRevision, ifMemory, fReg, ifHw, ifWritten>>

-----------------------------------------------------------------------------
(* ifSerialInterface.c. The copies of the registers but fReg hold what was    *)
(* last written, and nothing reads them.                                      *)

GetIfAnalogMonitor(ok) == Measures("IF_ADC", ok)

\* The first revision measures the two ends of a bridge.
GetIfChannelTemp(ok) == GetIfAnalogMonitor(ok)
\* Nothing ever clears errno: the first thermistor whose resistance comes out
\* negative spoils every later conversion.
IfChannelTempUnusable == ~Simulated /\ (edom \/ "domain" \in Faults)

WriteIf(register, value) ==
    /\ ifHw' = [ifHw EXCEPT ![register] = value]
    /\ ifWritten' = ifWritten \cup {register}
WriteIfFails == Fails("write") /\ UNCHANGED <<ifMemory, fReg, ifHw, ifWritten>>

SetIfTempServoEnable(c, on) ==
    /\ IF Simulated THEN UNCHANGED <<fReg, ifHw, ifWritten>>
       ELSE fReg' = With(fReg, c, on) /\ WriteIf(Servo, fReg')
    /\ servo' = With(servo, c, on)
    /\ UNCHANGED <<bandSelect, attenuation>>

\* Mutated form: memory gets all values, whether they were written or not.
SetIfChannelsAttenuationMutant(values, channels) ==
    /\ IF Simulated \/ channels = {} THEN UNCHANGED <<ifHw, ifWritten>>
       ELSE /\ ifHw' = [r \in DOMAIN ifHw |-> IF r \in channels THEN values[r] ELSE ifHw[r]]
            /\ ifWritten' = ifWritten \cup channels
    /\ attenuation' = [c \in IfChannels |->
                         IF c \in DOMAIN values /\ values[c] \in ValidAttenuations
                         THEN values[c] ELSE attenuation[c]]
    /\ UNCHANGED <<bandSelect, servo, fReg>>

\* The channels from 0 up to n - 1, each to its value.
SetIfChannelsAttenuation(values, channels) ==
    /\ IF Simulated \/ channels = {} THEN UNCHANGED <<ifHw, ifWritten>>
       ELSE /\ ifHw' = [r \in DOMAIN ifHw |-> IF r \in channels THEN values[r] ELSE ifHw[r]]
            /\ ifWritten' = ifWritten \cup channels
    /\ attenuation' = [c \in IfChannels |-> IF c \in channels THEN values[c] ELSE attenuation[c]]
    /\ UNCHANGED <<bandSelect, servo, fReg>>

SetIfSwitchBandSelect(way) ==
    /\ IF Simulated THEN UNCHANGED <<ifHw, ifWritten>> ELSE WriteIf(Band, way)
    /\ bandSelect' = way
    /\ UNCHANGED <<attenuation, servo, fReg>>

GetIfSwitchHardwRevision == hardwRevision' \in {0, 1}

-----------------------------------------------------------------------------
(* The handlers *)

IfKept == UNCHANGED <<mode, simulated, ifUp, hardwRevision>>
IfMemory(Answered) ==
    Answered /\ IfKept /\ UNCHANGED <<running, edom, ifMemory, fReg, ifHw, ifWritten>>

\* ifTempServo.c. Any byte but the two values is refused.
TempServoEnable(c) ==
    \/ IfMemory(Done)
    \/ IfMemory(Answer("ERROR", FALSE))
    \/ /\ \/ \E on \in BOOLEAN : SetIfTempServoEnable(c, on) /\ Done
          \/ WriteIfFails /\ Error
       /\ IfKept /\ UNCHANGED <<running, edom>>
IfTempServoHandler(c) == TempServoEnable(c)

\* Mutated form: the range of a single channel's attenuation is not checked.
AttenuationHandlerMutant(c) ==
    \/ IfMemory(Done)
    \/ /\ \E a \in Attenuations :
             \/ SetIfChannelsAttenuation([d \in {c} |-> a], {c}) /\ Done
             \/ WriteIfFails /\ Error
       /\ IfKept /\ UNCHANGED <<running, edom>>

\* ifChannel.c
AttenuationHandler(c) ==
    \/ IfMemory(Done)
    \/ /\ \E a \in Attenuations :
             IF a \in ValidAttenuations
             THEN \/ SetIfChannelsAttenuation([d \in {c} |-> a], {c}) /\ Done
                  \/ WriteIfFails /\ Error
             ELSE /\ Answer("CON_ERROR_RNG", FALSE)
                  /\ UNCHANGED <<ifMemory, fReg, ifHw, ifWritten>>
       /\ IfKept /\ UNCHANGED <<running, edom>>

AssemblyTempBlocked(c) == c \notin servo /\ hardwRevision = 0

AssemblyTempUnusable(c) ==
    /\ ~AssemblyTempBlocked(c)
    /\ IfChannelTempUnusable
    /\ GetIfChannelTemp(TRUE)
    /\ edom' = TRUE
    /\ Answer("HARDW_CON_ERR", TRUE)
    /\ IfKept /\ UNCHANGED <<ifMemory, fReg, ifHw, ifWritten>>

AssemblyTempHandler(c) ==
    \/ AssemblyTempBlocked(c) /\ IfMemory(Blocked)
    \/ AssemblyTempUnusable(c)
    \/ /\ ~AssemblyTempBlocked(c)
       /\ \E ok \in BOOLEAN : GetIfChannelTemp(ok) /\ Told(ok) /\ (ok => ~edom \/ Simulated)
       /\ IfKept /\ UNCHANGED <<edom, ifMemory, fReg, ifHw, ifWritten>>

IfChannelHandler(c) ==
    IfTempServoHandler(c) \/ AttenuationHandler(c) \/ AssemblyTempHandler(c) \/ IfMemory(RangeError)

\* ifSwitch.c
BandSelectHandler ==
    \/ IfMemory(Done)
    \/ /\ \E way \in Ways \cup {10} :
             IF way \in 0 .. 9
             THEN \/ SetIfSwitchBandSelect(way) /\ Done
                  \/ WriteIfFails /\ Error
             ELSE /\ Answer("CON_ERROR_RNG", FALSE)
                  /\ UNCHANGED <<ifMemory, fReg, ifHw, ifWritten>>
       /\ IfKept /\ UNCHANGED <<running, edom>>

\* The channels are set one after the other until a value is out of range or a
\* write fails.
AllChannelsSet(values) ==
    LET Valid(n) == \A c \in 0 .. n - 1 : values[c] \in ValidAttenuations IN
    /\ \E n \in 0 .. IF_CHANNELS_NUMBER :
          /\ Valid(n)
          /\ SetIfChannelsAttenuation(values, 0 .. n - 1)
          /\ IF n = IF_CHANNELS_NUMBER THEN Done
             ELSE IF values[n] \notin ValidAttenuations THEN Answer("CON_ERROR_RNG", FALSE)
             ELSE Fails("write") /\ Error
    /\ IfKept /\ UNCHANGED <<running, edom>>

AllChannelsHandler ==
    IfMemory(Done) \/ \E values \in [IfChannels -> Attenuations] : AllChannelsSet(values)

IfSwitchHandler ==
    /\ ifUp
    /\ \/ \E c \in IfChannels : IfChannelHandler(c)
       \/ BandSelectHandler
       \/ AllChannelsHandler
       \/ IfMemory(RangeError)

\* A revision that cannot be read ends the initialization of the front end.
IfSwitchStartup ==
    /\ ~ifUp
    /\ \/ GetIfSwitchHardwRevision /\ ifUp' = TRUE /\ Done
       \/ "startup" \in Faults /\ Error /\ UNCHANGED <<ifUp, hardwRevision>>
    /\ UNCHANGED <<mode, simulated, running, edom, ifMemory, fReg, ifHw, ifWritten>>

\* pdSerialInterface.c, pdChannel.c, pdModule.c: the voltage and the current
\* of a channel of a cartridge that is installed, and the cartridge's state.
GetPdChannel(ok) == Measures("PD_ADC", ok)
PdChannelPoints == \E ok \in BOOLEAN : GetPdChannel(ok) /\ Told(ok)
PdChannelHandler ==
    /\ PdChannelPoints \/ (RangeError /\ UNCHANGED running)
    /\ IfKept /\ UNCHANGED <<edom, ifMemory, fReg, ifHw, ifWritten>>
PdModuleHandler == PdChannelHandler \/ IfMemory(Blocked) \/ IfMemory(RangeError)

-----------------------------------------------------------------------------

IfRestart ==
    /\ ifUp' = FALSE
    /\ hardwRevision' = 0
    /\ bandSelect' = 0
    /\ attenuation' = [c \in IfChannels |-> 0]
    /\ servo' = {} /\ fReg' = {}
    /\ ifWritten' = {}
    /\ HandlersRestart
    /\ UNCHANGED ifHw

IfInit ==
    /\ ifUp = FALSE
    /\ hardwRevision = 0
    /\ bandSelect = 0
    /\ attenuation = [c \in IfChannels |-> 0]
    /\ servo = {} /\ fReg = {}
    /\ ifWritten = {}
    /\ ifHw = [r \in IfChannels \cup {Band, Servo} |->
                  IF r = Servo THEN {} ELSE 0]

IfNext == IfSwitchHandler \/ PdModuleHandler \/ IfSwitchStartup \/ IfRestart

-----------------------------------------------------------------------------

IfTypeOK ==
    /\ ifUp \in BOOLEAN
    /\ hardwRevision \in {0, 1}
    /\ bandSelect \in Ways \cup {0}
    /\ attenuation \in [IfChannels -> ValidAttenuations]
    /\ servo \subseteq IfChannels /\ fReg \subseteq IfChannels

\* What is answered for the band, the attenuations and the servos is what the
\* module holds, for each register written since the computer started: also
\* when a command to all channels stops half way (ifSwitch.c:136, 145).
IfMemoryMatches ==
    ~simulated =>
        /\ Band \in ifWritten => ifHw[Band] = bandSelect
        /\ Servo \in ifWritten => ifHw[Servo] = servo
        /\ \A c \in IfChannels \cap ifWritten : ifHw[c] = attenuation[c]
=============================================================================
