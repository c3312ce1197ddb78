--------------------------- MODULE RegistersProofs ---------------------------
(***************************************************************************)
(* Lemmas about the devices of Devices but for the vacuum line: what every *)
(* handler does to the shared variables, how the registers of each device  *)
(* stay in step with what is answered for them, and what the search of the *)
(* one wire bus finds. They become theorems of the system in DevicesProofs.*)
(***************************************************************************)
EXTENDS Bias, LoRegisters, Lpr, IfSwitch, Fetim, OneWireBus, FiniteSetTheorems,
        WellFoundedInduction, TLAPS

-----------------------------------------------------------------------------
(* The shared variables                                                    *)

\* No timer is left running, nothing fails silently, and the mode has only
\* been SIMULATION if the history says so.
SharedInv ==
    /\ HandlersTypeOK
    /\ TimersReleased
    /\ NothingFailsSilently
    /\ Simulated => simulated

\* What of it a handler that leaves the mode alone must see to.
Answered == answer' \in Answers /\ NothingFailsSilently'
HandlerStep == Answered /\ running' = {} /\ edom' \in BOOLEAN /\ UNCHANGED <<mode, simulated>>

LEMMA HandlerStepInv == SharedInv /\ HandlerStep => SharedInv'
BY DEF SharedInv, HandlerStep, Answered, HandlersTypeOK, TimersReleased, Simulated

\* The statuses a handler ends with.
LEMMA AnswerOK ==
    ASSUME NEW status \in Statuses, NEW failed \in BOOLEAN, Answer(status, failed),
           failed => status # "NO_ERROR"
    PROVE  Answered
BY DEF Answer, Answered, Answers, NothingFailsSilently

LEMMA UntoldOK ==
    ASSUME NEW point \in Unchecked, NEW ok \in BOOLEAN, Untold(point, ok)
    PROVE  Answered
BY DEF Untold, Answered, Answers, NothingFailsSilently, Statuses

LEMMA StatusesOK ==
    /\ Done => Answered
    /\ Error => Answered
    /\ Blocked => Answered
    /\ RangeError => Answered
    /\ NoMonitor => Answered
    /\ \A ok \in BOOLEAN : Told(ok) => Answered
BY AnswerOK DEF Done, Error, Blocked, RangeError, NoMonitor, Told, Statuses

\* A timer that was started is stopped, however the wait ends.
LEMMA WaitsRelease ==
    ASSUME running = {}, NEW t, NEW ok \in BOOLEAN, Waits(t, ok)
    PROVE  running' = {}
BY DEF Waits, Startable, Started, Stopped

LEMMA ConvertsRelease ==
    ASSUME running = {}, NEW t, NEW ok \in BOOLEAN, Converts(t, ok)
    PROVE  running' = {}
BY WaitsRelease DEF Converts

LEMMA MeasuresRelease ==
    ASSUME running = {}, NEW t, NEW ok \in BOOLEAN, Measures(t, ok)
    PROVE  running' = {}
BY ConvertsRelease DEF Measures
-----------------------------------------------------------------------------
(* The IF switch                                                           *)

LEMMA IfMeasures ==
    ASSUME SharedInv, NEW ok \in BOOLEAN, GetIfChannelTemp(ok) \/ GetPdChannel(ok)
    PROVE  running' = {}
BY MeasuresRelease DEF GetIfChannelTemp, GetIfAnalogMonitor, GetPdChannel, SharedInv, TimersReleased

LEMMA IfShared == SharedInv /\ IfNext => SharedInv'
<1> SUFFICES ASSUME SharedInv, IfNext PROVE SharedInv'
    OBVIOUS
<1> USE StatusesOK, HandlerStepInv
<1>0. running = {} /\ edom \in BOOLEAN
    BY DEF SharedInv, TimersReleased, HandlersTypeOK
<1>1. Answer("CON_ERROR_RNG", FALSE) \/ Answer("ERROR", FALSE) \/ Answer("HARDW_CON_ERR", TRUE) => Answered
    BY AnswerOK DEF Statuses
<1>2. ASSUME NEW c \in IfChannels, IfChannelHandler(c) PROVE SharedInv'
    <2>1. CASE IfTempServoHandler(c)
        BY <1>0, <1>1, <2>1 DEF IfTempServoHandler, TempServoEnable, IfMemory, IfKept, HandlerStep
    <2>2. CASE AttenuationHandler(c)
        BY <1>0, <1>1, <2>2 DEF AttenuationHandler, IfMemory, IfKept, HandlerStep
    <2>3. CASE AssemblyTempHandler(c)
        BY <1>0, <1>1, <2>3, IfMeasures
           DEF AssemblyTempHandler, AssemblyTempUnusable, IfMemory, IfKept, HandlerStep
    <2> QED BY <1>2, <1>0, <2>1, <2>2, <2>3 DEF IfChannelHandler, IfMemory, IfKept, HandlerStep
<1>3. CASE BandSelectHandler
    BY <1>0, <1>1, <1>3 DEF BandSelectHandler, IfMemory, IfKept, HandlerStep
<1>4. CASE AllChannelsHandler
    BY <1>0, <1>1, <1>4 DEF AllChannelsHandler, AllChannelsSet, IfMemory, IfKept, HandlerStep
<1>5. CASE IfMemory(RangeError) \/ IfMemory(Blocked)
    BY <1>0, <1>5 DEF IfMemory, IfKept, HandlerStep
<1>6. CASE PdChannelHandler
    BY <1>0, <1>6, IfMeasures DEF PdChannelHandler, PdChannelPoints, IfKept, HandlerStep
<1>7. CASE IfSwitchStartup
    BY <1>0, <1>7 DEF IfSwitchStartup, HandlerStep
<1>8. CASE IfRestart
    BY <1>8 DEF IfRestart, HandlersRestart, SharedInv, HandlersTypeOK, TimersReleased, Answered,
                Simulated, AllModes
<1> QED BY <1>2, <1>3, <1>4, <1>5, <1>6, <1>7, <1>8
        DEF IfNext, IfSwitchHandler, PdModuleHandler

\* Memory and the module agree about each register that was written, and the
\* copy of the servos, which is written as a whole, agrees with memory.
IfRegisters == IfChannels \cup {Band, Servo}
IfInv ==
    /\ IfTypeOK
    /\ ifHw = [r \in IfRegisters |-> ifHw[r]]
    /\ ~simulated => fReg = servo
    /\ IfMemoryMatches

LEMMA IfRegistersDiffer ==
    /\ Band \notin IfChannels /\ Servo \notin IfChannels /\ Band # Servo
    /\ IfChannels \subseteq Nat
BY IfSwitchAssumption DEF Band, Servo, IfChannels

LEMMA NoAttenuation == [c \in IfChannels |-> 0] \in [IfChannels -> ValidAttenuations]
BY DEF ValidAttenuations, IF_CHANNEL_SET_ATTENUATION_MAX

LEMMA IfInitInv == IfInit => IfInv
<1> SUFFICES ASSUME IfInit PROVE IfInv
    OBVIOUS
<1>1. IfTypeOK
    BY NoAttenuation DEF IfInit, IfTypeOK
<1>2. ifHw = [r \in IfRegisters |-> ifHw[r]]
    BY DEF IfInit, IfRegisters
<1> QED BY <1>1, <1>2 DEF IfInit, IfInv, IfMemoryMatches

LEMMA IfUnchanged == IfInv /\ UNCHANGED ifVars /\ (simulated => simulated') => IfInv'
<1> SUFFICES ASSUME IfInv, UNCHANGED ifVars, simulated => simulated' PROVE IfInv'
    OBVIOUS
<1>1. IfTypeOK' /\ ifHw' = [r \in IfRegisters |-> ifHw'[r]]
    BY DEF IfInv, IfTypeOK, ifVars, ifMemory
<1>2. (~simulated => fReg = servo)' /\ IfMemoryMatches'
    BY DEF IfInv, IfMemoryMatches, ifVars, ifMemory
<1> QED BY <1>1, <1>2 DEF IfInv

LEMMA IfNextInv == SharedInv /\ IfInv /\ IfNext => IfInv'
<1> SUFFICES ASSUME SharedInv, IfInv, IfNext PROVE IfInv'
    OBVIOUS
<1>0. ~simulated => ~Simulated
    BY DEF SharedInv
<1> DEFINE Kept == UNCHANGED <<simulated, ifUp, hardwRevision, ifMemory, fReg, ifHw, ifWritten>>
<1>1. Kept => IfInv'
    BY DEF IfInv, IfTypeOK, IfMemoryMatches, ifMemory
<1>2. ASSUME NEW c \in IfChannels, NEW on \in BOOLEAN, SetIfTempServoEnable(c, on), IfKept
      PROVE  IfInv'
    BY <1>0, <1>2, IfRegistersDiffer
       DEF SetIfTempServoEnable, IfKept, IfInv, IfTypeOK, IfMemoryMatches, WriteIf, With, IfRegisters
<1>3. ASSUME NEW S \in SUBSET IfChannels, NEW values, \A d \in S : values[d] \in ValidAttenuations,
             SetIfChannelsAttenuation(values, S), IfKept
      PROVE  IfInv'
    <2>1. /\ attenuation' = [c \in IfChannels |-> IF c \in S THEN values[c] ELSE attenuation[c]]
          /\ UNCHANGED <<simulated, ifUp, hardwRevision, bandSelect, servo, fReg>>
        BY <1>3 DEF SetIfChannelsAttenuation, IfKept
    <2>2. IfTypeOK'
        BY <1>3, <2>1 DEF IfInv, IfTypeOK
    <2>3. CASE Simulated \/ S = {}
        <3>1. UNCHANGED <<ifHw, ifWritten>>
            BY <1>3, <2>3 DEF SetIfChannelsAttenuation
        <3>2. S = {} \/ simulated
            BY <1>0, <2>3
        <3> QED BY <2>1, <2>2, <3>1, <3>2 DEF IfInv, IfTypeOK, IfMemoryMatches, IfRegisters
    <2>4. CASE ~(Simulated \/ S = {})
        <3>1. /\ ifHw' = [r \in IfRegisters |-> IF r \in S THEN values[r] ELSE ifHw[r]]
              /\ ifWritten' = ifWritten \cup S
            BY <1>3, <2>4 DEF SetIfChannelsAttenuation, IfInv
        <3>2. ifHw'[Band] = ifHw[Band] /\ ifHw'[Servo] = ifHw[Servo]
            BY <3>1, IfRegistersDiffer DEF IfRegisters
        <3>3. \A c \in IfChannels : ifHw'[c] = IF c \in S THEN values[c] ELSE ifHw[c]
            BY <3>1 DEF IfRegisters
        <3>4. IfMemoryMatches'
            BY <2>1, <3>1, <3>2, <3>3, IfRegistersDiffer DEF IfInv, IfTypeOK, IfMemoryMatches
        <3> QED BY <2>1, <2>2, <3>1, <3>4 DEF IfInv
    <2> QED BY <2>3, <2>4
<1>4. ASSUME NEW way \in Ways, SetIfSwitchBandSelect(way), IfKept
      PROVE  IfInv'
    <2>1. /\ bandSelect' = way
          /\ UNCHANGED <<simulated, ifUp, hardwRevision, attenuation, servo, fReg>>
        BY <1>4 DEF SetIfSwitchBandSelect, IfKept
    <2>2. IfTypeOK'
        BY <2>1 DEF IfInv, IfTypeOK
    <2>3. CASE Simulated
        BY <1>0, <1>4, <2>1, <2>2, <2>3 DEF SetIfSwitchBandSelect, IfInv, IfMemoryMatches
    <2>4. CASE ~Simulated
        <3>1. ifHw' = [ifHw EXCEPT ![Band] = way] /\ ifWritten' = ifWritten \cup {Band}
            BY <1>4, <2>4 DEF SetIfSwitchBandSelect, WriteIf
        <3>2. ifHw' = [r \in IfRegisters |-> IF r = Band THEN way ELSE ifHw[r]]
            BY <3>1 DEF IfInv
        <3>3. ifHw' = [r \in IfRegisters |-> ifHw'[r]]
            BY <3>2
        <3>4. ifHw'[Band] = way /\ \A r \in IfRegisters \ {Band} : ifHw'[r] = ifHw[r]
            BY <3>2 DEF IfRegisters
        <3>5. IfMemoryMatches'
            BY <2>1, <3>1, <3>4, IfRegistersDiffer DEF IfInv, IfMemoryMatches, IfRegisters
        <3> QED BY <2>1, <2>2, <3>3, <3>5 DEF IfInv
    <2> QED BY <2>3, <2>4
<1>5. ASSUME NEW c \in IfChannels, IfChannelHandler(c) PROVE IfInv'
    <2>1. CASE IfTempServoHandler(c)
        BY <1>1, <1>2, <2>1 DEF IfTempServoHandler, TempServoEnable, IfMemory, IfKept, WriteIfFails
    <2>2. CASE AttenuationHandler(c)
        BY <1>1, <1>3, <2>2 DEF AttenuationHandler, IfMemory, IfKept, WriteIfFails
    <2>3. CASE AssemblyTempHandler(c) \/ IfMemory(RangeError)
        BY <1>1, <2>3 DEF AssemblyTempHandler, AssemblyTempUnusable, IfMemory, IfKept
    <2> QED BY <1>5, <2>1, <2>2, <2>3 DEF IfChannelHandler
<1>6. CASE BandSelectHandler
    <2>1. \A way \in Ways \cup {10} : way \in 0 .. 9 => way \in Ways
        OBVIOUS
    <2> QED BY <1>1, <1>4, <1>6, <2>1 DEF BandSelectHandler, IfMemory, IfKept, WriteIfFails
<1>7. CASE AllChannelsHandler
    <2>1. ASSUME NEW values \in [IfChannels -> Attenuations], AllChannelsSet(values) PROVE IfInv'
        <3>1. PICK n \in 0 .. IF_CHANNELS_NUMBER :
                  /\ \A c \in 0 .. n - 1 : values[c] \in ValidAttenuations
                  /\ SetIfChannelsAttenuation(values, 0 .. n - 1)
            BY <2>1 DEF AllChannelsSet
        <3>2. 0 .. n - 1 \in SUBSET IfChannels
            BY IfSwitchAssumption DEF IfChannels
        <3> QED BY <1>3, <2>1, <3>1, <3>2 DEF AllChannelsSet
    <2> QED BY <1>1, <1>7, <2>1 DEF AllChannelsHandler, IfMemory, IfKept
<1>8. CASE IfMemory(RangeError) \/ IfMemory(Blocked) \/ PdChannelHandler
    BY <1>1, <1>8 DEF IfMemory, IfKept, PdChannelHandler
<1>9. CASE IfSwitchStartup
    BY <1>9 DEF IfSwitchStartup, GetIfSwitchHardwRevision, IfInv, IfTypeOK, IfMemoryMatches, ifMemory
<1>10. CASE IfRestart
    <2>1. IfTypeOK'
        BY <1>10, NoAttenuation DEF IfRestart, IfTypeOK
    <2> QED BY <1>10, <2>1 DEF IfRestart, IfInv, IfMemoryMatches
<1> QED BY <1>5, <1>6, <1>7, <1>8, <1>9, <1>10 DEF IfNext, IfSwitchHandler, PdModuleHandler

-----------------------------------------------------------------------------
(* The FETIM                                                               *)

LEMMA FetimShared == SharedInv /\ FetimNext => SharedInv'
<1> SUFFICES ASSUME SharedInv, FetimNext PROVE SharedInv'
    OBVIOUS
<1>1. running = {} /\ edom \in BOOLEAN
    BY DEF SharedInv, TimersReleased, HandlersTypeOK
<1>2. CASE FetimAsync \/ PressureMeasured \/ ShutdownTriggered
    BY <1>2 DEF FetimAsync, PressureMeasured, ShutdownTriggered, shared, SharedInv, HandlersTypeOK,
                TimersReleased, NothingFailsSilently, Simulated
<1>3. CASE FetimMessage
    <2>1. Answered
        BY <1>3, StatusesOK
           DEF FetimMessage, FetimHandler, MonitorDigital, MonitorParallel, MonitorAnalog,
               MonitorOutput, MonitorShutdownTrig, N2FillEnable
    <2> QED BY <1>1, <1>3, <2>1, HandlerStepInv DEF FetimMessage, HandlerStep
<1>4. CASE FetimRestart
    BY <1>4, StatusesOK
       DEF FetimRestart, HandlersRestart, SharedInv, HandlersTypeOK, TimersReleased, Answered,
           Simulated, AllModes
<1> QED BY <1>2, <1>3, <1>4 DEF FetimNext

\* What fetimAsync remembers of its last judgement is what it judged.
FetimInv ==
    /\ FetimTypeOK
    /\ currentState = judgedSafe
    /\ FetimIsTold

LEMMA ExtSensorsAre == 0 \in ExtSensors /\ \A m \in ExtSensors :
                           (m + 1) % FETIM_EXT_SENSORS_NUMBER \in ExtSensors
BY FetimAssumption DEF ExtSensors

LEMMA FetimInitInv == FetimInit => FetimInv
BY ExtSensorsAre DEF FetimInit, FetimInv, FetimTypeOK, FetimIsTold, AsyncFetimStates, Pressures

LEMMA FetimUnchanged == FetimInv /\ UNCHANGED fetimVars => FetimInv'
BY DEF FetimInv, FetimTypeOK, FetimIsTold, fetimVars, fetimRound, fetimOutputs

\* An output that was written holds what memory says of it.
OutputIs(o, on) ==
    /\ fetimOn' \subseteq Outputs /\ fetimHw' \subseteq Outputs /\ fetimHeard' \subseteq Outputs
    /\ o \in fetimHeard' => (o \in fetimOn' <=> on) /\ (o \in fetimHw' <=> on)
    /\ \A q \in Outputs \ {o} : /\ q \in fetimOn' <=> q \in fetimOn
                                /\ q \in fetimHw' <=> q \in fetimHw
                                /\ q \in fetimHeard' <=> q \in fetimHeard

LEMMA OutputSet ==
    ASSUME FetimTypeOK, NEW o \in Outputs, NEW on \in BOOLEAN, NEW ok \in BOOLEAN,
           SetOutput(o, on, ok)
    PROVE  OutputIs(o, on)
BY DEF SetOutput, With, FetimTypeOK, OutputIs

LEMMA FetimNextInv == FetimInv /\ FetimNext => FetimInv'
<1> SUFFICES ASSUME FetimInv, FetimNext PROVE FetimInv'
    OBVIOUS
<1>1. CASE FetimAsync
    <2>1. CASE \E result \in SerialResults : GetExtTemp(result) \/ GetHe2Press(result)
        <3>1. PICK result \in SerialResults : GetExtTemp(result) \/ GetHe2Press(result)
            BY <2>1
        <3>2. /\ asyncFetimState' \in AsyncFetimStates /\ extTempModule' \in ExtSensors
              /\ serialState' \in {"BREG", "ADC_READ"}
              /\ fetimErrors' \subseteq ExtSensors \cup {He2Press}
            BY <3>1, ExtSensorsAre
               DEF GetExtTemp, GetHe2Press, Measured, SerialNext, With, FetimInv, FetimTypeOK,
                   AsyncFetimStates
        <3>3. UNCHANGED <<fetimUp, pressure, currentState, fetimOutputs, judgedSafe, trigger, shutdownTrig>>
            BY <1>1, <2>1 DEF FetimAsync, GetExtTemp, GetHe2Press, SetFeStatus, ShutdownFe, fetimOutputs
        <3> QED BY <3>2, <3>3 DEF FetimInv, FetimTypeOK, FetimIsTold, fetimOutputs
    <2>2. CASE SetFeStatus
        <3>1. /\ PressureIsSafe \in BOOLEAN /\ PressureIsSafe = (pressure = "low")
              /\ "feStatus" \in Outputs
            BY DEF PressureIsSafe, FetimInv, FetimTypeOK, Pressures, Outputs
        <3>2. /\ currentState' = PressureIsSafe /\ judgedSafe' = PressureIsSafe
              /\ asyncFetimState' \in AsyncFetimStates
              /\ UNCHANGED <<extTempModule, serialState, fetimErrors, fetimUp, pressure, trigger,
                             shutdownTrig>>
            BY <1>1, <2>2, <3>1 DEF FetimAsync, SetFeStatus, AsyncFetimStates
        <3>3. CASE PressureIsSafe = currentState
            BY <2>2, <3>1, <3>2, <3>3
               DEF SetFeStatus, FetimInv, FetimTypeOK, FetimIsTold, fetimOutputs
        <3>4. CASE PressureIsSafe # currentState
            <4>1. PICK ok \in BOOLEAN : SetOutput("feStatus", PressureIsSafe, ok)
                BY <2>2, <3>4 DEF SetFeStatus
            <4>2. OutputIs("feStatus", PressureIsSafe)
                BY <3>1, <4>1, OutputSet DEF FetimInv
            <4>3. FetimIsTold'
                BY <3>1, <3>2, <4>2 DEF FetimInv, FetimIsTold, OutputIs
            <4> QED BY <3>1, <3>2, <4>2, <4>3 DEF FetimInv, FetimTypeOK, OutputIs
        <3> QED BY <3>3, <3>4
    <2>3. CASE ShutdownFe
        BY <1>1, <2>3
           DEF FetimAsync, ShutdownFe, FetimInv, FetimTypeOK, FetimIsTold, fetimOutputs, AsyncFetimStates
    <2> QED BY <1>1, <2>1, <2>2, <2>3 DEF FetimAsync
<1>2. CASE FetimMessage
    <2>1. UNCHANGED <<fetimUp, fetimRound, pressure, currentState, judgedSafe, trigger>>
        BY <1>2 DEF FetimMessage
    <2>2. CASE UNCHANGED fetimOutputs /\ shutdownTrig' \in BOOLEAN
        BY <2>1, <2>2 DEF FetimInv, FetimTypeOK, FetimIsTold, fetimOutputs, fetimRound
    <2>3. ASSUME NEW on \in BOOLEAN, N2FillEnable(on), UNCHANGED shutdownTrig PROVE FetimInv'
        <3>1. PICK ok \in BOOLEAN : SetOutput("n2Fill", on, ok)
            BY <2>3 DEF N2FillEnable
        <3>2. "n2Fill" \in Outputs /\ "n2Fill" # "feStatus" /\ "feStatus" \in Outputs
            BY DEF Outputs
        <3>3. OutputIs("n2Fill", on)
            BY <3>1, <3>2, OutputSet DEF FetimInv
        <3>4. FetimIsTold'
            BY <2>1, <3>2, <3>3 DEF FetimInv, FetimIsTold, OutputIs
        <3> QED BY <2>1, <2>3, <3>3, <3>4 DEF FetimInv, FetimTypeOK, fetimRound, OutputIs
    <2>4. MonitorShutdownTrig => shutdownTrig' \in BOOLEAN
        BY DEF MonitorShutdownTrig, FetimInv, FetimTypeOK
    <2> QED BY <1>2, <2>2, <2>3, <2>4 DEF FetimMessage, FetimHandler, FetimInv, FetimTypeOK
<1>3. CASE PressureMeasured \/ ShutdownTriggered
    <2>1. /\ pressure' \in Pressures /\ trigger' \in BOOLEAN
          /\ UNCHANGED <<fetimUp, fetimRound, currentState, fetimOutputs, judgedSafe, shutdownTrig>>
        BY <1>3 DEF PressureMeasured, ShutdownTriggered, FetimInv, FetimTypeOK
    <2> QED BY <2>1 DEF FetimInv, FetimTypeOK, FetimIsTold, fetimOutputs, fetimRound
<1>4. CASE FetimRestart
    <2>1. /\ asyncFetimState' \in AsyncFetimStates /\ extTempModule' \in ExtSensors
          /\ fetimUp' \in {"available", "unavailable", "exited"} /\ pressure' \in Pressures
          /\ serialState' \in {"BREG", "ADC_READ"}
        BY <1>4, ExtSensorsAre DEF FetimRestart, AsyncFetimStates, Pressures
    <2>2. fetimHw' \subseteq Outputs /\ trigger' \in BOOLEAN
        BY <1>4 DEF FetimRestart, FetimInv, FetimTypeOK
    <2>3. FetimTypeOK'
        BY <1>4, <2>1, <2>2 DEF FetimRestart, FetimTypeOK
    <2> QED BY <1>4, <2>3 DEF FetimRestart, FetimInv, FetimIsTold
<1> QED BY <1>1, <1>2, <1>3, <1>4 DEF FetimNext

\* A trigger was seen before it is acted on.
TriggerInv == shutdownTrig => trigger

LEMMA TriggerInvNext ==
    ASSUME FetimInv, TriggerInv, FetimNext
    PROVE  TriggerInv'
<1>1. CASE FetimAsync \/ PressureMeasured
    BY <1>1 DEF FetimAsync, PressureMeasured, TriggerInv
<1>2. CASE ShutdownTriggered
    BY <1>2 DEF ShutdownTriggered, TriggerInv
<1>3. CASE FetimMessage
    <2>1. trigger' = trigger
        BY <1>3 DEF FetimMessage
    <2>2. MonitorShutdownTrig => (shutdownTrig' => trigger)
        BY DEF MonitorShutdownTrig, TriggerInv
    <2>3. shutdownTrig' = shutdownTrig \/ MonitorShutdownTrig
        BY <1>3 DEF FetimMessage, FetimHandler
    <2> QED BY <2>1, <2>2, <2>3 DEF TriggerInv
<1>4. CASE FetimRestart
    BY <1>4 DEF FetimRestart, TriggerInv
<1> QED BY <1>1, <1>2, <1>3, <1>4 DEF FetimNext

\* Who ends the program.
LEMMA WhoShutsDown ==
    ASSUME TriggerInv, FetimNext, fetimUp # "exited", fetimUp' = "exited"
    PROVE  trigger \/ FetimRestart
<1>1. CASE FetimAsync
    BY <1>1 DEF FetimAsync, SetFeStatus, ShutdownFe, TriggerInv
<1>2. CASE FetimMessage \/ PressureMeasured \/ ShutdownTriggered
    BY <1>2 DEF FetimMessage, PressureMeasured, ShutdownTriggered
<1> QED BY <1>1, <1>2 DEF FetimNext

\* While the computer stays on: there is a FETIM, and nothing is simulated.
StaysOnInv == FetimInv /\ TriggerInv /\ ~Simulated /\ fetimUp # "unavailable"

StaysOnStep == FetimAsync \/ FetimMessage \/ PressureMeasured \/ ShutdownTriggered

LEMMA StaysOn == ShutdownSpec => []StaysOnInv
<1>1. HandlersInit /\ FetimInit => StaysOnInv
    BY FetimInitInv DEF HandlersInit, FetimInit, StaysOnInv, TriggerInv, Simulated
<1>2. StaysOnInv /\ [StaysOnStep]_<<fetimVars, shared>> => StaysOnInv'
    <2> SUFFICES ASSUME StaysOnInv, [StaysOnStep]_<<fetimVars, shared>> PROVE StaysOnInv'
        OBVIOUS
    <2>1. CASE StaysOnStep
        <3>1. FetimInv' /\ TriggerInv'
            BY <2>1, FetimNextInv, TriggerInvNext DEF StaysOnInv, StaysOnStep, FetimNext
        <3>2. mode' = mode /\ (fetimUp' = fetimUp \/ fetimUp' = "exited")
            BY <2>1
               DEF StaysOnStep, FetimAsync, FetimMessage, PressureMeasured, ShutdownTriggered, SetFeStatus,
                   ShutdownFe, shared
        <3> QED BY <3>1, <3>2 DEF StaysOnInv, Simulated
    <2>2. CASE UNCHANGED <<fetimVars, shared>>
        <3>1. UNCHANGED fetimVars /\ mode' = mode
            BY <2>2 DEF shared
        <3> QED BY <3>1, FetimUnchanged DEF StaysOnInv, TriggerInv, Simulated, fetimVars
    <2> QED BY <2>1, <2>2
<1> QED BY <1>1, <1>2, PTL DEF ShutdownSpec, StaysOnStep

\* The calls of fetimAsync before it looks at the trigger, that one included:
\* two for each analog point, less the one that selected the point.
CallsToShutdown ==
    LET Reading == IF serialState = "BREG" THEN 2 ELSE 1 IN
    CASE asyncFetimState = "SHUTDOWN_FE" -> 1
      [] asyncFetimState = "SET_FE_STATUS" -> 2
      [] asyncFetimState = "GET_HE2_PRESS" -> 2 + Reading
      [] asyncFetimState = "GET_EXT_TEMP" ->
             4 + 2 * (FETIM_EXT_SENSORS_NUMBER - 1 - extTempModule) + Reading

LEMMA CallsToShutdownBounds ==
    ASSUME FetimTypeOK, FETIM_EXT_SENSORS_NUMBER <= 2
    PROVE  CallsToShutdown \in 1 .. 8
BY FetimAssumption DEF FetimTypeOK, AsyncFetimStates, ExtSensors, CallsToShutdown

\* Each call brings the look at the trigger nearer.
LEMMA CallsCountDown ==
    ASSUME StaysOnInv, FETIM_EXT_SENSORS_NUMBER <= 2, FetimAsync, shutdownTrig
    PROVE  \/ fetimUp' = "exited"
           \/ /\ fetimUp' = fetimUp /\ shutdownTrig'
              /\ CallsToShutdown' < CallsToShutdown
<1>1. FetimTypeOK /\ ~Simulated /\ shutdownTrig'
    BY DEF StaysOnInv, FetimInv, FetimAsync
<1>2. ASSUME NEW result \in SerialResults, GetExtTemp(result) \/ GetHe2Press(result),
             UNCHANGED fetimUp
      PROVE  CallsToShutdown' < CallsToShutdown
    <2>1. serialState \in {"BREG", "ADC_READ"}
        BY <1>1 DEF FetimTypeOK
    <2>2. /\ result = "NO_ERROR" => serialState = "BREG" /\ serialState' = "ADC_READ"
          /\ result # "NO_ERROR" => serialState' = "BREG"
        BY <1>1, <1>2, <2>1 DEF SerialResults, GetExtTemp, GetHe2Press, Measured, SerialNext
    <2>3. CASE GetHe2Press(result)
        BY <2>1, <2>2, <2>3 DEF GetHe2Press, CallsToShutdown
    <2>4. CASE GetExtTemp(result)
        <3>1. extTempModule \in 0 .. FETIM_EXT_SENSORS_NUMBER - 1
            BY <1>1 DEF FetimTypeOK, ExtSensors
        <3>2. FETIM_EXT_SENSORS_NUMBER \in {1, 2}
            BY FetimAssumption
        <3>3. CASE result = "NO_ERROR"
            BY <2>1, <2>2, <2>4, <3>1, <3>2, <3>3 DEF GetExtTemp, CallsToShutdown
        <3>4. CASE result # "NO_ERROR"
            <4>1. \/ extTempModule' = extTempModule + 1 /\ asyncFetimState' = "GET_EXT_TEMP"
                  \/ asyncFetimState' = "GET_HE2_PRESS"
                BY <2>4, <3>1, <3>2, <3>4 DEF GetExtTemp
            <4> QED BY <2>1, <2>2, <2>4, <3>1, <3>2, <3>4, <4>1 DEF GetExtTemp, CallsToShutdown
        <3> QED BY <3>3, <3>4
    <2> QED BY <1>2, <2>3, <2>4
<1>3. CASE SetFeStatus
    BY <1>1, <1>3 DEF SetFeStatus, CallsToShutdown
<1>4. CASE ShutdownFe
    BY <1>4 DEF ShutdownFe
<1> QED BY <1>1, <1>2, <1>3, <1>4 DEF FetimAsync

\* Nothing else changes what fetimAsync is at, or takes the trigger back.
LEMMA TriggerStays ==
    ASSUME StaysOnInv, [StaysOnStep]_<<fetimVars, shared>>, ~FetimAsync, shutdownTrig
    PROVE  shutdownTrig' /\ fetimUp' = fetimUp /\ CallsToShutdown' = CallsToShutdown
<1>1. UNCHANGED <<fetimUp, fetimRound>> /\ shutdownTrig'
    <2>1. CASE FetimMessage
        BY <2>1
           DEF FetimMessage, FetimHandler, MonitorShutdownTrig, StaysOnInv, TriggerInv
    <2>2. CASE PressureMeasured \/ ShutdownTriggered \/ UNCHANGED <<fetimVars, shared>>
        BY <2>2 DEF PressureMeasured, ShutdownTriggered, fetimVars
    <2> QED BY <2>1, <2>2 DEF StaysOnStep
<1> QED BY <1>1 DEF fetimRound, CallsToShutdown

\* A trigger that a monitor request has found shuts the front end down, whatever
\* fails, HeardTriggerShutsDown (fetim.c:270), with no more sensors than the code
\* has (fetimExtTemp.h:23).
THEOREM HeardTriggerCorrect ==
    ASSUME FETIM_EXT_SENSORS_NUMBER <= 2
    PROVE  ShutdownSpec /\ []AsyncNeverBlocks => HeardTriggerShutsDown
<1> DEFINE Exited == fetimUp = "exited"
           Near(n) == fetimUp = "available" /\ shutdownTrig /\ CallsToShutdown <= n
           Step == [StaysOnStep]_<<fetimVars, shared>>
           Call == <<FetimAsync>>_<<fetimVars, shared>>
           Inv == StaysOnInv /\ AsyncNeverBlocks
<1>1. ASSUME NEW n \in 0 .. 8
      PROVE  Inv /\ Inv' /\ Near(n) /\ Step => Near(n)' \/ Exited' \/ Call
    <2> SUFFICES ASSUME Inv, Inv', Near(n), Step, ~Call PROVE Near(n)'
        OBVIOUS
    <2>1. ~FetimAsync \/ UNCHANGED <<fetimVars, shared>>
        OBVIOUS
    <2>2. CASE ~FetimAsync
        BY <2>2, TriggerStays
    <2>3. CASE UNCHANGED <<fetimVars, shared>>
        BY <2>3 DEF fetimVars, fetimRound, CallsToShutdown
    <2> QED BY <2>1, <2>2, <2>3
<1>2. ASSUME NEW n \in 1 .. 8
      PROVE  Inv /\ Inv' /\ Near(n) /\ Call => Near(n - 1)' \/ Exited'
    <2> SUFFICES ASSUME Inv, Inv', Near(n), Call, ~Exited' PROVE Near(n - 1)'
        OBVIOUS
    <2>1. FetimTypeOK /\ FetimTypeOK'
        BY DEF StaysOnInv, FetimInv
    <2>2. CallsToShutdown \in 1 .. 8
        BY <2>1, CallsToShutdownBounds
    <2>3. fetimUp' = "available" /\ shutdownTrig' /\ CallsToShutdown' < CallsToShutdown
        BY CallsCountDown
    <2>4. CallsToShutdown' \in Nat
        BY <2>1, FetimAssumption DEF FetimTypeOK, AsyncFetimStates, ExtSensors, CallsToShutdown
    <2> QED BY <2>2, <2>3, <2>4
<1>3. Inv => ~Near(0)
    BY CallsToShutdownBounds DEF StaysOnInv, FetimInv
<1>4. Inv /\ shutdownTrig => Near(8) \/ Exited
    BY CallsToShutdownBounds DEF StaysOnInv, FetimInv, FetimTypeOK
<1>5. ASSUME NEW n \in 1 .. 8 PROVE Inv /\ Near(n) => ENABLED Call
    BY DEF AsyncNeverBlocks
<1> HIDE DEF Near, Exited, Inv
<1>6. /\ Inv /\ Inv' /\ Near(8) /\ Step => Near(8)' \/ Exited' \/ Call
      /\ Inv /\ Inv' /\ Near(7) /\ Step => Near(7)' \/ Exited' \/ Call
      /\ Inv /\ Inv' /\ Near(6) /\ Step => Near(6)' \/ Exited' \/ Call
      /\ Inv /\ Inv' /\ Near(5) /\ Step => Near(5)' \/ Exited' \/ Call
      /\ Inv /\ Inv' /\ Near(4) /\ Step => Near(4)' \/ Exited' \/ Call
      /\ Inv /\ Inv' /\ Near(3) /\ Step => Near(3)' \/ Exited' \/ Call
      /\ Inv /\ Inv' /\ Near(2) /\ Step => Near(2)' \/ Exited' \/ Call
      /\ Inv /\ Inv' /\ Near(1) /\ Step => Near(1)' \/ Exited' \/ Call
    BY <1>1
<1>7. /\ Inv /\ Inv' /\ Near(8) /\ Call => Near(7)' \/ Exited'
      /\ Inv /\ Inv' /\ Near(7) /\ Call => Near(6)' \/ Exited'
      /\ Inv /\ Inv' /\ Near(6) /\ Call => Near(5)' \/ Exited'
      /\ Inv /\ Inv' /\ Near(5) /\ Call => Near(4)' \/ Exited'
      /\ Inv /\ Inv' /\ Near(4) /\ Call => Near(3)' \/ Exited'
      /\ Inv /\ Inv' /\ Near(3) /\ Call => Near(2)' \/ Exited'
      /\ Inv /\ Inv' /\ Near(2) /\ Call => Near(1)' \/ Exited'
      /\ Inv /\ Inv' /\ Near(1) /\ Call => Near(0)' \/ Exited'
    BY <1>2
<1>8. /\ Inv /\ Near(8) => ENABLED Call
      /\ Inv /\ Near(7) => ENABLED Call
      /\ Inv /\ Near(6) => ENABLED Call
      /\ Inv /\ Near(5) => ENABLED Call
      /\ Inv /\ Near(4) => ENABLED Call
      /\ Inv /\ Near(3) => ENABLED Call
      /\ Inv /\ Near(2) => ENABLED Call
      /\ Inv /\ Near(1) => ENABLED Call
    BY <1>5
<1>9. ShutdownSpec /\ []AsyncNeverBlocks => []Inv /\ [][StaysOnStep]_<<fetimVars, shared>>
                                             /\ WF_<<fetimVars, shared>>(FetimAsync)
    BY StaysOn, PTL DEF ShutdownSpec, StaysOnStep, Inv
\* In stages: the provers take few phases at a time.
<1>10. ShutdownSpec /\ []AsyncNeverBlocks => [](Near(8) => <>Exited \/ <>Near(4))
    BY <1>6, <1>7, <1>8, <1>9, PTL
<1>11. ShutdownSpec /\ []AsyncNeverBlocks => [](Near(4) => <>Exited)
    BY <1>3, <1>6, <1>7, <1>8, <1>9, PTL
<1>12. ShutdownSpec /\ []AsyncNeverBlocks => (shutdownTrig ~> Exited)
    BY <1>4, <1>9, <1>10, <1>11, PTL
<1> QED BY <1>12 DEF HeardTriggerShutsDown, Exited

-----------------------------------------------------------------------------
(* The photonic receiver                                                   *)

LEMMA LprMeasures ==
    ASSUME SharedInv, NEW ok \in BOOLEAN, GetLprAnalogMonitor(ok)
    PROVE  running' = {}
BY MeasuresRelease DEF GetLprAnalogMonitor, SharedInv, TimersReleased

LEMMA LprShared == SharedInv /\ LprNext => SharedInv'
<1> SUFFICES ASSUME SharedInv, LprNext PROVE SharedInv'
    OBVIOUS
<1> USE StatusesOK, HandlerStepInv
<1>1. running = {} /\ edom \in BOOLEAN
    BY DEF SharedInv, TimersReleased, HandlersTypeOK
<1>2. /\ Answer("CON_ERROR_RNG", FALSE) \/ Answer("HARDW_CON_ERR", TRUE) => Answered
      /\ \A read, ok \in BOOLEAN :
            Answer(IF ok THEN "MON_ERROR_ACT" ELSE "ERROR", ~read \/ ~ok) => Answered
    BY AnswerOK DEF Statuses
<1>3. CASE LprTempHandler
    BY <1>1, <1>3, LprMeasures DEF LprTempHandler, LprMonitor, GetLprTemp, LprKept, HandlerStep
<1>4. CASE OpticalSwitchHandler
    <2>1. ASSUME NEW to, PortSet(to) PROVE SharedInv'
        BY <1>1, <1>2, <2>1 DEF PortSet, LprKept, HandlerStep
    <2>2. ASSUME NEW forced, ShutterSet(forced) PROVE SharedInv'
        BY <1>1, <2>2 DEF ShutterSet, LprKept, HandlerStep
    <2>3. CASE StateAndBusyHandler
        BY <1>1, <2>3 DEF StateAndBusyHandler, LprKept, HandlerStep
    <2> QED BY <1>1, <1>4, <2>1, <2>2, <2>3
            DEF OpticalSwitchHandler, PortHandler, ShutterHandler, ForceShutterHandler, LprMemory,
                LprKept, HandlerStep
<1>5. CASE LaserHandler
    <2>1. CASE LaserPumpTemp
        BY <1>1, <1>2, <2>1, LprMeasures
           DEF LaserPumpTemp, LprMonitor, GetLaserPumpTemperature, LprKept, HandlerStep
    <2> QED BY <1>1, <1>5, <2>1, LprMeasures
            DEF LaserHandler, LaserCurrents, LprMonitor, GetLaserDriveCurrent,
                GetLaserPhotoDetectCurrent, LprMemory, LprKept, HandlerStep
<1>6. CASE PhotoDetectorHandler
    BY <1>1, <1>6, LprMeasures
       DEF PhotoDetectorHandler, PhotoDetectorPoints, LprMonitor, GetPhotoDetectorCurrent,
           GetPhotoDetectorPower, LprMemory, LprKept, HandlerStep
<1>7. CASE ModulationInputHandler
    BY <1>1, <1>7
       DEF ModulationInputHandler, ModulationValue, ModulationValueSet, MiSpecialMsgsHandler,
           MiDacHandler, MiDacStrobe, LprMemory, LprKept, HandlerStep
<1>8. CASE DriverState
    BY <1>1, <1>2, <1>8 DEF DriverState, LprKept, HandlerStep
<1>9. CASE LprMemory(RangeError)
    BY <1>1, <1>9 DEF LprMemory, LprKept, HandlerStep
<1>10. CASE LprStartup
    BY <1>1, <1>10 DEF LprStartup, HandlerStep
<1>11. CASE ShutDown
    BY <1>1, <1>11
       DEF ShutDown, SharedInv, HandlersTypeOK, TimersReleased, Answered, Simulated, AllModes
<1>12. CASE FrontendStop
    BY <1>1, <1>12 DEF FrontendStop, HandlerStep
<1>13. CASE LprRestart
    BY <1>13
       DEF LprRestart, HandlersRestart, SharedInv, HandlersTypeOK, TimersReleased, Answered,
           Simulated, AllModes
<1> QED BY <1>3, <1>4, <1>5, <1>6, <1>7, <1>8, <1>9, <1>10, <1>11, <1>12, <1>13
        DEF LprNext, LprHandler, EdfaHandler

LprInv == LprTypeOK /\ SwitchWhereTold

LEMMA LprInitInv == LprInit => LprInv
BY DEF LprInit, LprInv, LprTypeOK, SwitchWhereTold, PORT_SHUTTERED

LEMMA LprUnchanged == LprInv /\ UNCHANGED lprVars /\ (simulated => simulated') => LprInv'
<1> SUFFICES ASSUME LprInv, UNCHANGED lprVars, simulated => simulated' PROVE LprInv'
    OBVIOUS
<1>1. LprTypeOK'
    BY DEF LprInv, LprTypeOK, lprVars, lprSwitch, lprStates, lprModulation
<1>2. SwitchWhereTold'
    BY DEF LprInv, SwitchWhereTold, lprVars, lprSwitch
<1> QED BY <1>1, <1>2 DEF LprInv

\* The variables of the receiver that are only read and answered.
LprSidesOK == /\ {switchError, switchBusy, driverTempAlarm} \subseteq BOOLEAN
              /\ {modulation, lastModulation, modulationHw} \subseteq BOOLEAN

LEMMA LprStatesOK ==
    ASSUME LprTypeOK,
           \/ \E ok \in BOOLEAN : GetLprStates(ok)
           \/ \E to, ok : SetOpticalSwitchPort(to, ok)
           \/ \E forced, ok : SetOpticalSwitchShutter(forced, ok)
           \/ \E ok \in BOOLEAN : CloseShutter(ok)
           \/ UNCHANGED lprStates
    PROVE  {switchError', switchBusy', driverTempAlarm'} \subseteq BOOLEAN
BY DEF LprTypeOK, GetLprStates, SetOpticalSwitchPort, SetOpticalSwitchShutter, CloseShutter, lprStates

LEMMA ModulationOK ==
    ASSUME LprTypeOK,
           \/ \E nonzero, ok \in BOOLEAN : SetModulationInputValue(nonzero, ok)
           \/ \E ok \in BOOLEAN : SetLprDacStrobe(ok)
           \/ UNCHANGED modulationHw
    PROVE  modulationHw' \in BOOLEAN
BY DEF LprTypeOK, SetModulationInputValue, SetLprDacStrobe

\* A step that leaves the switch alone.
LEMMA SwitchLeft ==
    ASSUME LprInv, LprSidesOK', UNCHANGED <<simulated, lprPhase, lprSwitch>>
    PROVE  LprInv'
BY DEF LprInv, LprTypeOK, LprSidesOK, SwitchWhereTold, lprSwitch

\* A step that moves it or fails to.
LEMMA SwitchSet ==
    ASSUME LprInv, LprSidesOK', UNCHANGED <<simulated, lprPhase>>,
           {port', lprAReg'} \subseteq Ports \cup {0, PORT_SHUTTERED},
           switchAt' \in Ports \cup {PORT_SHUTTERED}, shutter' \in BOOLEAN,
           ~simulated => \/ port' = switchAt' /\ (shutter' <=> switchAt' = PORT_SHUTTERED)
                         \/ UNCHANGED <<port, switchAt, shutter>>
    PROVE  LprInv'
<1>1. LprTypeOK'
    BY DEF LprInv, LprTypeOK, LprSidesOK
<1>2. SwitchWhereTold'
    BY DEF LprInv, SwitchWhereTold
<1> QED BY <1>1, <1>2 DEF LprInv

LEMMA PortSetInv ==
    ASSUME SharedInv, LprInv, NEW to \in Ports \cup {10}, PortSet(to)
    PROVE  LprInv'
<1>0. UNCHANGED <<simulated, lprPhase>>
    BY DEF PortSet, LprKept
<1>1. LprSidesOK'
    BY LprStatesOK DEF PortSet, LprInv, LprTypeOK, LprSidesOK, lprModulation
<1>2. CASE to \notin 0 .. 9
    BY <1>0, <1>1, <1>2, SwitchLeft DEF PortSet
<1>3. CASE to \in 0 .. 9
    <2>1. to \in Ports /\ to # PORT_SHUTTERED
        BY <1>3 DEF PORT_SHUTTERED
    <2>2. PICK ok \in BOOLEAN : SetOpticalSwitchPort(to, ok) /\ shutter' = (shutter /\ ~ok)
        BY <1>3 DEF PortSet
    <2>3. CASE Simulated
        BY <1>0, <1>1, <2>1, <2>2, <2>3
           DEF SetOpticalSwitchPort, SharedInv, LprInv, LprTypeOK, LprSidesOK, SwitchWhereTold
    <2>4. CASE ~Simulated
        <3>1. CASE ok
            <4>1. port' = to /\ switchAt' = to /\ lprAReg' = to /\ shutter' = FALSE
                BY <2>2, <2>4, <3>1 DEF SetOpticalSwitchPort, MoveSwitch
            <4> QED BY <1>0, <1>1, <2>1, <4>1, SwitchSet
        <3>2. CASE ~ok
            <4>1. UNCHANGED <<port, switchAt>> /\ lprAReg' \in {lprAReg, to}
                BY <2>2, <2>4, <3>2 DEF SetOpticalSwitchPort, MoveSwitch
            <4>2. shutter' = shutter /\ shutter' \in BOOLEAN
                BY <2>2, <3>2 DEF LprInv, LprTypeOK
            <4> QED BY <1>0, <1>1, <2>1, <4>1, <4>2, SwitchSet DEF LprInv, LprTypeOK
        <3> QED BY <3>1, <3>2
    <2> QED BY <2>3, <2>4
<1> QED BY <1>2, <1>3

LEMMA ShutterSetInv ==
    ASSUME SharedInv, LprInv, NEW forced \in BOOLEAN, ShutterSet(forced)
    PROVE  LprInv'
<1>0. UNCHANGED <<simulated, lprPhase>>
    BY DEF ShutterSet, LprKept
<1>1. LprSidesOK'
    BY LprStatesOK DEF ShutterSet, LprInv, LprTypeOK, LprSidesOK, lprModulation
<1>2. PICK ok \in BOOLEAN : /\ SetOpticalSwitchShutter(forced, ok)
                            /\ port' = IF ok THEN PORT_SHUTTERED ELSE port
    BY DEF ShutterSet
<1>3. CASE Simulated
    BY <1>0, <1>1, <1>2, <1>3
       DEF SetOpticalSwitchShutter, SharedInv, LprInv, LprTypeOK, LprSidesOK, SwitchWhereTold
<1>4. CASE ~Simulated
    <2>1. CASE ok
        <3>1. switchAt' = PORT_SHUTTERED /\ lprAReg' = PORT_SHUTTERED /\ shutter' = TRUE
              /\ port' = PORT_SHUTTERED
            BY <1>2, <1>4, <2>1 DEF SetOpticalSwitchShutter, MoveSwitch
        <3> QED BY <1>0, <1>1, <3>1, SwitchSet
    <2>2. CASE ~ok
        <3>1. UNCHANGED <<port, switchAt>> /\ lprAReg' \in {lprAReg, PORT_SHUTTERED}
            BY <1>2, <1>4, <2>2 DEF SetOpticalSwitchShutter, MoveSwitch
        <3>2. shutter' = shutter /\ shutter' \in BOOLEAN
            BY <1>2, <1>4, <2>2 DEF SetOpticalSwitchShutter, LprInv, LprTypeOK
        <3> QED BY <1>0, <1>1, <3>1, <3>2, SwitchSet DEF LprInv, LprTypeOK
    <2> QED BY <2>1, <2>2
<1> QED BY <1>3, <1>4

\* The start and the stop: what they leave when they succeed, and their types.
LEMMA DarkenOK ==
    ASSUME LprInv, NEW ok \in BOOLEAN, Darken(ok), UNCHANGED <<modulation, lastModulation>>
    PROVE  /\ LprSidesOK'
           /\ {port', lprAReg'} \subseteq Ports \cup {0, PORT_SHUTTERED}
           /\ switchAt' \in Ports \cup {PORT_SHUTTERED}
           /\ shutter' \in BOOLEAN
           /\ ok /\ ~Simulated => port' = switchAt' /\ switchAt' = PORT_SHUTTERED /\ shutter' = TRUE
<1>1. LprSidesOK'
    BY LprStatesOK, ModulationOK DEF Darken, LprInv, LprTypeOK, LprSidesOK, lprSwitch
<1>2. CASE ok
    BY <1>1, <1>2 DEF Darken, CloseShutter, LprInv, LprTypeOK
<1>3. CASE ~ok
    BY <1>1, <1>3 DEF Darken, CloseShutter, LprInv, LprTypeOK, lprSwitch
<1> QED BY <1>2, <1>3

LEMMA LprNextInv == SharedInv /\ LprInv /\ LprNext => LprInv'
<1> SUFFICES ASSUME SharedInv, LprInv, LprNext PROVE LprInv'
    OBVIOUS
<1>0. LprTypeOK /\ LprSidesOK
    BY DEF LprInv, LprTypeOK, LprSidesOK
<1> DEFINE Left == UNCHANGED <<simulated, lprPhase, lprSwitch>>
<1>1. Left /\ UNCHANGED <<lprStates, lprModulation>> => LprInv'
    BY <1>0, SwitchLeft DEF LprSidesOK, lprStates, lprModulation
<1>2. CASE LprTempHandler \/ LaserHandler \/ PhotoDetectorHandler
    BY <1>1, <1>2
       DEF LprTempHandler, LaserHandler, LaserPumpTemp, LaserCurrents, PhotoDetectorHandler,
           PhotoDetectorPoints, LprMonitor, LprMemory, LprKept
<1>3. CASE OpticalSwitchHandler
    <2>1. CASE StateAndBusyHandler
        <3>1. Left /\ UNCHANGED lprModulation
            BY <2>1 DEF StateAndBusyHandler, LprKept
        <3>2. LprSidesOK'
            BY <1>0, <2>1, <3>1, LprStatesOK DEF StateAndBusyHandler, LprSidesOK, lprModulation
        <3> QED BY <3>1, <3>2, SwitchLeft
    <2> QED BY <1>1, <1>3, <2>1, PortSetInv, ShutterSetInv
            DEF OpticalSwitchHandler, PortHandler, ShutterHandler, ForceShutterHandler, LprMemory, LprKept
<1>4. CASE ModulationInputHandler
    <2>1. ASSUME NEW nonzero \in BOOLEAN, ModulationValueSet(nonzero) PROVE LprInv'
        <3>1. Left /\ UNCHANGED <<lprStates, modulation>> /\ lastModulation' \in BOOLEAN
            BY <2>1 DEF ModulationValueSet, LprKept
        <3>2. LprSidesOK'
            BY <1>0, <2>1, <3>1, ModulationOK DEF ModulationValueSet, LprSidesOK, lprStates
        <3> QED BY <3>1, <3>2, SwitchLeft
    <2>2. CASE Left /\ UNCHANGED <<lprStates, lastModulation, modulationHw>> /\ modulation' = lastModulation
        <3>1. LprSidesOK'
            BY <1>0, <2>2 DEF LprSidesOK, lprStates
        <3> QED BY <2>2, <3>1, SwitchLeft
    <2>3. CASE MiDacStrobe
        <3>1. CASE LprMemory(NoMonitor)
            BY <1>1, <3>1 DEF LprMemory, LprKept
        <3>2. CASE ~LprMemory(NoMonitor)
            <4>1. Left /\ UNCHANGED <<lprStates, modulation, lastModulation>>
                BY <2>3, <3>2 DEF MiDacStrobe, LprKept
            <4>2. LprSidesOK'
                BY <1>0, <2>3, <3>2, <4>1, ModulationOK DEF MiDacStrobe, LprSidesOK, lprStates
            <4> QED BY <4>1, <4>2, SwitchLeft
        <3> QED BY <3>1, <3>2
    <2> QED BY <1>1, <1>4, <2>1, <2>2, <2>3
            DEF ModulationInputHandler, ModulationValue, MiSpecialMsgsHandler, MiDacHandler, LprMemory,
                LprKept
<1>5. CASE DriverState
    <2>1. PICK read \in BOOLEAN, ok \in BOOLEAN :
              /\ GetLprStates(read)
              /\ IF driverTempAlarm'
                 THEN SetModulationInputValue(FALSE, ok) /\ modulation' = (modulation /\ ~ok)
                 ELSE UNCHANGED <<modulation, modulationHw>>
        BY <1>5 DEF DriverState
    <2>2. Left /\ UNCHANGED lastModulation
        BY <1>5 DEF DriverState, LprKept
    <2>3. modulationHw' \in BOOLEAN /\ modulation' \in BOOLEAN
        BY <1>0, <2>1, ModulationOK DEF LprSidesOK
    <2>4. LprSidesOK'
        BY <1>0, <2>1, <2>2, <2>3, LprStatesOK DEF LprSidesOK
    <2> QED BY <2>2, <2>4, SwitchLeft
<1>6. CASE LprMemory(RangeError)
    BY <1>1, <1>6 DEF LprMemory, LprKept
<1>7. CASE LprStartup
    <2>1. PICK ok \in BOOLEAN : Darken(ok) /\ lprPhase' = IF ok THEN "up" ELSE "stopped"
        BY <1>7 DEF LprStartup
    <2>2. UNCHANGED <<simulated, modulation, lastModulation>>
        BY <1>7 DEF LprStartup
    <2> QED BY <2>1, <2>2, DarkenOK DEF LprInv, LprTypeOK, LprSidesOK, SwitchWhereTold, SharedInv
<1>8. CASE ShutDown
    BY <1>0, <1>8
       DEF ShutDown, LprInv, LprTypeOK, LprSidesOK, SwitchWhereTold, lprSwitch, lprStates, lprModulation
<1>9. CASE FrontendStop
    <2>1. lprPhase' = "stopped" /\ UNCHANGED <<simulated, modulation, lastModulation>>
        BY <1>9 DEF FrontendStop
    <2>2. CASE \E ok \in BOOLEAN : Darken(ok)
        BY <2>1, <2>2, DarkenOK DEF LprInv, LprTypeOK, LprSidesOK, SwitchWhereTold
    <2>3. CASE UNCHANGED <<lprSwitch, lprStates, modulationHw>>
        BY <1>0, <2>1, <2>3 DEF LprInv, LprTypeOK, LprSidesOK, SwitchWhereTold, lprSwitch, lprStates
    <2> QED BY <1>9, <2>2, <2>3 DEF FrontendStop
<1>10. CASE LprRestart
    BY <1>0, <1>10 DEF LprRestart, LprInv, LprTypeOK, LprSidesOK, SwitchWhereTold
<1> QED BY <1>2, <1>3, <1>4, <1>5, <1>6, <1>7, <1>8, <1>9, <1>10 DEF LprNext, LprHandler, EdfaHandler

-----------------------------------------------------------------------------
(* The local oscillators' registers                                        *)

\* What a measurement does, whatever it measures: it sends the copy at most.
LEMMA LoMeasures ==
    ASSUME SharedInv, NEW ok \in BOOLEAN, GetLoAnalogMonitor(ok)
    PROVE  /\ running' = {}
           /\ LoBRegKept \/ (~Simulated /\ SendLoBReg(loBReg))
BY ConvertsRelease DEF GetLoAnalogMonitor, SharedInv, TimersReleased

LEMMA LoShared == SharedInv /\ LoNext => SharedInv'
<1> SUFFICES ASSUME SharedInv, LoNext PROVE SharedInv'
    OBVIOUS
<1> USE StatusesOK, HandlerStepInv DEF HandlerStep, LoKept
<1>1. running = {} /\ edom \in BOOLEAN
    BY DEF SharedInv, TimersReleased, HandlersTypeOK
<1>2. CASE PllHandler
    <2>1. CASE LockDetectAndCorrectionVoltage \/ AssemblyTempAndYIGHeaterCurrent \/ RefAndIfTotalPower
        BY <1>1, <2>1, LoMeasures
           DEF LockDetectAndCorrectionVoltage, AssemblyTempAndYIGHeaterCurrent, RefAndIfTotalPower,
               LoMonitor, GetPll
    <2>2. CASE UnlockDetectLatch \/ ClearUnlockDetectLatch
        BY <1>1, <2>2 DEF UnlockDetectLatch, ClearUnlockDetectLatch, LoMemory
    <2>3. CASE LoopBandwidthSelect \/ SidebandPolarityAndNullIntegrator
        BY <1>1, <2>3 DEF LoopBandwidthSelect, SidebandPolarityAndNullIntegrator, LoCommand, LoMemory
    <2> QED BY <1>1, <1>2, <2>1, <2>2, <2>3 DEF PllHandler, LoMemory
<1>3. CASE PhotomixerHandler
    <2>1. CASE PhotomixerCurrent
        <3>1. PICK first \in BOOLEAN, ok \in BOOLEAN :
                  /\ GetPhotomixer(first /\ ok)
                  /\ IF ok THEN Untold("photomixerCurrent", first) ELSE Error
            BY <2>1 DEF PhotomixerCurrent
        <3>2. (first /\ ok) \in BOOLEAN
            OBVIOUS
        <3>3. Answered
            BY <3>1, UntoldOK DEF Unchecked
        <3> QED BY <1>1, <2>1, <3>1, <3>2, <3>3, LoMeasures DEF PhotomixerCurrent, GetPhotomixer
    <2>2. CASE PhotomixerEnable \/ PhotomixerVoltage
        BY <1>1, <2>2, LoMeasures
           DEF PhotomixerEnable, PhotomixerVoltage, LoMonitor, GetPhotomixer, LoCommand, LoMemory
    <2> QED BY <1>1, <1>3, <2>1, <2>2 DEF PhotomixerHandler, LoMemory
<1>4. CASE AmcHandler
    <2>1. ASSUME NEW p, AmcCommand(p) PROVE SharedInv'
        BY <1>1, <2>1 DEF AmcCommand
    <2>2. LoMonitor(GetAmcAnalog) => SharedInv'
        BY <1>1, LoMeasures DEF LoMonitor, GetAmcAnalog
    <2> QED BY <1>1, <1>4, <2>1, <2>2
            DEF AmcHandler, AmcStageA, AmcStageBMonitor, AmcDrainB, AmcMultiplierD, AmcStageE,
                AmcDrainECurrentAndSupply, LoMemory
<1>5. CASE PaHandler
    BY <1>1, <1>5, LoMeasures
       DEF PaHandler, PaSupplyVoltages, PaChannelMonitor, LoMonitor, GetPa, GetPaChannel, LoMemory
<1>6. CASE LoMemory(RangeError)
    BY <1>1, <1>6 DEF LoMemory
<1>7. CASE LoPowerCycle
    BY <1>1, <1>7 DEF LoPowerCycle
<1> QED BY <1>2, <1>3, <1>4, <1>5, <1>6, <1>7 DEF LoNext, LoHandler

\* The copy of the switches agrees with memory, and the register with both once
\* it was written; what the last commands left in the copies stays there until
\* the next of them.
LoInv ==
    /\ LoTypeOK
    /\ LoMemoryMatches
    /\ ~simulated =>
          /\ loBReg \ {"latchOperates"} = loMemory
          /\ latchCleared = "NO_ERROR" => "latchOperates" \in loBReg
          /\ multiplierDSet = "NO_ERROR" => ("multiplierD" \in pots <=> multiplierD)

LEMMA LoInitInv == LoInit => LoInv
BY DEF LoInit, LoInv, LoTypeOK, LoMemoryMatches

LEMMA LoUnchanged == LoInv /\ UNCHANGED loVars /\ (simulated => simulated') => LoInv'
<1> SUFFICES ASSUME LoInv, UNCHANGED loVars, simulated => simulated' PROVE LoInv'
    OBVIOUS
<1> USE DEF loVars, loSwitches, potVars
<1>1. LoTypeOK'
    BY DEF LoInv, LoTypeOK
<1>2. LoMemoryMatches'
    BY DEF LoInv, LoMemoryMatches
<1> QED BY <1>1, <1>2 DEF LoInv

\* The register is sent as it is in the copy.
LEMMA SwitchesSentAgain ==
    ASSUME LoInv, LoBRegKept \/ SendLoBReg(loBReg),
           UNCHANGED <<simulated, loMemory, latchCleared, potVars>>
    PROVE  LoInv'
<1> USE DEF LoBRegKept, SendLoBReg, potVars
<1>1. LoTypeOK'
    BY DEF LoInv, LoTypeOK
<1>2. LoMemoryMatches'
    BY DEF LoInv, LoMemoryMatches, LoTypeOK
<1> QED BY <1>1, <1>2 DEF LoInv

LEMMA LoSwitchSet ==
    ASSUME SharedInv, LoInv, NEW bit \in LoSwitches, NEW on \in BOOLEAN, NEW ok \in BOOLEAN,
           SetLoSwitch(bit, on, ok), UNCHANGED <<simulated, latchCleared, potVars>>
    PROVE  LoInv'
<1>0. bit \in LoBits /\ bit # "latchOperates"
    BY LoRegistersAssumption
<1> USE DEF SetLoSwitch, LoBRegKept, SendLoBReg, With, potVars
<1>1. LoTypeOK'
    BY <1>0 DEF LoInv, LoTypeOK
<1>2. CASE Simulated
    BY <1>1, <1>2 DEF LoInv, LoMemoryMatches, SharedInv
<1>3. CASE ~Simulated /\ ok
    <2>1. /\ loBReg' = With(loBReg, bit, on) /\ loHw' = loBReg'
          /\ loMemory' = With(loMemory, bit, on) /\ loWritten' = loWritten \cup {"switches"}
        BY <1>3
    <2>2. ~simulated => loBReg' \ {"latchOperates"} = loMemory'
        BY <1>0, <2>1 DEF LoInv
    <2>3. "latchOperates" \in loBReg' <=> "latchOperates" \in loBReg
        BY <1>0, <2>1
    <2>4. LoMemoryMatches'
        BY <2>1, <2>2, <2>3 DEF LoInv, LoMemoryMatches
    <2> QED BY <1>1, <2>2, <2>3, <2>4 DEF LoInv
<1>4. CASE ~Simulated /\ ~ok
    BY <1>1, <1>4 DEF LoInv, LoMemoryMatches
<1> QED BY <1>2, <1>3, <1>4

LEMMA LatchCleared ==
    ASSUME SharedInv, LoInv, NEW ok \in BOOLEAN, SetClearUnlockDetectLatch(ok),
           latchCleared' = IF ok THEN "NO_ERROR" ELSE "ERROR",
           UNCHANGED <<simulated, loMemory, potVars>>
    PROVE  LoInv'
<1> USE DEF SetClearUnlockDetectLatch, LoBRegKept, SendLoBReg, potVars
<1>1. LoTypeOK'
    BY DEF LoInv, LoTypeOK, LoBits
<1>2. CASE Simulated
    BY <1>1, <1>2 DEF LoInv, LoMemoryMatches, SharedInv
<1>3. CASE ~Simulated
    <2>1. ~simulated => /\ loBReg' \ {"latchOperates"} = loMemory'
                        /\ latchCleared' = "NO_ERROR" => "latchOperates" \in loBReg'
        BY <1>3 DEF LoInv
    <2>2. LoMemoryMatches'
        BY <1>3, <2>1 DEF LoInv, LoMemoryMatches
    <2> QED BY <1>1, <2>1, <2>2 DEF LoInv
<1> QED BY <1>2, <1>3

LEMMA AmcSet ==
    ASSUME SharedInv, LoInv, NEW p \in Pots, AmcCommand(p)
    PROVE  LoInv'
<1>1. PICK ok \in BOOLEAN, values \in SUBSET (Changes(p) \cap LoPots) :
          /\ SetAmc(p, values, ok)
          /\ multiplierDSet' = IF p # "multiplierD" THEN multiplierDSet
                               ELSE IF ok THEN "NO_ERROR" ELSE "ERROR"
    BY DEF AmcCommand
<1>2. UNCHANGED <<simulated, loBReg, loHw, loMemory, latchCleared>>
    BY DEF AmcCommand, LoKept, loSwitches
<1>3. "multiplierD" \in Changes(p) => p = "multiplierD"
    BY DEF Changes, Pots
<1> USE DEF SetAmc
<1>4. LoTypeOK'
    <2>1. pots' \subseteq LoPots /\ potsHw' \subseteq LoPots
        BY <1>1 DEF LoInv, LoTypeOK
    <2>2. /\ multiplierD' = multiplierD \/ multiplierD' = ("multiplierD" \in pots')
          /\ loWritten' \in {loWritten, loWritten \cup {"pots"}}
        BY <1>1
    <2>3. multiplierDSet' \in {"none", "NO_ERROR", "ERROR"}
        BY <1>1 DEF LoInv, LoTypeOK
    <2>4. multiplierD' \in BOOLEAN
        <3>1. multiplierD \in BOOLEAN
            BY DEF LoInv, LoTypeOK
        <3>2. ("multiplierD" \in pots') \in BOOLEAN
            OBVIOUS
        <3> QED BY <2>2, <3>1, <3>2, Zenon
    <2>5. loWritten' \subseteq {"switches", "pots"}
        BY <2>2 DEF LoInv, LoTypeOK
    <2> QED BY <1>2, <2>1, <2>3, <2>4, <2>5 DEF LoInv, LoTypeOK
<1>5. CASE Simulated
    BY <1>2, <1>4, <1>5 DEF LoInv, LoMemoryMatches, SharedInv
<1>6. CASE ~Simulated
    <2>1. /\ pots' = (pots \ Changes(p)) \cup values
          /\ IF ok THEN potsHw' = pots' /\ loWritten' = loWritten \cup {"pots"}
             ELSE UNCHANGED <<potsHw, loWritten>>
          /\ multiplierD' = IF ok /\ p = "multiplierD" THEN "multiplierD" \in pots' ELSE multiplierD
        BY <1>1, <1>6
    <2>2. p # "multiplierD" => ("multiplierD" \in pots' <=> "multiplierD" \in pots)
        BY <1>3, <2>1
    <2>3. ~simulated /\ multiplierDSet' = "NO_ERROR" => ("multiplierD" \in pots' <=> multiplierD')
        BY <1>1, <2>1, <2>2 DEF LoInv
    <2>4. LoMemoryMatches'
        BY <1>1, <1>2, <2>1, <2>2, <2>3 DEF LoInv, LoMemoryMatches
    <2> QED BY <1>2, <1>4, <2>3, <2>4 DEF LoInv
<1> QED BY <1>5, <1>6

LEMMA LoPowerCycleInv ==
    ASSUME SharedInv, LoInv, LoPowerCycle
    PROVE  LoInv'
<1> DEFINE reg == With(loBReg, "alternateBandwidth", LoopBandwidthDefault)
<1>0. reg \subseteq LoBits /\ "alternateBandwidth" # "latchOperates"
    BY DEF LoInv, LoTypeOK, With, LoBits
<1>1. potsHw' = {} /\ UNCHANGED <<simulated, latchCleared, pots, multiplierD, multiplierDSet>>
    BY DEF LoPowerCycle, LoKept
<1>2. CASE /\ loBReg' = reg /\ loHw' = reg /\ loWritten' = {"switches"}
           /\ loMemory' = With(loMemory, "alternateBandwidth", LoopBandwidthDefault)
    <2>1. LoTypeOK'
        BY <1>0, <1>1, <1>2 DEF LoInv, LoTypeOK, With, LoBits
    <2>2. ~simulated => /\ reg \ {"latchOperates"} = loMemory'
                        /\ "latchOperates" \in reg <=> "latchOperates" \in loBReg
        BY <1>2 DEF LoInv, With
    <2>3. LoMemoryMatches'
        BY <1>1, <1>2, <2>2 DEF LoInv, LoMemoryMatches
    <2> QED BY <1>1, <1>2, <2>1, <2>2, <2>3 DEF LoInv
<1>3. CASE loHw' = {} /\ loWritten' = {} /\ UNCHANGED <<loBReg, loMemory>>
    <2>1. LoTypeOK'
        BY <1>1, <1>3 DEF LoInv, LoTypeOK
    <2> QED BY <1>1, <1>3, <2>1 DEF LoInv, LoMemoryMatches
<1>4. CASE /\ Simulated /\ loHw' = {} /\ loWritten' = {} /\ UNCHANGED loBReg
           /\ loMemory' = With(loMemory, "alternateBandwidth", LoopBandwidthDefault)
    <2>1. LoTypeOK'
        BY <1>1, <1>4 DEF LoInv, LoTypeOK, With, LoBits
    <2> QED BY <1>1, <1>4, <2>1 DEF LoInv, LoMemoryMatches, SharedInv
<1> QED BY <1>2, <1>3, <1>4 DEF LoPowerCycle

LEMMA LoNextInv == SharedInv /\ LoInv /\ LoNext => LoInv'
<1> SUFFICES ASSUME SharedInv, LoInv, LoNext PROVE LoInv'
    OBVIOUS
<1>1. UNCHANGED <<loVars, simulated>> => LoInv'
    BY LoUnchanged
<1>2. ASSUME NEW ok \in BOOLEAN, GetLoAnalogMonitor(ok),
             UNCHANGED <<simulated, loMemory, latchCleared, potVars>>
      PROVE  LoInv'
    BY <1>2, LoMeasures, SwitchesSentAgain
<1>3. CASE PllHandler
    <2>1. CASE LockDetectAndCorrectionVoltage \/ AssemblyTempAndYIGHeaterCurrent \/ RefAndIfTotalPower
        BY <1>2, <2>1
           DEF LockDetectAndCorrectionVoltage, AssemblyTempAndYIGHeaterCurrent, RefAndIfTotalPower,
               LoMonitor, GetPll, LoKept
    <2>2. CASE UnlockDetectLatch \/ ClearUnlockDetectLatch
        BY <1>1, <2>2, LatchCleared DEF UnlockDetectLatch, ClearUnlockDetectLatch, LoMemory, LoKept
    <2>3. CASE LoopBandwidthSelect \/ SidebandPolarityAndNullIntegrator
        BY <1>1, <2>3, LoSwitchSet
           DEF LoopBandwidthSelect, SidebandPolarityAndNullIntegrator, LoCommand, LoMemory, LoKept,
               SetLoopBandwidthSelect, SetSidebandLockPolaritySelect, SetNullLoopIntegrator
    <2> QED BY <1>1, <1>3, <2>1, <2>2, <2>3 DEF PllHandler, LoMemory, LoKept
<1>4. CASE PhotomixerHandler
    <2>1. CASE PhotomixerCurrent
        <3>1. \A first, ok \in BOOLEAN : (first /\ ok) \in BOOLEAN
            OBVIOUS
        <3> QED BY <1>2, <2>1, <3>1 DEF PhotomixerCurrent, GetPhotomixer, LoKept
    <2>2. CASE PhotomixerVoltage
        BY <1>2, <2>2 DEF PhotomixerVoltage, LoMonitor, GetPhotomixer, LoKept
    <2>3. CASE PhotomixerEnable
        BY <1>1, <2>3, LoSwitchSet
           DEF PhotomixerEnable, LoCommand, LoMemory, LoKept, SetPhotomixerEnable
    <2> QED BY <1>1, <1>4, <2>1, <2>2, <2>3 DEF PhotomixerHandler, LoMemory, LoKept
<1>5. CASE AmcHandler
    <2>1. LoMonitor(GetAmcAnalog) => LoInv'
        BY <1>2 DEF LoMonitor, GetAmcAnalog, LoKept
    <2> QED BY <1>1, <1>5, <2>1, AmcSet
            DEF AmcHandler, AmcStageA, AmcStageBMonitor, AmcDrainB, AmcMultiplierD, AmcStageE,
                AmcDrainECurrentAndSupply, LoMemory, LoKept, Pots
<1>6. CASE PaHandler
    BY <1>1, <1>2, <1>6
       DEF PaHandler, PaSupplyVoltages, PaChannelMonitor, LoMonitor, GetPa, GetPaChannel, LoMemory, LoKept
<1>7. CASE LoMemory(RangeError)
    BY <1>1, <1>7 DEF LoMemory, LoKept
<1> QED BY <1>3, <1>4, <1>5, <1>6, <1>7, LoPowerCycleInv DEF LoNext, LoHandler

-----------------------------------------------------------------------------
(* The bias electronics                                                    *)

LEMMA BiasMeasures ==
    ASSUME SharedInv, NEW ok \in BOOLEAN, GetBiasAnalogMonitor(ok)
    PROVE  running' = {}
BY MeasuresRelease DEF GetBiasAnalogMonitor, SharedInv, TimersReleased

LEMMA BiasShared == SharedInv /\ BiasNext => SharedInv'
<1> SUFFICES ASSUME SharedInv, BiasNext PROVE SharedInv'
    OBVIOUS
<1> USE StatusesOK, HandlerStepInv DEF HandlerStep, BiasKept
<1>1. running = {} /\ edom \in BOOLEAN
    BY DEF SharedInv, TimersReleased, HandlersTypeOK
<1>2. /\ BiasMemory(Done) \/ BiasMemory(RangeError) \/ BiasMemory(NoMonitor) => SharedInv'
      /\ (\E ok \in BOOLEAN : GetBiasAnalogMonitor(ok) /\ Told(ok)) /\ BiasKept => SharedInv'
    BY <1>1, BiasMeasures DEF BiasMemory
<1>3. ASSUME NEW p \in Polarizations, NEW s \in Sidebands, SidebandHandler(p, s) PROVE SharedInv'
    <2>1. CASE SisHandler(p, s)
        BY <1>1, <1>2, <2>1
           DEF SisHandler, SisResistorAndVoltage, SisCurrentAndLoop, BiasMonitor, GetSisMixerBias,
               BiasCommand, SetSisMixerBias, SetSisMixerLoop
    <2>2. CASE SisMagnetHandler(p, s)
        BY <1>1, <1>2, <2>2
           DEF SisMagnetHandler, SisMagnetVoltageAndCurrent, BiasMonitor, GetSisMagnetBias,
               BiasCommand, SetSisMagnetBias
    <2>3. CASE LnaHandler(p, s)
        <3>1. ASSUME NEW ok \in BOOLEAN, SetLnaStage(ok) PROVE running' = {}
            BY <1>1, <3>1, WaitsRelease DEF SetLnaStage
        <3>2. CASE LnaStageHandler
            BY <1>1, <1>2, <3>1, <3>2
               DEF LnaStageHandler, LnaStageDrainVoltage, LnaStageDrainCurrentAndGate, BiasMonitor,
                   GetLnaStage, BiasCommand
        <3>3. ASSUME NEW on \in BOOLEAN, LnaEnablePair(p, on) PROVE Answered /\ UNCHANGED running
            BY <3>3, UntoldOK DEF LnaEnablePair, Unchecked
        <3>4. CASE LnaEnable(p, s)
            BY <1>1, <1>2, <3>3, <3>4 DEF LnaEnable, BiasCommand, SetLnaBiasEnable
        <3> QED BY <1>2, <2>3, <3>2, <3>4 DEF LnaHandler
    <2> QED BY <1>2, <1>3, <2>1, <2>2, <2>3 DEF SidebandHandler
<1>4. ASSUME NEW p \in Polarizations, PolarizationHandler(p) PROVE SharedInv'
    <2>1. CASE LnaLedEnable(p)
        BY <1>1, <1>2, <2>1 DEF LnaLedEnable, BiasCommand, SetLnaLedEnable
    <2>2. CASE SisHeaterHandler(p)
        BY <1>1, <1>2, <2>2
           DEF SisHeaterHandler, SisHeaterSwitch, SetSisHeaterEnable, BiasMonitor, GetSisHeater
    <2>3. CASE PolSpecialMsgsHandler(p)
        BY <1>1, <1>2, <2>3 DEF PolSpecialMsgsHandler, PolDacStrobe, SetBiasDacStrobe
    <2> QED BY <1>2, <1>3, <1>4, <2>1, <2>2, <2>3 DEF PolarizationHandler
<1>5. CASE CartridgeTempHandler
    <2>1. Answer("HARDW_CON_ERR", TRUE) => Answered
        BY AnswerOK DEF Statuses
    <2>2. \A ok \in BOOLEAN : Untold("cartridgeTemp", ok) => Answered
        BY UntoldOK DEF Unchecked
    <2> QED BY <1>1, <1>2, <1>5, <2>1, <2>2, BiasMeasures
            DEF CartridgeTempHandler, CartridgeTemp, CartridgeTempUnusable, TempOffset, GetTemp
<1>6. CASE AsyncCartridgeGoStandby2 \/ SetStandby2 \/ LeaveStandby2 \/ PowerCycle
           \/ \E p \in Polarizations : HeaterTimerExpires(p)
    BY <1>1, <1>6 DEF AsyncCartridgeGoStandby2, SetStandby2, LeaveStandby2, PowerCycle, HeaterTimerExpires
<1>7. CASE CartridgeHandler
    BY <1>1, <1>2, <1>4, <1>5, <1>7
       DEF CartridgeHandler, BiasMemory, BiasSubsystemHandler, CartridgeTempSubsystemHandler
<1> QED BY <1>6, <1>7 DEF BiasNext

\* What a message may do to the registers and the converters of the modules.
DacsAvailable == {d \in BiasDacs : (d[1] = "sis" => SisAvailable) /\ (d[1] = "magnet" => SisMagnetAvailable)}
Heater == <<"heater", 0>>

BitWritten == \E p \in Polarizations, bit \in BiasBits \ {Heater}, on, ok \in BOOLEAN :
                  WriteBiasBReg(p, bit, on, ok)
PairWritten == \E p \in Polarizations, reg \in SUBSET BiasBits :
                  /\ biasBReg' = reg /\ biasHw' = [biasHw EXCEPT ![p] = reg]
                  /\ UNCHANGED biasDac
DacWritten == \E p \in Polarizations, d \in DacsAvailable, nonzero, ok \in BOOLEAN :
                  WriteBiasDac2(p, d, nonzero, ok)
Strobed == /\ \E p \in Polarizations : biasDac' \in {biasDac, [biasDac EXCEPT ![p] = {}]}
           /\ UNCHANGED <<biasBReg, biasHw>>

BiasStep ==
    /\ UNCHANGED <<band, standby2, goingStandby2, spared>>
    /\ \/ UNCHANGED <<biasRegisters, heaterTimer>>
       \/ ~standby2 /\ (BitWritten \/ PairWritten \/ DacWritten) /\ UNCHANGED heaterTimer
       \/ Strobed /\ UNCHANGED heaterTimer
       \/ ~standby2 /\ \E p \in Polarizations, on \in BOOLEAN : SisHeaterSwitch(p, on)

LEMMA BitsAre ==
    /\ \A s \in Sidebands : <<"lna", s>> \in BiasBits \ {Heater} /\ <<"loop", s>> \in BiasBits \ {Heater}
    /\ <<"led", 0>> \in BiasBits \ {Heater} /\ Heater \in BiasBits
    /\ \A s \in Sidebands : <<"sis", s>> \in BiasDacs /\ <<"magnet", s>> \in BiasDacs
    /\ \A s \in Sidebands : /\ SisAvailable => <<"sis", s>> \in DacsAvailable
                            /\ SisMagnetAvailable => <<"magnet", s>> \in DacsAvailable
    /\ DacsAvailable \subseteq BiasDacs
BY DEF BiasBits, Heater, Sidebands, BiasDacs, DacsAvailable

LEMMA MessageSteps ==
    ASSUME BiasTypeOK, CartridgeHandler
    PROVE  BiasStep
<1> USE DEF BiasKept
<1> DEFINE Left == UNCHANGED <<band, standby2, goingStandby2, spared, biasRegisters, heaterTimer>>
<1>1. /\ \A Reply : BiasMemory(Reply) => Left
      /\ Left => BiasStep
    BY DEF BiasMemory, BiasStep
<1>2. ASSUME NEW p \in Polarizations, NEW s \in Sidebands, SidebandHandler(p, s) PROVE BiasStep
    <2>1. CASE SisHandler(p, s)
        <3>1. CASE SisResistorAndVoltage(p, s) /\ SisAvailable
            <4>1. ASSUME NEW nonzero \in BOOLEAN, NEW ok \in BOOLEAN, SetSisMixerBias(p, s, nonzero, ok)
                  PROVE  DacWritten
                BY <3>1, <4>1, BitsAre DEF SetSisMixerBias, DacWritten
            <4> QED BY <1>1, <3>1, <4>1
                    DEF SisResistorAndVoltage, BiasMonitor, BiasMemory, BiasCommand, BiasStep
        <3>2. CASE SisCurrentAndLoop(p, s)
            <4>1. ASSUME NEW open \in BOOLEAN, NEW ok \in BOOLEAN, SetSisMixerLoop(p, s, open, ok)
                  PROVE  BitWritten
                BY <4>1, BitsAre DEF SetSisMixerLoop, BitWritten
            <4> QED BY <1>1, <3>2, <4>1
                    DEF SisCurrentAndLoop, BiasMonitor, BiasMemory, BiasCommand, BiasStep
        <3> QED BY <1>1, <2>1, <3>1, <3>2 DEF SisHandler, BiasMemory
    <2>2. CASE SisMagnetHandler(p, s)
        <3>1. ASSUME SisMagnetAvailable, NEW nonzero \in BOOLEAN, NEW ok \in BOOLEAN,
                     SetSisMagnetBias(p, s, nonzero, ok)
              PROVE  DacWritten
            BY <3>1, BitsAre DEF SetSisMagnetBias, DacWritten
        <3> QED BY <1>1, <2>2, <3>1
                DEF SisMagnetHandler, SisMagnetVoltageAndCurrent, BiasMonitor, BiasMemory, BiasCommand,
                    BiasStep
    <2>3. CASE LnaHandler(p, s)
        <3>1. CASE LnaStageHandler
            BY <1>1, <3>1
               DEF LnaStageHandler, LnaStageDrainVoltage, LnaStageDrainCurrentAndGate, BiasMonitor,
                   BiasMemory, BiasCommand, SetLnaStage
        <3>2. CASE LnaEnable(p, s)
            <4>1. ASSUME NEW on \in BOOLEAN, LnaEnablePair(p, on)
                  PROVE  PairWritten \/ UNCHANGED biasRegisters
                <5>1. PICK ok \in BOOLEAN, okPair \in BOOLEAN :
                        LET written == (IF ok THEN {<<"lna", 0>>} ELSE {})
                                       \cup (IF okPair THEN {<<"lna", 1>>} ELSE {})
                            reg == IF on THEN biasBReg \cup written ELSE biasBReg \ written
                        IN  /\ IF Simulated \/ written = {} THEN UNCHANGED <<biasBReg, biasHw>>
                               ELSE biasBReg' = reg /\ biasHw' = [biasHw EXCEPT ![p] = reg]
                            /\ UNCHANGED biasDac
                    BY <4>1 DEF LnaEnablePair
                <5> DEFINE written == (IF ok THEN {<<"lna", 0>>} ELSE {})
                                      \cup (IF okPair THEN {<<"lna", 1>>} ELSE {})
                           reg == IF on THEN biasBReg \cup written ELSE biasBReg \ written
                <5>2. written \subseteq BiasBits \ {Heater}
                    BY BitsAre DEF Sidebands
                <5>3. reg \in SUBSET BiasBits
                    BY <5>2 DEF BiasTypeOK
                <5> QED BY <5>1, <5>3 DEF PairWritten, biasRegisters
            <4>2. ASSUME NEW on \in BOOLEAN, NEW ok \in BOOLEAN, SetLnaBiasEnable(p, s, on, ok)
                  PROVE  BitWritten
                BY <4>2, BitsAre DEF SetLnaBiasEnable, BitWritten
            <4> QED BY <1>1, <3>2, <4>1, <4>2 DEF LnaEnable, BiasMemory, BiasCommand, BiasStep
        <3> QED BY <1>1, <2>3, <3>1, <3>2 DEF LnaHandler, BiasMemory
    <2> QED BY <1>1, <1>2, <2>1, <2>2, <2>3 DEF SidebandHandler, BiasMemory
<1>3. ASSUME NEW p \in Polarizations, PolarizationHandler(p) PROVE BiasStep
    <2>1. CASE LnaLedEnable(p)
        <3>1. ASSUME NEW on \in BOOLEAN, NEW ok \in BOOLEAN, SetLnaLedEnable(p, on, ok) PROVE BitWritten
            BY <3>1, BitsAre DEF SetLnaLedEnable, BitWritten
        <3> QED BY <1>1, <2>1, <3>1 DEF LnaLedEnable, BiasMemory, BiasCommand, BiasStep
    <2>2. CASE SisHeaterHandler(p)
        <3>1. ASSUME NEW on \in BOOLEAN, SisHeaterSwitch(p, on) PROVE BiasStep
            BY <1>1, <3>1 DEF SisHeaterSwitch, BiasStep
        <3> QED BY <1>1, <2>2, <3>1 DEF SisHeaterHandler, BiasMonitor, BiasMemory
    <2>3. CASE PolSpecialMsgsHandler(p)
        <3>1. ASSUME NEW ok \in BOOLEAN, SetBiasDacStrobe(p, ok) PROVE Strobed
            <4>1. biasDac = [biasDac EXCEPT ![p] = biasDac[p]]
                BY DEF BiasTypeOK
            <4> QED BY <3>1, <4>1 DEF SetBiasDacStrobe, Strobed
        <3> QED BY <1>1, <2>3, <3>1 DEF PolSpecialMsgsHandler, PolDacStrobe, BiasMemory, BiasStep
    <2> QED BY <1>1, <1>2, <1>3, <2>1, <2>2, <2>3 DEF PolarizationHandler, BiasMemory
<1>4. CASE CartridgeTempSubsystemHandler
    BY <1>1, <1>4
       DEF CartridgeTempSubsystemHandler, CartridgeTempHandler, CartridgeTemp, CartridgeTempUnusable,
           TempOffset, BiasMemory
<1> QED BY <1>1, <1>3, <1>4 DEF CartridgeHandler, BiasSubsystemHandler, BiasMemory

\* Only the converters a cartridge has are ever set.
BiasInv ==
    /\ BiasTypeOK
    /\ \A p \in Polarizations : biasDac[p] \subseteq DacsAvailable
    /\ Standby2IsDark

LEMMA BiasInitInv == BiasInit => BiasInv
BY DEF BiasInit, BiasInv, BiasTypeOK, Standby2IsDark

LEMMA BiasUnchanged == BiasInv /\ UNCHANGED biasVars => BiasInv'
BY DEF BiasInv, BiasTypeOK, Standby2IsDark, biasVars, biasRegisters, DacsAvailable, SisAvailable,
       SisMagnetAvailable

LEMMA BitWrittenEffect ==
    ASSUME BiasTypeOK, BitWritten
    PROVE  \/ UNCHANGED biasRegisters
           \/ \E p \in Polarizations, reg \in SUBSET BiasBits :
                 /\ biasBReg' = reg /\ biasHw' = [biasHw EXCEPT ![p] = reg]
                 /\ UNCHANGED biasDac
<1>1. PICK p \in Polarizations, bit \in BiasBits \ {Heater}, on \in BOOLEAN, ok \in BOOLEAN :
          WriteBiasBReg(p, bit, on, ok)
    BY DEF BitWritten
<1>2. With(biasBReg, bit, on) \in SUBSET BiasBits
    BY DEF With, BiasTypeOK
<1> QED BY <1>1, <1>2 DEF WriteBiasBReg

LEMMA BiasStepInv ==
    ASSUME BiasInv, BiasStep
    PROVE  BiasInv'
<1>0. UNCHANGED <<band, standby2, goingStandby2, spared>> /\ DacsAvailable' = DacsAvailable
    BY DEF BiasStep, DacsAvailable, SisAvailable, SisMagnetAvailable
<1>1. CASE UNCHANGED <<biasRegisters, heaterTimer>>
    BY <1>0, <1>1, BiasUnchanged DEF biasVars
<1>2. CASE ~standby2 /\ (BitWritten \/ PairWritten) /\ UNCHANGED heaterTimer
    <2>1. biasBReg' \subseteq BiasBits /\ biasHw' \in [Polarizations -> SUBSET BiasBits] /\ UNCHANGED biasDac
        BY <1>2, BitWrittenEffect DEF PairWritten, BiasInv, BiasTypeOK, biasRegisters
    <2> QED BY <1>0, <1>2, <2>1 DEF BiasInv, BiasTypeOK, Standby2IsDark
<1>3. CASE ~standby2 /\ DacWritten /\ UNCHANGED heaterTimer
    <2>1. PICK p \in Polarizations, d \in DacsAvailable, nonzero \in BOOLEAN, ok \in BOOLEAN :
              WriteBiasDac2(p, d, nonzero, ok)
        BY <1>3 DEF DacWritten
    <2>2. With(biasDac[p], d, nonzero) \in SUBSET DacsAvailable
        BY DEF With, BiasInv
    <2>3. biasDac' \in [Polarizations -> SUBSET DacsAvailable] /\ UNCHANGED <<biasBReg, biasHw>>
        BY <2>1, <2>2 DEF WriteBiasDac2, BiasInv, BiasTypeOK, biasRegisters
    <2>4. biasDac' \in [Polarizations -> SUBSET BiasDacs]
        BY <2>3, BitsAre
    <2> QED BY <1>0, <1>3, <2>3, <2>4 DEF BiasInv, BiasTypeOK, Standby2IsDark
<1>4. CASE Strobed /\ UNCHANGED heaterTimer
    <2>1. UNCHANGED <<biasBReg, biasHw>>
        BY <1>4 DEF Strobed
    <2>2. /\ biasDac' \in [Polarizations -> SUBSET BiasDacs]
          /\ \A p \in Polarizations : biasDac'[p] \subseteq biasDac[p]
        BY <1>4 DEF Strobed, BiasInv, BiasTypeOK
    <2> QED BY <1>0, <1>4, <2>1, <2>2 DEF BiasInv, BiasTypeOK, Standby2IsDark
<1>5. CASE ~standby2 /\ \E p \in Polarizations, on \in BOOLEAN : SisHeaterSwitch(p, on)
    <2>1. PICK p \in Polarizations, on \in BOOLEAN : SisHeaterSwitch(p, on)
        BY <1>5
    <2>2. /\ biasBReg' \subseteq BiasBits /\ biasHw' \in [Polarizations -> SUBSET BiasBits]
          /\ UNCHANGED biasDac
        BY <2>1, BitsAre
           DEF SisHeaterSwitch, SetSisHeaterEnable, WriteBiasBReg, With, biasRegisters, BiasInv,
               BiasTypeOK, Heater
    <2>3. heaterTimer' \in [Polarizations -> {"NOT_RUNNING", "RUNNING", "EXPIRED"}]
        BY <2>1 DEF SisHeaterSwitch, BiasInv, BiasTypeOK
    <2> QED BY <1>0, <1>5, <2>2, <2>3 DEF BiasInv, BiasTypeOK, Standby2IsDark
<1> QED BY <1>1, <1>2, <1>3, <1>4, <1>5 DEF BiasStep

\* The writes of the change to STANDBY2 and the bits they name.
Standby2Writes == LnaGoStandby2 \o LnaLedGoStandby2
LightBits == {<<"lna", 0>>, <<"lna", 1>>, <<"led", 0>>}

\* What a write of the change to STANDBY2 names is off in the module it is made
\* to, whichever of the other writes are made.
LEMMA OnlySpared ==
    ASSUME NEW failed, NEW p \in Polarizations, NEW d, d \in LightBits,
           d \in RegistersAfter(Standby2Writes, failed).hw[p]
    PROVE  /\ d \in biasBReg \cup biasHw[p]
           /\ \E i \in failed : Standby2Writes[i][1] = p /\ Standby2Writes[i][2] = d
<1> DEFINE made == DOMAIN Standby2Writes \ failed
           MadeTo == {i \in made : Standby2Writes[i][1] = p}
           UpTo == {k \in made : \E i \in MadeTo : k <= i}
<1>1. /\ DOMAIN Standby2Writes = 1 .. 6
      /\ Standby2Writes[1] = <<0, <<"lna", 0>>>> /\ Standby2Writes[2] = <<0, <<"lna", 1>>>>
      /\ Standby2Writes[3] = <<1, <<"lna", 0>>>> /\ Standby2Writes[4] = <<1, <<"lna", 1>>>>
      /\ Standby2Writes[5] = <<0, <<"led", 0>>>> /\ Standby2Writes[6] = <<1, <<"led", 0>>>>
    BY DEF Standby2Writes, LnaGoStandby2, LnaLedGoStandby2
<1>2. PICK i \in 1 .. 6 : Standby2Writes[i][1] = p /\ Standby2Writes[i][2] = d
    <2>1. p = 0 \/ p = 1
        BY DEF Polarizations
    <2>2. /\ Standby2Writes[1][1] = 0 /\ Standby2Writes[2][1] = 0 /\ Standby2Writes[5][1] = 0
          /\ Standby2Writes[3][1] = 1 /\ Standby2Writes[4][1] = 1 /\ Standby2Writes[6][1] = 1
          /\ Standby2Writes[1][2] = <<"lna", 0>> /\ Standby2Writes[2][2] = <<"lna", 1>> /\ Standby2Writes[5][2] = <<"led", 0>>
          /\ Standby2Writes[3][2] = <<"lna", 0>> /\ Standby2Writes[4][2] = <<"lna", 1>> /\ Standby2Writes[6][2] = <<"led", 0>>
        BY <1>1
    <2> QED BY <2>1, <2>2 DEF LightBits
<1>3. RegistersAfter(Standby2Writes, failed).hw[p] =
          IF MadeTo = {} THEN biasHw[p] ELSE biasBReg \ {Standby2Writes[k][2] : k \in UpTo}
    BY DEF RegistersAfter
<1>4. i \in failed
    <2>1. SUFFICES ASSUME i \notin failed PROVE FALSE
        OBVIOUS
    <2>2. i \in made
        BY <1>1, <2>1
    <2>3. i \in MadeTo
        BY <1>2, <2>2
    <2>4. i \in UpTo
        BY <2>2, <2>3
    <2> QED BY <1>2, <1>3, <2>3, <2>4
<1> QED BY <1>2, <1>3, <1>4

LEMMA WrittenOK ==
    ASSUME BiasTypeOK, NEW writes, NEW failed
    PROVE  /\ RegistersAfter(writes, failed).copy \subseteq BiasBits
           /\ RegistersAfter(writes, failed).hw \in [Polarizations -> SUBSET BiasBits]
<1> DEFINE MadeTo(p) == {i \in DOMAIN writes \ failed : writes[i][1] = p}
           Kept(p) == IF MadeTo(p) = {} THEN biasHw[p]
                      ELSE biasBReg \ {writes[k][2] : k \in {k \in DOMAIN writes \ failed :
                                                             \E i \in MadeTo(p) : k <= i}}
<1>1. \A p \in Polarizations : Kept(p) \in SUBSET BiasBits
    BY DEF BiasTypeOK
<1> HIDE DEF Kept
<1>2. [p \in Polarizations |-> Kept(p)] \in [Polarizations -> SUBSET BiasBits]
    BY <1>1
<1> QED BY <1>2 DEF RegistersAfter, Kept, BiasTypeOK

LEMMA GoStandby2Inv ==
    ASSUME BiasInv, AsyncCartridgeGoStandby2
    PROVE  BiasInv'
<1> DEFINE zeroed == UNION {SisGoStandby2(s) \cup SisMagnetGoStandby2(s) : s \in Sidebands}
           NotMadeTo(p, failed) == {Standby2Writes[i][2] : i \in {k \in failed : Standby2Writes[k][1] = p}}
<1>0. UNCHANGED <<band, standby2, heaterTimer>> /\ DacsAvailable' = DacsAvailable /\ goingStandby2' = FALSE
    BY DEF AsyncCartridgeGoStandby2, DacsAvailable, SisAvailable, SisMagnetAvailable
<1>1. PICK failed \in NotMade(DOMAIN Standby2Writes), kept0 \in NotMade(biasDac[0] \cap zeroed),
           kept1 \in NotMade(biasDac[1] \cap zeroed) :
          /\ biasBReg' = RegistersAfter(Standby2Writes, failed).copy
          /\ biasHw' = RegistersAfter(Standby2Writes, failed).hw
          /\ biasDac' = [p \in Polarizations |-> (biasDac[p] \ zeroed) \cup <<kept0, kept1>>[p + 1]]
          /\ spared' = [p \in Polarizations |->
                 (NotMadeTo(p, failed) \cap (biasBReg \cup biasHw[p])) \cup <<kept0, kept1>>[p + 1]]
    BY DEF AsyncCartridgeGoStandby2, Standby2Writes
<1>2. kept0 \subseteq biasDac[0] /\ kept1 \subseteq biasDac[1]
    BY DEF NotMade
<1>3. biasBReg' \subseteq BiasBits /\ biasHw' \in [Polarizations -> SUBSET BiasBits]
    BY <1>1, WrittenOK DEF BiasInv
<1> HIDE DEF NotMadeTo, zeroed
<1>4. biasDac'[0] = (biasDac[0] \ zeroed) \cup kept0 /\ biasDac'[1] = (biasDac[1] \ zeroed) \cup kept1
    BY <1>1 DEF Polarizations
<1>5. /\ spared'[0] = (NotMadeTo(0, failed) \cap (biasBReg \cup biasHw[0])) \cup kept0
      /\ spared'[1] = (NotMadeTo(1, failed) \cap (biasBReg \cup biasHw[1])) \cup kept1
    BY <1>1 DEF Polarizations
<1>6. \A p \in Polarizations : biasDac'[p] \subseteq biasDac[p]
    BY <1>2, <1>4 DEF Polarizations
<1>7. biasDac' \in [Polarizations -> SUBSET BiasDacs]
    BY <1>1, <1>6 DEF BiasInv, BiasTypeOK
<1>8. spared' \in [Polarizations -> SUBSET (BiasBits \cup BiasDacs)]
    <2>1. biasBReg \cup biasHw[0] \cup biasHw[1] \subseteq BiasBits /\ biasDac[0] \cup biasDac[1] \subseteq BiasDacs
        BY DEF BiasInv, BiasTypeOK, Polarizations
    <2>2. \A p \in Polarizations : spared'[p] \subseteq BiasBits \cup BiasDacs
        BY <1>2, <1>5, <2>1 DEF Polarizations
    <2> QED BY <1>1, <2>2
<1>9. DacsAvailable \subseteq zeroed
    BY DEF DacsAvailable, BiasDacs, Sidebands, SisGoStandby2, SisMagnetGoStandby2, zeroed
<1>10. \A p \in Polarizations : biasDac'[p] \subseteq spared'[p]
    BY <1>4, <1>5, <1>9 DEF BiasInv, Polarizations
<1>11. \A p \in Polarizations : biasHw'[p] \cap LightBits \subseteq spared'[p]
    <2>1. \A p \in Polarizations : NotMadeTo(p, failed) \cap (biasBReg \cup biasHw[p]) \subseteq spared'[p]
        BY <1>5 DEF Polarizations
    <2>2. \A p \in Polarizations : biasHw'[p] \cap LightBits \subseteq NotMadeTo(p, failed) \cap (biasBReg \cup biasHw[p])
        <3>1. ASSUME NEW p \in Polarizations, NEW d \in LightBits, d \in biasHw'[p]
              PROVE  d \in NotMadeTo(p, failed) /\ d \in biasBReg \cup biasHw[p]
            <4>1. d \in RegistersAfter(Standby2Writes, failed).hw[p]
                BY <1>1, <3>1
            <4>2. /\ d \in biasBReg \cup biasHw[p]
                  /\ \E i \in failed : Standby2Writes[i][1] = p /\ Standby2Writes[i][2] = d
                BY <4>1, OnlySpared
            <4> QED BY <4>2 DEF NotMadeTo
        <3> QED BY <3>1
    <2> QED BY <2>1, <2>2
<1>12. Standby2IsDark'
    BY <1>10, <1>11 DEF Standby2IsDark, LightBits
<1> QED BY <1>0, <1>3, <1>6, <1>7, <1>8, <1>12 DEF BiasInv, BiasTypeOK

LEMMA BiasNextInv == BiasInv /\ BiasNext => BiasInv'
<1> SUFFICES ASSUME BiasInv, BiasNext PROVE BiasInv'
    OBVIOUS
<1> DEFINE Nothing == [p \in Polarizations |-> {}]
<1>1. CASE CartridgeHandler
    BY <1>1, MessageSteps, BiasStepInv DEF BiasInv
<1>2. CASE SetStandby2
    <2>1. /\ UNCHANGED <<band, biasRegisters, heaterTimer>>
          /\ standby2' = TRUE /\ goingStandby2' = TRUE /\ spared' = Nothing
        BY <1>2 DEF SetStandby2
    <2> QED BY <2>1
            DEF BiasInv, BiasTypeOK, Standby2IsDark, biasRegisters, DacsAvailable, SisAvailable,
                SisMagnetAvailable
<1>3. CASE LeaveStandby2
    <2>1. /\ UNCHANGED <<band, biasRegisters, heaterTimer, goingStandby2>>
          /\ standby2' = FALSE /\ spared' = Nothing
        BY <1>3 DEF LeaveStandby2
    <2> QED BY <2>1
            DEF BiasInv, BiasTypeOK, Standby2IsDark, biasRegisters, DacsAvailable, SisAvailable,
                SisMagnetAvailable
<1>4. CASE PowerCycle
    <2>1. /\ UNCHANGED <<band, biasBReg, heaterTimer>>
          /\ standby2' \in BOOLEAN /\ goingStandby2' = FALSE /\ spared' = Nothing
          /\ biasHw' = Nothing /\ biasDac' = Nothing
        BY <1>4 DEF PowerCycle
    <2> QED BY <2>1 DEF BiasInv, BiasTypeOK, Standby2IsDark
<1>5. ASSUME NEW p \in Polarizations, HeaterTimerExpires(p) PROVE BiasInv'
    <2>1. /\ UNCHANGED <<band, standby2, biasRegisters, goingStandby2, spared>>
          /\ heaterTimer' \in [Polarizations -> {"NOT_RUNNING", "RUNNING", "EXPIRED"}]
        BY <1>5 DEF HeaterTimerExpires, BiasInv, BiasTypeOK
    <2> QED BY <2>1
            DEF BiasInv, BiasTypeOK, Standby2IsDark, biasRegisters, DacsAvailable, SisAvailable,
                SisMagnetAvailable
<1> QED BY <1>1, <1>2, <1>3, <1>4, <1>5, GoStandby2Inv DEF BiasNext

-----------------------------------------------------------------------------
(* The one wire bus                                                        *)

\* The order in which the search finds the devices.
Before(r, s) == \E p \in Positions : Agree(r, s, p) /\ r[p] = 0 /\ s[p] = 1
Earlier(r) == {s \in onBus : Before(s, r)}

\* The doubts at which the device that is reached takes the second way.
Decided(r) == {p \in Doubts(r) : r[p] = 1}

\* A search that heard everything has found the devices before the one it
\* reaches next, and TREE holds the second ways to it.
SearchInv ==
    /\ \A d, e \in 0 .. (pass - 1) : ESNS[d] = ESNS[e] => d = e
    /\ \A r \in Roms : Reached(r) => /\ tree = Decided(r)
                                     /\ {ESNS[d] : d \in 0 .. (pass - 1)} = Earlier(r)

OwbInv ==
    /\ OwbTypeOK
    /\ search \in {"start", "message", "console"} /\ heard => SearchInv
    /\ search = "start" => esnDevice = 0
    /\ ~overtaken => esnDevice <= esnDevicesFound
    /\ EsnsAreTold

LEMMA BusIs == \A b \in Buses : b \subseteq Roms /\ IsFiniteSet(b)
BY OneWireAssumption

LEMMA PositionsAre == Positions \subseteq Nat /\ 0 \in Slots
BY OneWireAssumption DEF Positions, Slots

LEMMA RomBitsAre == \A r \in Roms, p \in Positions : r[p] \in {0, 1}
BY DEF Roms

\* Two numbers differ somewhere first.
LEMMA FirstDifference ==
    ASSUME NEW r \in Roms, NEW s \in Roms, r # s
    PROVE  \E p \in Positions : Agree(r, s, p) /\ r[p] # s[p]
<1> DEFINE D == {p \in Positions : r[p] # s[p]}
<1>1. D # {} /\ D \subseteq Nat
    <2>1. r = [p \in Positions |-> r[p]] /\ s = [p \in Positions |-> s[p]]
        BY DEF Roms
    <2>2. ~(\A p \in Positions : r[p] = s[p])
        BY <2>1, Zenon
    <2> QED BY <2>2, PositionsAre
<1> HIDE DEF D
<1>2. PICK p \in D : \A q \in D : ~(<<q, p>> \in OpToRel(<, Nat))
    BY <1>1, NatLessThanWellFounded, WFMin
<1>3. \A q \in D : ~(q < p)
    BY <1>1, <1>2 DEF OpToRel
<1>4. p \in Positions /\ r[p] # s[p]
    BY DEF D
<1>5. \A q \in 0 .. (p - 1) : r[q] = s[q]
    BY <1>3, <1>4, OneWireAssumption DEF D, Positions
<1> QED BY <1>4, <1>5 DEF Agree

\* The order is strict.
LEMMA BeforeIsStrict ==
    ASSUME NEW r \in Roms, NEW s \in Roms, Before(r, s)
    PROVE  ~Before(s, r) /\ r # s
<1>1. PICK p \in Positions : Agree(r, s, p) /\ r[p] = 0 /\ s[p] = 1
    BY DEF Before
<1>2. ASSUME NEW q \in Positions, Agree(s, r, q), s[q] = 0, r[q] = 1 PROVE FALSE
    <2>1. CASE q < p
        BY <1>1, <1>2, <2>1 DEF Agree, Positions
    <2>2. CASE p < q
        BY <1>1, <1>2, <2>2 DEF Agree, Positions
    <2>3. CASE p = q
        BY <1>1, <1>2, <2>3
    <2> QED BY <2>1, <2>2, <2>3, PositionsAre
<1> QED BY <1>1, <1>2 DEF Before

\* The first device reached is the first of all.
LEMMA FirstReached ==
    ASSUME OwbTypeOK, NEW r \in Roms, Reached(r), transmit = Zeros
    PROVE  Decided(r) = {} /\ Earlier(r) = {}
<1>1. \A p \in Doubts(r) : r[p] = 0
    BY DEF Reached, Zeros, Doubts
<1>2. ASSUME NEW s \in onBus, NEW p \in Positions, Agree(s, r, p), s[p] = 0, r[p] = 1
      PROVE  FALSE
    <2>1. Agree(r, s, p)
        BY <1>2 DEF Agree
    <2> QED BY <1>1, <1>2, <2>1 DEF Doubts
<1> QED BY <1>1, <1>2 DEF Decided, Earlier, Before

\* When every doubt is decided, the device reached is the last.
LEMMA LastReached ==
    ASSUME OwbTypeOK, NEW r \in Roms, Reached(r), Doubts(r) \subseteq Decided(r)
    PROVE  onBus = Earlier(r) \cup {r}
<1>1. ASSUME NEW s \in onBus, s # r PROVE Before(s, r)
    <2>1. s \in Roms
        BY BusIs DEF OwbTypeOK
    <2>2. PICK p \in Positions : Agree(r, s, p) /\ r[p] # s[p]
        BY <1>1, <2>1, FirstDifference
    <2>3. r[p] = 1 /\ s[p] = 0
        BY <1>1, <2>1, <2>2, RomBitsAre DEF Doubts, Decided
    <2> QED BY <2>2, <2>3 DEF Before, Agree
<1> QED BY <1>1 DEF Earlier, Reached

\* A doubt that is not decided leads to one more device, which comes later.
LEMMA AnotherDevice ==
    ASSUME OwbTypeOK, NEW r \in Roms, NEW p \in Doubts(r) \ Decided(r)
    PROVE  \E t \in onBus : Agree(r, t, p) /\ t[p] = 1 /\ t \notin Earlier(r) \cup {r}
<1>1. PICK t \in onBus : Agree(r, t, p) /\ t[p] # r[p]
    BY DEF Doubts
<1>2. p \in Positions /\ t \in Roms
    BY BusIs DEF OwbTypeOK, Doubts
<1>3. r[p] = 0 /\ t[p] = 1
    BY <1>1, <1>2, RomBitsAre DEF Decided
<1>4. Before(r, t)
    BY <1>1, <1>2, <1>3 DEF Before
<1> QED BY <1>1, <1>2, <1>3, <1>4, BeforeIsStrict DEF Earlier

\* What RecoverROM sends next leads to the device that comes next.
LEMMA NextReached ==
    ASSUME OwbTypeOK, UNCHANGED onBus,
           NEW r \in Roms, Reached(r), tree = Decided(r), RecoverROM(r, Doubts(r)),
           ~(Doubts(r) \subseteq tree), NEW s \in Roms, Reached(s)'
    PROVE  tree' = Decided(s)' /\ Earlier(s)' = Earlier(r) \cup {r}
<1>0. Doubts(s)' = Doubts(s) /\ Decided(s)' = Decided(s) /\ Earlier(s)' = Earlier(s)
    BY DEF Doubts, Decided, Earlier
<1>1. PICK p \in Doubts(r) \ tree :
            /\ \A q \in Doubts(r) \ tree : q <= p
            /\ tree' = {q \in tree : q < p \/ q \notin Doubts(r)} \cup {p}
            /\ transmit' = [q \in Positions |->
                    CASE q < p -> r[q] [] q = p -> 1 - r[q] [] OTHER -> 0]
    BY DEF RecoverROM
<1>2. p \in Positions /\ r \in onBus /\ s \in onBus /\ r[p] = 0
    BY <1>1, RomBitsAre DEF Doubts, Decided, Reached
<1>3. \A q \in Doubts(s) : s[q] = transmit'[q]
    BY <1>0 DEF Reached
<1>4. Agree(r, s, p)
    <2>1. CASE r = s
        BY <2>1 DEF Agree
    <2>2. CASE r # s
        <3>1. PICK q \in Positions : Agree(r, s, q) /\ r[q] # s[q]
            BY <2>2, FirstDifference
        <3>2. q \in Doubts(s)
            BY <1>2, <3>1 DEF Doubts, Agree
        <3>3. ~(q < p)
            <4>1. q < p => transmit'[q] = r[q]
                BY <1>1, <3>1 DEF Positions
            <4> QED BY <1>3, <3>1, <3>2, <4>1
        <3> QED BY <1>2, <3>1, <3>3 DEF Agree, Positions
    <2> QED BY <2>1, <2>2
<1>5. s[p] = 1 /\ p \in Doubts(s)
    <2>1. PICK t \in onBus : Agree(r, t, p) /\ t[p] = 1
        BY <1>1, AnotherDevice
    <2>2. Agree(s, t, p) /\ Agree(s, r, p)
        BY <1>4, <2>1 DEF Agree
    <2>3. p \in Doubts(s)
        BY <1>2, <2>1, <2>2 DEF Doubts
    <2> QED BY <1>1, <1>2, <1>3, <2>3
<1>6. ASSUME NEW q \in Positions, q < p
      PROVE  /\ s[q] = r[q] /\ (q \in Doubts(s) <=> q \in Doubts(r))
             /\ \A t \in onBus : Agree(t, s, q) <=> Agree(t, r, q)
    <2>1. \A i \in 0 .. q : i \in 0 .. (p - 1)
        BY <1>2, <1>6 DEF Positions
    <2>2. \A i \in 0 .. q : s[i] = r[i]
        BY <1>4, <2>1 DEF Agree
    <2>3. s[q] = r[q]
        BY <2>2 DEF Positions
    <2>4. \A t \in onBus : (Agree(s, t, q) <=> Agree(r, t, q)) /\ (Agree(t, s, q) <=> Agree(t, r, q))
        BY <2>2 DEF Agree, Positions
    <2> QED BY <2>3, <2>4 DEF Doubts
<1>7. ASSUME NEW q \in Doubts(s), p < q PROVE s[q] = 0
    BY <1>1, <1>2, <1>3, <1>7 DEF Doubts, Positions
<1>8. tree' = Decided(s)
    <2>1. ASSUME NEW q \in Positions PROVE q \in tree' <=> q \in Decided(s)
        <3>1. CASE q < p
            BY <1>1, <1>2, <1>6, <3>1 DEF Decided, Positions
        <3>2. CASE q = p
            BY <1>1, <1>5, <3>2 DEF Decided
        <3>3. CASE p < q
            BY <1>1, <1>2, <1>7, <3>3 DEF Decided, Positions
        <3> QED BY <1>2, <3>1, <3>2, <3>3, PositionsAre
    <2>2. tree' \subseteq Positions /\ Decided(s) \subseteq Positions
        BY <1>1 DEF Doubts, Decided
    <2> QED BY <2>1, <2>2
<1>9. r \in Earlier(s)
    BY <1>2, <1>4, <1>5 DEF Earlier, Before
<1>10. ASSUME NEW t \in Earlier(r) PROVE t \in Earlier(s)
    <2>1. PICK q \in Positions : Agree(t, r, q) /\ t[q] = 0 /\ r[q] = 1
        BY <1>10 DEF Earlier, Before
    <2>2. CASE q < p
        <3>1. t \in onBus /\ Agree(t, s, q) /\ s[q] = 1
            BY <1>6, <1>10, <2>1, <2>2 DEF Earlier
        <3> QED BY <2>1, <3>1 DEF Earlier, Before
    <2>3. CASE p < q
        <3>1. Agree(t, s, p) /\ t[p] = 0
            BY <1>2, <1>4, <2>1, <2>3 DEF Agree, Positions
        <3> QED BY <1>2, <1>5, <3>1 DEF Earlier, Before
    <2> QED BY <1>2, <2>1, <2>2, <2>3, PositionsAre
<1>11. ASSUME NEW t \in Earlier(s), t # r PROVE t \in Earlier(r)
    <2>1. PICK q \in Positions : Agree(t, s, q) /\ t[q] = 0 /\ s[q] = 1
        BY <1>11 DEF Earlier, Before
    <2>2. t \in onBus /\ t \in Roms
        BY BusIs DEF Earlier, OwbTypeOK
    <2>3. Agree(s, t, q) /\ q \in Doubts(s)
        BY <2>1, <2>2 DEF Doubts, Agree
    <2>4. ~(p < q)
        BY <1>7, <2>1, <2>3
    <2>5. CASE q < p
        <3>1. Agree(t, r, q) /\ r[q] = 1
            BY <1>6, <2>1, <2>2, <2>5
        <3> QED BY <2>1, <2>2, <3>1 DEF Earlier, Before
    <2>6. CASE q = p
        <3>1. PICK i \in Positions : Agree(r, t, i) /\ r[i] # t[i]
            BY <1>11, <2>2, FirstDifference
        <3>2. Agree(t, r, p) /\ t[p] = 0
            BY <1>4, <2>1, <2>6 DEF Agree
        <3>3. p < i
            BY <1>2, <3>1, <3>2 DEF Agree, Positions
        <3>4. i \in Doubts(r) /\ i \in tree
            <4>1. i \in Doubts(r)
                BY <2>2, <3>1 DEF Doubts
            <4> QED BY <1>1, <1>2, <3>3, <4>1 DEF Positions
        <3>5. r[i] = 1 /\ t[i] = 0
            BY <2>2, <3>1, <3>4, RomBitsAre DEF Decided
        <3>6. Agree(t, r, i)
            BY <3>1 DEF Agree
        <3> QED BY <2>2, <3>5, <3>6 DEF Earlier, Before
    <2> QED BY <1>2, <2>4, <2>5, <2>6, PositionsAre
<1>12. Earlier(s) = Earlier(r) \cup {r}
    BY <1>9, <1>10, <1>11
<1> QED BY <1>0, <1>8, <1>12

LEMMA ZerosOK == Zeros \in Roms /\ [d \in Slots |-> Zeros] \in [Slots -> Roms]
BY DEF Zeros, Roms

\* Where a search starts.
LEMMA SearchStartsInv == OwbTypeOK /\ pass = 0 /\ tree = {} /\ transmit = Zeros => SearchInv
<1> SUFFICES ASSUME OwbTypeOK, pass = 0, tree = {}, transmit = Zeros PROVE SearchInv
    OBVIOUS
<1>1. \A d : d \notin 0 .. (pass - 1)
    OBVIOUS
<1> QED BY <1>1, FirstReached DEF SearchInv

LEMMA OwbInitInv == OwbInit => OwbInv
<1> SUFFICES ASSUME OwbInit PROVE OwbInv
    OBVIOUS
<1>1. 0 \in 0 .. MAX_DEVICES_NUMBER
    BY OneWireAssumption
<1>2. OwbTypeOK
    BY <1>1, PositionsAre, ZerosOK DEF OwbInit, OwbTypeOK
<1> QED BY <1>2, SearchStartsInv DEF OwbInit, OwbInv, EsnsAreTold

LEMMA OwbUnchanged == OwbInv /\ UNCHANGED owbVars => OwbInv'
<1> SUFFICES ASSUME OwbInv, UNCHANGED owbVars PROVE OwbInv'
    OBVIOUS
<1>1. UNCHANGED <<onBus, search, pass, tree, transmit, ESNS, esnDevicesFound, esnDevice, heard, overtaken>>
    BY DEF owbVars, owbList, owbReader
<1> QED BY <1>1 DEF OwbInv, OwbTypeOK, SearchInv, Reached, Doubts, Decided, Earlier, EsnsAreTold,
                    ListIsBus

\* The numbers found, with one more.
LEMMA OneMore ==
    ASSUME OwbTypeOK, NEW r \in Roms, ESNS' = [ESNS EXCEPT ![pass] = r],
           \A d, e \in 0 .. (pass - 1) : ESNS[d] = ESNS[e] => d = e,
           r \notin {ESNS[d] : d \in 0 .. (pass - 1)}
    PROVE  /\ \A d, e \in 0 .. pass : ESNS'[d] = ESNS'[e] => d = e
           /\ {ESNS'[d] : d \in 0 .. pass} = {ESNS[d] : d \in 0 .. (pass - 1)} \cup {r}
<1>1. pass \in Slots /\ pass \in Nat /\ 0 .. pass = 0 .. (pass - 1) \cup {pass}
    BY OneWireAssumption DEF OwbTypeOK, Slots
<1>2. ESNS'[pass] = r /\ \A d \in 0 .. (pass - 1) : ESNS'[d] = ESNS[d] /\ d # pass
    BY OneWireAssumption DEF OwbTypeOK, Slots
<1> QED BY <1>1, <1>2

\* How many devices there are if the search has found n of them.
LEMMA FoundAll ==
    ASSUME OwbTypeOK', NEW n \in Nat, {ESNS'[d] : d \in 0 .. (n - 1)} = onBus
    PROVE  Cardinality(onBus) <= n
<1> DEFINE f == [d \in 0 .. (n - 1) |-> ESNS'[d]]
<1>1. f \in Surjection(0 .. (n - 1), onBus)
    BY DEF Surjection
<1>2. IsFiniteSet(0 .. (n - 1)) /\ Cardinality(0 .. (n - 1)) = n
    BY FS_Interval
<1> QED BY <1>1, <1>2, FS_Surjection, FS_CardinalityType

LEMMA FoundTooMany ==
    ASSUME onBus \in Buses, NEW n \in Nat, NEW t \in onBus,
           \A d, e \in 0 .. (n - 1) : ESNS'[d] = ESNS'[e] => d = e,
           {ESNS'[d] : d \in 0 .. (n - 1)} \subseteq onBus \ {t}
    PROVE  n < Cardinality(onBus)
<1> DEFINE f == [d \in 0 .. (n - 1) |-> ESNS'[d]]
<1>0. IsFiniteSet(onBus)
    BY BusIs
<1>1. IsFiniteSet(onBus \ {t}) /\ Cardinality(onBus \ {t}) = Cardinality(onBus) - 1
    BY <1>0, FS_RemoveElement
<1>2. f \in Injection(0 .. (n - 1), onBus \ {t})
    <2>1. \A d \in 0 .. (n - 1) : ESNS'[d] \in onBus \ {t}
        OBVIOUS
    <2>2. f \in [0 .. (n - 1) -> onBus \ {t}]
        BY <2>1
    <2>3. \A d, e \in 0 .. (n - 1) : f[d] = f[e] => d = e
        OBVIOUS
    <2> QED BY <2>2, <2>3 DEF Injection, IsInjective
<1>3. Cardinality(0 .. (n - 1)) = n
    BY FS_Interval
<1>4. n <= Cardinality(onBus \ {t})
    BY <1>1, <1>2, <1>3, FS_Injection
<1> QED BY <1>0, <1>1, <1>4, FS_CardinalityType

\* A passage that heard everything.
LEMMA PassHeard ==
    ASSUME OwbInv, OwbTypeOK', heard, SearchInv, UNCHANGED onBus, NEW r \in Roms, Reached(r),
           ESNS' = [ESNS EXCEPT ![pass] = r], RecoverROM(r, Doubts(r))
    PROVE  /\ Doubts(r) \subseteq tree /\ esnDevicesFound' = pass + 1 => ListIsBus'
           /\ ~(Doubts(r) \subseteq tree) /\ pass + 1 = MAX_DEVICES_NUMBER /\ esnDevicesFound' = 0
                => ListIsBus'
           /\ ~(Doubts(r) \subseteq tree) /\ pass' = pass + 1 => SearchInv'
<1>0. OwbTypeOK /\ pass \in Slots /\ pass + 1 \in Nat /\ pass = (pass + 1) - 1 /\ onBus \in Buses
    BY OneWireAssumption DEF OwbInv, OwbTypeOK, Slots
<1>1. tree = Decided(r) /\ {ESNS[d] : d \in 0 .. (pass - 1)} = Earlier(r)
    BY DEF SearchInv
<1>2. r \notin Earlier(r)
    BY BeforeIsStrict DEF Earlier
<1>3. /\ \A d, e \in 0 .. pass : ESNS'[d] = ESNS'[e] => d = e
      /\ {ESNS'[d] : d \in 0 .. pass} = Earlier(r) \cup {r}
    BY <1>0, <1>1, <1>2, OneMore DEF SearchInv
<1>4. ASSUME Doubts(r) \subseteq tree, esnDevicesFound' = pass + 1 PROVE ListIsBus'
    <2>1. {ESNS'[d] : d \in 0 .. pass} = onBus
        BY <1>0, <1>1, <1>3, <1>4, LastReached
    <2>2. Cardinality(onBus) <= pass + 1 /\ Cardinality(onBus) <= MAX_DEVICES_NUMBER
        <3>1. Cardinality(onBus) <= pass + 1
            BY <1>0, <2>1, FoundAll
        <3>2. Cardinality(onBus) \in Nat
            BY <1>0, BusIs, FS_CardinalityType
        <3> QED BY <1>0, <3>1, <3>2, OneWireAssumption DEF Slots
    <2> QED BY <1>0, <1>3, <1>4, <2>1, <2>2 DEF ListIsBus
<1>5. ASSUME ~(Doubts(r) \subseteq tree), pass + 1 = MAX_DEVICES_NUMBER, esnDevicesFound' = 0
      PROVE  ListIsBus'
    <2>1. PICK t \in onBus : t \notin Earlier(r) \cup {r}
        BY <1>0, <1>1, <1>5, AnotherDevice
    <2>2. {ESNS'[d] : d \in 0 .. pass} \subseteq onBus \ {t}
        BY <1>3, <2>1 DEF Earlier, Reached
    <2>3. pass + 1 < Cardinality(onBus)
        BY <1>0, <1>3, <2>2, FoundTooMany
    <2>4. Cardinality(onBus) \in Nat
        BY <1>0, BusIs, FS_CardinalityType
    <2> QED BY <1>0, <1>5, <2>3, <2>4 DEF ListIsBus
<1>6. ASSUME ~(Doubts(r) \subseteq tree), pass' = pass + 1 PROVE SearchInv'
    <2>1. \A s \in Roms : Reached(s)' => tree' = Decided(s)' /\ Earlier(s)' = Earlier(r) \cup {r}
        BY <1>0, <1>1, <1>6, NextReached
    <2> QED BY <1>0, <1>3, <1>6, <2>1 DEF SearchInv
<1> QED BY <1>4, <1>5, <1>6

LEMMA RecoverOK ==
    ASSUME OwbTypeOK, NEW r \in Roms, NEW doubts \in SUBSET Positions, RecoverROM(r, doubts)
    PROVE  tree' \subseteq Positions /\ transmit' \in Roms
<1>1. CASE doubts \ tree = {}
    BY <1>1, ZerosOK DEF RecoverROM, OwbTypeOK
<1>2. CASE doubts \ tree # {}
    <2>1. PICK p \in doubts \ tree :
            /\ tree' = {q \in tree : q < p \/ q \notin doubts} \cup {p}
            /\ transmit' = [q \in Positions |->
                    CASE q < p -> r[q] [] q = p -> 1 - r[q] [] OTHER -> 0]
        BY <1>2 DEF RecoverROM
    <2>2. tree' \subseteq Positions
        BY <2>1 DEF OwbTypeOK
    <2>3. \A q \in Positions : r[q] \in {0, 1} /\ 1 - r[q] \in {0, 1}
        BY RomBitsAre
    <2> QED BY <2>1, <2>2, <2>3 DEF Roms
<1> QED BY <1>1, <1>2

LEMMA SearchPassInv == OwbInv /\ SearchPass => OwbInv'
<1> SUFFICES ASSUME OwbInv, SearchPass PROVE OwbInv'
    OBVIOUS
<1>0. OwbTypeOK /\ UNCHANGED onBus /\ search \in {"start", "message", "console"}
    BY DEF OwbInv, SearchPass
<1>1. PICK r \in Roms, doubts \in SUBSET Positions :
        /\ Heard(r, doubts)
        /\ ESNS' = [ESNS EXCEPT ![pass] = r]
        /\ RecoverROM(r, doubts)
        /\ \/ doubts \subseteq tree /\ SearchEnds(pass + 1)
           \/ ~(doubts \subseteq tree) /\ pass + 1 = MAX_DEVICES_NUMBER /\ SearchEnds(0)
           \/ /\ ~(doubts \subseteq tree) /\ pass + 1 < MAX_DEVICES_NUMBER
              /\ pass' = pass + 1
              /\ UNCHANGED <<search, esnDevicesFound, owbReader>>
    BY DEF SearchPass
<1>2. pass \in Nat /\ pass + 1 \in 0 .. MAX_DEVICES_NUMBER /\ 0 \in 0 .. MAX_DEVICES_NUMBER
    BY <1>0, OneWireAssumption DEF OwbTypeOK, Slots
<1>3. tree' \subseteq Positions /\ transmit' \in Roms /\ ESNS' \in [Slots -> Roms] /\ heard' \in BOOLEAN
    BY <1>0, <1>1, RecoverOK DEF Heard, OwbTypeOK
<1>4. CASE \E found \in {0, pass + 1} : SearchEnds(found)
    <2>1. PICK found \in {0, pass + 1} : SearchEnds(found)
        BY <1>4
    <2>2. OwbTypeOK'
        BY <1>0, <1>2, <1>3, <2>1, PositionsAre DEF SearchEnds, OwbTypeOK
    <2>3. ~overtaken' => esnDevice' <= esnDevicesFound'
        <3>1. ~overtaken' => esnDevice' = 0
            BY <1>0, <2>1 DEF SearchEnds, OwbInv
        <3>2. esnDevicesFound' \in Nat
            BY <1>2, <2>1 DEF SearchEnds
        <3> QED BY <3>1, <3>2
    <2>4. ASSUME heard' PROVE ListIsBus'
        <3>1. heard /\ Reached(r) /\ doubts = Doubts(r)
            BY <1>1, <2>4 DEF Heard
        <3>2. SearchInv
            BY <1>0, <3>1 DEF OwbInv
        <3>3. ~(search' = search)
            BY <1>0, <2>1 DEF SearchEnds
        <3>4. \/ Doubts(r) \subseteq tree /\ esnDevicesFound' = pass + 1
              \/ ~(Doubts(r) \subseteq tree) /\ pass + 1 = MAX_DEVICES_NUMBER /\ esnDevicesFound' = 0
            BY <1>1, <3>1, <3>3 DEF SearchEnds
        <3> QED BY <1>0, <1>1, <2>2, <3>1, <3>2, <3>4, PassHeard
    <2> QED BY <2>1, <2>2, <2>3, <2>4 DEF SearchEnds, OwbInv, EsnsAreTold
<1>5. CASE /\ ~(doubts \subseteq tree) /\ pass + 1 < MAX_DEVICES_NUMBER
           /\ pass' = pass + 1
           /\ UNCHANGED <<search, esnDevicesFound, owbReader>>
    <2>1. pass' \in Slots
        BY <1>2, <1>5, OneWireAssumption DEF Slots
    <2>2. OwbTypeOK'
        BY <1>0, <1>3, <1>5, <2>1 DEF OwbTypeOK, owbReader
    <2>3. ASSUME heard' PROVE SearchInv'
        <3>1. heard /\ Reached(r) /\ doubts = Doubts(r)
            BY <1>1, <2>3 DEF Heard
        <3>2. SearchInv
            BY <1>0, <3>1 DEF OwbInv
        <3> QED BY <1>0, <1>1, <1>5, <2>2, <3>1, <3>2, PassHeard
    <2>4. search # "idle" /\ UNCHANGED <<search, esnDevicesFound, esnDevice, overtaken>>
        BY <1>0, <1>5 DEF owbReader
    <2> QED BY <2>2, <2>3, <2>4 DEF OwbInv, EsnsAreTold
<1> QED BY <1>1, <1>4, <1>5

LEMMA OwbNextInv == OwbInv /\ OwbNext => OwbInv'
<1> SUFFICES ASSUME OwbInv, OwbNext PROVE OwbInv'
    OBVIOUS
<1>0. OwbTypeOK
    BY DEF OwbInv
<1>1. CASE SearchFails
    <2>1. /\ UNCHANGED <<onBus, tree, transmit, ESNS, esnDevicesFound>>
          /\ pass' = 0 /\ heard' = FALSE /\ search' \in {"exited", "idle"}
        BY <1>1 DEF SearchFails, owbList
    <2>2. /\ esnDevice' \in {0, esnDevice} /\ esnDevice' \in Nat /\ overtaken' \in BOOLEAN
          /\ ~overtaken' => ~overtaken \/ esnDevice' = 0
        BY <1>0, <1>1 DEF SearchFails, OwbTypeOK
    <2>3. OwbTypeOK'
        <3>1. pass' \in Slots /\ heard' \in BOOLEAN
            BY <2>1, PositionsAre
        <3>2. search' \in {"start", "message", "console", "idle", "exited"}
            BY <2>1
        <3> QED BY <1>0, <2>1, <2>2, <3>1, <3>2 DEF OwbTypeOK
    <2>4. esnDevice \in Nat /\ esnDevicesFound \in Nat
        BY <1>0 DEF OwbTypeOK
    <2>5. ~overtaken' => esnDevice' <= esnDevicesFound'
        BY <2>1, <2>2, <2>4 DEF OwbInv
    <2> QED BY <2>1, <2>3, <2>5 DEF OwbInv, EsnsAreTold
<1>2. CASE SetReadEsn \/ ConsoleReadEsn \/ OwbRestart
    <2>1. PICK who \in {"start", "message", "console"} : SearchStarts(who)
        BY <1>2 DEF SetReadEsn, ConsoleReadEsn, OwbRestart
    <2>2. 0 \in 0 .. MAX_DEVICES_NUMBER
        BY OneWireAssumption
    <2>3. OwbTypeOK'
        <3>1. /\ search' = who /\ pass' = 0 /\ heard' = TRUE /\ tree' = {} /\ transmit' = Zeros
              /\ onBus' = onBus
            BY <1>2, <2>1 DEF SetReadEsn, ConsoleReadEsn, OwbRestart, SearchStarts
        <3>2. CASE UNCHANGED <<ESNS, esnDevicesFound, esnDevice, overtaken>>
            BY <1>0, <3>1, <3>2, ZerosOK, PositionsAre DEF OwbTypeOK
        <3>3. CASE /\ ESNS' = [d \in Slots |-> Zeros] /\ esnDevicesFound' = 0
                   /\ esnDevice' = 0 /\ overtaken' = FALSE
            BY <1>0, <2>2, <3>1, <3>3, ZerosOK, PositionsAre DEF OwbTypeOK
        <3> QED BY <1>2, <3>2, <3>3 DEF SetReadEsn, ConsoleReadEsn, OwbRestart, owbList, owbReader
    <2>4. SearchInv'
        <3>1. (OwbTypeOK /\ pass = 0 /\ tree = {} /\ transmit = Zeros => SearchInv)'
            BY SearchStartsInv, PTL
        <3> QED BY <2>1, <2>3, <3>1 DEF SearchStarts
    <2>5. search' # "idle"
        BY <2>1 DEF SearchStarts
    <2>6. /\ ~overtaken' => esnDevice' <= esnDevicesFound'
          /\ search' = "start" => esnDevice' = 0
        BY <1>2 DEF OwbInv, SetReadEsn, ConsoleReadEsn, OwbRestart, SearchStarts, owbList, owbReader
    <2> QED BY <2>3, <2>4, <2>5, <2>6 DEF OwbInv, EsnsAreTold
<1>3. CASE GetEsnsFound \/ GetEsns
    <2>1. UNCHANGED <<onBus, search, pass, tree, transmit, ESNS, esnDevicesFound, heard>> /\ search = "idle"
        BY <1>3 DEF GetEsnsFound, GetEsns, owbList
    <2>2. OwbTypeOK' /\ (~overtaken' => esnDevice' <= esnDevicesFound')
        <3>1. CASE esnDevice' = 0 /\ overtaken' = FALSE
            <4>1. OwbTypeOK'
                BY <1>0, <2>1, <3>1 DEF OwbTypeOK
            <4>2. esnDevice' <= esnDevicesFound'
                BY <1>0, <2>1, <3>1 DEF OwbTypeOK
            <4> QED BY <4>1, <4>2
        <3>2. CASE esnDevice # esnDevicesFound /\ esnDevice' = esnDevice + 1 /\ UNCHANGED overtaken
            <4>1. esnDevice \in Nat /\ esnDevicesFound \in Nat /\ (~overtaken => esnDevice <= esnDevicesFound)
                BY <1>0 DEF OwbInv, OwbTypeOK
            <4>2. esnDevice' \in Nat /\ (~overtaken => esnDevice' <= esnDevicesFound)
                BY <3>2, <4>1
            <4>3. OwbTypeOK'
                BY <1>0, <2>1, <3>2, <4>2 DEF OwbTypeOK
            <4> QED BY <2>1, <3>2, <4>2, <4>3
        <3> QED BY <1>3, <3>1, <3>2 DEF GetEsnsFound, GetEsns
    <2>3. heard' => ListIsBus'
        BY <2>1 DEF OwbInv, EsnsAreTold, ListIsBus
    <2> QED BY <2>1, <2>2, <2>3 DEF OwbInv, EsnsAreTold
<1> QED BY <1>1, <1>2, <1>3, SearchPassInv DEF OwbNext

LEMMA OwbShared == SharedInv /\ OwbNext => SharedInv'
<1> SUFFICES ASSUME SharedInv, OwbNext PROVE SharedInv'
    OBVIOUS
<1>1. CASE SearchPass \/ SearchFails
    <2>1. UNCHANGED <<mode, edom, simulated, answer>>
        BY <1>1 DEF SearchPass, SearchFails, owbShared
    <2>2. running' = {}
        BY <1>1, WaitsRelease DEF SearchPass, SearchFails, SharedInv, TimersReleased
    <2> QED BY <2>1, <2>2 DEF SharedInv, HandlersTypeOK, TimersReleased, NothingFailsSilently, Simulated
<1>2. CASE SetReadEsn \/ ConsoleReadEsn \/ GetEsnsFound \/ GetEsns
    BY <1>2 DEF SetReadEsn, ConsoleReadEsn, GetEsnsFound, GetEsns, shared, SharedInv, HandlersTypeOK,
                TimersReleased, NothingFailsSilently, Simulated
<1>3. CASE OwbRestart
    BY <1>3, StatusesOK
       DEF OwbRestart, HandlersRestart, SharedInv, HandlersTypeOK, TimersReleased, Answered, Simulated,
           AllModes
<1> QED BY <1>1, <1>2, <1>3 DEF OwbNext

\* The order goes on from one to the next.
LEMMA BeforeIsTransitive ==
    ASSUME NEW r \in Roms, NEW s \in Roms, NEW t \in Roms, Before(r, s), Before(s, t)
    PROVE  Before(r, t)
<1>1. PICK p \in Positions : Agree(r, s, p) /\ r[p] = 0 /\ s[p] = 1
    BY DEF Before
<1>2. PICK q \in Positions : Agree(s, t, q) /\ s[q] = 0 /\ t[q] = 1
    BY DEF Before
<1>3. CASE p < q
    BY <1>1, <1>2, <1>3 DEF Before, Agree, Positions
<1>4. CASE q < p
    BY <1>1, <1>2, <1>4 DEF Before, Agree, Positions
<1>5. CASE p = q
    BY <1>1, <1>2, <1>5
<1> QED BY <1>3, <1>4, <1>5, PositionsAre

\* Some of the devices on a bus have a first among them: the one with the
\* fewest before it.
LEMMA FirstOfSome ==
    ASSUME NEW b \in Buses, NEW S \in SUBSET b, S # {}
    PROVE  \E s \in S : \A u \in S : ~Before(u, s)
<1> DEFINE Under(s) == {u \in S : Before(u, s)}
           Ranks == {Cardinality(Under(s)) : s \in S}
<1>1. S \subseteq Roms /\ IsFiniteSet(S)
    BY BusIs, FS_Subset
<1>2. \A s \in S : IsFiniteSet(Under(s)) /\ Cardinality(Under(s)) \in Nat
    BY <1>1, FS_Subset, FS_CardinalityType
<1>3. Ranks \subseteq Nat /\ Ranks # {}
    BY <1>2
<1> HIDE DEF Ranks
<1>4. PICK n \in Ranks : \A m \in Ranks : <<m, n>> \notin OpToRel(<, Nat)
    BY <1>3, NatLessThanWellFounded, WFMin
<1>5. PICK s \in S : n = Cardinality(Under(s))
    BY <1>4 DEF Ranks
<1>6. ASSUME NEW u \in S, Before(u, s) PROVE FALSE
    <2>1. Under(u) \subseteq Under(s)
        BY <1>1, <1>6, BeforeIsTransitive
    <2>2. u \in Under(s) /\ u \notin Under(u)
        BY <1>1, <1>6, BeforeIsStrict
    <2>3. Under(u) \in SUBSET Under(s) /\ Under(u) # Under(s)
        BY <2>1, <2>2
    <2> HIDE DEF Under
    <2>4. Cardinality(Under(u)) <= Cardinality(Under(s)) /\ Cardinality(Under(u)) # Cardinality(Under(s))
        BY <1>2, <1>5, <2>3, FS_Subset
    <2>5. Cardinality(Under(u)) < n
        BY <1>2, <1>5, <2>4
    <2>6. Cardinality(Under(u)) \in Ranks
        BY DEF Ranks
    <2> QED BY <1>3, <1>4, <2>5, <2>6 DEF OpToRel
<1> QED BY <1>6

\* The bits with which a search begins lead to a device.
LEMMA ZerosReach ==
    ASSUME NEW b \in Buses, b # {}
    PROVE  \E s \in b : \A p \in Positions :
               (\E u \in b : Agree(s, u, p) /\ u[p] # s[p]) => s[p] = Zeros[p]
<1>1. PICK s \in b : \A u \in b : ~Before(u, s)
    BY FirstOfSome
<1>2. ASSUME NEW p \in Positions, NEW u \in b, Agree(s, u, p), u[p] # s[p]
      PROVE  s[p] = Zeros[p]
    <2>1. s \in Roms /\ u \in Roms
        BY BusIs
    <2>2. s[p] = 1 => u[p] = 0 /\ Agree(u, s, p)
        BY <1>2, <2>1, RomBitsAre DEF Agree
    <2> QED BY <1>1, <2>1, <2>2, RomBitsAre DEF Before, Zeros
<1> QED BY <1>2

\* The bits that RecoverROM has sent next lead to a device.
LEMMA NextIsThere ==
    ASSUME OwbTypeOK, NEW r \in Roms, Reached(r), tree = Decided(r), RecoverROM(r, Doubts(r)),
           ~(Doubts(r) \subseteq tree), UNCHANGED onBus
    PROVE  (\E s \in onBus : Reached(s))'
<1>1. PICK p \in Doubts(r) \ tree :
        transmit' = [q \in Positions |->
                CASE q < p -> r[q] [] q = p -> 1 - r[q] [] OTHER -> 0]
    BY DEF RecoverROM
<1>2. p \in Positions /\ r \in onBus /\ r[p] = 0 /\ onBus \in Buses
    BY <1>1, RomBitsAre DEF Doubts, Decided, Reached, OwbTypeOK
<1> DEFINE S == {t \in onBus : Agree(r, t, p) /\ t[p] = 1}
<1>3. S # {} /\ S \in SUBSET onBus
    BY <1>1, AnotherDevice
<1>4. PICK s \in S : \A u \in S : ~Before(u, s)
    BY <1>2, <1>3, FirstOfSome
<1>5. s \in onBus /\ s \in Roms /\ Agree(r, s, p) /\ s[p] = 1
    BY <1>2, BusIs
<1>6. ASSUME NEW q \in Positions, NEW u \in onBus, Agree(s, u, q), u[q] # s[q]
      PROVE  s[q] = transmit'[q]
    <2>1. q \in Nat /\ p \in Nat
        BY <1>2, PositionsAre
    <2>2. CASE q < p
        BY <1>1, <1>5, <2>1, <2>2 DEF Agree
    <2>3. CASE q = p
        BY <1>1, <1>2, <1>5, <2>3
    <2>4. CASE q > p
        <3>1. u \in Roms /\ Agree(r, u, p) /\ u[p] = 1
            BY <1>2, <1>5, <1>6, <2>1, <2>4, BusIs DEF Agree
        <3>2. ~Before(u, s)
            BY <1>4, <3>1
        <3>3. s[q] = 0
            BY <1>5, <1>6, <3>1, <3>2, RomBitsAre DEF Before, Agree
        <3>4. transmit'[q] = 0
            BY <1>1, <2>1, <2>4
        <3> QED BY <3>3, <3>4
    <2> QED BY <2>1, <2>2, <2>3, <2>4
<1> QED BY <1>5, <1>6 DEF Reached, Doubts

\* A passage after which the search goes on: there was a doubt, and where there
\* is one there is another device.
LEMMA PassGetsOn ==
    ASSUME OwbInv, OwbTypeOK', heard, SearchInv, UNCHANGED onBus, NEW r \in Roms, Reached(r),
           ESNS' = [ESNS EXCEPT ![pass] = r], RecoverROM(r, Doubts(r)),
           ~(Doubts(r) \subseteq tree), pass' = pass + 1
    PROVE  SearchGetsOn'
<1>1. OwbTypeOK /\ pass + 1 \in Nat /\ pass = (pass + 1) - 1 /\ onBus \in Buses
    BY OneWireAssumption DEF OwbInv, OwbTypeOK, Slots
<1>2. tree = Decided(r) /\ {ESNS[d] : d \in 0 .. (pass - 1)} = Earlier(r)
    BY DEF SearchInv
<1>3. r \notin Earlier(r)
    BY BeforeIsStrict DEF Earlier
<1>4. /\ \A d, e \in 0 .. pass : ESNS'[d] = ESNS'[e] => d = e
      /\ {ESNS'[d] : d \in 0 .. pass} = Earlier(r) \cup {r}
    BY <1>1, <1>2, <1>3, OneMore DEF SearchInv
<1>5. PICK t \in onBus : t \notin Earlier(r) \cup {r}
    BY <1>1, <1>2, AnotherDevice
<1>6. {ESNS'[d] : d \in 0 .. pass} \subseteq onBus \ {t}
    BY <1>4, <1>5 DEF Earlier, Reached
<1>7. pass + 1 < Cardinality(onBus)
    BY <1>1, <1>4, <1>6, FoundTooMany
<1>8. (\E s \in onBus : Reached(s))'
    BY <1>1, <1>2, NextIsThere
<1> QED BY <1>1, <1>4, <1>6, <1>7, <1>8 DEF SearchGetsOn

\* While nothing is found there is everything still to be found.
LEMMA EmptyOrSome ==
    ASSUME NEW b \in Buses, b # {}
    PROVE  0 < Cardinality(b)
<1>1. IsFiniteSet(b)
    BY BusIs
<1> QED BY <1>1, FS_CardinalityType, FS_EmptySet

LEMMA StartGetsOn == OwbTypeOK /\ pass = 0 /\ transmit = Zeros => SearchGetsOn
<1> SUFFICES ASSUME OwbTypeOK, pass = 0, transmit = Zeros, onBus # {} PROVE SearchGetsOn
    BY DEF SearchGetsOn
<1>1. \E s \in onBus : Reached(s)
    BY ZerosReach DEF OwbTypeOK, Reached, Doubts
<1> QED BY <1>1, EmptyOrSome DEF OwbTypeOK, SearchGetsOn

LEMMA SearchGetsOnStep ==
    ASSUME OwbInv, OwbInv', SearchGetsOn, OwbNext
    PROVE  SearchGetsOn'
<1>0. OwbTypeOK /\ OwbTypeOK'
    BY DEF OwbInv
<1>1. CASE SearchPass
    <2>1. PICK rom \in Roms, doubts \in SUBSET Positions :
            /\ Heard(rom, doubts)
            /\ ESNS' = [ESNS EXCEPT ![pass] = rom]
            /\ RecoverROM(rom, doubts)
            /\ \/ \E found : SearchEnds(found)
               \/ /\ ~(doubts \subseteq tree)
                  /\ pass' = pass + 1 /\ UNCHANGED search
        BY <1>1 DEF SearchPass
    <2>2. CASE \E found : SearchEnds(found)
        BY <2>2 DEF SearchEnds, SearchGetsOn
    <2>3. CASE ~heard'
        BY <2>3 DEF SearchGetsOn
    <2>4. CASE heard' /\ ~(doubts \subseteq tree) /\ pass' = pass + 1
        <3>1. heard /\ Reached(rom) /\ doubts = Doubts(rom)
            BY <2>1, <2>4 DEF Heard
        <3>2. SearchInv /\ UNCHANGED onBus
            BY <1>1, <3>1 DEF SearchPass, OwbInv
        <3> QED BY <1>0, <2>1, <2>4, <3>1, <3>2, PassGetsOn
    <2> QED BY <2>1, <2>2, <2>3, <2>4
<1>2. CASE SearchFails
    BY <1>2 DEF SearchFails, SearchGetsOn
<1>3. CASE SetReadEsn \/ ConsoleReadEsn \/ OwbRestart
    <2>1. pass' = 0 /\ transmit' = Zeros /\ onBus' \in Buses
        BY <1>0, <1>3 DEF SetReadEsn, ConsoleReadEsn, OwbRestart, SearchStarts, OwbTypeOK
    <2>2. onBus' # {} => (\E s \in onBus : Reached(s))'
        BY <2>1, ZerosReach DEF Reached, Doubts
    <2> QED BY <2>1, <2>2, EmptyOrSome DEF SearchGetsOn
<1>4. CASE GetEsnsFound \/ GetEsns
    BY <1>4 DEF GetEsnsFound, GetEsns, SearchGetsOn
<1> QED BY <1>1, <1>2, <1>3, <1>4 DEF OwbNext
=============================================================================
