---------------------------- MODULE DevicesProofs ----------------------------
(***************************************************************************)
(* The theorems about the devices, for every number of channels and        *)
(* sensors, every set of modes, faults, bands, ports and switches.         *)
(*                                                                         *)
(* The invariant says of the shared variables what every handler needs of  *)
(* them, of the device the messages go to what its own invariant says      *)
(* (CryostatProofs, RegistersProofs), and of the others that nothing has   *)
(* happened to them.                                                       *)
(***************************************************************************)
EXTENDS Devices, CryostatProofs, RegistersProofs

DevicesInv ==
    /\ SharedInv
    /\ unit \in Units
    /\ unit = "cryostat" => ~Simulated
    /\ IF unit = "cryostat" THEN CryoInv ELSE CryostatInit
    /\ IF unit = "bias" THEN BiasInv ELSE BiasInit
    /\ IF unit = "lo" THEN LoInv ELSE LoInit
    /\ IF unit = "lpr" THEN LprInv ELSE LprInit
    /\ IF unit = "if" THEN IfInv ELSE IfInit
    /\ IF unit = "fetim" THEN FetimInv ELSE FetimInit
    /\ IF unit = "owb" THEN OwbInv ELSE OwbInit

\* A device the messages do not go to is as it was at the start, and that is
\* a state its own invariant allows.
LEMMA EveryDevice ==
    ASSUME DevicesInv
    PROVE  CryoInv /\ BiasInv /\ LoInv /\ LprInv /\ IfInv /\ FetimInv /\ OwbInv
BY CryoInitInv, BiasInitInv, LoInitInv, LprInitInv, IfInitInv, FetimInitInv, OwbInitInv DEF DevicesInv

LEMMA InitHolds == Init => DevicesInv
<1> SUFFICES ASSUME Init PROVE DevicesInv
    OBVIOUS
<1>1. SharedInv /\ ~Simulated
    BY DEF Init, HandlersInit, SharedInv, HandlersTypeOK, TimersReleased, NothingFailsSilently,
           Simulated, AllModes, Answers, Statuses
<1>2. CryostatInit /\ BiasInit /\ LoInit /\ LprInit /\ IfInit /\ FetimInit /\ OwbInit
      /\ unit \in Units
    BY DEF Init
<1> QED BY <1>1, <1>2, CryoInitInv, BiasInitInv, LoInitInv, LprInitInv, IfInitInv, FetimInitInv,
           OwbInitInv
        DEF DevicesInv

-----------------------------------------------------------------------------
(* The steps                                                               *)

\* The cryostat's messages and the shared variables.
LEMMA CryoShared == SharedInv /\ CryostatNext => SharedInv'
<1> SUFFICES ASSUME SharedInv, CryostatNext PROVE SharedInv'
    OBVIOUS
<1> USE StatusesOK
<1>1. running = {} /\ edom \in BOOLEAN
    BY DEF SharedInv, TimersReleased, HandlersTypeOK
<1>2. \A ok \in BOOLEAN : Untold("backingPump", ok) => Answered
    BY UntoldOK DEF Unchecked
<1>3. CASE CryostatCommand
    <2>1. Answered
        BY <1>3
           DEF CryostatCommand, BackingPumpOn, BackingPumpOff, TurboPumpEnable, TurboPumpTooColdOrHot,
               GateValveState, SolenoidValveState, VacuumControllerEnable, Accepted, Refused, Failed
    <2>2. UNCHANGED <<mode, running, edom, simulated>>
        BY <1>3
           DEF CryostatCommand, BackingPumpOn, BackingPumpOff, TurboPumpEnable, GateValveState,
               SolenoidValveState, VacuumControllerEnable, CryoOthers
    <2> QED BY <1>1, <2>1, <2>2, HandlerStepInv DEF HandlerStep
<1>4. CASE CryostatMonitor
    <2>1. \A ok \in BOOLEAN : Answer("HARDW_BLKD_ERR", ~ok) => Answered
        BY AnswerOK DEF Statuses
    <2>2. Answered
        BY <1>4, <2>1
           DEF CryostatMonitor, MonitorGateValve, MonitorSolenoidValve, MonitorTurboPump,
               MonitorVacuumController
    <2> QED BY <1>1, <1>4, <2>2, HandlerStepInv DEF CryostatMonitor, HandlerStep
<1>5. CASE Shutdown
    <2>1. UNCHANGED <<mode, running, edom, simulated>>
        BY <1>5 DEF Shutdown
    <2>2. CASE UNCHANGED answer
        BY <2>1, <2>2 DEF SharedInv, HandlersTypeOK, TimersReleased, NothingFailsSilently, Simulated
    <2>3. CASE Answered
        BY <1>1, <2>1, <2>3, HandlerStepInv DEF HandlerStep
    <2> QED BY <1>2, <1>5, <2>2, <2>3 DEF Shutdown, Failed
<1>6. CASE CryostatRestart
    BY <1>6
       DEF CryostatRestart, HandlersRestart, SharedInv, HandlersTypeOK, TimersReleased, Answered,
           Simulated, AllModes
<1> QED BY <1>3, <1>4, <1>5, <1>6 DEF CryostatNext, CryostatMessage

\* The devices that are left alone.
LEMMA LeftAlone ==
    /\ UNCHANGED cryoVars => (CryostatInit => CryostatInit')
    /\ UNCHANGED biasVars => (BiasInit => BiasInit')
    /\ UNCHANGED loVars => (LoInit => LoInit')
    /\ UNCHANGED lprVars => (LprInit => LprInit')
    /\ UNCHANGED ifVars => (IfInit => IfInit')
    /\ UNCHANGED fetimVars => (FetimInit => FetimInit')
    /\ UNCHANGED owbVars => (OwbInit => OwbInit')
<1>1. UNCHANGED cryoVars => (CryostatInit => CryostatInit')
    BY DEF cryoVars, cryoRegister, CryostatInit
<1>2. UNCHANGED biasVars => (BiasInit => BiasInit')
    BY DEF biasVars, biasRegisters, BiasInit
<1>3. UNCHANGED loVars => (LoInit => LoInit')
    BY DEF loVars, loSwitches, potVars, LoInit
<1>4. UNCHANGED lprVars => (LprInit => LprInit')
    BY DEF lprVars, lprSwitch, lprStates, lprModulation, LprInit
<1>5. UNCHANGED ifVars => (IfInit => IfInit')
    BY DEF ifVars, ifMemory, IfInit
<1>6. UNCHANGED fetimVars => (FetimInit => FetimInit')
    BY DEF fetimVars, fetimRound, fetimOutputs, FetimInit
<1>7. UNCHANGED owbVars => (OwbInit => OwbInit')
    BY DEF owbVars, owbList, owbReader, OwbInit
<1> QED BY <1>1, <1>2, <1>3, <1>4, <1>5, <1>6, <1>7

\* What happens to the shared variables only: a change of mode, an earlier
\* failure of a conversion, or nothing.
LEMMA DevicesUnchanged ==
    ASSUME DevicesInv, SharedInv', UNCHANGED <<deviceVars, unit>>, simulated => simulated',
           unit = "cryostat" => ~Simulated'
    PROVE  DevicesInv'
<1>1. UNCHANGED <<cryoVars, biasVars, loVars, lprVars, ifVars, fetimVars, owbVars>>
    BY DEF deviceVars
<1> QED BY <1>1, LeftAlone, CryoUnchanged, BiasUnchanged, LoUnchanged, LprUnchanged, IfUnchanged,
           FetimUnchanged, OwbUnchanged
        DEF DevicesInv

LEMMA CryostatOnlyRestarts == CryostatNext /\ ~Simulated => ~Simulated'
BY DEF CryostatNext, CryostatMessage, CryostatCommand, BackingPumpOn, BackingPumpOff, TurboPumpEnable,
       GateValveState, SolenoidValveState, VacuumControllerEnable, CryoOthers, CryostatMonitor,
       Shutdown, CryostatRestart, HandlersRestart, Simulated

LEMMA NextHolds == DevicesInv /\ [Next]_vars => DevicesInv'
<1> SUFFICES ASSUME DevicesInv, [Next]_vars PROVE DevicesInv'
    OBVIOUS
<1>0. SharedInv
    BY DEF DevicesInv
<1>1. CASE UNCHANGED vars
    <2>1. SharedInv'
        BY <1>0, <1>1 DEF SharedInv, HandlersTypeOK, TimersReleased, NothingFailsSilently, Simulated,
                          vars, shared
    <2> QED BY <1>1, <2>1, DevicesUnchanged DEF vars, shared, DevicesInv, Simulated
<1>2. CASE ModeCommand
    <2>1. PICK m \in Modes : SimulationBound(m) /\ SetFeMode(m)
        BY <1>2 DEF ModeCommand
    <2>2. SharedInv'
        BY <1>0, <2>1, StatusesOK, HandlersAssumption
           DEF SetFeMode, SharedInv, HandlersTypeOK, TimersReleased, Answered, Simulated
    <2>3. simulated => simulated'
        BY <2>1 DEF SetFeMode
    <2>4. unit = "cryostat" => ~Simulated'
        BY <2>1 DEF SetFeMode, SimulationBound, Simulated
    <2> QED BY <1>2, <2>2, <2>3, <2>4, DevicesUnchanged DEF ModeCommand
<1>3. CASE SomeConversionFailed
    <2>1. Answered
        BY <1>3, AnswerOK DEF SomeConversionFailed, Statuses
    <2>2. SharedInv'
        BY <1>0, <1>3, <2>1, HandlerStepInv
           DEF SomeConversionFailed, HandlerStep, SharedInv, TimersReleased
    <2> QED BY <1>3, <2>2, DevicesUnchanged DEF SomeConversionFailed
<1>4. CASE ToCryostat
    BY <1>0, <1>4, CryoShared, CryoNextInv, CryostatOnlyRestarts, LeftAlone DEF ToCryostat, DevicesInv
<1>5. CASE ToBias
    BY <1>0, <1>5, BiasShared, BiasNextInv, LeftAlone DEF ToBias, DevicesInv
<1>6. CASE ToLo
    BY <1>0, <1>6, LoShared, LoNextInv, LeftAlone DEF ToLo, DevicesInv
<1>7. CASE ToLpr
    BY <1>0, <1>7, LprShared, LprNextInv, LeftAlone DEF ToLpr, DevicesInv
<1>8. CASE ToIf
    BY <1>0, <1>8, IfShared, IfNextInv, LeftAlone DEF ToIf, DevicesInv
<1>9. CASE ToFetim
    BY <1>0, <1>9, FetimShared, FetimNextInv, LeftAlone DEF ToFetim, DevicesInv
<1>10. CASE ToOwb
    BY <1>0, <1>10, OwbShared, OwbNextInv, LeftAlone DEF ToOwb, DevicesInv
<1> QED BY <1>1, <1>2, <1>3, <1>4, <1>5, <1>6, <1>7, <1>8, <1>9, <1>10 DEF Next

LEMMA InvariantHolds == Spec => []DevicesInv
<1>1. Init => DevicesInv
    BY InitHolds
<1>2. DevicesInv /\ [Next]_vars => DevicesInv'
    BY NextHolds
<1> QED BY <1>1, <1>2, PTL DEF Spec

-----------------------------------------------------------------------------
(* The theorems                                                            *)

\* Every variable of every device stays in its range.
THEOREM TypeCorrect == Spec => []TypeOK
<1>1. DevicesInv => TypeOK
    BY EveryDevice
       DEF DevicesInv, TypeOK, SharedInv, CryoInv, BiasInv, LoInv, LprInv, IfInv, FetimInv, OwbInv
<1> QED BY <1>1, InvariantHolds, PTL

\* No message leaves a timer running, whatever it waited for and however that
\* ended (timer.c:59).
THEOREM TimersCorrect == Spec => []TimersReleased
<1>1. DevicesInv => TimersReleased
    BY DEF DevicesInv, SharedInv
<1> QED BY <1>1, InvariantHolds, PTL

\* No message of which a step failed is answered with NO_ERROR, but for the
\* points that do not look at the result of that step.
THEOREM FailuresAnswered == Spec => []NothingFailsSilently
<1>1. DevicesInv => NothingFailsSilently
    BY DEF DevicesInv, SharedInv
<1> QED BY <1>1, InvariantHolds, PTL

\* What is answered for the pumps and valves of the cryostat is true, whatever
\* fails and whenever the computer restarts (backingPump.c:98,
\* vacuumController.c:98).
THEOREM CommandsCorrect == Spec => []CommandsTellTruth
<1>1. DevicesInv => CommandsTellTruth
    BY EveryDevice DEF CryoInv, LineInv
<1> QED BY <1>1, InvariantHolds, PTL

\* The writes to the cryostat's register implement the promise about the
\* vacuum line: nothing of it is on or open without the backing pump
\* (backingPump.c:64, turboPump.c:70).
THEOREM LineCorrect == Spec => KeepsLine
<1>1. Init => Line!Init
    BY CryoInitLine DEF Init
<1>2. DevicesInv /\ [Next]_vars => [Line!Next]_Line!vars
    <2> SUFFICES ASSUME DevicesInv, [Next]_vars PROVE [Line!Next]_Line!vars
        OBVIOUS
    <2>1. CASE ToCryostat
        BY <2>1, EveryDevice, CryoNextLine DEF ToCryostat, DevicesInv
    <2>2. CASE UNCHANGED cryoVars
        <3>1. UNCHANGED cryoRegister
            BY <2>2 DEF cryoVars
        <3> QED BY <3>1, LineUnchanged
    <2> QED BY <2>1, <2>2
            DEF Next, ModeCommand, SomeConversionFailed, ToBias, ToLo, ToLpr, ToIf, ToFetim, ToOwb,
                vars, deviceVars
<1> QED BY <1>1, <1>2, InvariantHolds, PTL DEF Spec, KeepsLine, Line!Spec

\* The promise about the vacuum line alone keeps the backing pump on while
\* anything behind it is.
LEMMA LineNeedsPump ==
    /\ Line!Init => NothingWithoutPump
    /\ NothingWithoutPump /\ [Line!Next]_Line!vars => NothingWithoutPump'
<1> DEFINE line == cryoHw \ {"vacuumControllerOff"}
           Fed == {"turboPump", "gateValve", "solenoidValve"}
<1>1. Line!Init => NothingWithoutPump
    BY DEF Line!Init, NothingWithoutPump
<1>2. ASSUME NothingWithoutPump, [Line!Next]_Line!vars PROVE NothingWithoutPump'
    <2>1. \A p \in Fed : p \in line => "backingPump" \in line
        BY <1>2 DEF NothingWithoutPump
    <2>2. \A p \in Fed : p \in line' => "backingPump" \in line'
        <3>1. CASE Line!Start \/ Line!Stop \/ Line!Restart \/ Line!FirstCommand
            BY <2>1, <3>1 DEF Line!Start, Line!Stop, Line!Restart, Line!FirstCommand
        <3>2. ASSUME NEW d \in Fed, Line!Admit(d) PROVE "backingPump" \in line'
            BY <3>2 DEF Line!Admit
        <3>3. ASSUME NEW d \in Fed, Line!Isolate(d)
              PROVE  \A p \in Fed : p \in line' => "backingPump" \in line'
            BY <2>1, <3>3 DEF Line!Isolate
        <3>4. CASE UNCHANGED Line!vars
            BY <2>1, <3>4 DEF Line!vars
        <3> QED BY <1>2, <3>1, <3>2, <3>3, <3>4 DEF Line!Next
    <2> QED BY <2>2 DEF NothingWithoutPump
<1> QED BY <1>1, <1>2

\* Nothing of the vacuum line is on or open without the backing pump
\* (backingPump.c:64, turboPump.c:70), because the promise that the commands
\* keep implies it: the proof looks at the abstract line only.
THEOREM PumpCorrect == Spec => []NothingWithoutPump
<1>1. Line!Spec => []NothingWithoutPump
    BY LineNeedsPump, PTL DEF Line!Spec
<1> QED BY <1>1, LineCorrect, PTL DEF KeepsLine

\* A cartridge in STANDBY2 is dark but for what the writes of the change to it
\* spared (cartridge.c:810).
THEOREM Standby2Correct == Spec => []Standby2IsDark
<1>1. DevicesInv => Standby2IsDark
    BY EveryDevice DEF BiasInv
<1> QED BY <1>1, InvariantHolds, PTL

\* What is answered for the switches and the multiplier of a local oscillator
\* is what its registers hold (loSerialInterface.c:633, 1168).
THEOREM LoCorrect == Spec => []LoMemoryMatches
<1>1. DevicesInv => LoMemoryMatches
    BY EveryDevice DEF LoInv
<1> QED BY <1>1, InvariantHolds, PTL

\* The light goes where the port and the shutter that are answered say
\* (opticalSwitch.c:100, 162; lpr.c:209).
THEOREM SwitchCorrect == Spec => []SwitchWhereTold
<1>1. DevicesInv => SwitchWhereTold
    BY EveryDevice DEF LprInv
<1> QED BY <1>1, InvariantHolds, PTL

\* What is answered for the IF switch is what it holds (ifSwitch.c:136, 145).
THEOREM IfCorrect == Spec => []IfMemoryMatches
<1>1. DevicesInv => IfMemoryMatches
    BY EveryDevice DEF IfInv
<1> QED BY <1>1, InvariantHolds, PTL

\* The FETIM is told that the cryostat may be cooled exactly if the pressure
\* was measured and low (fetim.c:233).
THEOREM FetimCorrect == Spec => []FetimIsTold
<1>1. DevicesInv => FetimIsTold
    BY EveryDevice DEF FetimInv
<1> QED BY <1>1, InvariantHolds, PTL

\* A search of the one wire bus that heard every answer has found every device
\* once, and who reads the list reads them (owb.c:213, can.c:411).
THEOREM OwbCorrect == Spec => []EsnsAreTold
<1>1. DevicesInv => EsnsAreTold
    BY EveryDevice DEF OwbInv
<1> QED BY <1>1, InvariantHolds, PTL

\* A search of the one wire bus that hears every answer calls a device that is
\* there and was not found yet with every passage, and so ends after as many as
\* there are devices (owb.c:213).
THEOREM SearchEndsInTime == Spec => []SearchGetsOn
<1>1. Init => SearchGetsOn
    <2> SUFFICES ASSUME Init PROVE SearchGetsOn
        OBVIOUS
    <2>1. OwbTypeOK /\ pass = 0 /\ transmit = Zeros
        BY OwbInitInv DEF Init, OwbInit, OwbInv
    <2> QED BY <2>1, StartGetsOn
<1>2. DevicesInv => OwbInv
    BY EveryDevice
<1>3. OwbInv /\ OwbInv' /\ SearchGetsOn /\ [Next]_vars => SearchGetsOn'
    <2> SUFFICES ASSUME OwbInv, OwbInv', SearchGetsOn, [Next]_vars PROVE SearchGetsOn'
        OBVIOUS
    <2>1. CASE ToOwb
        BY <2>1, SearchGetsOnStep DEF ToOwb
    <2>2. CASE UNCHANGED owbVars
        BY <2>2 DEF owbVars, owbList, SearchGetsOn, Reached, Doubts
    <2> QED BY <2>1, <2>2
            DEF Next, ModeCommand, SomeConversionFailed, ToCryostat, ToBias, ToLo, ToLpr, ToIf, ToFetim,
                vars, deviceVars
<1> QED BY <1>1, <1>2, <1>3, InvariantHolds, PTL DEF Spec

\* The front end is not shut down unless the FETIM has triggered it,
\* OnlyTriggerShutsDown (fetim.c:270).
THEOREM ShutdownIsTriggered == Spec => OnlyTriggerShutsDown
<1> DEFINE Watched == unit = "fetim" => TriggerInv
           Asked == fetimUp # "exited" /\ fetimUp' = "exited" => trigger \/ FetimRestart
<1>1. Init => Watched
    BY DEF Init, FetimInit, TriggerInv
<1>2. DevicesInv /\ Watched /\ [Next]_vars => Watched' /\ [Asked]_fetimVars
    <2> SUFFICES ASSUME DevicesInv, Watched, [Next]_vars PROVE Watched' /\ [Asked]_fetimVars
        OBVIOUS
    <2>1. CASE ToFetim
        BY <2>1, EveryDevice, TriggerInvNext, WhoShutsDown DEF ToFetim
    <2>2. CASE UNCHANGED <<fetimVars, unit>>
        BY <2>2 DEF fetimVars, TriggerInv
    <2> QED BY <2>1, <2>2
            DEF Next, ModeCommand, SomeConversionFailed, ToCryostat, ToBias, ToLo, ToLpr, ToIf, ToOwb,
                vars, deviceVars
<1> QED BY <1>1, <1>2, InvariantHolds, PTL DEF Spec, OnlyTriggerShutsDown

\* A front end that was stopped leaves the light in the shutter, StopsDark, if
\* no write fails (lpr.c:225): shutDown left SIMULATION mode, and no message is
\* handled any more.
THEOREM StopDarkens ==
    ASSUME "write" \notin Faults
    PROVE  Spec => StopsDark
<1> DEFINE Commanding == unit = "lpr" /\ lprPhase = "stopping" => ~Simulated
           Dark == lprPhase = "stopping" /\ lprPhase' = "stopped" => switchAt' = PORT_SHUTTERED
<1>1. Init => Commanding
    BY DEF Init, LprInit
<1>2. Commanding /\ [Next]_vars => Commanding'
    <2> SUFFICES ASSUME Commanding, [Next]_vars PROVE Commanding'
        OBVIOUS
    <2>1. CASE ModeCommand
        BY <2>1 DEF ModeCommand, Listening, deviceVars, lprVars
    <2>2. CASE ToLpr
        <3>1. CASE LprHandler
            <4>1. lprPhase = "up" /\ lprPhase' = lprPhase
                BY <3>1
                   DEF LprHandler, LprTempHandler, OpticalSwitchHandler, PortHandler, ShutterHandler,
                       ForceShutterHandler, StateAndBusyHandler, PortSet, ShutterSet, LprMonitor,
                       LprMemory, LprKept, EdfaHandler, LaserHandler, LaserPumpTemp, LaserCurrents,
                       PhotoDetectorHandler, PhotoDetectorPoints, ModulationInputHandler,
                       ModulationValue, ModulationValueSet, MiSpecialMsgsHandler, MiDacHandler,
                       MiDacStrobe, DriverState
            <4> QED BY <4>1
        <3>2. CASE LprStartup \/ ShutDown \/ FrontendStop \/ LprRestart
            BY <3>2 DEF LprStartup, ShutDown, FrontendStop, LprRestart, Simulated
        <3> QED BY <2>2, <3>1, <3>2 DEF ToLpr, LprNext
    <2>3. CASE UNCHANGED <<lprVars, unit>> /\ (unit = "lpr" => UNCHANGED mode)
        BY <2>3 DEF lprVars, Simulated
    <2> QED BY <2>1, <2>2, <2>3
            DEF Next, SomeConversionFailed, ToCryostat, ToBias, ToLo, ToIf, ToFetim, ToOwb, vars,
                deviceVars, shared
<1>3. Commanding /\ [Next]_vars => [Dark]_lprVars
    <2> SUFFICES ASSUME Commanding, [Next]_vars, ~UNCHANGED lprVars, lprPhase = "stopping",
                        lprPhase' = "stopped"
                 PROVE  switchAt' = PORT_SHUTTERED
        OBVIOUS
    <2>1. LprNext /\ unit = "lpr" /\ ~Simulated
        BY DEF Next, ModeCommand, SomeConversionFailed, ToCryostat, ToBias, ToLo, ToLpr, ToIf, ToFetim,
               ToOwb, vars, deviceVars
    <2>2. FrontendStop
        BY <2>1 DEF LprNext, LprHandler, LprStartup, ShutDown, LprRestart
    <2>3. \E ok \in BOOLEAN : Darken(ok)
        BY <2>2 DEF FrontendStop, Fails
    <2>4. Darken(TRUE)
        BY <2>1, <2>3 DEF Darken, SetModulationInputValue, CloseShutter
    <2> QED BY <2>1, <2>4 DEF Darken, CloseShutter
<1> QED BY <1>1, <1>2, <1>3, PTL DEF Spec, StopsDark
=============================================================================
