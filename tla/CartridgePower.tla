--------------------------- MODULE CartridgePower ---------------------------
(***************************************************************************)
(* The power distribution and the cartridges together, with the commands   *)
(* that change the mode of the front end and with restarts.                *)
(*                                                                         *)
(* The firmware is one thread: a CAN message, a console command and a call *)
(* of async() each run to the end, so each is one action, and they come in *)
(* any order (main.c).                                                     *)
(***************************************************************************)
EXTENDS Cartridge

vars == <<mode, state, standby2, poweredModules, standby2Modules, enabled,
          lastEnable, debugMe, currentPowerDistributionModule, aReg, asyncState,
          hwPower, at10MHz, coldOn, waited, currentAsyncCartridge,
          asyncCartridgeTask, asyncCartridgeInitState, initTimer>>

\* globalOperations.c, frontend.c: the end of initialization(). Every module
\* has been switched off and the front end is OPERATIONAL.
Init ==
    /\ mode = "OPERATIONAL"
    /\ state = [c \in Cartridges |-> "OFF"]
    /\ standby2 = {}
    /\ poweredModules = 0
    /\ standby2Modules = 0
    /\ enabled = {}
    /\ lastEnable = [c \in Cartridges |-> [data |-> 0, status |-> "NO_ERROR"]]
    /\ debugMe = FALSE
    /\ currentPowerDistributionModule = NoModule
    /\ aReg = {}
    /\ asyncState = "CRYOSTAT"
    /\ hwPower = {} /\ at10MHz = {} /\ coldOn = {} /\ waited = {}
    /\ currentAsyncCartridge = 0
    /\ asyncCartridgeTask = "IDLE"
    /\ asyncCartridgeInitState = "SET_WAIT"
    /\ initTimer = "off"

\* SET_EXIT, SET_REBOOT, console 'q' or 'r', or a reset of the computer, and
\* the start that follows. powerDistributionStartup writes the register once
\* per module, 0 each time, and ignores the result: unless every write fails
\* nothing is fed any more.
Restart ==
    /\ "restart" \in Operations
    /\ mode' = "OPERATIONAL"
    /\ state' = [c \in Cartridges |-> "OFF"]
    /\ standby2' = {}
    /\ poweredModules' = 0
    /\ standby2Modules' = 0
    /\ enabled' = {}
    /\ lastEnable' = [c \in Cartridges |-> [data |-> 0, status |-> "NO_ERROR"]]
    /\ debugMe' = FALSE
    /\ currentPowerDistributionModule' = NoModule
    /\ aReg' = {}
    /\ asyncState' = "CRYOSTAT"
    /\ currentAsyncCartridge' = 0
    /\ asyncCartridgeTask' = "IDLE"
    /\ asyncCartridgeInitState' = "SET_WAIT"
    /\ initTimer' = "off"
    /\ \/ SupplyFeeds({})
       \/ "startup" \in Faults /\ UNCHANGED hardwareVars

\* can.c: SET_FE_MODE
SetFeMode(m) ==
    /\ mode' = m
    /\ UNCHANGED <<cartridgeVars, counterVars, enabled, lastEnable, debugMe,
                   currentPowerDistributionModule, aReg, asyncState, hardwareVars,
                   asyncVars>>

CANMessage ==
    \/ \E c \in Cartridges, cmd \in Commands : EnableHandler(c, cmd) /\ UNCHANGED asyncVars
    \/ \E m \in Cartridges \cup {NoModule} : AddressModule(m) /\ UNCHANGED asyncVars
    \/ \E c \in Cartridges, on \in BOOLEAN : SetColdBias(c, on)
    \/ \E m \in Modes : SetFeMode(m)

Next == CANMessage \/ Async \/ InitTimerElapses \/ ConsoleToggle \/ Restart

Spec == Init /\ [][Next]_vars

\* The main loop calls async() whenever no message is waiting, and time passes.
Fairness == WF_vars(Async) /\ WF_vars(InitTimerElapses)

FairSpec == Spec /\ Fairness

-----------------------------------------------------------------------------
(* The sets the counters are meant to count. *)

FullyPowered == {c \in Cartridges : state[c] # "OFF" /\ c \notin standby2}
InStandby2 == {c \in Cartridges : state[c] # "OFF" /\ c \in standby2}
NotOff == {c \in Cartridges : state[c] # "OFF"}

\* Every variable stays in its range; the counters stay bytes.
TypeOK ==
    /\ mode \in AllModes
    /\ state \in [Cartridges -> CartridgeStates]
    /\ standby2 \subseteq Cartridges
    /\ poweredModules \in Byte
    /\ standby2Modules \in Byte
    /\ enabled \subseteq Cartridges
    /\ lastEnable \in [Cartridges -> [data : AllCommands, status : Statuses]]
    /\ debugMe \in BOOLEAN
    /\ currentPowerDistributionModule \in Cartridges \cup {NoModule}
    /\ aReg \subseteq Cartridges
    /\ asyncState \in AsyncStates
    /\ hwPower \subseteq Cartridges
    /\ at10MHz \subseteq hwPower /\ coldOn \subseteq hwPower /\ waited \subseteq hwPower
    /\ currentAsyncCartridge \in Cartridges
    /\ asyncCartridgeTask \in TaskStates
    /\ asyncCartridgeInitState \in InitStates
    /\ initTimer \in TimerStates

\* powerDistribution.c:79 calls the counters "strictly controlled": each one
\* is the number of cartridges in the set it stands for, through every power
\* command, failed power-off, initialisation and restart.
CountersExact ==
    /\ poweredModules = Cardinality(FullyPowered)
    /\ standby2Modules = Cardinality(InStandby2)

\* A cartridge the software calls OFF is not fed and one it calls anything
\* else is, and pdModule[].enable says the same: the monitor points, which
\* have no hardware readback (pdSerialInterface.c:219), tell the truth.
PowerMatchesState == hwPower = NotOff /\ enabled = NotOff

\* The shadow register describes the supply (pdSerialInterface.c:185): the
\* next write to another module cannot switch this one.
RegisterMatchesHardware == aReg = hwPower

\* The supply starts to feed a cartridge only when that cartridge is commanded
\* on: the register is written for all of them at once, from a shadow
\* (pdSerialInterface.c:185), and no failed write, abandoned initialisation or
\* failed start leaves a bit in it that the next write would send.
OnlyCommandsFeed ==
    [][\A c \in Cartridges : c \in hwPower' \ hwPower =>
          \E cmd \in {1, 2} : EnableHandler(c, cmd) /\ state'[c] = "ON"]_vars

\* The supply stops feeding a cartridge only when that cartridge is commanded
\* off, or at a start: a command to one never cuts another.
OnlyCommandsCut ==
    [][\A c \in Cartridges : c \in hwPower \ hwPower' => EnableHandler(c, 0) \/ Restart]_vars

\* No cartridge is left INITING, which locks it out of CAN access, except the
\* one the idle loop is initialising.
OnlyCurrentIniting ==
    \A c \in Cartridges :
        state[c] = "INITING" => c = currentAsyncCartridge /\ asyncCartridgeTask = "INIT"

\* The timer runs exactly while the initialisation waits for it: starting it
\* never meets a timer already running, and the wait never queries one that
\* was stopped, for which it would wait forever (cartridge.c:749).
TimerDiscipline == asyncCartridgeInitState = "WAIT" <=> initTimer # "off"

\* A READY cartridge talks at 10 MHz: it went through cartridgeInit since it
\* was last fed (cartridge.c:79). This is promised to the cartridges that are
\* never sent to STANDBY2.
ReadyMeansInitialised ==
    \A c \in Cartridges \ Standby2Bands : state[c] = "READY" => c \in at10MHz

\* A READY cartridge stays READY until it is commanded out of it or the
\* computer restarts: the idle loop, which may still be at work on what a
\* cartridge was before (cartridge.c:571), never takes one up again.
OnlyCommandsEndReady ==
    [][\A c \in Cartridges : state[c] = "READY" /\ state'[c] # "READY" =>
          Restart \/ \E cmd \in {0, 2} : EnableHandler(c, cmd)]_vars

\* The status returned for the last enable command tells what became of it: a
\* command reported as carried out has put the cartridge in the set it asked
\* for, and the cartridge is still there.
LastEnableHonest ==
    \A c \in Cartridges :
        lastEnable[c].status = "NO_ERROR" =>
            /\ lastEnable[c].data = 0 <=> state[c] = "OFF"
            /\ lastEnable[c].data = 2 <=> c \in standby2

\* The commands keep the promise of PowerBudget.
Budget == INSTANCE PowerBudget WITH
    Bands <- Cartridges,
    Standby2Able <- Standby2Bands,
    MaxOn <- MAX_POWERED_BANDS_OPERATIONAL,
    MaxOnTroubleshooting <- MAX_POWERED_BANDS_TROUBLESHOOTING,
    MaxStandby2 <- MAX_STANDBY2_BANDS_OPERATIONAL,
    on <- FullyPowered,
    standby <- InStandby2,
    troubleshooting <- mode = "TROUBLESHOOTING"

KeepsPowerBudget == Budget!Spec

\* How many cartridges may draw full power at all: outside TROUBLESHOOTING_MODE
\* MAX_POWERED_BANDS_OPERATIONAL, and those switched on in it stay on.
FullPowerLimit ==
    IF /\ "TROUBLESHOOTING" \in Modes
       /\ MAX_POWERED_BANDS_TROUBLESHOOTING > MAX_POWERED_BANDS_OPERATIONAL
    THEN MAX_POWERED_BANDS_TROUBLESHOOTING
    ELSE MAX_POWERED_BANDS_OPERATIONAL

\* A failed power-off clears the STANDBY2 flag and keeps the counters
\* (pdModule.c:443), so each of them may be wrong afterwards; together they
\* still count the cartridges that are not OFF.
CountersAddUp == (poweredModules + standby2Modules) % 256 = Cardinality(NotOff)

\* pdModule.c:71 "Allow up to four to be powered on, so long as one of them is
\* in STANDBY2 mode": whatever fails, no more are powered than the two limits
\* allow together; and the supply feeds no more.
PoweredWithinLimits ==
    Cardinality(NotOff) <= FullPowerLimit + MAX_STANDBY2_BANDS_OPERATIONAL
SupplyWithinLimits ==
    Cardinality(hwPower) <= FullPowerLimit + MAX_STANDBY2_BANDS_OPERATIONAL

\* The scheduler has something to do: another subsystem's turn, or a call of
\* cartridgeAsync that does not find its wait unfinished.
AsyncMoves ==
    /\ asyncState # "OFF"
    /\ ~ /\ Running("INIT") /\ asyncCartridgeInitState = "WAIT"
         /\ initTimer = "running" /\ state[currentAsyncCartridge] # "OFF"

\* No call of async() gets stuck: whatever the commands made of a cartridge
\* while the idle loop was busy with it, cartridgeAsync has a branch that
\* carries its task on or gives it up (cartridge.c:571-800).
NothingBlocks ==
    /\ AsyncMoves => ENABLED <<Async>>_vars
    /\ initTimer = "running" => ENABLED <<InitTimerElapses>>_vars

\* As long as the console does not stop the idle loop for good, a cartridge
\* that was powered leaves ON and INITING, and one sent to STANDBY2 arrives:
\* no order of commands, failures and restarts keeps it locked out.
InitialisationEnds ==
    <>[](asyncState # "OFF") =>
        \A c \in Cartridges :
            /\ state[c] \in {"ON", "INITING"} ~> state[c] \notin {"ON", "INITING"}
            /\ state[c] = "GO_STANDBY2" ~> state[c] # "GO_STANDBY2"
=============================================================================
