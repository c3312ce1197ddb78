------------------------- MODULE PowerDistribution -------------------------
(***************************************************************************)
(* The power distribution system: the CAN handler that powers a cartridge  *)
(* on, off or into STANDBY2 (pdModule.c), the counters that limit how many *)
(* are powered (powerDistribution.h), and the shadow register through      *)
(* which the supply is switched (pdSerialInterface.c).                     *)
(*                                                                         *)
(* The cartridge state it shares with the asynchronous initialisation is   *)
(* declared here; the module Cartridge holds the other steps on it.        *)
(***************************************************************************)
EXTENDS Integers, FiniteSets

CONSTANTS
    CARTRIDGES_NUMBER,                  \* receiver bands, 10 in the front end
    Available,                          \* cartridges outfitted (frontend.ini)
    Standby2Bands,                      \* bands allowed in STANDBY2 (BAND6)
    MAX_POWERED_BANDS_OPERATIONAL,
    MAX_POWERED_BANDS_TROUBLESHOOTING,
    MAX_STANDBY2_BANDS_OPERATIONAL,
    Commands,                           \* payloads of the enable message
    Modes,                              \* modes a master may command
    Operations,                         \* what else may happen, see below
    Faults                              \* serial writes that may fail

Cartridges == 0 .. CARTRIDGES_NUMBER - 1

\* Any other value the RCA can put in currentPowerDistributionModule, and the
\* value powerDistributionStop leaves there at start.
NoModule == CARTRIDGES_NUMBER

\* Payloads: off, on, STANDBY2, and any other value.
AllCommands == 0 .. 3
AllModes == {"OPERATIONAL", "TROUBLESHOOTING", "MAINTENANCE", "SIMULATION"}
\* Other power distribution messages, cold bias messages, the console, restarts.
AllOperations == {"address", "bias", "console", "restart"}
FaultKinds == {"enable", "disable", "init", "standby2", "startup"}

\* The counters are unsigned char; ten cartridges never fill one.
Byte == 0 .. 255

ASSUME ConstantsAssumption ==
    /\ CARTRIDGES_NUMBER \in 1 .. 255
    /\ Available \subseteq Cartridges
    /\ Standby2Bands \subseteq Cartridges
    /\ MAX_POWERED_BANDS_OPERATIONAL \in Byte
    /\ MAX_POWERED_BANDS_TROUBLESHOOTING \in Byte
    /\ MAX_STANDBY2_BANDS_OPERATIONAL \in Byte
    /\ Commands \subseteq AllCommands
    /\ Modes \subseteq AllModes
    /\ Operations \subseteq AllOperations
    /\ Faults \subseteq FaultKinds

VARIABLES
    mode,               \* frontend.mode
    state,              \* frontend.cartridge[c].state
    standby2,           \* the cartridges whose standby2 flag is TRUE
    poweredModules,     \* frontend.powerDistribution.poweredModules
    standby2Modules,    \* frontend.powerDistribution.standby2Modules
    enabled,            \* the modules whose pdModule[].enable is set
    lastEnable,         \* pdModule[c].lastEnable: its payload and status
    debugMe,            \* ERC_DEBUG_ME has been stored by enableHandler
    currentPowerDistributionModule,
    aReg,               \* pdRegisters.aReg, as the set of its bits
    asyncState,         \* async.c: the subsystem whose turn it is
    hwPower,            \* hardware: the cartridges the supply feeds
    at10MHz,            \* hardware: those whose CPLDs run at 10 MHz
    coldOn,             \* hardware: those whose cold bias electronics are on
    waited              \* history: those given the power-up wait since fed

CartridgeStates == {"ERROR", "OFF", "ON", "INITING", "READY", "GO_STANDBY2"}
Statuses == {"NO_ERROR", "ERROR", "HARDW_ERROR", "HARDW_BLKD_ERR"}
AsyncStates == {"CRYOSTAT", "CARTRIDGE", "FETIM", "OFF", "ON"}

cartridgeVars == <<state, standby2>>
counterVars == <<poweredModules, standby2Modules>>
hardwareVars == <<hwPower, at10MHz, coldOn, waited>>
supplyVars == <<aReg, enabled, hardwareVars>>

-----------------------------------------------------------------------------
(* pdSerialInterface.c: setPdModuleEnable *)

\* What the supply feeds changes: an unfed cartridge forgets its CPLD speed
\* and its bias settings.
SupplyFeeds(fed) ==
    /\ hwPower' = fed
    /\ at10MHz' = at10MHz \cap fed
    /\ coldOn' = coldOn \cap fed
    /\ waited' = waited \cap fed

\* SET_PD_MODULE_ENABLE and SET_PD_MODULE_DISABLE: bit m of the register.
RegisterWith(m, on) == IF on THEN aReg \cup {m} ELSE aReg \ {m}

\* The call returns NO_ERROR. "toSupply" says whether currentModule selects
\* the serial port of the power distribution system; a frame sent to another
\* port leaves the supply as it is. In SIMULATION_MODE nothing is sent.
SetPdModuleEnable(m, on, toSupply) ==
    /\ enabled' = (IF on THEN enabled \cup {m} ELSE enabled \ {m}) \cap Cartridges
    /\ IF mode = "SIMULATION"
       THEN UNCHANGED <<aReg, hardwareVars>>
       ELSE /\ aReg' = RegisterWith(m, on)
            /\ SupplyFeeds(IF toSupply THEN RegisterWith(m, on) ELSE hwPower)

\* The call returns ERROR: the mux stayed busy, nothing was sent and aReg was
\* put back.
\* Mutated form: the shadow register is not put back.
SetPdModuleEnableFailsMutant(kind) ==
    /\ kind \in Faults
    /\ mode # "SIMULATION"
    /\ aReg' = RegisterWith(currentPowerDistributionModule', kind = "enable")
    /\ UNCHANGED <<enabled, hardwareVars>>

SetPdModuleEnableFails(kind) ==
    /\ kind \in Faults
    /\ mode # "SIMULATION"
    /\ UNCHANGED supplyVars

-----------------------------------------------------------------------------
(* pdModule.c: enableHandler *)

\* unsigned char arithmetic of the counters
Incremented(counter) == (counter + 1) % 256
Decremented(counter) == (counter - 1) % 256

MaxPoweredModules ==
    IF mode = "TROUBLESHOOTING" THEN MAX_POWERED_BANDS_TROUBLESHOOTING
                                ELSE MAX_POWERED_BANDS_OPERATIONAL

AllowStandby2(c) == c \in Standby2Bands

\* Mutated form: one cartridge too many at full power.
AllowPowerOnMutant(toStandby2) ==
    IF toStandby2 THEN standby2Modules < MAX_STANDBY2_BANDS_OPERATIONAL
                  ELSE MaxPoweredModules - poweredModules >= 0

AllowPowerOn(toStandby2) ==
    IF toStandby2 THEN standby2Modules < MAX_STANDBY2_BANDS_OPERATIONAL
                  ELSE MaxPoweredModules - poweredModules > 0

AllowedCommand(c, cmd) ==
    /\ state[c] # "ERROR"
    /\ cmd \in {1, 2}
    /\ cmd = 2 => AllowStandby2(c)

AlreadyIn(c, cmd) == state[c] # "OFF" /\ (c \in standby2 <=> cmd = 2)

\* The status with which a command to a powered state is refused before the
\* limits are looked at.
RefusalStatus(c, cmd) ==
    CASE state[c] = "ERROR" -> "HARDW_ERROR"
      [] state[c] # "ERROR" /\ cmd = 2 -> "HARDW_BLKD_ERR"
      [] OTHER -> "ERROR"

\* lastEnable keeps the message and the status the handler gives it.
Remember(c, cmd, status) ==
    lastEnable' = [lastEnable EXCEPT ![c] = [data |-> cmd, status |-> status]]

Refuse(c, cmd) ==
    /\ cmd # 0
    /\ ~AllowedCommand(c, cmd)
    /\ Remember(c, cmd, RefusalStatus(c, cmd))
    /\ UNCHANGED <<cartridgeVars, counterVars, supplyVars, asyncState, debugMe>>

NothingToDo(c, cmd) ==
    /\ IF cmd = 0 THEN state[c] = "OFF"
                  ELSE AllowedCommand(c, cmd) /\ AlreadyIn(c, cmd)
    /\ Remember(c, cmd, "NO_ERROR")
    /\ UNCHANGED <<cartridgeVars, counterVars, supplyVars, asyncState, debugMe>>

OverLimit(c, cmd) ==
    /\ AllowedCommand(c, cmd) /\ ~AlreadyIn(c, cmd) /\ ~AllowPowerOn(cmd = 2)
    /\ Remember(c, cmd, "HARDW_BLKD_ERR")
    /\ UNCHANGED <<cartridgeVars, counterVars, supplyVars, asyncState, debugMe>>

\* ST_CARTRIDGE_OFF__CARTRIDGE_ON and ST_CARTRIDGE_OFF__STANDBY2
PowerOn(c, cmd) ==
    /\ AllowedCommand(c, cmd) /\ state[c] = "OFF" /\ AllowPowerOn(cmd = 2)
    /\ SetPdModuleEnable(c, TRUE, TRUE)
    /\ state' = [state EXCEPT ![c] = "ON"]
    /\ asyncState' = "CARTRIDGE"
    /\ IF cmd = 2
       THEN /\ standby2' = standby2 \cup {c}
            /\ standby2Modules' = Incremented(standby2Modules)
            /\ UNCHANGED poweredModules
       ELSE /\ poweredModules' = Incremented(poweredModules)
            /\ UNCHANGED <<standby2, standby2Modules>>
    /\ Remember(c, cmd, "NO_ERROR")
    /\ UNCHANGED debugMe

\* Mutated form: the error is not stored in lastEnable.
PowerOnFailsMutant(c, cmd) ==
    /\ AllowedCommand(c, cmd) /\ state[c] = "OFF" /\ AllowPowerOn(cmd = 2)
    /\ SetPdModuleEnableFails("enable")
    /\ Remember(c, cmd, "NO_ERROR")
    /\ UNCHANGED <<cartridgeVars, counterVars, asyncState, debugMe>>

PowerOnFails(c, cmd) ==
    /\ AllowedCommand(c, cmd) /\ state[c] = "OFF" /\ AllowPowerOn(cmd = 2)
    /\ SetPdModuleEnableFails("enable")
    /\ Remember(c, cmd, "ERROR")
    /\ UNCHANGED <<cartridgeVars, counterVars, asyncState, debugMe>>

\* ST_STANDBY2__CARTRIDGE_ON
Standby2ToOn(c, cmd) ==
    /\ cmd = 1 /\ AllowedCommand(c, cmd)
    /\ state[c] # "OFF" /\ c \in standby2 /\ AllowPowerOn(FALSE)
    /\ standby2' = standby2 \ {c}
    /\ standby2Modules' = Decremented(standby2Modules)
    /\ poweredModules' = Incremented(poweredModules)
    /\ Remember(c, cmd, "NO_ERROR")
    /\ UNCHANGED <<state, supplyVars, asyncState, debugMe>>

\* ST_CARTRIDGE_ON__STANDBY2; the case has no return and runs on into the
\* default, which stores ERC_DEBUG_ME.
OnToStandby2(c, cmd) ==
    /\ cmd = 2 /\ AllowedCommand(c, cmd)
    /\ state[c] # "OFF" /\ c \notin standby2 /\ AllowPowerOn(TRUE)
    /\ standby2' = standby2 \cup {c}
    /\ standby2Modules' = Incremented(standby2Modules)
    /\ poweredModules' = Decremented(poweredModules)
    /\ state' = [state EXCEPT ![c] = "GO_STANDBY2"]
    /\ asyncState' = "CARTRIDGE"
    /\ debugMe' = TRUE
    /\ Remember(c, cmd, "NO_ERROR")
    /\ UNCHANGED supplyVars

\* The cartridge leaves the counter it was in; the handler looks at standby2
\* before cartridgeStop clears it. Mutated form: it looks afterwards.
CountOutMutant(c) == poweredModules' = Decremented(poweredModules) /\ UNCHANGED standby2Modules

CountOut(c) ==
    IF c \in standby2
    THEN standby2Modules' = Decremented(standby2Modules) /\ UNCHANGED poweredModules
    ELSE poweredModules' = Decremented(poweredModules) /\ UNCHANGED standby2Modules

\* cartridge.c: cartridgeStop marks the cartridge OFF and out of STANDBY2.
CartridgeStop(c) ==
    /\ state' = [state EXCEPT ![c] = "OFF"]
    /\ standby2' = standby2 \ {c}

PowerOff(c, cmd) ==
    /\ cmd = 0 /\ state[c] # "OFF"
    /\ SetPdModuleEnable(c, FALSE, TRUE)
    /\ CartridgeStop(c)
    /\ CountOut(c)
    /\ Remember(c, cmd, "NO_ERROR")
    /\ UNCHANGED <<asyncState, debugMe>>

\* Mutated form: the cartridge stays OFF as cartridgeStop left it.
PowerOffFailsMutant(c, cmd) ==
    /\ cmd = 0 /\ state[c] # "OFF"
    /\ SetPdModuleEnableFails("disable")
    /\ CartridgeStop(c)
    /\ Remember(c, cmd, "ERROR")
    /\ UNCHANGED <<counterVars, asyncState, debugMe>>

\* Mutated form: the counter is given back as if the cartridge were off.
PowerOffFailsMutantCount(c, cmd) ==
    /\ cmd = 0 /\ state[c] # "OFF"
    /\ SetPdModuleEnableFails("disable")
    /\ state' = [state EXCEPT ![c] = "ERROR"]
    /\ standby2' = standby2 \ {c}
    /\ CountOut(c)
    /\ Remember(c, cmd, "ERROR")
    /\ UNCHANGED <<asyncState, debugMe>>

PowerOffFails(c, cmd) ==
    /\ cmd = 0 /\ state[c] # "OFF"
    /\ SetPdModuleEnableFails("disable")
    /\ state' = [state EXCEPT ![c] = "ERROR"]
    /\ standby2' = standby2 \ {c}
    /\ Remember(c, cmd, "ERROR")
    /\ UNCHANGED <<counterVars, asyncState, debugMe>>

\* A control message on the enable RCA of cartridge c. The RCA selects the
\* module before anything is checked; MAINTENANCE_MODE blocks standard RCAs.
EnableHandler(c, cmd) ==
    /\ c \in Available
    /\ mode # "MAINTENANCE"
    /\ currentPowerDistributionModule' = c
    /\ UNCHANGED mode
    /\ \/ Refuse(c, cmd)
       \/ NothingToDo(c, cmd)
       \/ OverLimit(c, cmd)
       \/ PowerOn(c, cmd)
       \/ PowerOnFails(c, cmd)
       \/ Standby2ToOn(c, cmd)
       \/ OnToStandby2(c, cmd)
       \/ PowerOff(c, cmd)
       \/ PowerOffFails(c, cmd)

\* Any other message with a power distribution RCA: a monitor request, the
\* poweredModules RCA, an absent cartridge or an RCA out of range. It leaves
\* the module it addressed selected.
AddressModule(m) ==
    /\ "address" \in Operations
    /\ mode # "MAINTENANCE"
    /\ currentPowerDistributionModule' = m
    /\ UNCHANGED <<mode, cartridgeVars, counterVars, supplyVars, lastEnable,
                   asyncState, debugMe>>
=============================================================================
