----------------------------- MODULE Cartridge -----------------------------
(***************************************************************************)
(* The cartridges: access to them over CAN (cartridgeHandler), and the     *)
(* round the idle loop makes to initialise the cartridges just powered and *)
(* to take cartridges into STANDBY2 (cartridgeAsync, asyncCartridgeInit,   *)
(* asyncCartridgeGoStandby2), under the scheduler of async.c.              *)
(***************************************************************************)
EXTENDS PowerDistribution

VARIABLES
    currentAsyncCartridge,
    asyncCartridgeTask,         \* IDLE, INIT or GO_STANDBY2
    asyncCartridgeInitState,    \* SET_WAIT, WAIT or INIT
    initTimer                   \* TIMER_CARTRIDGE_INIT: off, running, expired

TaskStates == {"IDLE", "INIT", "GO_STANDBY2"}
InitStates == {"SET_WAIT", "WAIT", "INIT"}
TimerStates == {"off", "running", "expired"}

asyncVars == <<currentAsyncCartridge, asyncCartridgeTask,
               asyncCartridgeInitState, initTimer>>
handlerVars == <<mode, currentPowerDistributionModule, debugMe>>

-----------------------------------------------------------------------------
(* cartridge.c: cartridgeHandler, and the cold bias handlers behind it *)

\* The states cartridgeHandler lets through to the cartridge's modules.
Accessible(c) == state[c] \in {"ON", "READY"}

\* A control message that switches a cold bias module (LNA, LNA LED, SIS,
\* magnet or heater) of c; each of their handlers refuses it in STANDBY2.
SetColdBias(c, on) ==
    /\ "bias" \in Operations
    /\ mode # "MAINTENANCE"
    /\ Accessible(c) /\ c \notin standby2
    /\ mode # "SIMULATION"
    /\ coldOn' = IF on THEN coldOn \cup ({c} \cap hwPower) ELSE coldOn \ {c}
    /\ UNCHANGED <<handlerVars, cartridgeVars, counterVars, lastEnable, enabled,
                   aReg, hwPower, at10MHz, waited, asyncState, asyncVars>>

-----------------------------------------------------------------------------
(* cartridge.c: cartridgeAsync. Every action is one call of it. *)

\* Go on to the next cartridge; after the last one the round is ASYNC_DONE.
NextCartridge ==
    IF currentAsyncCartridge + 1 = CARTRIDGES_NUMBER
    THEN currentAsyncCartridge' = 0 /\ asyncState' = "FETIM"
    ELSE currentAsyncCartridge' = currentAsyncCartridge + 1 /\ UNCHANGED asyncState

Running(task) == asyncState = "CARTRIDGE" /\ asyncCartridgeTask = task

TaskDone == asyncCartridgeTask' = "IDLE" /\ NextCartridge

\* A cartridge found ON is initialised next, one found GO_STANDBY2 is taken
\* there; any other is passed over.
StartTask ==
    LET c == currentAsyncCartridge IN
    /\ Running("IDLE")
    /\ \/ /\ state[c] = "ON"
          /\ asyncCartridgeTask' = "INIT"
          /\ UNCHANGED <<currentAsyncCartridge, asyncState>>
       \/ /\ state[c] = "GO_STANDBY2"
          /\ asyncCartridgeTask' = "GO_STANDBY2"
          /\ UNCHANGED <<currentAsyncCartridge, asyncState>>
       \/ /\ state[c] \notin {"ON", "GO_STANDBY2"}
          /\ NextCartridge
          /\ UNCHANGED asyncCartridgeTask
    /\ UNCHANGED <<handlerVars, cartridgeVars, counterVars, lastEnable, supplyVars,
                   asyncCartridgeInitState, initTimer>>

\* asyncCartridgeInit: the cartridge was turned off in the meantime. Mutated
\* forms: only a cartridge not yet waited for is given up; the timer is left
\* running; the wait is not started over.
InitAbandonedMutantLate ==
    /\ Running("INIT") /\ state[currentAsyncCartridge] = "OFF"
    /\ asyncCartridgeInitState = "SET_WAIT"
    /\ initTimer' = "off"
    /\ TaskDone
    /\ UNCHANGED <<handlerVars, cartridgeVars, counterVars, lastEnable, supplyVars,
                   asyncCartridgeInitState>>

InitAbandonedMutantTimer ==
    /\ Running("INIT") /\ state[currentAsyncCartridge] = "OFF"
    /\ asyncCartridgeInitState' = "SET_WAIT"
    /\ UNCHANGED initTimer
    /\ TaskDone
    /\ UNCHANGED <<handlerVars, cartridgeVars, counterVars, lastEnable, supplyVars>>

InitAbandonedMutantState ==
    /\ Running("INIT") /\ state[currentAsyncCartridge] = "OFF"
    /\ UNCHANGED asyncCartridgeInitState
    /\ initTimer' = "off"
    /\ TaskDone
    /\ UNCHANGED <<handlerVars, cartridgeVars, counterVars, lastEnable, supplyVars>>

InitAbandoned ==
    /\ Running("INIT") /\ state[currentAsyncCartridge] = "OFF"
    /\ asyncCartridgeInitState' = "SET_WAIT"
    /\ initTimer' = "off"
    /\ TaskDone
    /\ UNCHANGED <<handlerVars, cartridgeVars, counterVars, lastEnable, supplyVars>>

\* Mutated form: a cartridge turned off in the meantime is initialised.
InitStepMutant(s) == Running("INIT") /\ asyncCartridgeInitState = s

InitStep(s) ==
    /\ Running("INIT") /\ state[currentAsyncCartridge] # "OFF"
    /\ asyncCartridgeInitState = s

InitSetWait ==
    LET c == currentAsyncCartridge IN
    /\ InitStep("SET_WAIT") /\ initTimer = "off"
    /\ state' = [state EXCEPT ![c] = "INITING"]
    /\ initTimer' = "running"
    /\ waited' = waited \cup ({c} \cap hwPower)
    /\ asyncCartridgeInitState' = "WAIT"
    /\ UNCHANGED <<handlerVars, standby2, counterVars, lastEnable, enabled, aReg,
                   hwPower, at10MHz, coldOn, asyncState, currentAsyncCartridge,
                   asyncCartridgeTask>>

\* queryAsyncTimer stops an expired timer.
InitWaitOver ==
    /\ InitStep("WAIT") /\ initTimer = "expired"
    /\ initTimer' = "off"
    /\ asyncCartridgeInitState' = "INIT"
    /\ UNCHANGED <<handlerVars, cartridgeVars, counterVars, lastEnable, supplyVars,
                   asyncState, currentAsyncCartridge, asyncCartridgeTask>>

\* cartridgeInit: both polarizations and the LO are put at 10 MHz. Writes are
\* not acknowledged, so an unfed cartridge reports no error.
InitDone ==
    LET c == currentAsyncCartridge IN
    /\ InitStep("INIT")
    /\ at10MHz' = at10MHz \cup ({c} \cap hwPower)
    /\ state' = [state EXCEPT ![c] = "READY"]
    /\ asyncCartridgeInitState' = "SET_WAIT"
    /\ TaskDone
    /\ UNCHANGED <<handlerVars, standby2, counterVars, lastEnable, enabled, aReg,
                   hwPower, coldOn, waited, initTimer>>

\* asyncCartridgeInit returns ERROR: the timer is already running, or one of
\* the writes of cartridgeInit fails.
InitReturnsError ==
    IF asyncCartridgeInitState = "SET_WAIT" THEN initTimer # "off"
    ELSE asyncCartridgeInitState = "INIT" /\ "init" \in Faults

\* The power is turned off through the module the last power distribution
\* message selected and the serial port of the cartridge being initialised.
InitFailed ==
    LET c == currentAsyncCartridge IN
    /\ Running("INIT") /\ state[c] # "OFF" /\ InitReturnsError
    /\ SetPdModuleEnable(currentPowerDistributionModule, FALSE, FALSE)
    /\ CartridgeStop(c)
    /\ poweredModules' = Decremented(poweredModules)
    /\ TaskDone
    /\ UNCHANGED <<handlerVars, standby2Modules, lastEnable,
                   asyncCartridgeInitState, initTimer>>

\* Mutated forms: the state is left as it is; a failed power-off does not
\* keep the counter.
InitAndPowerOffFailedMutantState ==
    LET c == currentAsyncCartridge IN
    /\ Running("INIT") /\ state[c] # "OFF" /\ InitReturnsError
    /\ SetPdModuleEnableFails("disable")
    /\ lastEnable' = [lastEnable EXCEPT ![c].status = "ERROR"]
    /\ TaskDone
    /\ UNCHANGED <<handlerVars, cartridgeVars, counterVars,
                   asyncCartridgeInitState, initTimer>>

InitAndPowerOffFailedMutantCount ==
    LET c == currentAsyncCartridge IN
    /\ Running("INIT") /\ state[c] # "OFF" /\ InitReturnsError
    /\ SetPdModuleEnableFails("disable")
    /\ lastEnable' = [lastEnable EXCEPT ![c].status = "ERROR"]
    /\ state' = [state EXCEPT ![c] = "ERROR"]
    /\ poweredModules' = Decremented(poweredModules)
    /\ TaskDone
    /\ UNCHANGED <<handlerVars, standby2, standby2Modules,
                   asyncCartridgeInitState, initTimer>>

InitAndPowerOffFailed ==
    LET c == currentAsyncCartridge IN
    /\ Running("INIT") /\ state[c] # "OFF" /\ InitReturnsError
    /\ SetPdModuleEnableFails("disable")
    /\ lastEnable' = [lastEnable EXCEPT ![c].status = "ERROR"]
    /\ state' = [state EXCEPT ![c] = "ERROR"]
    /\ TaskDone
    /\ UNCHANGED <<handlerVars, standby2, counterVars,
                   asyncCartridgeInitState, initTimer>>

GoStandby2Abandoned ==
    /\ Running("GO_STANDBY2") /\ state[currentAsyncCartridge] = "OFF"
    /\ TaskDone
    /\ UNCHANGED <<handlerVars, cartridgeVars, counterVars, lastEnable, supplyVars,
                   asyncCartridgeInitState, initTimer>>

\* asyncCartridgeGoStandby2 switches the cold bias electronics off; it does
\* not look at what the switching functions return.
GoStandby2 ==
    LET c == currentAsyncCartridge IN
    /\ Running("GO_STANDBY2") /\ state[c] # "OFF"
    /\ \/ coldOn' = IF mode = "SIMULATION" THEN coldOn ELSE coldOn \ {c}
       \/ "standby2" \in Faults /\ UNCHANGED coldOn
    /\ state' = [state EXCEPT ![c] = "READY"]
    /\ TaskDone
    /\ UNCHANGED <<handlerVars, standby2, counterVars, lastEnable, enabled, aReg,
                   hwPower, at10MHz, waited, asyncCartridgeInitState, initTimer>>

CartridgeAsync ==
    \/ StartTask
    \/ InitAbandoned \/ InitSetWait \/ InitWaitOver
    \/ InitDone \/ InitFailed \/ InitAndPowerOffFailed
    \/ GoStandby2Abandoned \/ GoStandby2

-----------------------------------------------------------------------------
(* async.c: the other subsystems, seen from here, finish their turn. *)

OtherTurn(turn, next) ==
    /\ asyncState = turn
    /\ asyncState' = next
    /\ UNCHANGED <<handlerVars, cartridgeVars, counterVars, lastEnable, supplyVars,
                   asyncVars>>

Async ==
    \/ CartridgeAsync
    \/ OtherTurn("CRYOSTAT", "CARTRIDGE")
    \/ OtherTurn("FETIM", "CRYOSTAT")
    \/ OtherTurn("ON", "CRYOSTAT")

\* timer.c: the time given to startAsyncTimer elapses.
InitTimerElapses ==
    /\ initTimer = "running"
    /\ initTimer' = "expired"
    /\ UNCHANGED <<handlerVars, cartridgeVars, counterVars, lastEnable, supplyVars,
                   asyncState, currentAsyncCartridge, asyncCartridgeTask,
                   asyncCartridgeInitState>>

\* console.c: command 'a' stops the idle loop's work, or starts it again.
ConsoleToggle ==
    /\ "console" \in Operations
    /\ asyncState' = IF asyncState # "OFF" THEN "OFF" ELSE "ON"
    /\ UNCHANGED <<handlerVars, cartridgeVars, counterVars, lastEnable, supplyVars,
                   asyncVars>>
=============================================================================
