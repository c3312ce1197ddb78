------------------------ MODULE CartridgePowerProofs ------------------------
(***************************************************************************)
(* Proofs about CartridgePower, for every number of cartridges and every   *)
(* choice of modes, operations and failing writes the assumptions of each  *)
(* theorem leave open; the one about liveness is for at most the ten       *)
(* cartridges of the code, with the hypothesis NothingBlocks.              *)
(***************************************************************************)
EXTENDS CartridgePower, FiniteSetTheorems, TLAPS

-----------------------------------------------------------------------------
(* Type correctness *)

LEMMA CartridgesFacts ==
    /\ CARTRIDGES_NUMBER \in Nat
    /\ 0 \in Cartridges
    /\ NoModule \notin Cartridges
    /\ Available \subseteq Cartridges
BY ConstantsAssumption DEF Cartridges, NoModule

\* The counters wrap as bytes do.
LEMMA CountersAreBytes ==
    ASSUME NEW counter \in Byte
    PROVE  Incremented(counter) \in Byte /\ Decremented(counter) \in Byte
BY DEF Byte, Incremented, Decremented

\* Every step that uses the supply leaves the sets of fed, initialised, biased
\* and waited-for cartridges inside one another.
LEMMA SupplyStaysTyped ==
    ASSUME TypeOK, NEW m \in Cartridges \cup {NoModule}, NEW on \in BOOLEAN,
           NEW toSupply \in BOOLEAN, on => m \in Cartridges,
           SetPdModuleEnable(m, on, toSupply)
    PROVE  /\ enabled' \subseteq Cartridges
           /\ aReg' \subseteq Cartridges
           /\ hwPower' \subseteq Cartridges
           /\ at10MHz' \subseteq hwPower' /\ coldOn' \subseteq hwPower'
           /\ waited' \subseteq hwPower'
<1>1. RegisterWith(m, on) \subseteq Cartridges
  BY DEF RegisterWith, TypeOK
<1>2. CASE mode = "SIMULATION"
  BY <1>2 DEF SetPdModuleEnable, TypeOK, hardwareVars
<1>3. CASE mode # "SIMULATION"
  BY <1>1, <1>3 DEF SetPdModuleEnable, SupplyFeeds, TypeOK
<1>4. QED
  BY <1>2, <1>3

\* A message on the enable RCA keeps every variable in its range.
LEMMA EnableHandlerTyped ==
    ASSUME TypeOK, NEW c \in Cartridges, NEW cmd \in Commands,
           EnableHandler(c, cmd), UNCHANGED asyncVars
    PROVE  TypeOK'
<1> USE CartridgesFacts, CountersAreBytes
<1>0. cmd \in AllCommands
  BY ConstantsAssumption
<1>1. ASSUME NEW s \in Statuses, Remember(c, cmd, s)
      PROVE  lastEnable' \in [Cartridges -> [data : AllCommands, status : Statuses]]
  BY <1>0, <1>1 DEF Remember, TypeOK
<1>2. RefusalStatus(c, cmd) \in Statuses
  BY DEF RefusalStatus, Statuses
<1>3. {"NO_ERROR", "ERROR", "HARDW_BLKD_ERR"} \subseteq Statuses
  BY DEF Statuses
<1>4. currentPowerDistributionModule' \in Cartridges \cup {NoModule} /\ mode' \in AllModes
  BY DEF EnableHandler, TypeOK
<1>5. ASSUME UNCHANGED supplyVars
      PROVE  /\ enabled' \subseteq Cartridges
             /\ aReg' \subseteq Cartridges
             /\ hwPower' \subseteq Cartridges
             /\ at10MHz' \subseteq hwPower' /\ coldOn' \subseteq hwPower'
             /\ waited' \subseteq hwPower'
  BY <1>5 DEF supplyVars, hardwareVars, TypeOK
<1>6. CASE Refuse(c, cmd)
  BY <1>1, <1>2, <1>4, <1>5, <1>6
     DEF Refuse, TypeOK, cartridgeVars, counterVars, asyncVars
<1>7. CASE NothingToDo(c, cmd)
  BY <1>1, <1>3, <1>4, <1>5, <1>7
     DEF NothingToDo, TypeOK, cartridgeVars, counterVars, asyncVars
<1>8. CASE OverLimit(c, cmd)
  BY <1>1, <1>3, <1>4, <1>5, <1>8
     DEF OverLimit, TypeOK, cartridgeVars, counterVars, asyncVars
<1>9. CASE PowerOn(c, cmd)
  <2>1. /\ enabled' \subseteq Cartridges
        /\ aReg' \subseteq Cartridges
        /\ hwPower' \subseteq Cartridges
        /\ at10MHz' \subseteq hwPower' /\ coldOn' \subseteq hwPower'
        /\ waited' \subseteq hwPower'
    BY <1>9, SupplyStaysTyped DEF PowerOn
  <2>2. poweredModules' \in Byte /\ standby2Modules' \in Byte /\ standby2' \subseteq Cartridges
    BY <1>9 DEF PowerOn, TypeOK
  <2>3. QED
    BY <1>1, <1>3, <1>4, <1>9, <2>1, <2>2
       DEF PowerOn, TypeOK, CartridgeStates, AsyncStates, asyncVars
<1>10. CASE PowerOnFails(c, cmd)
  BY <1>1, <1>3, <1>4, <1>5, <1>10
     DEF PowerOnFails, SetPdModuleEnableFails, TypeOK, cartridgeVars, counterVars, asyncVars
<1>11. CASE Standby2ToOn(c, cmd)
  BY <1>1, <1>3, <1>4, <1>5, <1>11 DEF Standby2ToOn, TypeOK, asyncVars
<1>12. CASE OnToStandby2(c, cmd)
  BY <1>1, <1>3, <1>4, <1>5, <1>12
     DEF OnToStandby2, TypeOK, CartridgeStates, AsyncStates, asyncVars
<1>13. CASE PowerOff(c, cmd)
  <2>1. /\ enabled' \subseteq Cartridges
        /\ aReg' \subseteq Cartridges
        /\ hwPower' \subseteq Cartridges
        /\ at10MHz' \subseteq hwPower' /\ coldOn' \subseteq hwPower'
        /\ waited' \subseteq hwPower'
    BY <1>13, SupplyStaysTyped DEF PowerOff
  <2>2. poweredModules' \in Byte /\ standby2Modules' \in Byte
    BY <1>13 DEF PowerOff, CountOut, TypeOK
  <2>3. QED
    BY <1>1, <1>3, <1>4, <1>13, <2>1, <2>2
       DEF PowerOff, CartridgeStop, TypeOK, CartridgeStates, asyncVars
<1>14. CASE PowerOffFails(c, cmd)
  BY <1>1, <1>3, <1>4, <1>5, <1>14
     DEF PowerOffFails, SetPdModuleEnableFails, TypeOK, CartridgeStates, counterVars, asyncVars
<1>15. QED
  BY <1>6, <1>7, <1>8, <1>9, <1>10, <1>11, <1>12, <1>13, <1>14 DEF EnableHandler

\* The idle loop stays inside the array of cartridges.
LEMMA TaskDoneTyped ==
    ASSUME TypeOK, NextCartridge
    PROVE  currentAsyncCartridge' \in Cartridges /\ asyncState' \in AsyncStates
BY ConstantsAssumption DEF NextCartridge, TypeOK, Cartridges, AsyncStates

\* One call of cartridgeAsync keeps every variable in its range.
LEMMA CartridgeAsyncTyped ==
    ASSUME TypeOK, CartridgeAsync
    PROVE  TypeOK'
<1> DEFINE c == currentAsyncCartridge
<1> USE CountersAreBytes DEF handlerVars, cartridgeVars, counterVars
<1>0. c \in Cartridges
  BY DEF TypeOK
<1>1. CASE StartTask
  BY <1>1, TaskDoneTyped
     DEF StartTask, TypeOK, TaskStates, supplyVars, hardwareVars
<1>2. CASE InitAbandoned
  BY <1>2, TaskDoneTyped
     DEF InitAbandoned, TaskDone, TypeOK, TaskStates, InitStates, TimerStates,
         supplyVars, hardwareVars
<1>3. CASE InitSetWait
  <2>1. waited' \subseteq hwPower' /\ hwPower' = hwPower
    BY <1>0, <1>3 DEF InitSetWait, TypeOK
  <2>2. QED
    BY <1>0, <1>3, <2>1
       DEF InitSetWait, TypeOK, CartridgeStates, InitStates, TimerStates
<1>4. CASE InitWaitOver
  BY <1>4 DEF InitWaitOver, TypeOK, InitStates, TimerStates, supplyVars, hardwareVars
<1>5. CASE InitDone
  BY <1>0, <1>5, TaskDoneTyped
     DEF InitDone, TaskDone, TypeOK, CartridgeStates, TaskStates, InitStates
<1>6. CASE InitFailed
  <2>1. /\ enabled' \subseteq Cartridges
        /\ aReg' \subseteq Cartridges
        /\ hwPower' \subseteq Cartridges
        /\ at10MHz' \subseteq hwPower' /\ coldOn' \subseteq hwPower'
        /\ waited' \subseteq hwPower'
    <3>1. SetPdModuleEnable(currentPowerDistributionModule, FALSE, FALSE)
      BY <1>6 DEF InitFailed
    <3>2. currentPowerDistributionModule \in Cartridges \cup {NoModule}
      BY DEF TypeOK
    <3>3. QED
      BY <3>1, <3>2, SupplyStaysTyped
  <2>2. poweredModules' \in Byte /\ standby2Modules' \in Byte
    BY <1>6 DEF InitFailed, TypeOK
  <2>3. QED
    BY <1>0, <1>6, <2>1, <2>2, TaskDoneTyped
       DEF InitFailed, CartridgeStop, TaskDone, TypeOK, CartridgeStates, TaskStates
<1>7. CASE InitAndPowerOffFailed
  <2>1. lastEnable' \in [Cartridges -> [data : AllCommands, status : Statuses]]
    BY <1>0, <1>7 DEF InitAndPowerOffFailed, TypeOK, Statuses
  <2>2. QED
    BY <1>0, <1>7, <2>1, TaskDoneTyped
       DEF InitAndPowerOffFailed, SetPdModuleEnableFails, TaskDone, TypeOK,
           CartridgeStates, TaskStates, supplyVars, hardwareVars
<1>8. CASE GoStandby2Abandoned
  BY <1>8, TaskDoneTyped
     DEF GoStandby2Abandoned, TaskDone, TypeOK, TaskStates, supplyVars, hardwareVars
<1>9. CASE GoStandby2
  <2>1. coldOn' \subseteq coldOn
    BY <1>9 DEF GoStandby2
  <2>2. QED
    BY <1>0, <1>9, <2>1, TaskDoneTyped
       DEF GoStandby2, TaskDone, TypeOK, CartridgeStates, TaskStates
<1>10. QED
  BY <1>1, <1>2, <1>3, <1>4, <1>5, <1>6, <1>7, <1>8, <1>9 DEF CartridgeAsync

LEMMA StartValues ==
    /\ [c \in Cartridges |-> [data |-> 0, status |-> "NO_ERROR"]]
            \in [Cartridges -> [data : AllCommands, status : Statuses]]
    /\ [c \in Cartridges |-> "OFF"] \in [Cartridges -> CartridgeStates]
    /\ 0 \in Byte
BY DEF AllCommands, Statuses, CartridgeStates, Byte

\* Every variable stays in its range: no counter leaves a byte, and the idle
\* loop and the shadow register never name a cartridge that does not exist.
THEOREM TypeCorrect == Spec => []TypeOK
<1>1. Init => TypeOK
  BY CartridgesFacts, StartValues
     DEF Init, TypeOK, AllModes, AsyncStates, TaskStates, InitStates, TimerStates
<1>2. TypeOK /\ [Next]_vars => TypeOK'
  <2> SUFFICES ASSUME TypeOK, [Next]_vars
               PROVE  TypeOK'
    OBVIOUS
  <2> USE DEF handlerVars, cartridgeVars, counterVars, supplyVars, hardwareVars, asyncVars
  <2>1. ASSUME NEW c \in Cartridges, NEW cmd \in Commands,
               EnableHandler(c, cmd), UNCHANGED asyncVars
        PROVE  TypeOK'
    BY <2>1, EnableHandlerTyped
  <2>2. ASSUME NEW m \in Cartridges \cup {NoModule}, AddressModule(m), UNCHANGED asyncVars
        PROVE  TypeOK'
    BY <2>2 DEF AddressModule, TypeOK
  <2>3. ASSUME NEW c \in Cartridges, NEW on \in BOOLEAN, SetColdBias(c, on)
        PROVE  TypeOK'
    <3>1. coldOn' \subseteq hwPower
      BY <2>3 DEF SetColdBias, TypeOK
    <3>2. QED
      BY <2>3, <3>1 DEF SetColdBias, TypeOK
  <2>4. ASSUME NEW m \in Modes, SetFeMode(m)
        PROVE  TypeOK'
    BY <2>4, ConstantsAssumption DEF SetFeMode, TypeOK
  <2>5. CASE Async
    <3>1. ASSUME NEW turn, NEW next \in AsyncStates, OtherTurn(turn, next)
          PROVE  TypeOK'
      BY <3>1 DEF OtherTurn, TypeOK
    <3>2. QED
      BY <2>5, <3>1, CartridgeAsyncTyped DEF Async, AsyncStates
  <2>6. CASE InitTimerElapses
    BY <2>6 DEF InitTimerElapses, TypeOK, TimerStates
  <2>7. CASE ConsoleToggle
    BY <2>7 DEF ConsoleToggle, TypeOK, AsyncStates
  <2>8. CASE Restart
    BY <2>8, CartridgesFacts, StartValues
       DEF Restart, SupplyFeeds, TypeOK, AllModes, AsyncStates, TaskStates, InitStates, TimerStates
  <2>9. CASE UNCHANGED vars
    BY <2>9 DEF vars, TypeOK
  <2>10. QED
    BY <2>1, <2>2, <2>3, <2>4, <2>5, <2>6, <2>7, <2>8, <2>9 DEF Next, CANMessage
<1>3. QED
  BY <1>1, <1>2, PTL DEF Spec

-----------------------------------------------------------------------------
(* The asynchronous initialisation. Neither invariant needs strengthening   *)
(* beyond the types.                                                        *)

\* No step leaves a second cartridge INITING, or the timer out of step with
\* the state of the initialisation, whichever writes fail.
LEMMA InitialisationStep ==
    ASSUME TypeOK, OnlyCurrentIniting, TimerDiscipline, [Next]_vars
    PROVE  OnlyCurrentIniting' /\ TimerDiscipline'
<1> DEFINE cur == currentAsyncCartridge
<1> USE DEF OnlyCurrentIniting, TimerDiscipline
<1>0. cur \in Cartridges /\ state \in [Cartridges -> CartridgeStates]
  BY DEF TypeOK
<1>1. ASSUME NEW c \in Cartridges, NEW cmd \in Commands,
             EnableHandler(c, cmd), UNCHANGED asyncVars
      PROVE  OnlyCurrentIniting' /\ TimerDiscipline'
  <2>1. \A d \in Cartridges : state'[d] = "INITING" => state[d] = "INITING"
    BY <1>0, <1>1
       DEF EnableHandler, Refuse, NothingToDo, OverLimit, PowerOn, PowerOnFails,
           Standby2ToOn, OnToStandby2, PowerOff, CartridgeStop, PowerOffFails,
           cartridgeVars
  <2>2. QED
    BY <1>1, <2>1 DEF asyncVars
<1>2. ASSUME NEW m \in Cartridges \cup {NoModule}, AddressModule(m), UNCHANGED asyncVars
      PROVE  OnlyCurrentIniting' /\ TimerDiscipline'
  BY <1>2 DEF AddressModule, cartridgeVars, asyncVars
<1>3. ASSUME NEW c \in Cartridges, NEW on \in BOOLEAN, SetColdBias(c, on)
      PROVE  OnlyCurrentIniting' /\ TimerDiscipline'
  BY <1>3 DEF SetColdBias, cartridgeVars, asyncVars
<1>4. ASSUME NEW m \in Modes, SetFeMode(m)
      PROVE  OnlyCurrentIniting' /\ TimerDiscipline'
  BY <1>4 DEF SetFeMode, cartridgeVars, asyncVars
<1>5. CASE CartridgeAsync
  <2> USE <1>0
  <2>1. CASE StartTask
    BY <2>1 DEF StartTask, Running, cartridgeVars
  <2>2. CASE InitAbandoned
    BY <2>2 DEF InitAbandoned, Running, TaskDone, cartridgeVars
  <2>3. CASE InitSetWait
    BY <2>3 DEF InitSetWait, InitStep, Running
  <2>4. CASE InitWaitOver
    BY <2>4 DEF InitWaitOver, InitStep, Running, cartridgeVars
  <2>5. CASE InitDone
    BY <2>5 DEF InitDone, InitStep, Running, TaskDone
  <2>6. CASE InitFailed
    BY <2>6 DEF InitFailed, CartridgeStop, Running, TaskDone
  <2>7. CASE InitAndPowerOffFailed
    BY <2>7 DEF InitAndPowerOffFailed, Running, TaskDone
  <2>8. CASE GoStandby2Abandoned
    BY <2>8 DEF GoStandby2Abandoned, Running, TaskDone, cartridgeVars
  <2>9. CASE GoStandby2
    BY <2>9 DEF GoStandby2, Running, TaskDone
  <2>10. QED
    BY <1>5, <2>1, <2>2, <2>3, <2>4, <2>5, <2>6, <2>7, <2>8, <2>9 DEF CartridgeAsync
<1>6. ASSUME NEW turn, NEW next, OtherTurn(turn, next)
      PROVE  OnlyCurrentIniting' /\ TimerDiscipline'
  BY <1>6 DEF OtherTurn, cartridgeVars, asyncVars
<1>7. CASE InitTimerElapses
  BY <1>7 DEF InitTimerElapses, cartridgeVars
<1>8. CASE ConsoleToggle
  BY <1>8 DEF ConsoleToggle, cartridgeVars, asyncVars
<1>9. CASE Restart
  BY <1>9 DEF Restart
<1>10. CASE UNCHANGED vars
  BY <1>10 DEF vars
<1>11. QED
  BY <1>1, <1>2, <1>3, <1>4, <1>5, <1>6, <1>7, <1>8, <1>9, <1>10
     DEF Next, CANMessage, Async

\* A cartridge is INITING, and locked out of CAN access, only while the idle
\* loop is initialising it; the wait of the initialisation has a timer, and
\* the timer is never started while it runs.
THEOREM InitialisationCorrect == Spec => [](OnlyCurrentIniting /\ TimerDiscipline)
<1>1. Init => OnlyCurrentIniting /\ TimerDiscipline
  BY DEF Init, OnlyCurrentIniting, TimerDiscipline
<1>2. TypeOK /\ (OnlyCurrentIniting /\ TimerDiscipline) /\ [Next]_vars
          => (OnlyCurrentIniting /\ TimerDiscipline)'
  BY InitialisationStep
<1>3. QED
  BY <1>1, <1>2, TypeCorrect, PTL DEF Spec

\* The part of it that is about the timer.
THEOREM TimerCorrect == Spec => []TimerDiscipline
BY InitialisationCorrect, PTL

-----------------------------------------------------------------------------
(* Software state, shadow register and supply agree. The inductive invariant *)
(* adds that the front end is in one of the commanded modes, which keeps     *)
(* SIMULATION_MODE out.                                                      *)

PowerInv ==
    /\ mode \in Modes \cup {"OPERATIONAL"}
    /\ hwPower = NotOff /\ enabled = NotOff /\ aReg = hwPower

\* Failed writes on the enable RCA do not part the software from the supply;
\* failed initialisations and a failed start do, so they are assumed away.
LEMMA PowerStep ==
    ASSUME "SIMULATION" \notin Modes, "init" \notin Faults, "startup" \notin Faults,
           TypeOK, TimerDiscipline, PowerInv, [Next]_vars
    PROVE  PowerInv'
<1> DEFINE cur == currentAsyncCartridge
<1> USE DEF PowerInv
<1>0. cur \in Cartridges /\ state \in [Cartridges -> CartridgeStates]
  BY DEF TypeOK
<1>1. mode # "SIMULATION"
  OBVIOUS
<1>2. ASSUME \A d \in Cartridges : state'[d] = "OFF" <=> state[d] = "OFF"
      PROVE  NotOff' = NotOff
  BY <1>2 DEF NotOff
<1>3. ASSUME NEW c \in Cartridges, NEW cmd \in Commands, EnableHandler(c, cmd)
      PROVE  PowerInv'
  <2>1. mode' \in Modes \cup {"OPERATIONAL"}
    BY <1>3 DEF EnableHandler
  <2>2. ASSUME UNCHANGED supplyVars,
               \A d \in Cartridges : state'[d] = "OFF" <=> state[d] = "OFF"
        PROVE  PowerInv'
    BY <1>2, <2>1, <2>2 DEF supplyVars, hardwareVars
  <2>3. CASE Refuse(c, cmd)
    BY <2>2, <2>3 DEF Refuse, cartridgeVars
  <2>4. CASE NothingToDo(c, cmd)
    BY <2>2, <2>4 DEF NothingToDo, cartridgeVars
  <2>5. CASE OverLimit(c, cmd)
    BY <2>2, <2>5 DEF OverLimit, cartridgeVars
  <2>6. CASE PowerOn(c, cmd)
    <3>1. NotOff' = NotOff \cup {c}
      BY <1>0, <2>6 DEF PowerOn, NotOff
    <3>2. hwPower' = hwPower \cup {c} /\ aReg' = aReg \cup {c}
          /\ enabled' = (enabled \cup {c}) \cap Cartridges
      BY <1>1, <2>6 DEF PowerOn, SetPdModuleEnable, SupplyFeeds, RegisterWith
    <3>3. QED
      BY <2>1, <3>1, <3>2 DEF NotOff
  <2>7. CASE PowerOnFails(c, cmd)
    BY <2>2, <2>7 DEF PowerOnFails, SetPdModuleEnableFails, cartridgeVars
  <2>8. CASE Standby2ToOn(c, cmd)
    BY <2>2, <2>8 DEF Standby2ToOn
  <2>9. CASE OnToStandby2(c, cmd)
    BY <1>0, <2>2, <2>9 DEF OnToStandby2
  <2>10. CASE PowerOff(c, cmd)
    <3>1. NotOff' = NotOff \ {c}
      BY <1>0, <2>10 DEF PowerOff, CartridgeStop, NotOff
    <3>2. hwPower' = hwPower \ {c} /\ aReg' = aReg \ {c}
          /\ enabled' = (enabled \ {c}) \cap Cartridges
      BY <1>1, <2>10 DEF PowerOff, SetPdModuleEnable, SupplyFeeds, RegisterWith
    <3>3. QED
      BY <2>1, <3>1, <3>2 DEF NotOff
  <2>11. CASE PowerOffFails(c, cmd)
    BY <1>0, <2>2, <2>11 DEF PowerOffFails, SetPdModuleEnableFails
  <2>12. QED
    BY <1>3, <2>3, <2>4, <2>5, <2>6, <2>7, <2>8, <2>9, <2>10, <2>11 DEF EnableHandler
<1>4. ASSUME UNCHANGED <<mode, enabled, aReg, hwPower>>,
             \A d \in Cartridges : state'[d] = "OFF" <=> state[d] = "OFF"
      PROVE  PowerInv'
  BY <1>2, <1>4
<1>5. ASSUME NEW m \in Cartridges \cup {NoModule}, AddressModule(m)
      PROVE  PowerInv'
  BY <1>4, <1>5 DEF AddressModule, cartridgeVars, supplyVars, hardwareVars
<1>6. ASSUME NEW c \in Cartridges, NEW on \in BOOLEAN, SetColdBias(c, on)
      PROVE  PowerInv'
  BY <1>4, <1>6 DEF SetColdBias, cartridgeVars, handlerVars
<1>7. ASSUME NEW m \in Modes, SetFeMode(m)
      PROVE  PowerInv'
  BY <1>2, <1>7 DEF SetFeMode, cartridgeVars, hardwareVars
<1>8. CASE CartridgeAsync
  <2> USE <1>0 DEF handlerVars, cartridgeVars, supplyVars, hardwareVars
  <2>1. CASE StartTask
    BY <1>4, <2>1 DEF StartTask
  <2>2. CASE InitAbandoned
    BY <1>4, <2>2 DEF InitAbandoned
  <2>3. CASE InitSetWait
    BY <1>4, <2>3 DEF InitSetWait, InitStep
  <2>4. CASE InitWaitOver
    BY <1>4, <2>4 DEF InitWaitOver
  <2>5. CASE InitDone
    BY <1>4, <2>5 DEF InitDone, InitStep
  <2>6. ~InitReturnsError
    BY DEF InitReturnsError, TimerDiscipline
  <2>7. CASE GoStandby2Abandoned
    BY <1>4, <2>7 DEF GoStandby2Abandoned
  <2>8. CASE GoStandby2
    BY <1>4, <2>8 DEF GoStandby2
  <2>9. QED
    BY <1>8, <2>1, <2>2, <2>3, <2>4, <2>5, <2>6, <2>7, <2>8
       DEF CartridgeAsync, InitFailed, InitAndPowerOffFailed
<1>9. ASSUME NEW turn, NEW next, OtherTurn(turn, next)
      PROVE  PowerInv'
  BY <1>4, <1>9 DEF OtherTurn, handlerVars, cartridgeVars, supplyVars, hardwareVars
<1>10. CASE InitTimerElapses
  BY <1>4, <1>10
     DEF InitTimerElapses, handlerVars, cartridgeVars, supplyVars, hardwareVars
<1>11. CASE ConsoleToggle
  BY <1>4, <1>11 DEF ConsoleToggle, handlerVars, cartridgeVars, supplyVars, hardwareVars
<1>12. CASE Restart
  BY <1>12 DEF Restart, SupplyFeeds, NotOff
<1>13. CASE UNCHANGED vars
  BY <1>4, <1>13 DEF vars
<1>14. QED
  BY <1>3, <1>5, <1>6, <1>7, <1>8, <1>9, <1>10, <1>11, <1>12, <1>13
     DEF Next, CANMessage, Async

\* The software knows which cartridges are fed, and so does the shadow
\* register, through power commands and failing writes of them.
THEOREM PowerCorrect ==
    ASSUME "SIMULATION" \notin Modes, "init" \notin Faults, "startup" \notin Faults
    PROVE  Spec => [](PowerMatchesState /\ RegisterMatchesHardware)
<1>1. Init => PowerInv
  BY DEF Init, PowerInv, NotOff
<1>2. TypeOK /\ TimerDiscipline /\ PowerInv /\ [Next]_vars => PowerInv'
  BY PowerStep
<1>3. PowerInv => PowerMatchesState /\ RegisterMatchesHardware
  BY DEF PowerInv, PowerMatchesState, RegisterMatchesHardware
<1>4. QED
  BY <1>1, <1>2, <1>3, TypeCorrect, InitialisationCorrect, PTL DEF Spec

\* The front end is in the mode it starts in or in one a master commanded.
LEMMA ModeStep ==
    ASSUME mode \in Modes \cup {"OPERATIONAL"}, [Next]_vars
    PROVE  mode' \in Modes \cup {"OPERATIONAL"}
BY DEF Next, CANMessage, EnableHandler, AddressModule, SetColdBias, SetFeMode,
       Async, CartridgeAsync, StartTask, InitAbandoned, InitSetWait, InitWaitOver,
       InitDone, InitFailed, InitAndPowerOffFailed, GoStandby2Abandoned, GoStandby2,
       OtherTurn, InitTimerElapses, ConsoleToggle, Restart, handlerVars, vars

-----------------------------------------------------------------------------
(* What the steps do to the supply, under every fault and in every mode.     *)

\* The supply and its shadow register stay as they are, and no cartridge leaves
\* OFF but in SIMULATION_MODE; or one cartridge is switched by a command to it
\* and the supply then feeds what the register says; at a start both are
\* emptied, or a failed one leaves the supply on; a failed initialisation takes
\* a bit from the register alone.
SupplyMoves ==
    \/ /\ UNCHANGED <<aReg, hwPower>>
       /\ NotOff' = NotOff \/ mode = "SIMULATION"
    \/ \E c \in Cartridges, cmd \in {1, 2} :
          /\ EnableHandler(c, cmd) /\ state' = [state EXCEPT ![c] = "ON"]
          /\ aReg' = aReg \cup {c} /\ hwPower' = aReg'
    \/ \E c \in Cartridges :
          /\ EnableHandler(c, 0) /\ state' = [state EXCEPT ![c] = "OFF"]
          /\ aReg' = aReg \ {c} /\ hwPower' = aReg'
    \/ /\ Restart
       /\ aReg' = {} /\ hwPower' = {}
    \/ /\ Restart /\ "startup" \in Faults
       /\ aReg' = {} /\ UNCHANGED hwPower
    \/ /\ InitFailed /\ "init" \in Faults
       /\ aReg' \subseteq aReg /\ UNCHANGED hwPower

LEMMA SupplyStep ==
    ASSUME TypeOK, TimerDiscipline, [Next]_vars
    PROVE  SupplyMoves
<1> USE DEF supplyVars, hardwareVars, cartridgeVars
<1>0. currentAsyncCartridge \in Cartridges /\ state \in [Cartridges -> CartridgeStates]
  BY DEF TypeOK
<1>1. ASSUME UNCHANGED <<aReg, hwPower>>,
             \A d \in Cartridges : state'[d] = "OFF" <=> state[d] = "OFF"
      PROVE  SupplyMoves
  BY <1>1 DEF SupplyMoves, NotOff
<1>2. ASSUME NEW c \in Cartridges, NEW cmd \in Commands, EnableHandler(c, cmd)
      PROVE  SupplyMoves
  <2>1. CASE PowerOn(c, cmd)
    <3>1. cmd \in {1, 2}
      BY <2>1 DEF PowerOn, AllowedCommand
    <3>2. QED
      BY <1>2, <2>1, <3>1
         DEF PowerOn, SetPdModuleEnable, SupplyFeeds, RegisterWith, SupplyMoves
  <2>2. CASE PowerOff(c, cmd)
    BY <1>2, <2>2
       DEF PowerOff, CartridgeStop, SetPdModuleEnable, SupplyFeeds, RegisterWith, SupplyMoves
  <2>3. CASE PowerOnFails(c, cmd) \/ PowerOffFails(c, cmd)
    BY <1>0, <1>1, <2>3 DEF PowerOnFails, PowerOffFails, SetPdModuleEnableFails
  <2>4. CASE Refuse(c, cmd) \/ NothingToDo(c, cmd) \/ OverLimit(c, cmd)
    BY <1>1, <2>4 DEF Refuse, NothingToDo, OverLimit
  <2>5. CASE Standby2ToOn(c, cmd) \/ OnToStandby2(c, cmd)
    BY <1>0, <1>1, <2>5 DEF Standby2ToOn, OnToStandby2
  <2>6. QED
    BY <1>2, <2>1, <2>2, <2>3, <2>4, <2>5 DEF EnableHandler
<1>3. ASSUME NEW m \in Cartridges \cup {NoModule}, AddressModule(m)
      PROVE  SupplyMoves
  BY <1>1, <1>3 DEF AddressModule
<1>4. ASSUME NEW c \in Cartridges, NEW on \in BOOLEAN, SetColdBias(c, on)
      PROVE  SupplyMoves
  BY <1>1, <1>4 DEF SetColdBias
<1>5. ASSUME NEW m \in Modes, SetFeMode(m)
      PROVE  SupplyMoves
  BY <1>1, <1>5 DEF SetFeMode
<1>6. CASE CartridgeAsync
  <2>1. CASE StartTask \/ InitAbandoned \/ InitSetWait \/ InitWaitOver \/ InitDone
    BY <1>0, <1>1, <2>1
       DEF StartTask, InitAbandoned, InitSetWait, InitWaitOver, InitDone, InitStep
  <2>2. CASE GoStandby2Abandoned \/ GoStandby2
    BY <1>0, <1>1, <2>2 DEF GoStandby2Abandoned, GoStandby2
  <2>3. CASE InitAndPowerOffFailed
    BY <1>0, <1>1, <2>3 DEF InitAndPowerOffFailed, SetPdModuleEnableFails
  <2>4. CASE InitFailed
    <3>1. "init" \in Faults
      BY <2>4 DEF InitFailed, InitReturnsError, TimerDiscipline
    <3>2. aReg' \subseteq aReg /\ UNCHANGED hwPower
      BY <2>4 DEF InitFailed, SetPdModuleEnable, SupplyFeeds, RegisterWith
    <3>3. QED
      BY <2>4, <3>1, <3>2 DEF SupplyMoves
  <2>5. QED
    BY <1>6, <2>1, <2>2, <2>3, <2>4 DEF CartridgeAsync
<1>7. ASSUME NEW turn, NEW next, OtherTurn(turn, next)
      PROVE  SupplyMoves
  BY <1>1, <1>7 DEF OtherTurn
<1>8. CASE InitTimerElapses \/ ConsoleToggle
  BY <1>1, <1>8 DEF InitTimerElapses, ConsoleToggle
<1>9. CASE Restart
  BY <1>9 DEF Restart, SupplyFeeds, SupplyMoves
<1>10. CASE UNCHANGED vars
  BY <1>1, <1>10 DEF vars
<1>11. QED
  BY <1>2, <1>3, <1>4, <1>5, <1>6, <1>7, <1>8, <1>9, <1>10 DEF Next, CANMessage, Async

\* The shadow register describes the supply, in SIMULATION_MODE too: nothing
\* is sent then and nothing is noted.
THEOREM RegisterCorrect ==
    ASSUME "init" \notin Faults, "startup" \notin Faults
    PROVE  Spec => []RegisterMatchesHardware
<1>1. Init => RegisterMatchesHardware
  BY DEF Init, RegisterMatchesHardware
<1>2. TypeOK /\ TimerDiscipline /\ RegisterMatchesHardware /\ [Next]_vars
        => RegisterMatchesHardware'
  BY SupplyStep DEF SupplyMoves, RegisterMatchesHardware
<1>3. QED
  BY <1>1, <1>2, TypeCorrect, InitialisationCorrect, PTL DEF Spec

\* Whatever fails, the register never has a bit more than the supply.
RegisterWithinSupply == aReg \subseteq hwPower

LEMMA RegisterWithin == Spec => []RegisterWithinSupply
<1>1. Init => RegisterWithinSupply
  BY DEF Init, RegisterWithinSupply
<1>2. TypeOK /\ TimerDiscipline /\ RegisterWithinSupply /\ [Next]_vars
        => RegisterWithinSupply'
  BY SupplyStep DEF SupplyMoves, RegisterWithinSupply
<1>3. QED
  BY <1>1, <1>2, TypeCorrect, InitialisationCorrect, PTL DEF Spec

\* So a cartridge is switched on by a command to itself and by nothing else,
\* for every mode, failing write, failing initialisation and failing start.
THEOREM FeedCorrect == Spec => OnlyCommandsFeed
<1> DEFINE Fed == \A c \in Cartridges : c \in hwPower' \ hwPower =>
                     \E cmd \in {1, 2} : EnableHandler(c, cmd) /\ state'[c] = "ON"
<1>1. TypeOK /\ TimerDiscipline /\ RegisterWithinSupply /\ [Next]_vars => [Fed]_vars
  <2> SUFFICES ASSUME TypeOK, TimerDiscipline, RegisterWithinSupply, [Next]_vars,
                      NEW c \in Cartridges, c \in hwPower' \ hwPower
               PROVE  \E cmd \in {1, 2} : EnableHandler(c, cmd) /\ state'[c] = "ON"
    OBVIOUS
  <2>1. PICK d \in Cartridges, cmd \in {1, 2} :
           /\ EnableHandler(d, cmd) /\ state' = [state EXCEPT ![d] = "ON"]
           /\ aReg' = aReg \cup {d} /\ hwPower' = aReg'
    BY SupplyStep DEF SupplyMoves, RegisterWithinSupply
  <2>2. c = d
    BY <2>1 DEF RegisterWithinSupply
  <2>3. QED
    BY <2>1, <2>2 DEF TypeOK
<1>2. QED
  BY <1>1, TypeCorrect, InitialisationCorrect, RegisterWithin, PTL
     DEF Spec, OnlyCommandsFeed

\* And where no initialisation and no start fails, it is switched off by a
\* command to itself or by a start.
THEOREM CutCorrect ==
    ASSUME "init" \notin Faults, "startup" \notin Faults
    PROVE  Spec => OnlyCommandsCut
<1> DEFINE Cut == \A c \in Cartridges :
                     c \in hwPower \ hwPower' => EnableHandler(c, 0) \/ Restart
<1>1. TypeOK /\ TimerDiscipline /\ RegisterMatchesHardware /\ [Next]_vars => [Cut]_vars
  BY SupplyStep DEF SupplyMoves, RegisterMatchesHardware
<1>2. QED
  BY <1>1, TypeCorrect, InitialisationCorrect, RegisterCorrect, PTL
     DEF Spec, OnlyCommandsCut

-----------------------------------------------------------------------------
(* How the steps move cartridges between full power, STANDBY2 and off.      *)
(* A failed power-off or initialisation forgets that the cartridge was in   *)
(* STANDBY2, so either no band may be put there or those writes do not fail. *)

Standby2OrFaults == Standby2Bands = {} \/ ("disable" \notin Faults /\ "init" \notin Faults)

\* Only cartridges that are not OFF, of the bands that may be, are in STANDBY2.
Standby2Inv == standby2 \subseteq Standby2Bands \cap NotOff

\* What a step does to the two sets and their counters.
SetsSame == FullyPowered' = FullyPowered /\ InStandby2' = InStandby2
CountsSame == UNCHANGED counterVars
Enter(c) == FullyPowered' = FullyPowered \cup {c} /\ poweredModules' = Incremented(poweredModules)
Leave(c) == FullyPowered' = FullyPowered \ {c} /\ poweredModules' = Decremented(poweredModules)
EnterStandby2(c) ==
    InStandby2' = InStandby2 \cup {c} /\ standby2Modules' = Incremented(standby2Modules)
LeaveStandby2(c) ==
    InStandby2' = InStandby2 \ {c} /\ standby2Modules' = Decremented(standby2Modules)
FullyPoweredSame == FullyPowered' = FullyPowered /\ UNCHANGED poweredModules
InStandby2Same == InStandby2' = InStandby2 /\ UNCHANGED standby2Modules

\* The five ways the sets change, each with the limit that was checked.
Moves(c) ==
    \/ /\ c \notin NotOff /\ AllowPowerOn(FALSE) /\ Enter(c) /\ InStandby2Same
    \/ /\ c \notin NotOff /\ c \in Standby2Bands /\ AllowPowerOn(TRUE)
       /\ FullyPoweredSame /\ EnterStandby2(c)
    \/ /\ c \in InStandby2 /\ AllowPowerOn(FALSE) /\ Enter(c) /\ LeaveStandby2(c)
    \/ /\ c \in FullyPowered /\ c \in Standby2Bands /\ AllowPowerOn(TRUE)
       /\ Leave(c) /\ EnterStandby2(c)
    \/ /\ c \in InStandby2 /\ FullyPoweredSame /\ LeaveStandby2(c)
    \/ /\ c \in FullyPowered /\ Leave(c) /\ InStandby2Same

\* A step that changes neither STANDBY2 flags nor who is OFF moves nobody.
LEMMA NobodyMoves ==
    ASSUME UNCHANGED <<standby2, counterVars>>,
           \A d \in Cartridges : state'[d] = "OFF" <=> state[d] = "OFF"
    PROVE  SetsSame /\ CountsSame /\ NotOff' = NotOff
BY DEF SetsSame, CountsSame, FullyPowered, InStandby2, NotOff

\* A message on the enable RCA moves the cartridge it addresses or nobody.
LEMMA EnableHandlerMoves ==
    ASSUME Standby2OrFaults, TypeOK, Standby2Inv, NEW c \in Cartridges,
           NEW cmd \in Commands, EnableHandler(c, cmd)
    PROVE  /\ (SetsSame /\ CountsSame) \/ Moves(c)
           /\ Standby2Inv'
           /\ UNCHANGED mode
<1>0. state \in [Cartridges -> CartridgeStates]
  BY DEF TypeOK
<1>1. UNCHANGED mode
  BY DEF EnableHandler
<1>2. CASE Refuse(c, cmd) \/ NothingToDo(c, cmd) \/ OverLimit(c, cmd) \/ PowerOnFails(c, cmd)
  BY <1>1, <1>2, NobodyMoves
     DEF Refuse, NothingToDo, OverLimit, PowerOnFails, cartridgeVars, Standby2Inv
<1>3. CASE PowerOn(c, cmd)
  <2>1. NotOff' = NotOff \cup {c} /\ c \notin NotOff
    BY <1>0, <1>3 DEF PowerOn, NotOff
  <2>2. c \notin standby2
    BY <2>1 DEF Standby2Inv
  <2>3. CASE cmd = 2
    <3>1. FullyPowered' = FullyPowered /\ InStandby2' = InStandby2 \cup {c}
      BY <1>0, <1>3, <2>2, <2>3 DEF PowerOn, FullyPowered, InStandby2
    <3>2. c \in Standby2Bands
      BY <1>3, <2>3 DEF PowerOn, AllowedCommand, AllowStandby2
    <3>3. AllowPowerOn(TRUE)
      BY <1>3, <2>3 DEF PowerOn
    <3>4. QED
      BY <1>1, <1>3, <2>1, <2>3, <3>1, <3>2, <3>3
         DEF PowerOn, Moves, FullyPoweredSame, EnterStandby2, Standby2Inv
  <2>4. CASE cmd # 2
    <3>1. FullyPowered' = FullyPowered \cup {c} /\ InStandby2' = InStandby2
      BY <1>0, <1>3, <2>2, <2>4 DEF PowerOn, FullyPowered, InStandby2
    <3>2. AllowPowerOn(FALSE)
      BY <1>3, <2>4 DEF PowerOn, AllowPowerOn
    <3>3. QED
      BY <1>1, <1>3, <2>1, <2>4, <3>1, <3>2
         DEF PowerOn, Moves, InStandby2Same, Enter, Standby2Inv
  <2>5. QED
    BY <2>3, <2>4
<1>4. CASE Standby2ToOn(c, cmd)
  <2>1. FullyPowered' = FullyPowered \cup {c} /\ InStandby2' = InStandby2 \ {c}
    BY <1>4 DEF Standby2ToOn, FullyPowered, InStandby2
  <2>2. c \in InStandby2 /\ NotOff' = NotOff
    BY <1>4 DEF Standby2ToOn, InStandby2, NotOff
  <2>3. QED
    BY <1>1, <1>4, <2>1, <2>2
       DEF Standby2ToOn, Moves, Enter, LeaveStandby2, Standby2Inv
<1>5. CASE OnToStandby2(c, cmd)
  <2>1. FullyPowered' = FullyPowered \ {c} /\ InStandby2' = InStandby2 \cup {c}
    BY <1>0, <1>5 DEF OnToStandby2, FullyPowered, InStandby2
  <2>2. c \in FullyPowered /\ c \in NotOff /\ NotOff' = NotOff
    BY <1>0, <1>5 DEF OnToStandby2, FullyPowered, NotOff
  <2>3. c \in Standby2Bands
    BY <1>5 DEF OnToStandby2, AllowedCommand, AllowStandby2
  <2>4. QED
    BY <1>1, <1>5, <2>1, <2>2, <2>3
       DEF OnToStandby2, Moves, Leave, EnterStandby2, Standby2Inv
<1>6. CASE PowerOff(c, cmd)
  <2>1. FullyPowered' = FullyPowered \ {c} /\ InStandby2' = InStandby2 \ {c}
        /\ NotOff' = NotOff \ {c} /\ standby2' = standby2 \ {c}
    BY <1>0, <1>6 DEF PowerOff, CartridgeStop, FullyPowered, InStandby2, NotOff
  <2>2. CASE c \in standby2
    <3>1. c \in InStandby2 /\ c \notin FullyPowered
      BY <1>6, <2>2 DEF PowerOff, FullyPowered, InStandby2
    <3>2. QED
      BY <1>1, <1>6, <2>1, <2>2, <3>1
         DEF PowerOff, CountOut, Moves, FullyPoweredSame, LeaveStandby2, Standby2Inv
  <2>3. CASE c \notin standby2
    <3>1. c \notin InStandby2 /\ c \in FullyPowered
      BY <1>6, <2>3 DEF PowerOff, FullyPowered, InStandby2
    <3>2. QED
      BY <1>1, <1>6, <2>1, <2>3, <3>1
         DEF PowerOff, CountOut, Moves, Leave, InStandby2Same, Standby2Inv
  <2>4. QED
    BY <2>2, <2>3
<1>7. CASE PowerOffFails(c, cmd)
  <2>1. standby2 = {}
    BY <1>7 DEF PowerOffFails, SetPdModuleEnableFails, Standby2OrFaults, Standby2Inv
  <2>2. UNCHANGED <<standby2, counterVars>>
    BY <1>7, <2>1 DEF PowerOffFails
  <2>3. \A d \in Cartridges : state'[d] = "OFF" <=> state[d] = "OFF"
    BY <1>0, <1>7 DEF PowerOffFails
  <2>4. QED
    BY <1>1, <2>1, <2>2, <2>3, NobodyMoves DEF Standby2Inv
<1>8. QED
  BY <1>2, <1>3, <1>4, <1>5, <1>6, <1>7 DEF EnableHandler

\* Of the idle loop's calls only a failed initialisation moves a cartridge: it
\* leaves full power.
LEMMA CartridgeAsyncMoves ==
    ASSUME Standby2OrFaults, TypeOK, TimerDiscipline, Standby2Inv, CartridgeAsync
    PROVE  /\ (SetsSame /\ CountsSame) \/ Moves(currentAsyncCartridge)
           /\ Standby2Inv'
           /\ UNCHANGED mode
<1> DEFINE cur == currentAsyncCartridge
<1> USE DEF handlerVars, cartridgeVars, counterVars
<1>0. cur \in Cartridges /\ state \in [Cartridges -> CartridgeStates]
  BY DEF TypeOK
<1>1. ASSUME UNCHANGED <<mode, standby2, counterVars>>,
             \A d \in Cartridges : state'[d] = "OFF" <=> state[d] = "OFF"
      PROVE  SetsSame /\ CountsSame /\ Standby2Inv' /\ UNCHANGED mode
  BY <1>1, NobodyMoves DEF Standby2Inv
<1>2. CASE StartTask \/ InitAbandoned \/ InitWaitOver \/ GoStandby2Abandoned
  BY <1>1, <1>2 DEF StartTask, InitAbandoned, InitWaitOver, GoStandby2Abandoned
<1>3. CASE InitSetWait \/ InitDone
  BY <1>0, <1>1, <1>3 DEF InitSetWait, InitDone, InitStep
<1>4. CASE InitAndPowerOffFailed
  BY <1>0, <1>1, <1>4 DEF InitAndPowerOffFailed
<1>5. CASE GoStandby2
  BY <1>0, <1>1, <1>5 DEF GoStandby2
<1>6. CASE InitFailed
  <2>1. standby2 = {}
    BY <1>6 DEF InitFailed, InitReturnsError, TimerDiscipline, Standby2OrFaults, Standby2Inv
  <2>2. cur \in FullyPowered
    BY <1>0, <1>6, <2>1 DEF InitFailed, FullyPowered
  <2>3. standby2' = {} /\ state' = [state EXCEPT ![cur] = "OFF"]
    BY <1>6, <2>1 DEF InitFailed, CartridgeStop
  <2>4. FullyPowered' = FullyPowered \ {cur} /\ InStandby2' = InStandby2
    BY <1>0, <2>1, <2>3 DEF FullyPowered, InStandby2
  <2>5. QED
    BY <1>6, <2>2, <2>3, <2>4 DEF InitFailed, Moves, Leave, InStandby2Same, Standby2Inv
<1>7. QED
  BY <1>2, <1>3, <1>4, <1>5, <1>6 DEF CartridgeAsync

\* Every step moves one cartridge, nobody, or switches everything off.
LEMMA StepMoves ==
    ASSUME Standby2OrFaults, TypeOK, TimerDiscipline, Standby2Inv, [Next]_vars
    PROVE  /\ \/ SetsSame /\ CountsSame
              \/ \E c \in Cartridges : Moves(c) /\ UNCHANGED mode
              \/ /\ FullyPowered' = {} /\ InStandby2' = {}
                 /\ poweredModules' = 0 /\ standby2Modules' = 0
                 /\ mode' = "OPERATIONAL"
           /\ Standby2Inv'
<1> USE DEF handlerVars, cartridgeVars, counterVars
<1>1. ASSUME UNCHANGED <<state, standby2, counterVars>>
      PROVE  SetsSame /\ CountsSame /\ Standby2Inv'
  BY <1>1, NobodyMoves DEF Standby2Inv
<1>2. ASSUME NEW c \in Cartridges, NEW cmd \in Commands, EnableHandler(c, cmd)
      PROVE  ((SetsSame /\ CountsSame) \/ (Moves(c) /\ UNCHANGED mode)) /\ Standby2Inv'
  BY <1>2, EnableHandlerMoves
<1>3. ASSUME NEW m \in Cartridges \cup {NoModule}, AddressModule(m)
      PROVE  SetsSame /\ CountsSame /\ Standby2Inv'
  BY <1>1, <1>3 DEF AddressModule
<1>4. ASSUME NEW c \in Cartridges, NEW on \in BOOLEAN, SetColdBias(c, on)
      PROVE  SetsSame /\ CountsSame /\ Standby2Inv'
  BY <1>1, <1>4 DEF SetColdBias
<1>5. ASSUME NEW m \in Modes, SetFeMode(m)
      PROVE  SetsSame /\ CountsSame /\ Standby2Inv'
  BY <1>1, <1>5 DEF SetFeMode
<1>6. CASE CartridgeAsync
  BY <1>6, CartridgeAsyncMoves DEF TypeOK
<1>7. ASSUME NEW turn, NEW next, OtherTurn(turn, next)
      PROVE  SetsSame /\ CountsSame /\ Standby2Inv'
  BY <1>1, <1>7 DEF OtherTurn
<1>8. CASE InitTimerElapses \/ ConsoleToggle
  BY <1>1, <1>8 DEF InitTimerElapses, ConsoleToggle
<1>9. CASE Restart
  BY <1>9 DEF Restart, FullyPowered, InStandby2, Standby2Inv
<1>10. CASE UNCHANGED vars
  BY <1>1, <1>10 DEF vars
<1>11. QED
  BY <1>2, <1>3, <1>4, <1>5, <1>6, <1>7, <1>8, <1>9, <1>10 DEF Next, CANMessage, Async

-----------------------------------------------------------------------------
(* The counters *)

LEMMA SetsAreSmall ==
    ASSUME NEW S, S \subseteq Cartridges
    PROVE  IsFiniteSet(S) /\ Cardinality(S) \in 0 .. 255
<1>1. IsFiniteSet(Cartridges) /\ Cardinality(Cartridges) = CARTRIDGES_NUMBER
  BY ConstantsAssumption, FS_Interval DEF Cartridges
<1>2. IsFiniteSet(S) /\ Cardinality(S) <= Cardinality(Cartridges)
  BY <1>1, FS_Subset
<1>3. Cardinality(S) \in Nat
  BY <1>2, FS_CardinalityType
<1>4. QED
  BY <1>1, <1>2, <1>3, ConstantsAssumption

\* One more and one fewer: the byte does not wrap on the way.
LEMMA CountOneMore ==
    ASSUME NEW S, S \subseteq Cartridges, NEW c \in Cartridges, c \notin S
    PROVE  Incremented(Cardinality(S)) = Cardinality(S \cup {c})
<1>1. Cardinality(S \cup {c}) = Cardinality(S) + 1
  BY SetsAreSmall, FS_AddElement
<1>2. Cardinality(S) \in 0 .. 255 /\ Cardinality(S \cup {c}) \in 0 .. 255
  BY SetsAreSmall
<1>3. QED
  BY <1>1, <1>2 DEF Incremented

LEMMA CountOneFewer ==
    ASSUME NEW S, S \subseteq Cartridges, NEW c \in S
    PROVE  Decremented(Cardinality(S)) = Cardinality(S \ {c})
<1>1. Cardinality(S \ {c}) = Cardinality(S) - 1
  BY SetsAreSmall, FS_RemoveElement
<1>2. Cardinality(S) \in 0 .. 255 /\ Cardinality(S \ {c}) \in 0 .. 255
  BY SetsAreSmall
<1>3. QED
  BY <1>1, <1>2 DEF Decremented

LEMMA CountersStep ==
    ASSUME Standby2OrFaults, TypeOK, TimerDiscipline, Standby2Inv, CountersExact, [Next]_vars
    PROVE  CountersExact'
<1> USE DEF CountersExact
<1>1. FullyPowered \subseteq Cartridges /\ InStandby2 \subseteq Cartridges
      /\ FullyPowered \subseteq NotOff /\ InStandby2 \subseteq NotOff
      /\ FullyPowered \cap InStandby2 = {}
  BY DEF FullyPowered, InStandby2, NotOff
<1>2. CASE SetsSame /\ CountsSame
  BY <1>2 DEF SetsSame, CountsSame, counterVars
<1>3. ASSUME NEW c \in Cartridges, Moves(c)
      PROVE  CountersExact'
  <2>1. Enter(c) /\ c \notin FullyPowered => poweredModules' = Cardinality(FullyPowered')
    BY <1>1, CountOneMore DEF Enter
  <2>2. Leave(c) /\ c \in FullyPowered => poweredModules' = Cardinality(FullyPowered')
    BY <1>1, CountOneFewer DEF Leave
  <2>3. EnterStandby2(c) /\ c \notin InStandby2 => standby2Modules' = Cardinality(InStandby2')
    BY <1>1, CountOneMore DEF EnterStandby2
  <2>4. LeaveStandby2(c) /\ c \in InStandby2 => standby2Modules' = Cardinality(InStandby2')
    BY <1>1, CountOneFewer DEF LeaveStandby2
  <2>5. FullyPoweredSame => poweredModules' = Cardinality(FullyPowered')
    BY DEF FullyPoweredSame
  <2>6. InStandby2Same => standby2Modules' = Cardinality(InStandby2')
    BY DEF InStandby2Same
  <2>7. QED
    BY <1>1, <1>3, <2>1, <2>2, <2>3, <2>4, <2>5, <2>6 DEF Moves
<1>4. CASE FullyPowered' = {} /\ InStandby2' = {} /\ poweredModules' = 0 /\ standby2Modules' = 0
  BY <1>4, FS_EmptySet
<1>5. QED
  BY <1>2, <1>3, <1>4, StepMoves

CountersInv == Standby2Inv /\ CountersExact

\* The counters that limit how many cartridges are powered count them exactly.
THEOREM CountersCorrect ==
    ASSUME Standby2OrFaults
    PROVE  Spec => []CountersExact
<1>1. Init => CountersInv
  <2>1. Init => FullyPowered = {} /\ InStandby2 = {}
    BY DEF Init, FullyPowered, InStandby2
  <2>2. QED
    BY <2>1, FS_EmptySet DEF Init, CountersInv, Standby2Inv, CountersExact
<1>2. TypeOK /\ TimerDiscipline /\ CountersInv /\ [Next]_vars => CountersInv'
  BY CountersStep, StepMoves DEF CountersInv
<1>3. CountersInv => CountersExact
  BY DEF CountersInv
<1>4. QED
  BY <1>1, <1>2, <1>3, TypeCorrect, InitialisationCorrect, PTL DEF Spec

-----------------------------------------------------------------------------
(* The refinement *)

\* PowerBudget counts with its own copy of the library's Cardinality.
LEMMA SameCardinality == \A S : Budget!Cardinality(S) = Cardinality(S)
BY Zenon DEF Budget!Cardinality, Cardinality

\* Every step is a step of PowerBudget or a stutter: the limits, checked on
\* the counters, bound the cartridges themselves.
LEMMA BudgetStep ==
    ASSUME Standby2OrFaults, TypeOK, TimerDiscipline, CountersInv, [Next]_vars
    PROVE  [Budget!Next]_(Budget!vars)
<1>1. FullyPowered \subseteq NotOff /\ InStandby2 \subseteq NotOff
      /\ FullyPowered \cap InStandby2 = {}
      /\ NotOff = FullyPowered \cup InStandby2
  BY DEF FullyPowered, InStandby2, NotOff
<1>2. poweredModules = Cardinality(FullyPowered) /\ standby2Modules = Cardinality(InStandby2)
  BY DEF CountersInv, CountersExact
<1>3. poweredModules \in Nat /\ standby2Modules \in Nat /\ MaxPoweredModules \in Nat
  BY ConstantsAssumption DEF TypeOK, Byte, MaxPoweredModules
<1>4. AllowPowerOn(FALSE) => Budget!Cardinality(FullyPowered) < Budget!Limit
  BY <1>2, <1>3, SameCardinality DEF AllowPowerOn, MaxPoweredModules, Budget!Limit
<1>5. AllowPowerOn(TRUE) => Budget!Cardinality(InStandby2) < MAX_STANDBY2_BANDS_OPERATIONAL
  BY <1>2, SameCardinality DEF AllowPowerOn
<1>6. CASE SetsSame
  BY <1>6 DEF SetsSame, Budget!Next, Budget!SetMode
<1>7. ASSUME NEW c \in Cartridges, Moves(c), UNCHANGED mode
      PROVE  Budget!Next
  <2> USE <1>1, <1>7
          DEF Enter, Leave, EnterStandby2, LeaveStandby2, FullyPoweredSame, InStandby2Same
  <2>1. CASE /\ c \notin NotOff /\ AllowPowerOn(FALSE) /\ Enter(c) /\ InStandby2Same
    BY <1>4, <2>1 DEF Budget!Next, Budget!TurnOn
  <2>2. CASE /\ c \notin NotOff /\ c \in Standby2Bands /\ AllowPowerOn(TRUE)
             /\ FullyPoweredSame /\ EnterStandby2(c)
    BY <1>5, <2>2 DEF Budget!Next, Budget!Standby
  <2>3. CASE /\ c \in InStandby2 /\ AllowPowerOn(FALSE) /\ Enter(c) /\ LeaveStandby2(c)
    BY <1>4, <2>3 DEF Budget!Next, Budget!TurnOn
  <2>4. CASE /\ c \in FullyPowered /\ c \in Standby2Bands /\ AllowPowerOn(TRUE)
             /\ Leave(c) /\ EnterStandby2(c)
    BY <1>5, <2>4 DEF Budget!Next, Budget!Standby
  <2>5. CASE c \in InStandby2 /\ FullyPoweredSame /\ LeaveStandby2(c)
    BY <2>5 DEF Budget!Next, Budget!TurnOff
  <2>6. CASE c \in FullyPowered /\ Leave(c) /\ InStandby2Same
    BY <2>6 DEF Budget!Next, Budget!TurnOff
  <2>7. QED
    BY <2>1, <2>2, <2>3, <2>4, <2>5, <2>6 DEF Moves
<1>8. CASE FullyPowered' = {} /\ InStandby2' = {} /\ mode' = "OPERATIONAL"
  BY <1>8 DEF Budget!Next, Budget!Restart
<1>9. QED
  BY <1>6, <1>7, <1>8, StepMoves DEF CountersInv

\* The power commands implement PowerBudget.
THEOREM BudgetKept ==
    ASSUME Standby2OrFaults
    PROVE  Spec => KeepsPowerBudget
<1>1. Init => Budget!Init
  BY DEF Init, Budget!Init, FullyPowered, InStandby2
<1>2. TypeOK /\ TimerDiscipline /\ CountersInv /\ [Next]_vars
          => [Budget!Next]_(Budget!vars)
  BY BudgetStep
<1>3. Init => CountersInv
  <2>1. Init => FullyPowered = {} /\ InStandby2 = {}
    BY DEF Init, FullyPowered, InStandby2
  <2>2. QED
    BY <2>1, FS_EmptySet DEF Init, CountersInv, Standby2Inv, CountersExact
<1>4. TypeOK /\ TimerDiscipline /\ CountersInv /\ [Next]_vars => CountersInv'
  BY CountersStep, StepMoves DEF CountersInv
<1>5. QED
  BY <1>1, <1>2, <1>3, <1>4, TypeCorrect, InitialisationCorrect, PTL
     DEF Spec, KeepsPowerBudget, Budget!Spec
-----------------------------------------------------------------------------
(* What the two counters say together when failed power-offs and failed      *)
(* initialisations have made each of them wrong.                             *)

\* Which cartridge a step takes in, moves or lets go, with the counter it
\* changes; no fault is left out.
Switches(c) ==
    \/ /\ c \notin NotOff /\ NotOff' = NotOff \cup {c}
       /\ \/ /\ AllowPowerOn(TRUE) /\ standby2' = standby2 \cup {c}
             /\ standby2Modules' = Incremented(standby2Modules)
             /\ UNCHANGED poweredModules
          \/ /\ AllowPowerOn(FALSE) /\ UNCHANGED standby2
             /\ poweredModules' = Incremented(poweredModules)
             /\ UNCHANGED standby2Modules
    \/ /\ c \in standby2 /\ AllowPowerOn(FALSE)
       /\ standby2' = standby2 \ {c} /\ UNCHANGED NotOff
       /\ standby2Modules' = Decremented(standby2Modules)
       /\ poweredModules' = Incremented(poweredModules)
    \/ /\ c \in NotOff \ standby2 /\ AllowPowerOn(TRUE)
       /\ standby2' = standby2 \cup {c} /\ UNCHANGED NotOff
       /\ standby2Modules' = Incremented(standby2Modules)
       /\ poweredModules' = Decremented(poweredModules)
    \/ /\ c \in NotOff /\ NotOff' = NotOff \ {c} /\ standby2' = standby2 \ {c}
       /\ \/ /\ c \in standby2
             /\ standby2Modules' = Decremented(standby2Modules)
             /\ UNCHANGED poweredModules
          \/ /\ poweredModules' = Decremented(poweredModules)
             /\ UNCHANGED standby2Modules

\* The cartridges stay as they are but for a STANDBY2 flag that is cleared, or
\* one of them switches, or all of them do at a start.
CartridgesSwitch ==
    \/ UNCHANGED <<NotOff, counterVars>> /\ standby2' \subseteq standby2
    \/ \E c \in Cartridges : Switches(c)
    \/ NotOff' = {} /\ standby2' = {} /\ poweredModules' = 0 /\ standby2Modules' = 0

LEMMA SwitchStep ==
    ASSUME TypeOK, [Next]_vars
    PROVE  CartridgesSwitch
<1> DEFINE cur == currentAsyncCartridge
<1> USE DEF cartridgeVars
<1>0. cur \in Cartridges /\ state \in [Cartridges -> CartridgeStates]
  BY DEF TypeOK
<1>1. ASSUME UNCHANGED counterVars, standby2' \subseteq standby2,
             \A d \in Cartridges : state'[d] = "OFF" <=> state[d] = "OFF"
      PROVE  CartridgesSwitch
  BY <1>1 DEF CartridgesSwitch, NotOff
<1>2. ASSUME NEW c \in Cartridges, NEW cmd \in Commands, EnableHandler(c, cmd)
      PROVE  CartridgesSwitch
  <2>1. CASE PowerOn(c, cmd)
    <3>1. c \notin NotOff /\ NotOff' = NotOff \cup {c}
      BY <1>0, <2>1 DEF PowerOn, NotOff
    <3>2. AllowPowerOn(cmd = 2) <=> IF cmd = 2 THEN AllowPowerOn(TRUE) ELSE AllowPowerOn(FALSE)
      BY DEF AllowPowerOn
    <3>3. QED
      BY <2>1, <3>1, <3>2 DEF PowerOn, CartridgesSwitch, Switches
  <2>2. CASE Standby2ToOn(c, cmd)
    BY <2>2 DEF Standby2ToOn, CartridgesSwitch, Switches, NotOff
  <2>3. CASE OnToStandby2(c, cmd)
    <3>1. c \in NotOff \ standby2 /\ NotOff' = NotOff
      BY <1>0, <2>3 DEF OnToStandby2, NotOff
    <3>2. QED
      BY <2>3, <3>1 DEF OnToStandby2, CartridgesSwitch, Switches
  <2>4. CASE PowerOff(c, cmd)
    <3>1. c \in NotOff /\ NotOff' = NotOff \ {c} /\ standby2' = standby2 \ {c}
      BY <1>0, <2>4 DEF PowerOff, CartridgeStop, NotOff
    <3>2. QED
      BY <2>4, <3>1 DEF PowerOff, CountOut, CartridgesSwitch, Switches
  <2>5. CASE PowerOffFails(c, cmd)
    BY <1>0, <1>1, <2>5 DEF PowerOffFails
  <2>6. CASE Refuse(c, cmd) \/ NothingToDo(c, cmd) \/ OverLimit(c, cmd) \/ PowerOnFails(c, cmd)
    BY <1>1, <2>6 DEF Refuse, NothingToDo, OverLimit, PowerOnFails
  <2>7. QED
    BY <1>2, <2>1, <2>2, <2>3, <2>4, <2>5, <2>6 DEF EnableHandler
<1>3. ASSUME NEW m \in Cartridges \cup {NoModule}, AddressModule(m)
      PROVE  CartridgesSwitch
  BY <1>1, <1>3 DEF AddressModule
<1>4. ASSUME NEW c \in Cartridges, NEW on \in BOOLEAN, SetColdBias(c, on)
      PROVE  CartridgesSwitch
  BY <1>1, <1>4 DEF SetColdBias
<1>5. ASSUME NEW m \in Modes, SetFeMode(m)
      PROVE  CartridgesSwitch
  BY <1>1, <1>5 DEF SetFeMode
<1>6. CASE CartridgeAsync
  <2>1. CASE StartTask \/ InitAbandoned \/ InitSetWait \/ InitWaitOver \/ InitDone
    BY <1>0, <1>1, <2>1
       DEF StartTask, InitAbandoned, InitSetWait, InitWaitOver, InitDone, InitStep, counterVars
  <2>2. CASE GoStandby2Abandoned \/ GoStandby2
    BY <1>0, <1>1, <2>2 DEF GoStandby2Abandoned, GoStandby2
  <2>3. CASE InitAndPowerOffFailed
    BY <1>0, <1>1, <2>3 DEF InitAndPowerOffFailed
  <2>4. CASE InitFailed
    <3>1. cur \in NotOff /\ NotOff' = NotOff \ {cur} /\ standby2' = standby2 \ {cur}
      BY <1>0, <2>4 DEF InitFailed, CartridgeStop, NotOff
    <3>2. QED
      BY <1>0, <2>4, <3>1 DEF InitFailed, CartridgesSwitch, Switches
  <2>5. QED
    BY <1>6, <2>1, <2>2, <2>3, <2>4 DEF CartridgeAsync
<1>7. ASSUME NEW turn, NEW next, OtherTurn(turn, next)
      PROVE  CartridgesSwitch
  BY <1>1, <1>7 DEF OtherTurn
<1>8. CASE InitTimerElapses \/ ConsoleToggle
  BY <1>1, <1>8 DEF InitTimerElapses, ConsoleToggle
<1>9. CASE Restart
  BY <1>9 DEF Restart, CartridgesSwitch, NotOff
<1>10. CASE UNCHANGED vars
  BY <1>1, <1>10 DEF vars, counterVars
<1>11. QED
  BY <1>2, <1>3, <1>4, <1>5, <1>6, <1>7, <1>8, <1>9, <1>10 DEF Next, CANMessage, Async

\* What the byte poweredModules stands for: how many cartridges are not OFF
\* beyond those counted in STANDBY2, which a failed power-off may have left at
\* more than there are.
StandsFor(counter, number) == counter = number \/ counter = number + 256

LimitInv ==
    LET n == Cardinality(NotOff) IN
    /\ mode \in Modes \cup {"OPERATIONAL"}
    /\ standby2 \subseteq NotOff
    /\ Cardinality(standby2) <= standby2Modules
    /\ standby2Modules <= MAX_STANDBY2_BANDS_OPERATIONAL
    /\ StandsFor(poweredModules, n - standby2Modules)
    /\ n <= FullPowerLimit + standby2Modules

\* The arithmetic of a step: the sizes before and after, and the counters.
LEMMA SizesStep ==
    ASSUME NEW n \in 0 .. 255, NEW f \in 0 .. 255, NEW pm \in 0 .. 255, NEW sm \in 0 .. 255,
           NEW limit \in 0 .. 255, NEW maxStandby2 \in 0 .. 255,
           f <= sm, sm <= maxStandby2, StandsFor(pm, n - sm), n <= limit + sm
    PROVE  /\ sm < maxStandby2 => /\ Incremented(sm) = sm + 1
                                  /\ StandsFor(pm, (n + 1) - (sm + 1))
                                  /\ StandsFor(Decremented(pm), n - (sm + 1)) \/ n = 0
           /\ pm < limit /\ n < 255 => StandsFor(Incremented(pm), (n + 1) - sm)
           /\ pm < limit => n + 1 <= limit + sm
           /\ pm < limit /\ sm > 0 => StandsFor(Incremented(pm), n - (sm - 1))
           /\ sm > 0 => Decremented(sm) = sm - 1
           /\ n > 0 => StandsFor(Decremented(pm), (n - 1) - sm)
BY DEF StandsFor, Incremented, Decremented

LEMMA LimitStep ==
    ASSUME TypeOK, LimitInv, [Next]_vars
    PROVE  LimitInv'
<1> DEFINE n == Cardinality(NotOff)
           f == Cardinality(standby2)
           maxStandby2 == MAX_STANDBY2_BANDS_OPERATIONAL
<1>1. mode' \in Modes \cup {"OPERATIONAL"}
  BY ModeStep DEF LimitInv
<1>2. NotOff \subseteq Cartridges /\ NotOff' \subseteq Cartridges /\ standby2 \subseteq NotOff
  BY DEF NotOff, LimitInv
<1>3. n \in 0 .. 255 /\ f \in 0 .. 255 /\ n' \in 0 .. 255
      /\ IsFiniteSet(NotOff) /\ IsFiniteSet(standby2)
  BY <1>2, SetsAreSmall
<1>4. /\ poweredModules \in 0 .. 255 /\ standby2Modules \in 0 .. 255
      /\ FullPowerLimit \in 0 .. 255 /\ maxStandby2 \in 0 .. 255
  BY ConstantsAssumption DEF TypeOK, Byte, FullPowerLimit
<1>5. /\ f <= standby2Modules /\ standby2Modules <= maxStandby2
      /\ StandsFor(poweredModules, n - standby2Modules)
      /\ n <= FullPowerLimit + standby2Modules
  BY DEF LimitInv
<1>6. AllowPowerOn(TRUE) => standby2Modules < maxStandby2
  BY DEF AllowPowerOn
<1>7. AllowPowerOn(FALSE) => poweredModules < FullPowerLimit
  <2>1. MaxPoweredModules \in Nat /\ MaxPoweredModules <= FullPowerLimit
    BY ConstantsAssumption DEF LimitInv, MaxPoweredModules, FullPowerLimit, Byte
  <2>2. QED
    BY <1>4, <2>1 DEF AllowPowerOn
<1>8. /\ standby2Modules < maxStandby2 =>
            /\ Incremented(standby2Modules) = standby2Modules + 1
            /\ StandsFor(poweredModules, (n + 1) - (standby2Modules + 1))
            /\ StandsFor(Decremented(poweredModules), n - (standby2Modules + 1)) \/ n = 0
      /\ poweredModules < FullPowerLimit /\ n < 255 =>
            StandsFor(Incremented(poweredModules), (n + 1) - standby2Modules)
      /\ poweredModules < FullPowerLimit => n + 1 <= FullPowerLimit + standby2Modules
      /\ poweredModules < FullPowerLimit /\ standby2Modules > 0 =>
            StandsFor(Incremented(poweredModules), n - (standby2Modules - 1))
      /\ standby2Modules > 0 => Decremented(standby2Modules) = standby2Modules - 1
      /\ n > 0 => StandsFor(Decremented(poweredModules), (n - 1) - standby2Modules)
  <2> HIDE DEF n, f, maxStandby2
  <2> QED
    BY <1>3, <1>4, <1>5, SizesStep
<1>9. CASE UNCHANGED <<NotOff, counterVars>> /\ standby2' \subseteq standby2
  <2>1. f' <= f /\ f' \in Nat
    BY <1>3, <1>9, FS_Subset, FS_CardinalityType
  <2>2. QED
    BY <1>1, <1>2, <1>3, <1>4, <1>5, <1>9, <2>1 DEF LimitInv, counterVars
<1>10. CASE NotOff' = {} /\ standby2' = {} /\ poweredModules' = 0 /\ standby2Modules' = 0
  BY <1>1, <1>4, <1>10, FS_EmptySet DEF LimitInv, StandsFor
<1>11. ASSUME NEW c \in Cartridges, Switches(c)
       PROVE  LimitInv'
  <2>1. c \notin NotOff /\ NotOff' = NotOff \cup {c} => n' = n + 1
    BY <1>3, FS_AddElement
  <2>2. c \in NotOff /\ NotOff' = NotOff \ {c} => n' = n - 1
    BY <1>3, FS_RemoveElement
  <2>3. c \notin standby2 /\ standby2' = standby2 \cup {c} => f' = f + 1
    BY <1>3, FS_AddElement
  <2>4. c \in standby2 /\ standby2' = standby2 \ {c} => f' = f - 1
    BY <1>3, FS_RemoveElement
  <2>5. c \in standby2 => f > 0
    BY <1>3, FS_EmptySet
  <2>6. c \in NotOff => n > 0
    BY <1>3, FS_EmptySet
  <2>7. /\ mode' \in Modes \cup {"OPERATIONAL"}
        /\ n \in 0 .. 255 /\ n' \in 0 .. 255 /\ f \in 0 .. 255
    BY <1>1, <1>3
  <2> USE <1>2, <1>4, <1>5, <2>7
  <2>8. ASSUME c \notin NotOff, NotOff' = NotOff \cup {c},
               AllowPowerOn(TRUE), standby2' = standby2 \cup {c},
               standby2Modules' = Incremented(standby2Modules), UNCHANGED poweredModules
        PROVE  LimitInv'
    BY <1>6, <1>8, <2>1, <2>3, <2>8 DEF LimitInv
  <2>9. ASSUME c \notin NotOff, NotOff' = NotOff \cup {c},
               AllowPowerOn(FALSE), UNCHANGED standby2,
               poweredModules' = Incremented(poweredModules), UNCHANGED standby2Modules
        PROVE  LimitInv'
    BY <1>7, <1>8, <2>1, <2>9 DEF LimitInv
  <2>10. ASSUME c \in standby2, AllowPowerOn(FALSE),
                standby2' = standby2 \ {c}, UNCHANGED NotOff,
                standby2Modules' = Decremented(standby2Modules),
                poweredModules' = Incremented(poweredModules)
         PROVE  LimitInv'
    BY <1>7, <1>8, <2>4, <2>5, <2>10 DEF LimitInv
  <2>11. ASSUME c \in NotOff \ standby2, AllowPowerOn(TRUE),
                standby2' = standby2 \cup {c}, UNCHANGED NotOff,
                standby2Modules' = Incremented(standby2Modules),
                poweredModules' = Decremented(poweredModules)
         PROVE  LimitInv'
    BY <1>6, <1>8, <2>3, <2>6, <2>11 DEF LimitInv
  <2>12. ASSUME c \in NotOff, NotOff' = NotOff \ {c}, standby2' = standby2 \ {c},
                c \in standby2, standby2Modules' = Decremented(standby2Modules),
                UNCHANGED poweredModules
         PROVE  LimitInv'
    <3>1. (n - 1) - (standby2Modules - 1) = n - standby2Modules
      OBVIOUS
    <3>2. QED
      BY <1>8, <2>2, <2>4, <2>5, <2>12, <3>1 DEF LimitInv
  <2>13. ASSUME c \in NotOff, NotOff' = NotOff \ {c}, standby2' = standby2 \ {c},
                poweredModules' = Decremented(poweredModules), UNCHANGED standby2Modules
         PROVE  LimitInv'
    <3>1. f' <= f /\ f' \in Nat
      BY <1>3, <2>13, FS_Subset, FS_CardinalityType
    <3>2. QED
      BY <1>8, <2>2, <2>6, <2>13, <3>1 DEF LimitInv
  <2>14. QED
    BY <1>11, <2>8, <2>9, <2>10, <2>11, <2>12, <2>13 DEF Switches
<1>12. QED
  BY <1>9, <1>10, <1>11, SwitchStep DEF CartridgesSwitch

LEMMA LimitInvHolds == Spec => []LimitInv
<1>1. Init => LimitInv
  <2>1. Init => NotOff = {}
    BY DEF Init, NotOff
  <2>2. FullPowerLimit \in Nat /\ MAX_STANDBY2_BANDS_OPERATIONAL \in Nat
    BY ConstantsAssumption DEF FullPowerLimit, Byte
  <2>3. QED
    BY <2>1, <2>2, FS_EmptySet DEF Init, LimitInv, StandsFor
<1>2. TypeOK /\ LimitInv /\ [Next]_vars => LimitInv'
  BY LimitStep
<1>3. QED
  BY <1>1, <1>2, TypeCorrect, PTL DEF Spec

\* What the counters say and what they limit: whatever power-offs and
\* initialisations fail, they add up to the cartridges that are not OFF, and no
\* more of those are powered than the two limits allow together.
THEOREM LimitsCorrect == Spec => [](CountersAddUp /\ PoweredWithinLimits)
<1>1. TypeOK /\ LimitInv => CountersAddUp /\ PoweredWithinLimits
  <2> SUFFICES ASSUME TypeOK, LimitInv
               PROVE  CountersAddUp /\ PoweredWithinLimits
    OBVIOUS
  <2>1. Cardinality(NotOff) \in 0 .. 255
    BY SetsAreSmall DEF NotOff
  <2>2. /\ poweredModules \in 0 .. 255 /\ standby2Modules \in 0 .. 255
        /\ FullPowerLimit \in 0 .. 255 /\ MAX_STANDBY2_BANDS_OPERATIONAL \in 0 .. 255
    BY ConstantsAssumption DEF TypeOK, Byte, FullPowerLimit
  <2>3. CountersAddUp
    <3>1. \A k \in 0 .. 255 : k % 256 = k /\ (k + 256) % 256 = k
      OBVIOUS
    <3>2. \/ poweredModules + standby2Modules = Cardinality(NotOff)
          \/ poweredModules + standby2Modules = Cardinality(NotOff) + 256
      BY <2>1, <2>2 DEF LimitInv, StandsFor
    <3>3. QED
      BY <2>1, <3>1, <3>2 DEF CountersAddUp
  <2>4. PoweredWithinLimits
    BY <2>1, <2>2 DEF LimitInv, PoweredWithinLimits
  <2>5. QED
    BY <2>3, <2>4
<1>2. QED
  BY <1>1, TypeCorrect, LimitInvHolds, PTL

-----------------------------------------------------------------------------
(* The status of a command is what became of it. The inductive invariant     *)
(* adds that a cartridge that is OFF is not in STANDBY2.                      *)

HonestInv == LastEnableHonest /\ standby2 \subseteq NotOff

\* A failed initialisation switches a cartridge off behind the back of the last
\* command, so it is assumed away; the commands' own failures are remembered.
LEMMA HonestStep ==
    ASSUME "init" \notin Faults, TypeOK, TimerDiscipline, HonestInv, [Next]_vars
    PROVE  HonestInv'
<1> USE DEF HonestInv, LastEnableHonest, NotOff
<1>0. /\ currentAsyncCartridge \in Cartridges /\ standby2 \subseteq Cartridges
      /\ state \in [Cartridges -> CartridgeStates]
      /\ lastEnable \in [Cartridges -> [data : AllCommands, status : Statuses]]
  BY DEF TypeOK
<1>1. ASSUME NEW c \in Cartridges, NEW cmd \in Commands, EnableHandler(c, cmd)
      PROVE  HonestInv'
  <2>0. cmd \in 0 .. 3
    BY ConstantsAssumption DEF AllCommands
  <2> USE <1>0, <2>0 DEF Remember, cartridgeVars
  <2>1. CASE Refuse(c, cmd)
    <3>1. RefusalStatus(c, cmd) # "NO_ERROR"
      BY DEF RefusalStatus
    <3> QED BY <2>1, <3>1 DEF Refuse
  <2>2. CASE NothingToDo(c, cmd)
    BY <2>2 DEF NothingToDo, AllowedCommand, AlreadyIn
  <2>3. CASE OverLimit(c, cmd)
    BY <2>3 DEF OverLimit
  <2>4. CASE PowerOn(c, cmd)
    BY <2>4 DEF PowerOn, AllowedCommand
  <2>5. CASE PowerOnFails(c, cmd)
    BY <2>5 DEF PowerOnFails
  <2>6. CASE Standby2ToOn(c, cmd)
    BY <2>6 DEF Standby2ToOn
  <2>7. CASE OnToStandby2(c, cmd)
    BY <2>7 DEF OnToStandby2
  <2>8. CASE PowerOff(c, cmd)
    BY <2>8 DEF PowerOff, CartridgeStop
  <2>9. CASE PowerOffFails(c, cmd)
    BY <2>9 DEF PowerOffFails
  <2>10. QED
    BY <1>1, <2>1, <2>2, <2>3, <2>4, <2>5, <2>6, <2>7, <2>8, <2>9 DEF EnableHandler
<1>2. ASSUME UNCHANGED <<lastEnable, standby2>>,
             \A d \in Cartridges : state'[d] = "OFF" <=> state[d] = "OFF"
      PROVE  HonestInv'
  BY <1>2
<1>3. ASSUME NEW m \in Cartridges \cup {NoModule}, AddressModule(m)
      PROVE  HonestInv'
  BY <1>2, <1>3 DEF AddressModule, cartridgeVars
<1>4. ASSUME NEW c \in Cartridges, NEW on \in BOOLEAN, SetColdBias(c, on)
      PROVE  HonestInv'
  BY <1>2, <1>4 DEF SetColdBias, cartridgeVars
<1>5. ASSUME NEW m \in Modes, SetFeMode(m)
      PROVE  HonestInv'
  BY <1>2, <1>5 DEF SetFeMode, cartridgeVars
<1>6. CASE CartridgeAsync
  <2> USE <1>0 DEF cartridgeVars
  <2>1. CASE StartTask
    BY <1>2, <2>1 DEF StartTask
  <2>2. CASE InitAbandoned
    BY <1>2, <2>2 DEF InitAbandoned
  <2>3. CASE InitSetWait
    BY <1>2, <2>3 DEF InitSetWait, InitStep
  <2>4. CASE InitWaitOver
    BY <1>2, <2>4 DEF InitWaitOver
  <2>5. CASE InitDone
    BY <1>2, <2>5 DEF InitDone, InitStep
  <2>6. ~InitReturnsError
    BY DEF InitReturnsError, TimerDiscipline
  <2>7. CASE GoStandby2Abandoned
    BY <1>2, <2>7 DEF GoStandby2Abandoned
  <2>8. CASE GoStandby2
    BY <1>2, <2>8 DEF GoStandby2
  <2>9. QED
    BY <1>6, <2>1, <2>2, <2>3, <2>4, <2>5, <2>6, <2>7, <2>8
       DEF CartridgeAsync, InitFailed, InitAndPowerOffFailed
<1>7. ASSUME NEW turn, NEW next, OtherTurn(turn, next)
      PROVE  HonestInv'
  BY <1>2, <1>7 DEF OtherTurn, cartridgeVars
<1>8. CASE InitTimerElapses
  BY <1>2, <1>8 DEF InitTimerElapses, cartridgeVars
<1>9. CASE ConsoleToggle
  BY <1>2, <1>9 DEF ConsoleToggle, cartridgeVars
<1>10. CASE Restart
  BY <1>10 DEF Restart
<1>11. CASE UNCHANGED vars
  BY <1>2, <1>11 DEF vars
<1>12. QED
  BY <1>1, <1>3, <1>4, <1>5, <1>6, <1>7, <1>8, <1>9, <1>10, <1>11
     DEF Next, CANMessage, Async

\* The status kept for the last power command stays true while other commands
\* are handled and the idle loop runs, whichever of their writes fail.
THEOREM CommandStatusCorrect ==
    ASSUME "init" \notin Faults
    PROVE  Spec => []LastEnableHonest
<1>1. Init => HonestInv
  BY DEF Init, HonestInv, LastEnableHonest
<1>2. TypeOK /\ TimerDiscipline /\ HonestInv /\ [Next]_vars => HonestInv'
  BY HonestStep
<1>3. HonestInv => LastEnableHonest
  BY DEF HonestInv
<1>4. QED
  BY <1>1, <1>2, <1>3, TypeCorrect, InitialisationCorrect, PTL DEF Spec

-----------------------------------------------------------------------------
(* READY means initialised. The inductive invariant adds that what is not OFF *)
(* is fed and is what the shadow register holds, through failed power         *)
(* commands and failed starts, and that only the bands that may go to         *)
(* STANDBY2 are ever on their way there: being there is the other way to      *)
(* become READY.                                                              *)

FedInv ==
    /\ mode \in Modes \cup {"OPERATIONAL"}
    /\ aReg = NotOff /\ RegisterWithinSupply

LEMMA FedStep ==
    ASSUME "SIMULATION" \notin Modes, "init" \notin Faults,
           TypeOK, TimerDiscipline, FedInv, [Next]_vars
    PROVE  FedInv'
<1>1. mode' \in Modes \cup {"OPERATIONAL"}
  BY ModeStep DEF FedInv
<1>2. state \in [Cartridges -> CartridgeStates]
  BY DEF TypeOK
<1>3. mode # "SIMULATION"
  BY DEF FedInv
<1>4. RegisterWithinSupply'
  BY SupplyStep DEF SupplyMoves, FedInv, RegisterWithinSupply
<1>5. CASE UNCHANGED aReg /\ NotOff' = NotOff
  BY <1>1, <1>4, <1>5 DEF FedInv
<1>6. ASSUME NEW c \in Cartridges, state' = [state EXCEPT ![c] = "ON"], aReg' = aReg \cup {c}
      PROVE  FedInv'
  BY <1>1, <1>2, <1>4, <1>6 DEF FedInv, NotOff
<1>7. ASSUME NEW c \in Cartridges, state' = [state EXCEPT ![c] = "OFF"], aReg' = aReg \ {c}
      PROVE  FedInv'
  BY <1>1, <1>2, <1>4, <1>7 DEF FedInv, NotOff
<1>8. CASE Restart
  BY <1>1, <1>4, <1>8 DEF FedInv, Restart, NotOff
<1>9. QED
  BY <1>3, <1>5, <1>6, <1>7, <1>8, SupplyStep DEF SupplyMoves

ReadyInv ==
    /\ ReadyMeansInitialised
    /\ \A c \in Cartridges : state[c] = "GO_STANDBY2" => c \in Standby2Bands
    /\ asyncCartridgeTask = "GO_STANDBY2" => currentAsyncCartridge \in Standby2Bands

\* The initialisation reaches a cartridge that is fed (FedInv), and what it
\* reached stays initialised as long as it is.
LEMMA ReadyStep ==
    ASSUME "SIMULATION" \notin Modes, "init" \notin Faults,
           TypeOK, TimerDiscipline, FedInv, ReadyInv, [Next]_vars
    PROVE  ReadyInv'
<1> DEFINE cur == currentAsyncCartridge
<1> USE DEF ReadyInv, ReadyMeansInitialised
<1>0. /\ cur \in Cartridges /\ state \in [Cartridges -> CartridgeStates]
      /\ NotOff \subseteq aReg /\ aReg \subseteq hwPower
      /\ mode # "SIMULATION"
  BY DEF TypeOK, FedInv, RegisterWithinSupply
<1>1. ASSUME UNCHANGED <<asyncCartridgeTask, currentAsyncCartridge, at10MHz>>,
             \A d \in Cartridges : state'[d] \in {"READY", "GO_STANDBY2"}
                                     => state[d] = state'[d]
      PROVE  ReadyInv'
  BY <1>1
<1>2. ASSUME NEW c \in Cartridges, NEW cmd \in Commands,
             EnableHandler(c, cmd), UNCHANGED asyncVars
      PROVE  ReadyInv'
  <2> USE <1>0 DEF cartridgeVars, supplyVars, hardwareVars
  <2>0. UNCHANGED <<asyncCartridgeTask, currentAsyncCartridge>>
    BY <1>2 DEF asyncVars
  <2>1. CASE Refuse(c, cmd)
    BY <1>1, <2>0, <2>1 DEF Refuse
  <2>2. CASE NothingToDo(c, cmd)
    BY <1>1, <2>0, <2>2 DEF NothingToDo
  <2>3. CASE OverLimit(c, cmd)
    BY <1>1, <2>0, <2>3 DEF OverLimit
  <2>4. CASE PowerOn(c, cmd)
    <3>1. at10MHz' = at10MHz \cap (aReg \cup {c})
      BY <2>4 DEF PowerOn, SetPdModuleEnable, SupplyFeeds, RegisterWith
    <3>2. state' = [state EXCEPT ![c] = "ON"]
      BY <2>4 DEF PowerOn
    <3> QED BY <2>0, <3>1, <3>2 DEF NotOff
  <2>5. CASE PowerOnFails(c, cmd)
    BY <1>1, <2>0, <2>5 DEF PowerOnFails, SetPdModuleEnableFails
  <2>6. CASE Standby2ToOn(c, cmd)
    BY <1>1, <2>0, <2>6 DEF Standby2ToOn
  <2>7. CASE OnToStandby2(c, cmd)
    BY <2>0, <2>7 DEF OnToStandby2, AllowedCommand, AllowStandby2
  <2>8. CASE PowerOff(c, cmd)
    <3>1. at10MHz' = at10MHz \cap (aReg \ {c})
      BY <2>8 DEF PowerOff, SetPdModuleEnable, SupplyFeeds, RegisterWith
    <3>2. state' = [state EXCEPT ![c] = "OFF"]
      BY <2>8 DEF PowerOff, CartridgeStop
    <3> QED BY <2>0, <3>1, <3>2 DEF NotOff
  <2>9. CASE PowerOffFails(c, cmd)
    BY <1>1, <2>0, <2>9 DEF PowerOffFails, SetPdModuleEnableFails
  <2>10. QED
    BY <1>2, <2>1, <2>2, <2>3, <2>4, <2>5, <2>6, <2>7, <2>8, <2>9 DEF EnableHandler
<1>3. ASSUME NEW m \in Cartridges \cup {NoModule}, AddressModule(m), UNCHANGED asyncVars
      PROVE  ReadyInv'
  BY <1>1, <1>3 DEF AddressModule, cartridgeVars, supplyVars, hardwareVars, asyncVars
<1>4. ASSUME NEW c \in Cartridges, NEW on \in BOOLEAN, SetColdBias(c, on)
      PROVE  ReadyInv'
  BY <1>1, <1>4 DEF SetColdBias, cartridgeVars, asyncVars
<1>5. ASSUME NEW m \in Modes, SetFeMode(m)
      PROVE  ReadyInv'
  BY <1>1, <1>5 DEF SetFeMode, cartridgeVars, hardwareVars, asyncVars
<1>6. CASE CartridgeAsync
  <2> USE <1>0 DEF cartridgeVars, supplyVars, hardwareVars
  <2>1. CASE StartTask
    BY <2>1 DEF StartTask, Running
  <2>2. CASE InitAbandoned
    BY <2>2 DEF InitAbandoned, TaskDone
  <2>3. CASE InitSetWait
    BY <1>1, <2>3 DEF InitSetWait
  <2>4. CASE InitWaitOver
    BY <1>1, <2>4 DEF InitWaitOver
  <2>5. CASE InitDone
    BY <2>5 DEF InitDone, InitStep, TaskDone, NotOff
  <2>6. ~InitReturnsError
    BY DEF InitReturnsError, TimerDiscipline
  <2>7. CASE GoStandby2Abandoned
    BY <2>7 DEF GoStandby2Abandoned, TaskDone
  <2>8. CASE GoStandby2
    BY <2>8 DEF GoStandby2, Running, TaskDone
  <2>9. QED
    BY <1>6, <2>1, <2>2, <2>3, <2>4, <2>5, <2>6, <2>7, <2>8
       DEF CartridgeAsync, InitFailed, InitAndPowerOffFailed
<1>7. ASSUME NEW turn, NEW next, OtherTurn(turn, next)
      PROVE  ReadyInv'
  BY <1>1, <1>7 DEF OtherTurn, cartridgeVars, supplyVars, hardwareVars, asyncVars
<1>8. CASE InitTimerElapses
  BY <1>1, <1>8 DEF InitTimerElapses, cartridgeVars, supplyVars, hardwareVars
<1>9. CASE ConsoleToggle
  BY <1>1, <1>9 DEF ConsoleToggle, cartridgeVars, supplyVars, hardwareVars, asyncVars
<1>10. CASE Restart
  BY <1>10 DEF Restart
<1>11. CASE UNCHANGED vars
  BY <1>1, <1>11 DEF vars
<1>12. QED
  BY <1>2, <1>3, <1>4, <1>5, <1>6, <1>7, <1>8, <1>9, <1>10, <1>11
     DEF Next, CANMessage, Async

\* A cartridge that never goes to STANDBY2 and is READY talks at 10 MHz,
\* whatever was commanded while it was initialised.
THEOREM ReadyCorrect ==
    ASSUME "SIMULATION" \notin Modes, "init" \notin Faults
    PROVE  Spec => []ReadyMeansInitialised
<1>1. Init => FedInv /\ ReadyInv
  BY DEF Init, FedInv, RegisterWithinSupply, NotOff, ReadyInv, ReadyMeansInitialised
<1>2. TypeOK /\ TimerDiscipline /\ (FedInv /\ ReadyInv) /\ [Next]_vars
        => (FedInv /\ ReadyInv)'
  BY FedStep, ReadyStep
<1>3. ReadyInv => ReadyMeansInitialised
  BY DEF ReadyInv
<1>4. QED
  BY <1>1, <1>2, <1>3, TypeCorrect, InitialisationCorrect, PTL DEF Spec

\* The supply feeds no more cartridges than the limits allow, even after a start
\* that failed: what such a start left on was within them, and the first write
\* after it sends the register, which is what is not OFF.
THEOREM SupplyLimitCorrect ==
    ASSUME "SIMULATION" \notin Modes, "init" \notin Faults
    PROVE  Spec => []SupplyWithinLimits
<1>1. Cardinality({}) <= FullPowerLimit + MAX_STANDBY2_BANDS_OPERATIONAL
  BY FS_EmptySet, ConstantsAssumption DEF Byte, FullPowerLimit
<1>2. Init => FedInv /\ SupplyWithinLimits
  BY <1>1 DEF Init, FedInv, RegisterWithinSupply, NotOff, SupplyWithinLimits
<1>3. TypeOK /\ TimerDiscipline /\ FedInv /\ [Next]_vars => FedInv'
  BY FedStep
<1>4. /\ TypeOK /\ TimerDiscipline /\ FedInv /\ FedInv' /\ PoweredWithinLimits'
      /\ SupplyWithinLimits /\ [Next]_vars
      => SupplyWithinLimits'
  <2> SUFFICES ASSUME TypeOK, TimerDiscipline, FedInv, FedInv', PoweredWithinLimits',
                      SupplyWithinLimits, [Next]_vars
               PROVE  SupplyWithinLimits'
    OBVIOUS
  <2>1. FullPowerLimit' = FullPowerLimit
    BY DEF FullPowerLimit
  <2>2. CASE UNCHANGED hwPower
    BY <2>1, <2>2 DEF SupplyWithinLimits
  <2>3. CASE hwPower' = aReg'
    <3>1. hwPower' = NotOff'
      BY <2>3 DEF FedInv
    <3>2. QED
      BY <2>1, <3>1 DEF SupplyWithinLimits, PoweredWithinLimits
  <2>4. QED
    BY <2>2, <2>3, SupplyStep DEF SupplyMoves
<1>5. QED
  BY <1>2, <1>3, <1>4, TypeCorrect, InitialisationCorrect, LimitsCorrect, PTL DEF Spec

\* The idle loop never has a READY cartridge in hand to initialise it.
TaskNotReady == asyncCartridgeTask = "INIT" => state[currentAsyncCartridge] # "READY"

\* READY is left by a command to the cartridge, or at a start, and by nothing
\* else: the failure path of the initialisation powers off no READY cartridge.
LEMMA StaysReadyStep ==
    ASSUME TypeOK, TaskNotReady, [Next]_vars
    PROVE  /\ TaskNotReady'
           /\ \A d \in Cartridges : state[d] = "READY" /\ state'[d] # "READY" =>
                 Restart \/ \E cmd \in {0, 2} : EnableHandler(d, cmd)
<1> DEFINE cur == currentAsyncCartridge
           Stays(d) == state[d] = "READY" /\ state'[d] # "READY" =>
                          Restart \/ \E cmd \in {0, 2} : EnableHandler(d, cmd)
<1> SUFFICES TaskNotReady' /\ \A d \in Cartridges : Stays(d)
  OBVIOUS
<1> USE DEF TaskNotReady, cartridgeVars, asyncVars
<1>0. cur \in Cartridges /\ state \in [Cartridges -> CartridgeStates]
  BY DEF TypeOK
<1>1. ASSUME UNCHANGED <<state, asyncCartridgeTask, currentAsyncCartridge>>
      PROVE  TaskNotReady' /\ \A d \in Cartridges : Stays(d)
  BY <1>1
<1>2. ASSUME NEW c \in Cartridges, NEW cmd \in Commands,
             EnableHandler(c, cmd), UNCHANGED asyncVars
      PROVE  TaskNotReady' /\ \A d \in Cartridges : Stays(d)
  <2>1. CASE UNCHANGED state
    BY <1>1, <1>2, <2>1
  <2>2. ASSUME NEW s, s # "READY", cmd \in {0, 2} \/ state[c] # "READY",
               state' = [state EXCEPT ![c] = s]
        PROVE  TaskNotReady' /\ \A d \in Cartridges : Stays(d)
    <3>1. TaskNotReady'
      BY <1>0, <1>2, <2>2
    <3>2. \A d \in Cartridges : d # c => state'[d] = state[d]
      BY <1>0, <2>2
    <3>3. Stays(c)
      BY <1>2, <2>2
    <3>4. QED
      BY <3>1, <3>2, <3>3
  <2>3. CASE PowerOn(c, cmd)
    BY <2>2, <2>3 DEF PowerOn
  <2>4. CASE OnToStandby2(c, cmd)
    BY <2>2, <2>4 DEF OnToStandby2
  <2>5. CASE PowerOff(c, cmd)
    BY <2>2, <2>5 DEF PowerOff, CartridgeStop
  <2>6. CASE PowerOffFails(c, cmd)
    BY <2>2, <2>6 DEF PowerOffFails
  <2>7. CASE Refuse(c, cmd) \/ NothingToDo(c, cmd) \/ OverLimit(c, cmd)
             \/ PowerOnFails(c, cmd) \/ Standby2ToOn(c, cmd)
    BY <2>1, <2>7 DEF Refuse, NothingToDo, OverLimit, PowerOnFails, Standby2ToOn
  <2>8. QED
    BY <1>2, <2>3, <2>4, <2>5, <2>6, <2>7 DEF EnableHandler
<1>3. ASSUME NEW m \in Cartridges \cup {NoModule}, AddressModule(m), UNCHANGED asyncVars
      PROVE  TaskNotReady' /\ \A d \in Cartridges : Stays(d)
  BY <1>1, <1>3 DEF AddressModule
<1>4. ASSUME NEW c \in Cartridges, NEW on \in BOOLEAN, SetColdBias(c, on)
      PROVE  TaskNotReady' /\ \A d \in Cartridges : Stays(d)
  BY <1>1, <1>4 DEF SetColdBias
<1>5. ASSUME NEW m \in Modes, SetFeMode(m)
      PROVE  TaskNotReady' /\ \A d \in Cartridges : Stays(d)
  BY <1>1, <1>5 DEF SetFeMode
<1>6. CASE CartridgeAsync
  <2>1. CASE StartTask
    <3>1. UNCHANGED state /\ (asyncCartridgeTask' = "INIT" => cur' = cur /\ state[cur] = "ON")
      BY <2>1 DEF StartTask, Running
    <3>2. QED
      BY <3>1
  <2>2. ASSUME TaskDone, state[cur] # "READY" \/ state'[cur] = "READY",
               UNCHANGED state \/ \E s : state' = [state EXCEPT ![cur] = s]
        PROVE  TaskNotReady' /\ \A d \in Cartridges : Stays(d)
    BY <1>0, <2>2 DEF TaskDone
  <2>3. CASE InitAbandoned \/ GoStandby2Abandoned
    BY <2>2, <2>3 DEF InitAbandoned, GoStandby2Abandoned
  <2>4. CASE InitSetWait
    BY <1>0, <2>4 DEF InitSetWait, InitStep, Running
  <2>5. CASE InitWaitOver
    BY <1>1, <2>5 DEF InitWaitOver
  <2>6. CASE InitDone \/ GoStandby2
    BY <1>0, <2>2, <2>6 DEF InitDone, GoStandby2
  <2>7. CASE InitFailed
    BY <2>2, <2>7 DEF InitFailed, CartridgeStop, Running
  <2>8. CASE InitAndPowerOffFailed
    BY <2>2, <2>8 DEF InitAndPowerOffFailed, Running
  <2>9. QED
    BY <1>6, <2>1, <2>3, <2>4, <2>5, <2>6, <2>7, <2>8 DEF CartridgeAsync
<1>7. ASSUME NEW turn, NEW next, OtherTurn(turn, next)
      PROVE  TaskNotReady' /\ \A d \in Cartridges : Stays(d)
  BY <1>1, <1>7 DEF OtherTurn
<1>8. CASE InitTimerElapses \/ ConsoleToggle
  BY <1>1, <1>8 DEF InitTimerElapses, ConsoleToggle
<1>9. CASE Restart
  BY <1>9 DEF Restart
<1>10. CASE UNCHANGED vars
  BY <1>1, <1>10 DEF vars
<1>11. QED
  BY <1>2, <1>3, <1>4, <1>5, <1>6, <1>7, <1>8, <1>9, <1>10 DEF Next, CANMessage, Async

\* A READY cartridge stays so until commanded otherwise, whatever fails and
\* whatever the idle loop was doing when it became READY.
THEOREM ReadyLeftByCommand == Spec => OnlyCommandsEndReady
<1> DEFINE Stays == \A c \in Cartridges : state[c] = "READY" /\ state'[c] # "READY" =>
                       Restart \/ \E cmd \in {0, 2} : EnableHandler(c, cmd)
<1>1. Init => TaskNotReady
  BY DEF Init, TaskNotReady
<1>2. TypeOK /\ TaskNotReady /\ [Next]_vars => TaskNotReady' /\ [Stays]_vars
  BY StaysReadyStep
<1>3. QED
  BY <1>1, <1>2, TypeCorrect, PTL DEF Spec, OnlyCommandsEndReady

-----------------------------------------------------------------------------
(* The initialisation ends. The idle loop comes to every cartridge in turn,  *)
(* and leaves none behind that is still to be initialised or taken to        *)
(* STANDBY2.                                                                 *)

AsyncInv == TypeOK /\ OnlyCurrentIniting /\ TimerDiscipline
AsyncRuns == asyncState # "OFF"

LEMMA AsyncInvHolds == Spec => []AsyncInv
BY TypeCorrect, InitialisationCorrect, PTL DEF AsyncInv

Unfinished == {"ON", "INITING", "GO_STANDBY2"}
After(k) == IF k + 1 = CARTRIDGES_NUMBER THEN 0 ELSE k + 1
AllOff == \A c \in Cartridges : state[c] = "OFF"

\* The turn of cartridge k is over and nothing is left to do for k. A restart
\* ends the turn of every cartridge.
Served(k) ==
    /\ state[k] \notin Unfinished
    /\ currentAsyncCartridge = After(k) \/ AllOff

\* Between two calls of async() only a restart ends the turn.
LEMMA OnlyAsyncTakesTurns ==
    ASSUME NEW k \in Cartridges, AsyncInv, currentAsyncCartridge = k,
           AsyncRuns, AsyncRuns', [Next]_vars, ~<<Async>>_vars
    PROVE  \/ Served(k)'
           \/ /\ UNCHANGED <<currentAsyncCartridge, asyncCartridgeTask, asyncCartridgeInitState>>
              /\ asyncState' \in {asyncState, "CARTRIDGE"}
              /\ initTimer' = initTimer \/ InitTimerElapses
<1> USE DEF asyncVars, AsyncRuns
<1>1. ASSUME NEW c \in Cartridges, NEW cmd \in Commands,
             EnableHandler(c, cmd), UNCHANGED asyncVars
      PROVE  asyncState' \in {asyncState, "CARTRIDGE"}
  BY <1>1 DEF EnableHandler, Refuse, NothingToDo, OverLimit, PowerOn, PowerOnFails,
              Standby2ToOn, OnToStandby2, PowerOff, PowerOffFails
<1>2. CASE CANMessage
  BY <1>1, <1>2 DEF CANMessage, AddressModule, SetColdBias, SetFeMode
<1>3. CASE Async
  BY <1>3 DEF vars
<1>4. CASE InitTimerElapses
  BY <1>4 DEF InitTimerElapses
<1>5. CASE ConsoleToggle
  BY <1>5 DEF ConsoleToggle
<1>6. CASE Restart
  BY <1>6 DEF Restart, Served, Unfinished, AllOff
<1>7. CASE UNCHANGED vars
  BY <1>7 DEF vars
<1>8. QED
  BY <1>2, <1>3, <1>4, <1>5, <1>6, <1>7 DEF Next

\* What a call of async() makes of the turn of cartridge k.
LEMMA AsyncTakesTurn ==
    ASSUME NEW k \in Cartridges, AsyncInv, currentAsyncCartridge = k, Async
    PROVE  \/ Served(k)'
           \/ /\ currentAsyncCartridge' = k
              /\ \/ /\ asyncState \in {"FETIM", "ON"} /\ asyncState' = "CRYOSTAT"
                    /\ UNCHANGED asyncVars
                 \/ /\ asyncState = "CRYOSTAT" /\ asyncState' = "CARTRIDGE"
                    /\ UNCHANGED asyncVars
                 \/ /\ asyncState = "CARTRIDGE" /\ asyncState' = "CARTRIDGE"
                    /\ asyncCartridgeTask = "IDLE"
                    /\ asyncCartridgeTask' \in {"INIT", "GO_STANDBY2"}
                    /\ UNCHANGED <<asyncCartridgeInitState, initTimer>>
                 \/ /\ asyncState = "CARTRIDGE" /\ asyncState' = "CARTRIDGE"
                    /\ asyncCartridgeTask = "INIT" /\ asyncCartridgeTask' = "INIT"
                    /\ \/ /\ asyncCartridgeInitState = "SET_WAIT"
                          /\ asyncCartridgeInitState' = "WAIT" /\ initTimer' = "running"
                       \/ /\ asyncCartridgeInitState = "WAIT" /\ initTimer = "expired"
                          /\ asyncCartridgeInitState' = "INIT" /\ initTimer' = "off"
<1> USE DEF Running, Served, Unfinished, After, TaskDone, NextCartridge
<1>0. /\ state \in [Cartridges -> CartridgeStates]
      /\ asyncCartridgeInitState \in InitStates
      /\ state[k] = "INITING" => asyncCartridgeTask = "INIT"
      /\ asyncCartridgeInitState = "SET_WAIT" => initTimer = "off"
  BY DEF AsyncInv, TypeOK, OnlyCurrentIniting, TimerDiscipline
<1>1. CASE StartTask
  BY <1>0, <1>1 DEF StartTask, cartridgeVars
<1>2. CASE InitAbandoned
  BY <1>0, <1>2 DEF InitAbandoned, cartridgeVars
<1>3. CASE InitSetWait
  BY <1>0, <1>3 DEF InitSetWait, InitStep
<1>4. CASE InitWaitOver
  BY <1>0, <1>4 DEF InitWaitOver, InitStep
<1>5. CASE InitDone
  BY <1>0, <1>5 DEF InitDone
<1>6. CASE InitFailed
  BY <1>0, <1>6 DEF InitFailed, CartridgeStop
<1>7. CASE InitAndPowerOffFailed
  BY <1>0, <1>7 DEF InitAndPowerOffFailed
<1>8. CASE GoStandby2Abandoned
  BY <1>0, <1>8 DEF GoStandby2Abandoned, cartridgeVars
<1>9. CASE GoStandby2
  BY <1>0, <1>9 DEF GoStandby2
<1>10. ASSUME NEW turn, NEW next, OtherTurn(turn, next)
       PROVE  asyncState = turn /\ asyncState' = next /\ UNCHANGED asyncVars
  BY <1>10 DEF OtherTurn
<1>11. CASE \/ OtherTurn("CRYOSTAT", "CARTRIDGE")
            \/ OtherTurn("FETIM", "CRYOSTAT") \/ OtherTurn("ON", "CRYOSTAT")
  BY <1>10, <1>11 DEF asyncVars
<1>12. QED
  BY <1>1, <1>2, <1>3, <1>4, <1>5, <1>6, <1>7, <1>8, <1>9, <1>11 DEF Async, CartridgeAsync

\* The behaviours in which the idle loop is scheduled and not stopped, from any
\* of their states on.
Scheduled ==
    [][Next]_vars /\ Fairness /\ []AsyncInv /\ []NothingBlocks /\ []AsyncRuns

\* Every turn ends.
LEMMA TurnEnds ==
    ASSUME NEW k \in Cartridges
    PROVE  Scheduled => (currentAsyncCartridge = k ~> Served(k))
<1> DEFINE Turn == currentAsyncCartridge = k
           Round == Turn /\ asyncState \in {"FETIM", "ON"}
           Cryo == Turn /\ asyncState = "CRYOSTAT"
           Task(t) == Turn /\ asyncState = "CARTRIDGE" /\ asyncCartridgeTask = t
           Init1 == Task("INIT") /\ asyncCartridgeInitState = "SET_WAIT"
           Init2 == Task("INIT") /\ asyncCartridgeInitState = "WAIT" /\ initTimer = "running"
           Init3 == Task("INIT") /\ asyncCartridgeInitState = "WAIT" /\ initTimer = "expired"
           Init4 == Task("INIT") /\ asyncCartridgeInitState = "INIT"
           Choice == Task("IDLE")
           Standby == Task("GO_STANDBY2")
           Chosen == Init1 \/ Init2 \/ Init3 \/ Init4 \/ Standby
           Inv == AsyncInv /\ AsyncRuns
           Done == Served(k)
<1> USE DEF asyncVars, AsyncRuns
<1>1. Inv => (Turn => Round \/ Cryo \/ Choice \/ Chosen)
  BY DEF AsyncInv, TypeOK, TimerDiscipline, AsyncStates, TaskStates, InitStates, TimerStates
<1>2. Inv /\ Inv' /\ Turn /\ [Next]_vars =>
         \/ Done' \/ <<Async>>_vars
         \/ /\ Turn' /\ UNCHANGED <<asyncCartridgeTask, asyncCartridgeInitState>>
            /\ asyncState' \in {asyncState, "CARTRIDGE"}
            /\ initTimer' = initTimer \/ InitTimerElapses
  BY OnlyAsyncTakesTurns
<1>3. InitTimerElapses => initTimer = "running" /\ initTimer' = "expired"
  BY DEF InitTimerElapses
<1>4. Inv => (asyncCartridgeInitState = "WAIT" <=> initTimer # "off")
  BY DEF AsyncInv, TimerDiscipline
<1>5. Inv /\ Inv' /\ Round /\ [Next]_vars
        => Round' \/ Choice' \/ Chosen' \/ Done' \/ <<Async>>_vars
  <2>1. Inv' /\ (Turn /\ asyncState = "CARTRIDGE")' => (Choice \/ Chosen)'
    BY DEF AsyncInv, TypeOK, TimerDiscipline, AsyncStates, TaskStates, InitStates, TimerStates
  <2> QED BY <1>2, <2>1
<1>6. Inv /\ Inv' /\ Cryo /\ [Next]_vars
        => Cryo' \/ Choice' \/ Chosen' \/ Done' \/ <<Async>>_vars
  <2>1. Inv' /\ (Turn /\ asyncState = "CARTRIDGE")' => (Choice \/ Chosen)'
    BY DEF AsyncInv, TypeOK, TimerDiscipline, AsyncStates, TaskStates, InitStates, TimerStates
  <2> QED BY <1>2, <2>1
<1>7. /\ Inv /\ Inv' /\ Choice /\ [Next]_vars => Choice' \/ Done' \/ <<Async>>_vars
      /\ Inv /\ Inv' /\ Standby /\ [Next]_vars => Standby' \/ Done' \/ <<Async>>_vars
      /\ Inv /\ Inv' /\ Init1 /\ [Next]_vars => Init1' \/ Done' \/ <<Async>>_vars
      /\ Inv /\ Inv' /\ Init4 /\ [Next]_vars => Init4' \/ Done' \/ <<Async>>_vars
  BY <1>2
<1>8. Inv /\ Inv' /\ Init3 /\ [Next]_vars => Init3' \/ Done' \/ <<Async>>_vars
  BY <1>2, <1>3
<1>9. Inv /\ Inv' /\ Round /\ <<Async>>_vars => Cryo' \/ Done'
  BY AsyncTakesTurn
<1>10. Inv /\ Inv' /\ Cryo /\ <<Async>>_vars => Choice' \/ Chosen' \/ Done'
  <2>1. Inv' /\ (Turn /\ asyncState = "CARTRIDGE")' => (Choice \/ Chosen)'
    BY DEF AsyncInv, TypeOK, TimerDiscipline, AsyncStates, TaskStates, InitStates, TimerStates
  <2> QED BY AsyncTakesTurn, <2>1
<1>11. Inv /\ Inv' /\ Choice /\ <<Async>>_vars => Chosen' \/ Done'
  <2>1. Inv' /\ (Turn /\ asyncState = "CARTRIDGE")' => (Choice \/ Chosen)'
    BY DEF AsyncInv, TypeOK, TimerDiscipline, AsyncStates, TaskStates, InitStates, TimerStates
  <2> QED BY AsyncTakesTurn, <2>1
<1>12. /\ Inv /\ Standby /\ <<Async>>_vars => Done'
       /\ Inv /\ Init1 /\ <<Async>>_vars => Init2' \/ Done'
       /\ Inv /\ Init3 /\ <<Async>>_vars => Init4' \/ Done'
       /\ Inv /\ Init4 /\ <<Async>>_vars => Done'
  BY AsyncTakesTurn
<1>13. /\ Inv /\ Inv' /\ Init2 /\ [Next]_vars => Init2' \/ Init3' \/ Done'
       /\ Init2 /\ <<InitTimerElapses>>_vars => Init3'
  <2>1. Inv /\ Init2 /\ <<Async>>_vars => Done'
    BY AsyncTakesTurn
  <2>2. Init2 /\ InitTimerElapses => Init3'
    BY DEF InitTimerElapses
  <2> QED BY <1>2, <2>1, <2>2
<1>14. NothingBlocks /\ Inv =>
         /\ Round \/ Cryo \/ Choice \/ Standby \/ Init1 \/ Init3 \/ Init4
               => ENABLED <<Async>>_vars
         /\ Init2 => ENABLED <<InitTimerElapses>>_vars
  <2>1. Inv /\ (Round \/ Cryo \/ Choice \/ Standby \/ Init1 \/ Init3 \/ Init4) => AsyncMoves
    BY DEF AsyncMoves, Running
  <2>2. Init2 => initTimer = "running"
    OBVIOUS
  <2> QED BY <2>1, <2>2 DEF NothingBlocks
<1> HIDE DEF Turn, Round, Cryo, Task, Init1, Init2, Init3, Init4, Choice, Standby, Chosen, Inv, Done
<1>15. Chosen <=> Init1 \/ Init2 \/ Init3 \/ Init4 \/ Standby
  BY DEF Chosen
<1>16. Scheduled => []Inv
  BY PTL DEF Scheduled, Inv
<1>17. Scheduled => (Turn ~> Done)
  BY <1>1, <1>5, <1>6, <1>7, <1>8, <1>9, <1>10, <1>11, <1>12, <1>13, <1>14, <1>15, <1>16, PTL
     DEF Scheduled, Fairness
<1>18. QED
  BY <1>17 DEF Turn, Done
\* The state of cartridge c is one of S, and j turns are left before its own.
Left(c, S) == state[c] \in S
Away(c, j) ==
    /\ j < CARTRIDGES_NUMBER
    /\ currentAsyncCartridge = IF j <= c THEN c - j ELSE c - j + CARTRIDGES_NUMBER
TurnsLeft(c, S, j) == Left(c, S) /\ Away(c, j)

\* Its turn comes nearer.
LEMMA TurnComesNearer ==
    ASSUME NEW c \in Cartridges, NEW S \in SUBSET Unfinished, NEW j \in Nat \ {0}
    PROVE  Scheduled => (TurnsLeft(c, S, j) ~> (~Left(c, S) \/ TurnsLeft(c, S, j - 1)))
<1>0. CARTRIDGES_NUMBER \in Nat \ {0} /\ Cartridges = 0 .. CARTRIDGES_NUMBER - 1
  BY ConstantsAssumption DEF Cartridges
<1>1. CASE j >= CARTRIDGES_NUMBER
  <2>1. ~TurnsLeft(c, S, j)
    BY <1>0, <1>1 DEF TurnsLeft, Away
  <2> QED BY <2>1, PTL
<1>2. ASSUME NEW k \in Cartridges, j < CARTRIDGES_NUMBER,
             k = IF j <= c THEN c - j ELSE c - j + CARTRIDGES_NUMBER
      PROVE  Scheduled => (TurnsLeft(c, S, j) ~> (~Left(c, S) \/ TurnsLeft(c, S, j - 1)))
  <2>1. TurnsLeft(c, S, j) => currentAsyncCartridge = k
    BY <1>2 DEF TurnsLeft, Away
  <2>2. Served(k) /\ Left(c, S) => TurnsLeft(c, S, j - 1)
    <3> SUFFICES ASSUME Served(k), Left(c, S) PROVE Away(c, j - 1)
      BY DEF TurnsLeft
    <3>1. currentAsyncCartridge = After(k)
      BY DEF Served, AllOff, Left, Unfinished
    <3> QED BY <1>0, <1>2, <3>1 DEF After, Away
  <2>3. Scheduled => (currentAsyncCartridge = k ~> Served(k))
    BY TurnEnds
  <2> QED BY <2>1, <2>2, <2>3, PTL
<1>3. CASE j < CARTRIDGES_NUMBER
  <2>1. (IF j <= c THEN c - j ELSE c - j + CARTRIDGES_NUMBER) \in Cartridges
    BY <1>0, <1>3
  <2> QED BY <1>2, <1>3, <2>1
<1> QED
  BY <1>0, <1>1, <1>3

\* Its own turn takes the cartridge out of S.
LEMMA OwnTurnEnds ==
    ASSUME NEW c \in Cartridges, NEW S \in SUBSET Unfinished
    PROVE  Scheduled => (TurnsLeft(c, S, 0) ~> ~Left(c, S))
<1>1. ASSUME NEW k \in Cartridges, k = c
      PROVE  Scheduled => (TurnsLeft(c, S, 0) ~> ~Left(c, S))
  <2>1. TurnsLeft(c, S, 0) => currentAsyncCartridge = k
    BY <1>1, ConstantsAssumption DEF TurnsLeft, Away, Cartridges
  <2>2. Served(k) => ~Left(c, S)
    BY <1>1 DEF Served, Left
  <2>3. Scheduled => (currentAsyncCartridge = k ~> Served(k))
    BY TurnEnds
  <2> QED BY <2>1, <2>2, <2>3, PTL
<1> QED BY <1>1

\* The round comes to every cartridge: none stays in S. The number of turns is
\* bounded by the number of cartridges of the front end (cartridge.h:101).
LEMMA RoundEnds ==
    ASSUME CARTRIDGES_NUMBER <= 10, NEW c \in Cartridges, NEW S \in SUBSET Unfinished
    PROVE  Scheduled => (Left(c, S) ~> ~Left(c, S))
<1> DEFINE Turns(j) == TurnsLeft(c, S, j)
<1>0. AsyncInv /\ Left(c, S)
        => \/ Turns(0) \/ Turns(1) \/ Turns(2) \/ Turns(3) \/ Turns(4)
           \/ Turns(5) \/ Turns(6) \/ Turns(7) \/ Turns(8) \/ Turns(9)
  <2> DEFINE cur == currentAsyncCartridge
             n == IF cur <= c THEN c - cur ELSE c - cur + CARTRIDGES_NUMBER
  <2>1. /\ CARTRIDGES_NUMBER \in 1 .. 10
        /\ c \in 0 .. CARTRIDGES_NUMBER - 1
        /\ AsyncInv => cur \in 0 .. CARTRIDGES_NUMBER - 1
    BY ConstantsAssumption DEF Cartridges, AsyncInv, TypeOK
  <2>2. AsyncInv => n \in 0 .. 9 /\ Away(c, n)
    BY <2>1 DEF Away
  <2> HIDE DEF n
  <2> QED BY <2>2 DEF TurnsLeft
<1>00. Scheduled => (Turns(0) ~> ~Left(c, S))
  BY OwnTurnEnds
<1> HIDE DEF Turns
<1>1. ASSUME NEW j \in Nat \ {0}, j = 1
      PROVE  Scheduled => (Turns(1) ~> (~Left(c, S) \/ Turns(0)))
  <2>1. (TurnsLeft(c, S, j) <=> Turns(1)) /\ (TurnsLeft(c, S, j - 1) <=> Turns(0))
    BY <1>1 DEF Turns
  <2>2. Scheduled => (TurnsLeft(c, S, j) ~> (~Left(c, S) \/ TurnsLeft(c, S, j - 1)))
    BY TurnComesNearer
  <2> QED BY <2>1, <2>2, PTL
<1>2. ASSUME NEW j \in Nat \ {0}, j = 2
      PROVE  Scheduled => (Turns(2) ~> (~Left(c, S) \/ Turns(1)))
  <2>1. (TurnsLeft(c, S, j) <=> Turns(2)) /\ (TurnsLeft(c, S, j - 1) <=> Turns(1))
    BY <1>2 DEF Turns
  <2>2. Scheduled => (TurnsLeft(c, S, j) ~> (~Left(c, S) \/ TurnsLeft(c, S, j - 1)))
    BY TurnComesNearer
  <2> QED BY <2>1, <2>2, PTL
<1>3. ASSUME NEW j \in Nat \ {0}, j = 3
      PROVE  Scheduled => (Turns(3) ~> (~Left(c, S) \/ Turns(2)))
  <2>1. (TurnsLeft(c, S, j) <=> Turns(3)) /\ (TurnsLeft(c, S, j - 1) <=> Turns(2))
    BY <1>3 DEF Turns
  <2>2. Scheduled => (TurnsLeft(c, S, j) ~> (~Left(c, S) \/ TurnsLeft(c, S, j - 1)))
    BY TurnComesNearer
  <2> QED BY <2>1, <2>2, PTL
<1>4. ASSUME NEW j \in Nat \ {0}, j = 4
      PROVE  Scheduled => (Turns(4) ~> (~Left(c, S) \/ Turns(3)))
  <2>1. (TurnsLeft(c, S, j) <=> Turns(4)) /\ (TurnsLeft(c, S, j - 1) <=> Turns(3))
    BY <1>4 DEF Turns
  <2>2. Scheduled => (TurnsLeft(c, S, j) ~> (~Left(c, S) \/ TurnsLeft(c, S, j - 1)))
    BY TurnComesNearer
  <2> QED BY <2>1, <2>2, PTL
<1>5. ASSUME NEW j \in Nat \ {0}, j = 5
      PROVE  Scheduled => (Turns(5) ~> (~Left(c, S) \/ Turns(4)))
  <2>1. (TurnsLeft(c, S, j) <=> Turns(5)) /\ (TurnsLeft(c, S, j - 1) <=> Turns(4))
    BY <1>5 DEF Turns
  <2>2. Scheduled => (TurnsLeft(c, S, j) ~> (~Left(c, S) \/ TurnsLeft(c, S, j - 1)))
    BY TurnComesNearer
  <2> QED BY <2>1, <2>2, PTL
<1>6. ASSUME NEW j \in Nat \ {0}, j = 6
      PROVE  Scheduled => (Turns(6) ~> (~Left(c, S) \/ Turns(5)))
  <2>1. (TurnsLeft(c, S, j) <=> Turns(6)) /\ (TurnsLeft(c, S, j - 1) <=> Turns(5))
    BY <1>6 DEF Turns
  <2>2. Scheduled => (TurnsLeft(c, S, j) ~> (~Left(c, S) \/ TurnsLeft(c, S, j - 1)))
    BY TurnComesNearer
  <2> QED BY <2>1, <2>2, PTL
<1>7. ASSUME NEW j \in Nat \ {0}, j = 7
      PROVE  Scheduled => (Turns(7) ~> (~Left(c, S) \/ Turns(6)))
  <2>1. (TurnsLeft(c, S, j) <=> Turns(7)) /\ (TurnsLeft(c, S, j - 1) <=> Turns(6))
    BY <1>7 DEF Turns
  <2>2. Scheduled => (TurnsLeft(c, S, j) ~> (~Left(c, S) \/ TurnsLeft(c, S, j - 1)))
    BY TurnComesNearer
  <2> QED BY <2>1, <2>2, PTL
<1>8. ASSUME NEW j \in Nat \ {0}, j = 8
      PROVE  Scheduled => (Turns(8) ~> (~Left(c, S) \/ Turns(7)))
  <2>1. (TurnsLeft(c, S, j) <=> Turns(8)) /\ (TurnsLeft(c, S, j - 1) <=> Turns(7))
    BY <1>8 DEF Turns
  <2>2. Scheduled => (TurnsLeft(c, S, j) ~> (~Left(c, S) \/ TurnsLeft(c, S, j - 1)))
    BY TurnComesNearer
  <2> QED BY <2>1, <2>2, PTL
<1>9. ASSUME NEW j \in Nat \ {0}, j = 9
      PROVE  Scheduled => (Turns(9) ~> (~Left(c, S) \/ Turns(8)))
  <2>1. (TurnsLeft(c, S, j) <=> Turns(9)) /\ (TurnsLeft(c, S, j - 1) <=> Turns(8))
    BY <1>9 DEF Turns
  <2>2. Scheduled => (TurnsLeft(c, S, j) ~> (~Left(c, S) \/ TurnsLeft(c, S, j - 1)))
    BY TurnComesNearer
  <2> QED BY <2>1, <2>2, PTL
<1>10. /\ Scheduled => (Turns(1) ~> (~Left(c, S) \/ Turns(0)))
       /\ Scheduled => (Turns(2) ~> (~Left(c, S) \/ Turns(1)))
       /\ Scheduled => (Turns(3) ~> (~Left(c, S) \/ Turns(2)))
       /\ Scheduled => (Turns(4) ~> (~Left(c, S) \/ Turns(3)))
       /\ Scheduled => (Turns(5) ~> (~Left(c, S) \/ Turns(4)))
       /\ Scheduled => (Turns(6) ~> (~Left(c, S) \/ Turns(5)))
       /\ Scheduled => (Turns(7) ~> (~Left(c, S) \/ Turns(6)))
       /\ Scheduled => (Turns(8) ~> (~Left(c, S) \/ Turns(7)))
       /\ Scheduled => (Turns(9) ~> (~Left(c, S) \/ Turns(8)))
  BY <1>1, <1>2, <1>3, <1>4, <1>5, <1>6, <1>7, <1>8, <1>9
<1>11. Scheduled => []AsyncInv
  BY PTL DEF Scheduled
<1> QED BY <1>0, <1>00, <1>10, <1>11, PTL

\* As long as the console does not stop the idle loop for good, no cartridge
\* stays ON or INITING and none stays on its way to STANDBY2, InitialisationEnds,
\* whatever is commanded and whichever writes fail (cartridge.c:570, async.c:21).
THEOREM InitialisationAlwaysEnds ==
    ASSUME CARTRIDGES_NUMBER <= 10
    PROVE  FairSpec /\ []NothingBlocks => InitialisationEnds
<1>1. ASSUME NEW c \in Cartridges, NEW S \in SUBSET Unfinished
      PROVE  FairSpec /\ []NothingBlocks
               => (<>[]AsyncRuns => (Left(c, S) ~> ~Left(c, S)))
  <2>1. Scheduled => (Left(c, S) ~> ~Left(c, S))
    BY RoundEnds
  <2> QED BY <2>1, AsyncInvHolds, PTL DEF Scheduled, FairSpec, Spec, Fairness
<1>2. ASSUME NEW c \in Cartridges, NEW S \in SUBSET Unfinished, S = {"ON", "INITING"}
      PROVE  FairSpec /\ []NothingBlocks
               => (<>[](asyncState # "OFF") =>
                     (state[c] \in {"ON", "INITING"} ~> state[c] \notin {"ON", "INITING"}))
  <2>1. /\ Left(c, S) <=> state[c] \in {"ON", "INITING"}
        /\ ~Left(c, S) <=> state[c] \notin {"ON", "INITING"}
        /\ AsyncRuns <=> asyncState # "OFF"
    BY <1>2 DEF AsyncRuns, Left
  <2>2. FairSpec /\ []NothingBlocks => (<>[]AsyncRuns => (Left(c, S) ~> ~Left(c, S)))
    BY <1>1
  <2> QED BY <2>1, <2>2, PTL
<1>3. ASSUME NEW c \in Cartridges, NEW S \in SUBSET Unfinished, S = {"GO_STANDBY2"}
      PROVE  FairSpec /\ []NothingBlocks
               => (<>[](asyncState # "OFF") =>
                     (state[c] = "GO_STANDBY2" ~> state[c] # "GO_STANDBY2"))
  <2>1. /\ Left(c, S) <=> state[c] = "GO_STANDBY2"
        /\ ~Left(c, S) <=> state[c] # "GO_STANDBY2"
        /\ AsyncRuns <=> asyncState # "OFF"
    BY <1>3 DEF AsyncRuns, Left
  <2>2. FairSpec /\ []NothingBlocks => (<>[]AsyncRuns => (Left(c, S) ~> ~Left(c, S)))
    BY <1>1
  <2> QED BY <2>1, <2>2, PTL
<1>4. {"ON", "INITING"} \in SUBSET Unfinished /\ {"GO_STANDBY2"} \in SUBSET Unfinished
  BY DEF Unfinished
<1>5. ASSUME NEW c \in Cartridges
      PROVE  FairSpec /\ []NothingBlocks
               => (<>[](asyncState # "OFF") =>
                     /\ state[c] \in {"ON", "INITING"} ~> state[c] \notin {"ON", "INITING"}
                     /\ state[c] = "GO_STANDBY2" ~> state[c] # "GO_STANDBY2")
  BY <1>2, <1>3, <1>4
<1> QED BY <1>5 DEF InitialisationEnds
=============================================================================
