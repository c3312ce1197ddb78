-------------------------------- MODULE Bias --------------------------------
(***************************************************************************)
(* The bias electronics of a cartridge that is switched on: the SIS        *)
(* mixers, magnets, heaters, amplifiers and leds of two polarizations,     *)
(* each with a bias module of its own, and the temperature sensors.        *)
(*                                                                         *)
(* Heater, led, amplifiers and the mixers' loops are bits of a register    *)
(* that is only written as a whole. Each bias module has such a register;  *)
(* the software keeps one copy for both. What it keeps to be answered      *)
(* (the last enable of each device) is left out.                           *)
(***************************************************************************)
EXTENDS Handlers

CONSTANTS Bands,        \* the cartridges that are looked at, of 1 .. 10
          Commanded     \* for each, the bits and converters that are commanded

Polarizations == {0, 1}
Sidebands == {0, 1}
\* BIAS_BREG, and the converters of DAC2.
BiasBits == ({"lna", "loop"} \X Sidebands) \cup ({"heater", "led"} \X {0})
BiasDacs == {"sis", "magnet"} \X Sidebands

ASSUME BiasAssumption ==
    /\ Bands \subseteq 1 .. 10
    /\ Commanded \in [Bands -> SUBSET (BiasBits \cup BiasDacs)]

VARIABLES
    band,           \* currentModule + 1
    standby2,       \* frontend.cartridge[].standby2
    biasBReg,       \* biasRegisters[].bReg
    biasHw,         \* the register in the bias module of each polarization
    biasDac,        \* the converters of each polarization that are not at zero
    heaterTimer,    \* TIMER_BIAS_B9_HEATER of each polarization
    goingStandby2,  \* frontend.cartridge[].state = CARTRIDGE_GO_STANDBY2
    spared          \* history: what was lit in each polarization and the last
                    \* change to STANDBY2 did not write

biasRegisters == <<biasBReg, biasHw, biasDac>>
biasVars == <<band, standby2, biasRegisters, heaterTimer, goingStandby2, spared>>

\* cartridge.c: cartridgeStartup, without configuration files
SisAvailable == band >= 3
SisHeaterAvailable == band >= 3
SisMagnetAvailable == band >= 5

-----------------------------------------------------------------------------
(* biasSerialInterface.c *)

\* The copy is changed and written to one module; if that fails it takes its
\* old value back.
WriteBiasBReg(p, bit, on, ok) ==
    IF Simulated THEN ok /\ UNCHANGED biasRegisters
    ELSE IF ok
    THEN /\ biasBReg' = With(biasBReg, bit, on)
         /\ biasHw' = [biasHw EXCEPT ![p] = biasBReg']
         /\ UNCHANGED biasDac
    ELSE "write" \in Faults /\ UNCHANGED biasRegisters

WriteBiasDac2(p, dac, nonzero, ok) ==
    IF Simulated THEN ok /\ UNCHANGED biasRegisters
    ELSE IF ok
    THEN /\ biasDac' = [biasDac EXCEPT ![p] = With(@, dac, nonzero)]
         /\ UNCHANGED <<biasBReg, biasHw>>
    ELSE "write" \in Faults /\ UNCHANGED biasRegisters

GetBiasAnalogMonitor(ok) == Measures("BIAS_ADC", ok)

\* The getters differ in the channel they select and the scale of its value.
GetSisMixerBias(ok) == GetBiasAnalogMonitor(ok)
GetSisMagnetBias(ok) == GetBiasAnalogMonitor(ok)
GetLnaStage(ok) == GetBiasAnalogMonitor(ok)
GetSisHeater(ok) == GetBiasAnalogMonitor(ok)
GetTemp(ok) == GetBiasAnalogMonitor(ok)

\* No temperature where the curve has none.
TemperatureConversionFails == Fails("domain")

SetSisMixerBias(p, s, nonzero, ok) ==
    WriteBiasDac2(p, <<"sis", s>>, nonzero, ok) /\ UNCHANGED running
SetSisMagnetBias(p, s, nonzero, ok) ==
    WriteBiasDac2(p, <<"magnet", s>>, nonzero, ok) /\ UNCHANGED running
SetSisMixerLoop(p, s, open, ok) ==
    WriteBiasBReg(p, <<"loop", s>>, open, ok) /\ UNCHANGED running
SetLnaBiasEnable(p, s, on, ok) ==
    WriteBiasBReg(p, <<"lna", s>>, on, ok) /\ UNCHANGED running
SetLnaLedEnable(p, on, ok) ==
    WriteBiasBReg(p, <<"led", 0>>, on, ok) /\ UNCHANGED running
SetSisHeaterEnable(p, on, ok) ==
    WriteBiasBReg(p, <<"heater", 0>>, on, ok) /\ UNCHANGED running

\* The stages' converter must be ready before it is written.
SetLnaStage(ok) ==
    /\ IF Simulated THEN ok /\ UNCHANGED running
       ELSE \/ Waits("BIAS_DAC1", ok)
            \/ ~ok /\ "write" \in Faults /\ Waits("BIAS_DAC1", TRUE)
    /\ UNCHANGED biasRegisters

\* The strobes, sent in SIMULATION mode too, zero a converter or leave it.
SetBiasDacStrobe(p, ok) ==
    /\ IF ok THEN \E dac \in {biasDac[p], {}} : biasDac' = [biasDac EXCEPT ![p] = dac]
       ELSE "write" \in Faults /\ UNCHANGED biasDac
    /\ UNCHANGED <<biasBReg, biasHw, running>>

-----------------------------------------------------------------------------
(* The handlers *)

BiasKept == UNCHANGED <<mode, simulated, edom, band, standby2, goingStandby2, spared>>

\* A monitor request that measures, and one answered from memory.
BiasMonitor(Get(_)) ==
    /\ \E ok \in BOOLEAN : Get(ok) /\ Told(ok)
    /\ BiasKept /\ UNCHANGED <<biasRegisters, heaterTimer>>
BiasMemory(Answered) == Answered /\ BiasKept /\ UNCHANGED <<biasRegisters, heaterTimer, running>>

\* A control message is refused in STANDBY2.
BiasCommand(device, Set(_)) ==
    /\ device \in Commanded[band]
    /\ IF standby2 THEN Blocked /\ UNCHANGED <<biasRegisters, running>>
       ELSE \E ok \in BOOLEAN : Set(ok) /\ Told(ok)
    /\ BiasKept /\ UNCHANGED heaterTimer

\* sis.c
SisResistorAndVoltage(p, s) ==
    \/ BiasMemory(Done)
    \/ BiasMonitor(GetSisMixerBias)
    \/ \E nonzero \in BOOLEAN :
          BiasCommand(<<"sis", s>>, LAMBDA ok : SetSisMixerBias(p, s, nonzero, ok))

SisCurrentAndLoop(p, s) ==
    \/ BiasMonitor(GetSisMixerBias)
    \/ BiasMemory(Done)
    \/ \E open \in BOOLEAN :
          BiasCommand(<<"loop", s>>, LAMBDA ok : SetSisMixerLoop(p, s, open, ok))

SisHandler(p, s) ==
    IF SisAvailable THEN SisResistorAndVoltage(p, s) \/ SisCurrentAndLoop(p, s)
    ELSE BiasMemory(RangeError)

\* sisMagnet.c
SisMagnetVoltageAndCurrent(p, s) ==
    \/ BiasMonitor(GetSisMagnetBias)
    \/ \E nonzero \in BOOLEAN :
          BiasCommand(<<"magnet", s>>, LAMBDA ok : SetSisMagnetBias(p, s, nonzero, ok))

SisMagnetHandler(p, s) ==
    IF SisMagnetAvailable THEN SisMagnetVoltageAndCurrent(p, s) ELSE BiasMemory(RangeError)

\* lnaStage.c
LnaStageDrainVoltage == BiasMonitor(GetLnaStage) \/ BiasCommand(<<"lna", 0>>, SetLnaStage)
LnaStageDrainCurrentAndGate ==
    BiasMonitor(GetLnaStage) \/ BiasCommand(<<"lna", 0>>, SetLnaStage)
LnaStageHandler ==
    LnaStageDrainVoltage \/ LnaStageDrainCurrentAndGate \/ BiasMemory(RangeError)

\* lna.c. Bands 1 and 2 have one amplifier, on both sidebands: the second
\* write, and whether it succeeds, reaches no status.
LnaEnablePair(p, on) ==
    \E ok, okPair \in BOOLEAN :
        LET written == (IF ok THEN {<<"lna", 0>>} ELSE {})
                       \cup (IF okPair THEN {<<"lna", 1>>} ELSE {})
            reg == IF on THEN biasBReg \cup written ELSE biasBReg \ written
        IN  /\ ok \/ ~okPair
            /\ Simulated => ok /\ okPair
            /\ (ok /\ okPair) \/ "write" \in Faults
            /\ IF Simulated \/ written = {} THEN UNCHANGED <<biasBReg, biasHw>>
               ELSE biasBReg' = reg /\ biasHw' = [biasHw EXCEPT ![p] = reg]
            /\ IF ok THEN Untold("lnaPair", okPair) ELSE Error
            /\ UNCHANGED <<biasDac, running>>

\* Mutated form: the pair of amplifiers is enabled in STANDBY2 too.
LnaEnableMutant(p, s) ==
    \/ BiasMemory(Done)
    \/ \E on \in BOOLEAN :
          IF band \in {1, 2} /\ s = 0
          THEN /\ <<"lna", 0>> \in Commanded[band]
               /\ LnaEnablePair(p, on)
               /\ BiasKept /\ UNCHANGED heaterTimer
          ELSE BiasCommand(<<"lna", s>>, LAMBDA ok : SetLnaBiasEnable(p, s, on, ok))

LnaEnable(p, s) ==
    \/ BiasMemory(Done)
    \/ \E on \in BOOLEAN :
          IF band \in {1, 2} /\ s = 0 /\ ~standby2
          THEN /\ <<"lna", 0>> \in Commanded[band]
               /\ LnaEnablePair(p, on)
               /\ BiasKept /\ UNCHANGED heaterTimer
          ELSE BiasCommand(<<"lna", s>>, LAMBDA ok : SetLnaBiasEnable(p, s, on, ok))

LnaHandler(p, s) == LnaStageHandler \/ LnaEnable(p, s) \/ BiasMemory(RangeError)

\* lnaLed.c
LnaLedEnable(p) ==
    \/ BiasMemory(Done)
    \/ \E on \in BOOLEAN : BiasCommand(<<"led", 0>>, LAMBDA ok : SetLnaLedEnable(p, on, ok))

\* sisHeater.c. In band 9 a heater is not switched on again for ten seconds;
\* the time starts before the write, whether it succeeds or not.
SisHeaterSwitch(p, on) ==
    /\ <<"heater", 0>> \in Commanded[band]
    /\ IF standby2 \/ (band = 9 /\ on /\ heaterTimer[p] = "RUNNING")
       THEN Blocked /\ UNCHANGED <<biasRegisters, running, heaterTimer>>
       ELSE /\ heaterTimer' = IF band = 9 /\ on THEN [heaterTimer EXCEPT ![p] = "RUNNING"]
                              ELSE heaterTimer
            /\ \E ok \in BOOLEAN : SetSisHeaterEnable(p, on, ok) /\ Told(ok)
    /\ BiasKept

SisHeaterHandler(p) ==
    IF SisHeaterAvailable
    THEN \/ \E on \in BOOLEAN : SisHeaterSwitch(p, on)
         \/ BiasMonitor(GetSisHeater)
         \/ BiasMemory(NoMonitor)
    ELSE BiasMemory(RangeError)

\* polDac.c. Only DAC1 can be cleared.
PolDacStrobe(p) ==
    \/ \E ok \in BOOLEAN : SetBiasDacStrobe(p, ok) /\ Told(ok) /\ BiasKept /\ UNCHANGED heaterTimer
    \/ BiasMemory(RangeError)
    \/ BiasMemory(NoMonitor)

PolSpecialMsgsHandler(p) == PolDacStrobe(p) \/ BiasMemory(RangeError)

\* sideband.c, polarization.c
SidebandHandler(p, s) ==
    SisHandler(p, s) \/ SisMagnetHandler(p, s) \/ LnaHandler(p, s) \/ BiasMemory(RangeError)

PolarizationHandler(p) ==
    \/ \E s \in Sidebands : SidebandHandler(p, s)
    \/ LnaLedEnable(p)
    \/ SisHeaterHandler(p)
    \/ PolSpecialMsgsHandler(p)
    \/ BiasMemory(RangeError)

\* cartridgeTemp.c. Whether the measurement succeeded is not looked at; one
\* that is not a temperature leaves a status behind, one that was not made
\* nothing.
CartridgeTemp ==
    /\ \E ok \in BOOLEAN : GetTemp(ok) /\ Untold("cartridgeTemp", ok)
    /\ BiasKept /\ UNCHANGED <<biasRegisters, heaterTimer>>

CartridgeTempUnusable ==
    /\ TemperatureConversionFails
    /\ GetTemp(TRUE)
    /\ Answer("HARDW_CON_ERR", TRUE)
    /\ BiasKept /\ UNCHANGED <<biasRegisters, heaterTimer>>

TempOffset == BiasMemory(Done)

CartridgeTempHandler ==
    CartridgeTemp \/ CartridgeTempUnusable \/ TempOffset \/ BiasMemory(RangeError)

\* cartridge.c
CartridgeTempSubsystemHandler == CartridgeTempHandler \/ BiasMemory(RangeError)
BiasSubsystemHandler ==
    (\E p \in Polarizations : PolarizationHandler(p)) \/ BiasMemory(RangeError)

\* Nothing is answered while the change to STANDBY2 waits for the idle loop.
CartridgeHandler ==
    IF goingStandby2 THEN BiasMemory(Blocked)
    ELSE BiasSubsystemHandler \/ CartridgeTempSubsystemHandler

-----------------------------------------------------------------------------
(* STANDBY2 and the power *)

\* lna.c, lnaLed.c, sis.c, sisMagnet.c: the registers after the writes of the
\* change to STANDBY2, of which those in `failed' fail. No result is looked at.
LnaGoStandby2 == <<<<0, <<"lna", 0>>>>, <<0, <<"lna", 1>>>>, <<1, <<"lna", 0>>>>, <<1, <<"lna", 1>>>>>>
LnaLedGoStandby2 == <<<<0, <<"led", 0>>>>, <<1, <<"led", 0>>>>>>

\* Each module holds the copy as it was at the last write that reached it.
RegistersAfter(writes, failed) ==
    LET made == DOMAIN writes \ failed
        MadeTo(p) == {i \in made : writes[i][1] = p}
        UpTo(p) == {k \in made : \E i \in MadeTo(p) : k <= i}
    IN  [copy |-> biasBReg \ {writes[i][2] : i \in made},
         hw |-> [p \in Polarizations |->
                    IF MadeTo(p) = {} THEN biasHw[p]
                    ELSE biasBReg \ {writes[k][2] : k \in UpTo(p)}]]

\* The mixers and the magnets, where there are any, are set to zero.
SisGoStandby2(s) == IF SisAvailable THEN {<<"sis", s>>} ELSE {}
SisMagnetGoStandby2(s) == IF SisMagnetAvailable THEN {<<"magnet", s>>} ELSE {}

\* Which of the writes are not made: in SIMULATION mode, all.
NotMade(writes) ==
    IF Simulated THEN {writes} ELSE IF "write" \in Faults THEN SUBSET writes ELSE {{}}

\* cartridge.c: asyncCartridgeGoStandby2, in one call of the idle loop. The
\* heater is left as it is.
AsyncCartridgeGoStandby2 ==
    LET writes == LnaGoStandby2 \o LnaLedGoStandby2
        zeroed == UNION {SisGoStandby2(s) \cup SisMagnetGoStandby2(s) : s \in Sidebands}
        NotMadeTo(p, failed) == {writes[i][2] : i \in {k \in failed : writes[k][1] = p}}
    IN  /\ goingStandby2
        /\ \E failed \in NotMade(DOMAIN writes),
              kept0 \in NotMade(biasDac[0] \cap zeroed), kept1 \in NotMade(biasDac[1] \cap zeroed) :
              LET after == RegistersAfter(writes, failed)
                  kept == <<kept0, kept1>> IN
              /\ biasBReg' = after.copy
              /\ biasHw' = after.hw
              /\ biasDac' = [p \in Polarizations |-> (biasDac[p] \ zeroed) \cup kept[p + 1]]
              /\ spared' = [p \in Polarizations |->
                     (NotMadeTo(p, failed) \cap (biasBReg \cup biasHw[p])) \cup kept[p + 1]]
        /\ goingStandby2' = FALSE
        /\ Done
        /\ UNCHANGED <<mode, simulated, running, edom, band, standby2, heaterTimer>>

\* Commanded to the cartridge's power distribution module: from ON to STANDBY2
\* and back. A change to STANDBY2 that waits for the idle loop is not taken back.
SetStandby2 ==
    /\ ~standby2
    /\ standby2' = TRUE
    /\ goingStandby2' = TRUE
    /\ spared' = [p \in Polarizations |-> {}]
    /\ Done
    /\ UNCHANGED <<mode, simulated, running, edom, band, biasRegisters, heaterTimer>>

LeaveStandby2 ==
    /\ standby2
    /\ standby2' = FALSE
    /\ spared' = [p \in Polarizations |-> {}]
    /\ Done
    /\ UNCHANGED <<mode, simulated, running, edom, band, biasRegisters, heaterTimer, goingStandby2>>

\* The cartridge loses its power and gets it back, for ON or for STANDBY2. The
\* copy is not told.
PowerCycle ==
    /\ standby2' \in BOOLEAN
    /\ goingStandby2' = FALSE
    /\ spared' = [p \in Polarizations |-> {}]
    /\ biasHw' = [p \in Polarizations |-> {}]
    /\ biasDac' = [p \in Polarizations |-> {}]
    /\ Done
    /\ UNCHANGED <<mode, simulated, running, edom, band, biasBReg, heaterTimer>>

HeaterTimerExpires(p) ==
    /\ heaterTimer[p] = "RUNNING"
    /\ heaterTimer' = [heaterTimer EXCEPT ![p] = "EXPIRED"]
    /\ Done
    /\ UNCHANGED <<mode, simulated, running, edom, band, standby2, biasRegisters, goingStandby2,
                   spared>>

BiasInit ==
    /\ band \in Bands
    /\ standby2 = FALSE
    /\ biasBReg = {}
    /\ biasHw = [p \in Polarizations |-> {}]
    /\ biasDac = [p \in Polarizations |-> {}]
    /\ heaterTimer = [p \in Polarizations |-> "NOT_RUNNING"]
    /\ goingStandby2 = FALSE
    /\ spared = [p \in Polarizations |-> {}]

BiasNext ==
    \/ CartridgeHandler
    \/ AsyncCartridgeGoStandby2
    \/ SetStandby2
    \/ LeaveStandby2
    \/ PowerCycle
    \/ \E p \in Polarizations : HeaterTimerExpires(p)

-----------------------------------------------------------------------------

BiasTypeOK ==
    /\ band \in Bands
    /\ standby2 \in BOOLEAN
    /\ biasBReg \subseteq BiasBits
    /\ biasHw \in [Polarizations -> SUBSET BiasBits]
    /\ biasDac \in [Polarizations -> SUBSET BiasDacs]
    /\ heaterTimer \in [Polarizations -> {"NOT_RUNNING", "RUNNING", "EXPIRED"}]
    /\ goingStandby2 \in BOOLEAN
    /\ spared \in [Polarizations -> SUBSET (BiasBits \cup BiasDacs)]

\* A cartridge in STANDBY2 is dark but for what the writes of the change to it
\* spared, whose results nobody looks at (cartridge.c:810): no other write of
\* the change and no later message of any kind, to either polarization and
\* whatever the shared copy holds, gives an amplifier, a led, a mixer or a
\* magnet its bias back.
Standby2IsDark ==
    standby2 /\ ~goingStandby2 =>
        \A p \in Polarizations :
            (biasHw[p] \cap {<<"lna", 0>>, <<"lna", 1>>, <<"led", 0>>}) \cup biasDac[p]
                \subseteq spared[p]

\* sisHeater.c:91 "This is necessary to prevent the keep-on algorithm from
\* keeping the heater on on band 9": whatever is commanded, a heater of band 9
\* is not switched on while its timer runs. The code breaks it: the register of
\* a polarization takes the bit over from the copy that the other polarization
\* has changed, with any later write to it (biasSerialInterface.c:569).
HeaterIsNotKeptOn ==
    [][\A p \in Polarizations :
          band = 9 /\ <<"heater", 0>> \in biasHw'[p] \ biasHw[p]
          => heaterTimer[p] # "RUNNING"]_biasVars
=============================================================================
