---------------------------- MODULE LoRegisters ----------------------------
(***************************************************************************)
(* The registers of a local oscillator whose cartridge is switched on: the *)
(* phase lock, the photomixer and the multipliers. What the amplifiers are *)
(* set to is in LocalOscillator.                                           *)
(*                                                                         *)
(* One register holds five switches and the channel of the analog monitor, *)
(* so every measurement sends the switches again. The four potentiometers  *)
(* of the multipliers are sent together too.                               *)
(***************************************************************************)
EXTENDS Handlers

CONSTANTS LoSwitches,               \* the switches that are commanded
          LoPots,                   \* the potentiometers that are looked at
          LoopBandwidthDefault      \* loopBandwidthDefaults[]: the alternate

\* LO_BREG: the unlock latch operates, or is held clear; and what memory knows.
LoBits == {"latchOperates", "photomixer", "alternateBandwidth", "upperSideband", "nullIntegrator"}
\* LO_AMC_POT, by what the potentiometer sets.
Pots == {"gateE", "drainE", "multiplierD", "drainB"}

ASSUME LoRegistersAssumption ==
    /\ LoSwitches \subseteq LoBits \ {"latchOperates"}
    /\ LoPots \subseteq Pots
    /\ LoopBandwidthDefault \in BOOLEAN

VARIABLES
    loBReg,         \* loRegisters[].bReg
    loHw,           \* the register in the local oscillator
    loMemory,       \* what frontend...lo says of the switches
    latchCleared,   \* lastClearUnlockDetectLatch.status, "none" before it
    pots,           \* loRegisters[].amcPotReg: the potentiometers not at zero
    potsHw,         \* those of the multipliers
    multiplierD,    \* ...amc.multiplierDVoltage is not zero
    multiplierDSet, \* lastMultiplierDVoltage.status, "none" before it
    loWritten       \* history: the registers written since the power came

loSwitches == <<loBReg, loHw, loMemory, latchCleared>>
potVars == <<pots, potsHw, multiplierD, multiplierDSet>>
loVars == <<loSwitches, potVars, loWritten>>

-----------------------------------------------------------------------------
(* loSerialInterface.c *)

SendLoBReg(reg) ==
    /\ loBReg' = reg
    /\ loHw' = reg
    /\ loWritten' = loWritten \cup {"switches"}
LoBRegKept == UNCHANGED <<loBReg, loHw, loWritten>>

\* The channel is sent, with the switches, before the conversion is started.
GetLoAnalogMonitor(ok) ==
    IF Simulated THEN ok /\ UNCHANGED running /\ LoBRegKept
    ELSE \/ ~ok /\ "write" \in Faults /\ UNCHANGED running /\ LoBRegKept
         \/ Converts("LO_ADC", ok) /\ SendLoBReg(loBReg)

\* The getters differ in the channel and the scale.
GetPhotomixer(ok) == GetLoAnalogMonitor(ok)
GetPll(ok) == GetLoAnalogMonitor(ok)
GetAmcAnalog(ok) == GetLoAnalogMonitor(ok)
GetPa(ok) == GetLoAnalogMonitor(ok)
GetPaChannel(ok) == GetLoAnalogMonitor(ok)

GetPllStates(ok) == ok \/ Fails("read")

\* The copy is changed and written, and takes its old value back if that fails.
SetLoSwitch(bit, on, ok) ==
    /\ IF Simulated THEN ok /\ LoBRegKept
       ELSE IF ok THEN SendLoBReg(With(loBReg, bit, on))
       ELSE "write" \in Faults /\ LoBRegKept
    /\ loMemory' = IF ok THEN With(loMemory, bit, on) ELSE loMemory

SetPhotomixerEnable(on, ok) == SetLoSwitch("photomixer", on, ok)
SetLoopBandwidthSelect(on, ok) == SetLoSwitch("alternateBandwidth", on, ok)
SetSidebandLockPolaritySelect(on, ok) == SetLoSwitch("upperSideband", on, ok)
SetNullLoopIntegrator(on, ok) == SetLoSwitch("nullIntegrator", on, ok)

\* Mutated form: the latch is cleared and not made to operate again.
SetClearUnlockDetectLatchMutant(ok) ==
    \/ Simulated /\ ok /\ LoBRegKept
    \/ ~Simulated /\ ok /\ SendLoBReg(loBReg \ {"latchOperates"})
    \/ ~ok /\ Fails("write") /\ LoBRegKept

\* Two writes: clear, and operate. When the second fails the latch is left
\* clear, and the copy as it was.
SetClearUnlockDetectLatch(ok) ==
    \/ Simulated /\ ok /\ LoBRegKept
    \/ ~Simulated /\ ok /\ SendLoBReg(loBReg \cup {"latchOperates"})
    \/ ~ok /\ Fails("write") /\ LoBRegKept
    \/ /\ ~ok /\ Fails("write")
       /\ loHw' = loBReg \ {"latchOperates"}
       /\ loWritten' = loWritten \cup {"switches"}
       /\ UNCHANGED loBReg

\* What setAmc changes in the copy: two of the cases fall through to the next.
\* The data of the message is read as the type each case expects.
Changes(port) ==
    CASE port = "drainB" -> {"drainB"}
      [] port = "multiplierD" -> {"multiplierD", "gateE", "drainE"}
      [] port = "gateE" -> {"gateE", "drainE"}
      [] port = "drainE" -> {"drainE"}

\* A copy that could not be written keeps the new values.
SetAmc(port, values, ok) ==
    /\ IF Simulated THEN ok /\ UNCHANGED <<pots, potsHw, loWritten>>
       ELSE /\ pots' = (pots \ Changes(port)) \cup values
            /\ IF ok THEN potsHw' = pots' /\ loWritten' = loWritten \cup {"pots"}
               ELSE "write" \in Faults /\ UNCHANGED <<potsHw, loWritten>>
    /\ multiplierD' = IF ok /\ port = "multiplierD" THEN "multiplierD" \in pots'
                      ELSE multiplierD

-----------------------------------------------------------------------------
(* The handlers *)

LoKept == UNCHANGED <<mode, simulated, edom>>

\* A monitor request that measures, and one answered from memory.
LoMonitor(Get(_)) ==
    /\ \E ok \in BOOLEAN : Get(ok) /\ Told(ok)
    /\ LoKept /\ UNCHANGED <<loMemory, latchCleared, potVars>>
LoMemory(Answered) == Answered /\ LoKept /\ UNCHANGED <<loVars, running>>

LoCommand(bit, Set(_, _)) ==
    /\ bit \in LoSwitches
    /\ \E on, ok \in BOOLEAN : Set(on, ok) /\ Told(ok)
    /\ LoKept /\ UNCHANGED <<latchCleared, potVars, running>>

\* pll.c
LockDetectAndCorrectionVoltage == LoMonitor(GetPll)
AssemblyTempAndYIGHeaterCurrent == LoMonitor(GetPll)
RefAndIfTotalPower == LoMonitor(GetPll)

UnlockDetectLatch ==
    /\ \E ok \in BOOLEAN : GetPllStates(ok) /\ Told(ok)
    /\ LoKept /\ UNCHANGED <<loVars, running>>

ClearUnlockDetectLatch ==
    \/ LoMemory(NoMonitor)
    \/ /\ \E ok \in BOOLEAN :
             /\ SetClearUnlockDetectLatch(ok)
             /\ Told(ok)
             /\ latchCleared' = IF ok THEN "NO_ERROR" ELSE "ERROR"
       /\ LoKept /\ UNCHANGED <<loMemory, potVars, running>>

LoopBandwidthSelect ==
    LoMemory(Done) \/ LoCommand("alternateBandwidth", SetLoopBandwidthSelect)
SidebandPolarityAndNullIntegrator ==
    \/ LoMemory(Done)
    \/ LoCommand("upperSideband", SetSidebandLockPolaritySelect)
    \/ LoCommand("nullIntegrator", SetNullLoopIntegrator)

PllHandler ==
    \/ LockDetectAndCorrectionVoltage \/ AssemblyTempAndYIGHeaterCurrent \/ RefAndIfTotalPower
    \/ UnlockDetectLatch \/ ClearUnlockDetectLatch
    \/ LoopBandwidthSelect \/ SidebandPolarityAndNullIntegrator
    \/ LoMemory(RangeError)

\* photomixer.c. The current is measured twice; whether the first measurement
\* succeeded is not looked at.
PhotomixerEnable == LoMemory(Done) \/ LoCommand("photomixer", SetPhotomixerEnable)
PhotomixerVoltage == LoMonitor(GetPhotomixer)
PhotomixerCurrent ==
    /\ \E first, ok \in BOOLEAN :
          /\ GetPhotomixer(first /\ ok)
          /\ IF ok THEN Untold("photomixerCurrent", first) ELSE Error
    /\ LoKept /\ UNCHANGED <<loMemory, latchCleared, potVars>>
PhotomixerHandler ==
    PhotomixerEnable \/ PhotomixerVoltage \/ PhotomixerCurrent \/ LoMemory(RangeError)

\* amc.c
AmcStageA == LoMonitor(GetAmcAnalog)
AmcStageBMonitor == LoMonitor(GetAmcAnalog)

\* A command to a potentiometer.
AmcCommand(port) ==
    /\ \E ok \in BOOLEAN, values \in SUBSET (Changes(port) \cap LoPots) :
          /\ SetAmc(port, values, ok)
          /\ Told(ok)
          /\ multiplierDSet' = IF port # "multiplierD" THEN multiplierDSet
                               ELSE IF ok THEN "NO_ERROR" ELSE "ERROR"
    /\ LoKept /\ UNCHANGED <<loSwitches, running>>

AmcDrainB == LoMonitor(GetAmcAnalog) \/ AmcCommand("drainB")
AmcMultiplierD == LoMonitor(GetAmcAnalog) \/ LoMemory(Done) \/ AmcCommand("multiplierD")
AmcStageE == LoMonitor(GetAmcAnalog) \/ AmcCommand("gateE") \/ AmcCommand("drainE")
AmcDrainECurrentAndSupply == LoMonitor(GetAmcAnalog)
AmcHandler ==
    \/ AmcStageA \/ AmcStageBMonitor \/ AmcDrainB \/ AmcMultiplierD
    \/ AmcStageE \/ AmcDrainECurrentAndSupply \/ LoMemory(RangeError)

\* pa.c, paChannel.c: what is measured
PaSupplyVoltages == LoMonitor(GetPa)
PaChannelMonitor == LoMonitor(GetPaChannel)
PaHandler == PaSupplyVoltages \/ PaChannelMonitor \/ LoMemory(RangeError)

LoHandler == PllHandler \/ PhotomixerHandler \/ AmcHandler \/ PaHandler \/ LoMemory(RangeError)

-----------------------------------------------------------------------------

\* The cartridge loses its power, gets it back and is initialised (lo.c: the
\* end of loInit, which does not look at the result). Nothing that is
\* remembered is forgotten.
LoPowerCycle ==
    LET reg == With(loBReg, "alternateBandwidth", LoopBandwidthDefault) IN
    /\ potsHw' = {}
    /\ \/ /\ ~Simulated
          /\ loBReg' = reg /\ loHw' = reg
          /\ loWritten' = {"switches"}
          /\ loMemory' = With(loMemory, "alternateBandwidth", LoopBandwidthDefault)
       \/ /\ Fails("write")
          /\ loHw' = {} /\ loWritten' = {}
          /\ UNCHANGED <<loBReg, loMemory>>
       \/ /\ Simulated
          /\ loHw' = {} /\ loWritten' = {}
          /\ loMemory' = With(loMemory, "alternateBandwidth", LoopBandwidthDefault)
          /\ UNCHANGED loBReg
    /\ Done
    /\ LoKept /\ UNCHANGED <<latchCleared, pots, multiplierD, multiplierDSet, running>>

LoInit ==
    /\ loBReg = {} /\ loHw = {} /\ loMemory = {}
    /\ latchCleared = "none"
    /\ pots = {} /\ potsHw = {} /\ multiplierD = FALSE
    /\ multiplierDSet = "none"
    /\ loWritten = {}

LoNext == LoHandler \/ LoPowerCycle

-----------------------------------------------------------------------------

LoTypeOK ==
    /\ loBReg \subseteq LoBits /\ loHw \subseteq LoBits
    /\ loMemory \subseteq LoBits \ {"latchOperates"}
    /\ {latchCleared, multiplierDSet} \subseteq {"none", "NO_ERROR", "ERROR"}
    /\ pots \subseteq LoPots /\ potsHw \subseteq LoPots
    /\ multiplierD \in BOOLEAN
    /\ loWritten \subseteq {"switches", "pots"}

\* Where a register was written since the power came, what is answered for its
\* switches is what it holds, whatever failed in between; the unlock latch is
\* not held clear after a command to clear it that was answered NO_ERROR
\* (loSerialInterface.c:633), and the multiplier is set to the value answered
\* unless the last command to set it failed (loSerialInterface.c:1168).
LoMemoryMatches ==
    ~simulated =>
        /\ "switches" \in loWritten =>
              /\ loHw \ {"latchOperates"} = loMemory
              /\ latchCleared = "NO_ERROR" => "latchOperates" \in loHw
        /\ "pots" \in loWritten /\ multiplierDSet = "NO_ERROR" =>
              ("multiplierD" \in potsHw <=> multiplierD)
=============================================================================
