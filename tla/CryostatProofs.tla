--------------------------- MODULE CryostatProofs ---------------------------
(***************************************************************************)
(* Lemmas about the vacuum line: what a message, a write of the backing    *)
(* pump's command and a restart do while the mode is not SIMULATION. They  *)
(* become theorems of the system in DevicesProofs.                         *)
(***************************************************************************)
EXTENDS Cryostat, TLAPS

USE DEF Bits, Points

\* What of the line is off once the next write of the backing pump's command
\* is due.
OffBefore(step) ==
    (IF step >= 2 THEN {"gateValve"} ELSE {})
    \cup (IF step >= 3 THEN {"solenoidValve"} ELSE {})
    \cup (IF step >= 4 THEN {"turboPump"} ELSE {})

\* The copy, the register and what is remembered of them agree once it was
\* written; before that nothing is remembered as on but the vacuum controller.
LineInv ==
    /\ CommandsTellTruth
    /\ ~cryoWritten => cryoBReg = {} /\ cryoEnable \subseteq {"vacuumController"}
    /\ OffBefore(cryoStep) \cap cryoBReg = {}

CryoInv == CryostatTypeOK /\ LineInv

LEMMA ShutdownOrderIs ==
    /\ Len(ShutdownOrder) = 4
    /\ ShutdownOrder[1] = "gateValve" /\ ShutdownOrder[2] = "solenoidValve"
    /\ ShutdownOrder[3] = "turboPump" /\ ShutdownOrder[4] = "backingPump"
BY DEF ShutdownOrder

LEMMA OffBeforeIs ==
    /\ OffBefore(0) = {} /\ OffBefore(1) = {}
    /\ OffBefore(2) = {"gateValve"}
    /\ OffBefore(3) = {"gateValve", "solenoidValve"}
    /\ OffBefore(4) = {"gateValve", "solenoidValve", "turboPump"}
BY DEF OffBefore

LEMMA CryoInitInv == CryostatInit => CryoInv
BY ShutdownOrderIs
   DEF CryostatInit, CryoInv, CryostatTypeOK, LineInv, CommandsTellTruth, OffBefore, Outcomes

LEMMA CryoUnchanged == CryoInv /\ UNCHANGED cryoVars => CryoInv'
BY DEF CryoInv, CryostatTypeOK, LineInv, CommandsTellTruth, OffBefore, cryoVars, cryoRegister

-----------------------------------------------------------------------------
(* The steps                                                               *)

\* What the last command of a point is remembered as.
LEMMA LastTyped ==
    ASSUME CryostatTypeOK, NEW p \in Points, NEW o \in Outcomes, Last(p, o)
    PROVE  /\ cryoLast' \in [Points -> Outcomes]
           /\ cryoLast'[p] = o
           /\ \A q \in Points \ {p} : cryoLast'[q] = cryoLast[q]
BY DEF CryostatTypeOK, Last

\* A command that is refused or fails leaves the line alone.
LEMMA NotCarriedOut ==
    ASSUME CryoInv, NEW p \in Points, NEW o \in {"ERROR", "HARDW_BLKD_ERR"}, Last(p, o),
           UNCHANGED <<cryoEnable, cryoRegister, cryoStep>>
    PROVE  CryoInv'
<1>1. /\ cryoLast' \in [Points -> Outcomes]
      /\ cryoLast'[p] = o
      /\ \A q \in Points \ {p} : cryoLast'[q] = cryoLast[q]
    BY LastTyped DEF CryoInv, Outcomes
<1> QED BY <1>1 DEF CryoInv, CryostatTypeOK, LineInv, CommandsTellTruth, OffBefore, cryoRegister

LEMMA RefusedOrFailed ==
    ASSUME CryoInv, NEW p \in Points, UNCHANGED cryoStep,
           Refused(p) \/ Failed(p, "write") \/ Failed(p, "read")
    PROVE  CryoInv'
BY NotCarriedOut DEF Refused, Failed

\* A command of the line that was written.
LEMMA CarriedOut ==
    ASSUME CryoInv, NEW on \in BOOLEAN, cryoStep = 0, UNCHANGED cryoStep, ~Simulated,
           \/ SetBackingPumpEnable(on) /\ on /\ Accepted("backingPump", on)
           \/ SetTurboPumpEnable(on) /\ ~NoPump /\ Accepted("turboPump", on)
           \/ SetGateValveState(on) /\ ~NoPump /\ Accepted("gateValve", on)
           \/ SetSolenoidValveState(on) /\ ~NoPump /\ Accepted("solenoidValve", on)
           \/ SetVacuumControllerEnable(on) /\ Accepted("vacuumController", on)
    PROVE  CryoInv'
<1> DEFINE o == IF on THEN "on" ELSE "off"
<1> USE DEF CryoInv, CryostatTypeOK
<1>1. o \in Outcomes
    BY DEF Outcomes
<1>2. CASE SetBackingPumpEnable(on) /\ on /\ Accepted("backingPump", on)
    <2>1. /\ cryoLast' \in [Points -> Outcomes]
          /\ \A q \in Points \ {"backingPump"} : cryoLast'[q] = cryoLast[q]
        BY <1>1, <1>2, LastTyped DEF Accepted
    <2> QED BY <1>2, <2>1 DEF SetBackingPumpEnable, LineInv, CommandsTellTruth, OffBefore, WriteCryoBReg,
                With
<1>3. CASE SetTurboPumpEnable(on) /\ ~NoPump /\ Accepted("turboPump", on)
    <2>1. /\ cryoLast' \in [Points -> Outcomes] /\ cryoLast'["turboPump"] = o
          /\ \A q \in Points \ {"turboPump"} : cryoLast'[q] = cryoLast[q]
        BY <1>1, <1>3, LastTyped DEF Accepted
    <2>2. /\ cryoBReg' = (IF on THEN cryoBReg \cup {"turboPump"} ELSE cryoBReg \ {"turboPump"})
          /\ cryoHw' = cryoBReg' /\ cryoWritten' = TRUE
          /\ cryoEnable' = With(cryoEnable, "turboPump", on)
        BY <1>3 DEF SetTurboPumpEnable, WriteCryoBReg, With
    <2>3. "backingPump" \in cryoEnable
        BY <1>3 DEF NoPump
    <2>4. CASE on
        BY <2>1, <2>2, <2>3, <2>4 DEF CryoInv, CryostatTypeOK, LineInv, CommandsTellTruth, OffBefore, With
    <2>5. CASE ~on
        BY <2>1, <2>2, <2>3, <2>5 DEF CryoInv, CryostatTypeOK, LineInv, CommandsTellTruth, OffBefore, With
    <2> QED BY <2>4, <2>5
<1>4. CASE SetGateValveState(on) /\ ~NoPump /\ Accepted("gateValve", on)
    <2>1. /\ cryoLast' \in [Points -> Outcomes] /\ cryoLast'["gateValve"] = o
          /\ \A q \in Points \ {"gateValve"} : cryoLast'[q] = cryoLast[q]
        BY <1>1, <1>4, LastTyped DEF Accepted
    <2>2. /\ cryoBReg' = (IF on THEN cryoBReg \cup {"gateValve"} ELSE cryoBReg \ {"gateValve"})
          /\ cryoHw' = cryoBReg' /\ cryoWritten' = TRUE
          /\ cryoEnable' = cryoEnable
        BY <1>4 DEF SetGateValveState, WriteCryoBReg, With
    <2>3. "backingPump" \in cryoEnable
        BY <1>4 DEF NoPump
    <2>4. CASE on
        BY <2>1, <2>2, <2>3, <2>4 DEF CryoInv, CryostatTypeOK, LineInv, CommandsTellTruth, OffBefore, With
    <2>5. CASE ~on
        BY <2>1, <2>2, <2>3, <2>5 DEF CryoInv, CryostatTypeOK, LineInv, CommandsTellTruth, OffBefore, With
    <2> QED BY <2>4, <2>5
<1>5. CASE SetSolenoidValveState(on) /\ ~NoPump /\ Accepted("solenoidValve", on)
    <2>1. /\ cryoLast' \in [Points -> Outcomes] /\ cryoLast'["solenoidValve"] = o
          /\ \A q \in Points \ {"solenoidValve"} : cryoLast'[q] = cryoLast[q]
        BY <1>1, <1>5, LastTyped DEF Accepted
    <2>2. /\ cryoBReg' = (IF on THEN cryoBReg \cup {"solenoidValve"} ELSE cryoBReg \ {"solenoidValve"})
          /\ cryoHw' = cryoBReg' /\ cryoWritten' = TRUE
          /\ cryoEnable' = cryoEnable
        BY <1>5 DEF SetSolenoidValveState, WriteCryoBReg, With
    <2>3. "backingPump" \in cryoEnable
        BY <1>5 DEF NoPump
    <2>4. CASE on
        BY <2>1, <2>2, <2>3, <2>4 DEF CryoInv, CryostatTypeOK, LineInv, CommandsTellTruth, OffBefore, With
    <2>5. CASE ~on
        BY <2>1, <2>2, <2>3, <2>5 DEF CryoInv, CryostatTypeOK, LineInv, CommandsTellTruth, OffBefore, With
    <2> QED BY <2>4, <2>5
<1>6. CASE SetVacuumControllerEnable(on) /\ Accepted("vacuumController", on)
    <2>1. /\ cryoLast' \in [Points -> Outcomes]
          /\ \A q \in Points \ {"vacuumController"} : cryoLast'[q] = cryoLast[q]
        BY <1>1, <1>6, LastTyped DEF Accepted
    <2> QED BY <1>6, <2>1 DEF SetVacuumControllerEnable, LineInv, CommandsTellTruth, OffBefore, WriteCryoBReg,
                With
<1> QED BY <1>2, <1>3, <1>4, <1>5, <1>6

LEMMA TurboPumpRefusedForItsTemperature ==
    ASSUME CryoInv, TurboPumpTooColdOrHot, UNCHANGED cryoStep
    PROVE  CryoInv'
<1>1. /\ cryoLast' \in [Points -> Outcomes] /\ cryoLast'["turboPump"] = "HARDW_BLKD_ERR"
      /\ \A q \in Points \ {"turboPump"} : cryoLast'[q] = cryoLast[q]
    BY LastTyped DEF TurboPumpTooColdOrHot, CryoInv, Outcomes
<1> QED BY <1>1 DEF TurboPumpTooColdOrHot, CryoInv, CryostatTypeOK, LineInv, CommandsTellTruth,
                    OffBefore, cryoRegister

LEMMA CommandInv ==
    ASSUME CryoInv, ~Simulated, cryoStep = 0, CryostatCommand
    PROVE  CryoInv'
<1>1. CASE BackingPumpOn
    BY <1>1, CarriedOut, RefusedOrFailed DEF BackingPumpOn, CryoOthers
<1>2. CASE BackingPumpOff
    <2>1. cryoLast' \in [Points -> Outcomes]
          /\ \A q \in Points \ {"backingPump"} : cryoLast'[q] = cryoLast[q]
        BY <1>2, LastTyped DEF BackingPumpOff, Accepted, CryoInv, Outcomes
    <2> QED BY <1>2, <2>1, ShutdownOrderIs
            DEF BackingPumpOff, CryoInv, CryostatTypeOK, LineInv, CommandsTellTruth, OffBefore,
                cryoRegister
<1>3. ASSUME NEW on \in BOOLEAN, TurboPumpEnable(on) PROVE CryoInv'
    BY <1>3, CarriedOut, RefusedOrFailed, TurboPumpRefusedForItsTemperature
       DEF TurboPumpEnable, CryoOthers
<1>4. ASSUME NEW on \in BOOLEAN, GateValveState(on) PROVE CryoInv'
    BY <1>4, CarriedOut, RefusedOrFailed DEF GateValveState, CryoOthers
<1>5. ASSUME NEW on \in BOOLEAN, SolenoidValveState(on) PROVE CryoInv'
    BY <1>5, CarriedOut, RefusedOrFailed DEF SolenoidValveState, CryoOthers
<1>6. ASSUME NEW on \in BOOLEAN, VacuumControllerEnable(on) PROVE CryoInv'
    BY <1>6, CarriedOut, RefusedOrFailed DEF VacuumControllerEnable, CryoOthers
<1> QED BY <1>1, <1>2, <1>3, <1>4, <1>5, <1>6 DEF CryostatCommand

LEMMA ShutdownInv ==
    ASSUME CryoInv, ~Simulated, Shutdown
    PROVE  CryoInv'
<1> USE ShutdownOrderIs
<1>1. cryoStep \in 1 .. 4
    BY DEF CryoInv, CryostatTypeOK, Shutdown
<1>2. CASE ShutdownWrite /\ cryoStep' = (cryoStep + 1) % (Len(ShutdownOrder) + 1)
           /\ UNCHANGED cryoLast
    <2>1. \/ cryoStep = 1 /\ cryoStep' = 2
          \/ cryoStep = 2 /\ cryoStep' = 3
          \/ cryoStep = 3 /\ cryoStep' = 4
          \/ cryoStep = 4 /\ cryoStep' = 0
        BY <1>1, <1>2
    <2>2. CryoInv /\ UNCHANGED cryoLast
        BY <1>2
    <2>3. CASE cryoStep = 1 /\ cryoStep' = 2
        <3>1. SetGateValveState(FALSE)
            BY <1>2, <2>3 DEF ShutdownWrite
        <3>2. /\ cryoBReg' = cryoBReg \ {"gateValve"} /\ cryoHw' = cryoBReg'
              /\ cryoWritten' = TRUE /\ cryoEnable' = cryoEnable
            BY <3>1 DEF SetGateValveState, WriteCryoBReg, With
        <3>3. OffBefore(cryoStep) \cap cryoBReg = {}
            BY DEF CryoInv, LineInv
        <3>4. OffBefore(cryoStep') \cap cryoBReg' = {}
            BY <2>3, <3>2, <3>3, OffBeforeIs
        <3>5. CryostatTypeOK'
            BY <2>2, <2>3, <3>2 DEF CryoInv, CryostatTypeOK
        <3>6. CommandsTellTruth'
            BY <2>2, <2>3, <3>2 DEF CryoInv, CryostatTypeOK, LineInv, CommandsTellTruth
        <3> QED BY <3>2, <3>4, <3>5, <3>6 DEF CryoInv, LineInv
    <2>4. CASE cryoStep = 2 /\ cryoStep' = 3
        <3>1. SetSolenoidValveState(FALSE)
            BY <1>2, <2>4 DEF ShutdownWrite
        <3>2. /\ cryoBReg' = cryoBReg \ {"solenoidValve"} /\ cryoHw' = cryoBReg'
              /\ cryoWritten' = TRUE /\ cryoEnable' = cryoEnable
            BY <3>1 DEF SetSolenoidValveState, WriteCryoBReg, With
        <3>3. OffBefore(cryoStep) \cap cryoBReg = {}
            BY DEF CryoInv, LineInv
        <3>4. OffBefore(cryoStep') \cap cryoBReg' = {}
            BY <2>4, <3>2, <3>3, OffBeforeIs
        <3>5. CryostatTypeOK'
            BY <2>2, <2>4, <3>2 DEF CryoInv, CryostatTypeOK
        <3>6. CommandsTellTruth'
            BY <2>2, <2>4, <3>2 DEF CryoInv, CryostatTypeOK, LineInv, CommandsTellTruth
        <3> QED BY <3>2, <3>4, <3>5, <3>6 DEF CryoInv, LineInv
    <2>5. CASE cryoStep = 3 /\ cryoStep' = 4
        <3>1. SetTurboPumpEnable(FALSE)
            BY <1>2, <2>5 DEF ShutdownWrite
        <3>2. /\ cryoBReg' = cryoBReg \ {"turboPump"} /\ cryoHw' = cryoBReg'
              /\ cryoWritten' = TRUE /\ cryoEnable' = cryoEnable \ {"turboPump"}
            BY <3>1 DEF SetTurboPumpEnable, WriteCryoBReg, With
        <3>3. OffBefore(cryoStep) \cap cryoBReg = {}
            BY DEF CryoInv, LineInv
        <3>4. OffBefore(cryoStep') \cap cryoBReg' = {}
            BY <2>5, <3>2, <3>3, OffBeforeIs
        <3>5. CryostatTypeOK'
            BY <2>2, <2>5, <3>2 DEF CryoInv, CryostatTypeOK
        <3>6. CommandsTellTruth'
            BY <2>2, <2>5, <3>2 DEF CryoInv, CryostatTypeOK, LineInv, CommandsTellTruth
        <3> QED BY <3>2, <3>4, <3>5, <3>6 DEF CryoInv, LineInv
    <2>6. CASE cryoStep = 4 /\ cryoStep' = 0
        <3>1. SetBackingPumpEnable(FALSE)
            BY <1>2, <2>6 DEF ShutdownWrite
        <3>2. /\ cryoBReg' = cryoBReg \ {"backingPump"} /\ cryoHw' = cryoBReg'
              /\ cryoWritten' = TRUE /\ cryoEnable' = cryoEnable \ {"backingPump"}
            BY <3>1 DEF SetBackingPumpEnable, WriteCryoBReg, With
        <3>3. OffBefore(cryoStep) \cap cryoBReg = {}
            BY DEF CryoInv, LineInv
        <3>4. OffBefore(cryoStep') \cap cryoBReg' = {}
            BY <2>6, <3>2, <3>3, OffBeforeIs
        <3>5. CryostatTypeOK'
            BY <2>2, <2>6, <3>2 DEF CryoInv, CryostatTypeOK
        <3>6. CommandsTellTruth'
            BY <2>2, <2>6, <3>2, <3>3, OffBeforeIs DEF CryoInv, CryostatTypeOK, LineInv, CommandsTellTruth
        <3> QED BY <3>2, <3>4, <3>5, <3>6 DEF CryoInv, LineInv
    <2> QED BY <2>1, <2>3, <2>4, <2>5, <2>6
<1>3. CASE cryoStep' = 0 /\ Failed("backingPump", "write")
    <2>1. cryoLast' \in [Points -> Outcomes]
          /\ \A q \in Points \ {"backingPump"} : cryoLast'[q] = cryoLast[q]
        BY <1>3, LastTyped DEF Failed, CryoInv, Outcomes
    <2> QED BY <1>3, <2>1 DEF Failed, CryoInv, CryostatTypeOK, LineInv, CommandsTellTruth,
                              OffBefore, cryoRegister
<1>4. CASE cryoStep' = 0 /\ UNCHANGED <<cryoLast, cryoEnable, cryoRegister>>
    BY <1>4 DEF CryoInv, CryostatTypeOK, LineInv, CommandsTellTruth, OffBefore, cryoRegister
<1> QED BY <1>2, <1>3, <1>4 DEF Shutdown

LEMMA RestartInv ==
    ASSUME CryoInv, CryostatRestart
    PROVE  CryoInv'
<1>1. cryoLast' = [p \in Points |-> "off"] /\ cryoLast' \in [Points -> Outcomes]
    BY DEF CryostatRestart, Outcomes
<1>2. cryoEnable' \subseteq {"vacuumController"} /\ cryoHw' \subseteq Bits
    BY DEF CryostatRestart, CryoInv, CryostatTypeOK
<1>3. cryoBReg' = {} /\ cryoWritten' = FALSE /\ cryoStep' = 0
    BY DEF CryostatRestart
<1>4. OffBefore(cryoStep') \cap cryoBReg' = {}
    BY <1>3
<1>5. CryostatTypeOK'
    <2>1. cryoStep' \in 0 .. Len(ShutdownOrder)
        BY <1>3, ShutdownOrderIs
    <2>2. cryoEnable' \subseteq Points /\ cryoBReg' \subseteq Bits
        BY <1>2, <1>3
    <2> QED BY <1>1, <1>2, <1>3, <2>1, <2>2 DEF CryostatTypeOK
<1> QED BY <1>2, <1>3, <1>4, <1>5 DEF CryoInv, LineInv, CommandsTellTruth

LEMMA CryoNextInv == CryoInv /\ ~Simulated /\ CryostatNext => CryoInv'
<1> SUFFICES ASSUME CryoInv, ~Simulated, CryostatNext PROVE CryoInv'
    OBVIOUS
<1>1. CASE CryostatMessage
    BY <1>1, CommandInv, CryoUnchanged DEF CryostatMessage, CryostatMonitor
<1> QED BY <1>1, ShutdownInv, RestartInv DEF CryostatNext

-----------------------------------------------------------------------------
(* The promise                                                             *)

\* One write of the register is a step of the line.
LEMMA WriteKeepsLine ==
    ASSUME CryoInv, ~Simulated, NEW bit \in Bits, NEW on \in BOOLEAN, WriteCryoBReg(bit, on),
           on /\ bit \in {"turboPump", "gateValve", "solenoidValve"} => ~NoPump,
           ~on /\ bit = "backingPump" => cryoStep = 4
    PROVE  [Line!Next]_Line!vars
<1> USE DEF CryoInv, CryostatTypeOK, LineInv, CommandsTellTruth, WriteCryoBReg, With, NoPump
<1> DEFINE line == cryoHw \ {"vacuumControllerOff"}
<1>1. CASE ~cryoWritten
    <2>1. line' \in {{}, {"backingPump"}}
        BY <1>1
    <2> QED BY <1>1, <2>1 DEF Line!Next, Line!FirstCommand
<1>2. CASE cryoWritten /\ bit = "vacuumControllerOff"
    BY <1>2 DEF Line!vars
<1>3. CASE cryoWritten /\ bit = "backingPump"
    <2>1. CASE on
        <3>1. line' = line \cup {"backingPump"}
            BY <1>3, <2>1
        <3> QED BY <1>3, <3>1 DEF Line!Next, Line!Start
    <2>2. CASE ~on
        <3>1. cryoBReg \cap {"gateValve", "solenoidValve", "turboPump"} = {} /\ cryoBReg = cryoHw
            BY <1>3, <2>2, OffBeforeIs
        <3>2. line \subseteq {"backingPump"} /\ line' = {}
            BY <1>3, <2>2, <3>1
        <3> QED BY <1>3, <3>2 DEF Line!Next, Line!Stop
    <2> QED BY <2>1, <2>2
<1>4. CASE cryoWritten /\ bit \in {"turboPump", "gateValve", "solenoidValve"}
    <2>1. CASE on
        <3>1. line' = line \cup {bit} /\ "backingPump" \in line
            BY <1>4, <2>1
        <3> QED BY <1>4, <3>1 DEF Line!Next, Line!Admit
    <2>2. CASE ~on
        <3>1. line' = line \ {bit}
            BY <1>4, <2>2
        <3> QED BY <1>4, <3>1 DEF Line!Next, Line!Isolate
    <2> QED BY <2>1, <2>2
<1> QED BY <1>1, <1>2, <1>3, <1>4

LEMMA LineUnchanged == UNCHANGED cryoRegister => [Line!Next]_Line!vars
BY DEF Line!vars, cryoRegister

LEMMA CryoNextLine ==
    ASSUME CryoInv, ~Simulated, CryostatNext
    PROVE  [Line!Next]_Line!vars
<1> USE DEF Refused, Failed
<1>1. ASSUME CryostatCommand, cryoStep = 0 PROVE [Line!Next]_Line!vars
    <2>1. CASE BackingPumpOn
        BY <2>1, WriteKeepsLine, LineUnchanged DEF BackingPumpOn, SetBackingPumpEnable
    <2>2. CASE BackingPumpOff
        BY <2>2, LineUnchanged DEF BackingPumpOff
    <2>3. ASSUME NEW on \in BOOLEAN, TurboPumpEnable(on) PROVE [Line!Next]_Line!vars
        BY <2>3, WriteKeepsLine, LineUnchanged
           DEF TurboPumpEnable, SetTurboPumpEnable, TurboPumpTooColdOrHot
    <2>4. ASSUME NEW on \in BOOLEAN, GateValveState(on) PROVE [Line!Next]_Line!vars
        BY <2>4, WriteKeepsLine, LineUnchanged DEF GateValveState, SetGateValveState
    <2>5. ASSUME NEW on \in BOOLEAN, SolenoidValveState(on) PROVE [Line!Next]_Line!vars
        BY <2>5, WriteKeepsLine, LineUnchanged DEF SolenoidValveState, SetSolenoidValveState
    <2>6. ASSUME NEW on \in BOOLEAN, VacuumControllerEnable(on) PROVE [Line!Next]_Line!vars
        BY <2>6, WriteKeepsLine, LineUnchanged DEF VacuumControllerEnable, SetVacuumControllerEnable
    <2> QED BY <1>1, <2>1, <2>2, <2>3, <2>4, <2>5, <2>6 DEF CryostatCommand
<1>2. CASE CryostatMonitor
    BY <1>2, LineUnchanged DEF CryostatMonitor, cryoVars
<1>3. CASE Shutdown
    <2>1. CASE ShutdownWrite
        <3>1. cryoStep \in 1 .. 4
            BY <1>3, ShutdownOrderIs DEF Shutdown, CryoInv, CryostatTypeOK
        <3>2. CASE cryoStep = 1
            BY <2>1, <3>2, ShutdownOrderIs, WriteKeepsLine DEF ShutdownWrite, SetGateValveState
        <3>3. CASE cryoStep = 2
            BY <2>1, <3>3, ShutdownOrderIs, WriteKeepsLine DEF ShutdownWrite, SetSolenoidValveState
        <3>4. CASE cryoStep = 3
            BY <2>1, <3>4, ShutdownOrderIs, WriteKeepsLine DEF ShutdownWrite, SetTurboPumpEnable
        <3>5. CASE cryoStep = 4
            BY <2>1, <3>5, ShutdownOrderIs, WriteKeepsLine DEF ShutdownWrite, SetBackingPumpEnable
        <3> QED BY <3>1, <3>2, <3>3, <3>4, <3>5
    <2>2. CASE UNCHANGED cryoRegister
        BY <2>2, LineUnchanged
    <2> QED BY <1>3, <2>1, <2>2 DEF Shutdown
<1>4. CASE CryostatRestart
    <2>1. (cryoHw \ {"vacuumControllerOff"})' \in {cryoHw \ {"vacuumControllerOff"}, {}}
          /\ cryoWritten' = FALSE
        BY <1>4 DEF CryostatRestart
    <2> QED BY <2>1 DEF Line!Next, Line!Restart
<1> QED BY <1>1, <1>2, <1>3, <1>4 DEF CryostatNext, CryostatMessage

LEMMA CryoInitLine == CryostatInit => Line!Init
BY DEF CryostatInit, Line!Init
=============================================================================
