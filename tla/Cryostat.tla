------------------------------ MODULE Cryostat ------------------------------
(***************************************************************************)
(* The vacuum line of the cryostat: backing pump, turbo pump, gate valve,  *)
(* solenoid valve and vacuum controller, commanded through five bits of    *)
(* one register that can only be written as a whole.                       *)
(*                                                                         *)
(* A command is one action, except the one that switches the backing pump  *)
(* off: it writes the register four times and the hardware sees each of    *)
(* the values, so each write is an action, and the computer may stop       *)
(* between two of them.                                                    *)
(***************************************************************************)
EXTENDS Handlers

\* The bits of CRYO_BREG. The logic of the vacuum controller's is inverted: it
\* stands for a controller that is switched off.
Bits == {"backingPump", "turboPump", "gateValve", "solenoidValve", "vacuumControllerOff"}
Points == {"backingPump", "turboPump", "gateValve", "solenoidValve", "vacuumController"}
GateStates == {"CLOSE", "OPEN", "UNKNOWN", "ERROR", "OVER_CURR"}
SolenoidStates == {"CLOSE", "OPEN", "UNKNOWN", "ERROR"}
\* What became of a command: carried out, or why it was not.
Outcomes == {"on", "off", "ERROR", "HARDW_BLKD_ERR"}

\* The order in which the backing pump's command switches off.
ShutdownOrder == <<"gateValve", "solenoidValve", "turboPump", "backingPump">>

VARIABLES
    cryoEnable,     \* the points whose enable field in frontend.cryostat is set
    cryoLast,       \* lastEnable or lastState of each point
    cryoBReg,       \* cryoRegisters.bReg
    cryoStep,       \* the next of ShutdownOrder to be written, 0 when none is
    cryoHw,         \* the register in the cryostat module
    cryoWritten     \* it has been written since the computer started

cryoRegister == <<cryoBReg, cryoHw, cryoWritten>>
cryoVars == <<cryoEnable, cryoLast, cryoRegister, cryoStep>>
cryostatVars == <<cryoVars, shared>>

-----------------------------------------------------------------------------
(* cryostatSerialInterface.c: the register *)

\* A bit is changed in the shadow register and the whole of it is written; if
\* that fails the shadow takes its old value back. Nothing is written in
\* SIMULATION mode.
WriteCryoBReg(bit, on) ==
    IF Simulated
    THEN UNCHANGED cryoRegister
    ELSE /\ cryoBReg' = With(cryoBReg, bit, on)
         /\ cryoHw' = With(cryoBReg, bit, on)
         /\ cryoWritten' = TRUE

SetBackingPumpEnable(on) ==
    WriteCryoBReg("backingPump", on) /\ cryoEnable' = With(cryoEnable, "backingPump", on)

SetTurboPumpEnable(on) ==
    WriteCryoBReg("turboPump", on) /\ cryoEnable' = With(cryoEnable, "turboPump", on)

\* Mutated form: the logic of the bit is not inverted.
SetVacuumControllerEnableMutant(on) ==
    /\ WriteCryoBReg("vacuumControllerOff", on)
    /\ cryoEnable' = With(cryoEnable, "vacuumController", on)

SetVacuumControllerEnable(on) ==
    /\ WriteCryoBReg("vacuumControllerOff", ~on)
    /\ cryoEnable' = With(cryoEnable, "vacuumController", on)

\* The valves have no enable field: their state is what the sensors say.
SetGateValveState(open) == WriteCryoBReg("gateValve", open) /\ UNCHANGED cryoEnable
SetSolenoidValveState(open) == WriteCryoBReg("solenoidValve", open) /\ UNCHANGED cryoEnable

\* The status register. The sensors may say anything: the valves move slowly
\* and lose their power with the backing pump. What is read is only kept to be
\* answered, but for the state of the two valves.
GetGateValveState(sensors) ==
    IF Simulated \/ (sensors = "OVER_CURR" /\ "backingPump" \notin cryoEnable) THEN "UNKNOWN"
    ELSE sensors

GetSolenoidValveState(sensors) == IF Simulated THEN "UNKNOWN" ELSE sensors

GetTurboPumpStates(ok) == ok \/ Fails("read")
GetVacuumControllerState(ok) == ok \/ Fails("read")

-----------------------------------------------------------------------------
(* The commands *)

\* SAVE_LAST_CONTROL_MESSAGE, and the status stored at the end.
Last(p, outcome) == cryoLast' = [cryoLast EXCEPT ![p] = outcome]

Accepted(p, on) == Last(p, IF on THEN "on" ELSE "off") /\ Done

Refused(p) ==
    /\ Last(p, "HARDW_BLKD_ERR")
    /\ Blocked
    /\ UNCHANGED <<cryoEnable, cryoRegister>>

Failed(p, fault) ==
    /\ Fails(fault)
    /\ Last(p, "ERROR")
    /\ Error
    /\ UNCHANGED <<cryoEnable, cryoRegister>>

NoPump == "backingPump" \notin cryoEnable
CryoOthers == UNCHANGED <<cryoStep, mode, running, edom, simulated>>

\* backingPump.c. Switching it off closes the valves and stops the turbo pump
\* first; only the failure of the last write reaches the status.
BackingPumpOn ==
    /\ \/ SetBackingPumpEnable(TRUE) /\ Accepted("backingPump", TRUE)
       \/ Failed("backingPump", "write")
    /\ CryoOthers

\* Mutated form: the pump is switched off without the devices behind it.
BackingPumpOffMutant ==
    /\ Accepted("backingPump", FALSE)
    /\ cryoStep' = Len(ShutdownOrder)
    /\ UNCHANGED <<cryoEnable, cryoRegister, mode, running, edom, simulated>>

BackingPumpOff ==
    /\ Accepted("backingPump", FALSE)
    /\ cryoStep' = 1
    /\ UNCHANGED <<cryoEnable, cryoRegister, mode, running, edom, simulated>>

ShutdownWrite ==
    LET p == ShutdownOrder[cryoStep] IN
    \/ p = "gateValve" /\ SetGateValveState(FALSE)
    \/ p = "solenoidValve" /\ SetSolenoidValveState(FALSE)
    \/ p = "turboPump" /\ SetTurboPumpEnable(FALSE)
    \/ p = "backingPump" /\ SetBackingPumpEnable(FALSE)

Shutdown ==
    /\ cryoStep # 0
    /\ \/ /\ ShutdownWrite
          /\ cryoStep' = (cryoStep + 1) % (Len(ShutdownOrder) + 1)
          /\ UNCHANGED <<cryoLast, answer>>
       \/ /\ cryoStep' = 0
          /\ IF cryoStep = Len(ShutdownOrder) THEN Failed("backingPump", "write")
             ELSE /\ Fails("write")
                  /\ Untold("backingPump", FALSE)
                  /\ UNCHANGED <<cryoLast, cryoEnable, cryoRegister>>
    /\ UNCHANGED <<mode, running, edom, simulated>>

\* turboPump.c. A pump whose temperature is out of range is not started, and
\* is marked disabled without a word to the hardware.
TurboPumpTooColdOrHot ==
    /\ Last("turboPump", "HARDW_BLKD_ERR")
    /\ Blocked
    /\ cryoEnable' = cryoEnable \ {"turboPump"}
    /\ UNCHANGED cryoRegister

TurboPumpEnable(on) ==
    /\ IF NoPump THEN Refused("turboPump")
       ELSE \/ on /\ TurboPumpTooColdOrHot
            \/ SetTurboPumpEnable(on) /\ Accepted("turboPump", on)
            \/ Failed("turboPump", "write")
    /\ CryoOthers

\* gateValve.c. The valve must not be moving.
GateValveState(open) ==
    /\ IF NoPump THEN Refused("gateValve")
       ELSE \/ Failed("gateValve", "read")
            \/ \E sensors \in GateStates :
                  IF GetGateValveState(sensors) = "UNKNOWN" THEN Refused("gateValve")
                  ELSE \/ SetGateValveState(open) /\ Accepted("gateValve", open)
                       \/ Failed("gateValve", "write")
    /\ CryoOthers

\* solenoidValve.c
SolenoidValveState(open) ==
    /\ IF NoPump THEN Refused("solenoidValve")
       ELSE \/ SetSolenoidValveState(open) /\ Accepted("solenoidValve", open)
            \/ Failed("solenoidValve", "write")
    /\ CryoOthers

\* vacuumController.c
VacuumControllerEnable(on) ==
    /\ \/ SetVacuumControllerEnable(on) /\ Accepted("vacuumController", on)
       \/ Failed("vacuumController", "write")
    /\ CryoOthers

-----------------------------------------------------------------------------
(* Monitor requests, and the rest *)

MonitorGateValve == Done \/ (Fails("read") /\ Error)

\* A valve that is not where the register puts it is answered as blocked; with
\* a read that fails the state read before is answered, which may be any.
MonitorSolenoidValve ==
    \E is \in SolenoidStates, ok \in BOOLEAN :
        /\ ok \/ Fails("read")
        /\ IF GetSolenoidValveState(is) = (IF "solenoidValve" \in cryoBReg THEN "OPEN" ELSE "CLOSE")
           THEN Told(ok)
           ELSE Answer("HARDW_BLKD_ERR", ~ok)

MonitorTurboPump ==
    \E ok \in BOOLEAN :
        /\ GetTurboPumpStates(ok)
        /\ IF NoPump THEN Answer("HARDW_BLKD_ERR", ~ok) ELSE Told(ok)

MonitorVacuumController == \E ok \in BOOLEAN : GetVacuumControllerState(ok) /\ Told(ok)

\* The computer starts with the cryostat just powered.
CryostatInit ==
    /\ cryoEnable = {"vacuumController"}
    /\ cryoLast = [p \in Points |-> "off"]
    /\ cryoBReg = {} /\ cryoHw = {} /\ cryoWritten = TRUE
    /\ cryoStep = 0

\* cryostatStartup does not write the register: it is taken to hold zero, which
\* is true only if the cryostat module lost its power too. A revision that
\* cannot be read, or a sensor table that is not found, ends the start before
\* the vacuum controller is marked enabled.
CryostatRestart ==
    /\ HandlersRestart
    /\ \/ cryoEnable' = {"vacuumController"}
       \/ "startup" \in Faults /\ cryoEnable' = {}
    /\ cryoLast' = [p \in Points |-> "off"]
    /\ cryoBReg' = {} /\ cryoWritten' = FALSE
    /\ cryoHw' \in {cryoHw, {}}
    /\ cryoStep' = 0

CryostatCommand ==
    \/ BackingPumpOn
    \/ BackingPumpOff
    \/ \E on \in BOOLEAN : \/ TurboPumpEnable(on)
                           \/ GateValveState(on)
                           \/ SolenoidValveState(on)
                           \/ VacuumControllerEnable(on)

CryostatMonitor ==
    /\ \/ MonitorGateValve \/ MonitorSolenoidValve
       \/ MonitorTurboPump \/ MonitorVacuumController
    /\ UNCHANGED <<cryoVars, mode, running, edom, simulated>>

CryostatMessage == cryoStep = 0 /\ (CryostatCommand \/ CryostatMonitor)

CryostatNext == CryostatMessage \/ Shutdown \/ CryostatRestart

-----------------------------------------------------------------------------

\* Every variable stays in its range.
CryostatTypeOK ==
    /\ cryoEnable \subseteq Points
    /\ cryoLast \in [Points -> Outcomes]
    /\ cryoBReg \subseteq Bits /\ cryoHw \subseteq Bits
    /\ cryoStep \in 0 .. Len(ShutdownOrder)
    /\ cryoWritten \in BOOLEAN

\* Whatever fails and whenever the computer restarts, a device the software
\* calls enabled is on, and one that was switched off or closed by a command
\* answered NO_ERROR is off: the monitor points, which return what is stored in
\* memory (backingPump.c:98, vacuumController.c:98), tell the truth once the
\* register was written. The backing pump's own command is the exception: it
\* answers NO_ERROR when a valve does not answer (backingPump.c:67). Of the
\* turbo pump what is remembered is exact as long as its last command was
\* carried out.
CommandsTellTruth ==
    cryoWritten =>
        /\ cryoBReg = cryoHw
        /\ "backingPump" \in cryoEnable <=> "backingPump" \in cryoHw
        /\ "turboPump" \in cryoEnable => "turboPump" \in cryoHw
        /\ "vacuumController" \in cryoEnable => "vacuumControllerOff" \notin cryoHw
        /\ \A p \in {"turboPump", "gateValve", "solenoidValve"} :
              cryoLast[p] = "off" => p \notin cryoHw
        /\ cryoLast["turboPump"] \in {"on", "off"} =>
              ("turboPump" \in cryoEnable <=> "turboPump" \in cryoHw)

\* A turbo pump that runs is called enabled. The code breaks it: a command to
\* start a pump that runs and is too cold or too hot is refused, and marks it
\* disabled (turboPump.c:117).
TurboPumpIsTold ==
    cryoWritten => ("turboPump" \in cryoHw => "turboPump" \in cryoEnable)

\* Every value the register takes, between the commands, between the writes of
\* one command and after a restart in the middle of it, keeps the promise of
\* VacuumLine. It needs that no command was carried out in SIMULATION mode,
\* which changes what the software remembers and not the register.
Line == INSTANCE VacuumLine WITH
    Fed <- {"turboPump", "gateValve", "solenoidValve"},
    Backing <- "backingPump",
    line <- cryoHw \ {"vacuumControllerOff"},
    restarted <- ~cryoWritten

KeepsLine == Line!Spec

\* Neither the turbo pump runs nor a valve is open while the backing pump is
\* off (backingPump.c:64, turboPump.c:70): not between two writes of the pump's
\* command, not when one of them fails and ends it (backingPump.c:67), and not
\* after a restart, when the software takes the register to hold zero.
NothingWithoutPump ==
    \A p \in {"turboPump", "gateValve", "solenoidValve"} :
        p \in cryoHw => "backingPump" \in cryoHw
=============================================================================
