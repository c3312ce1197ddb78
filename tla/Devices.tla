------------------------------- MODULE Devices -------------------------------
(***************************************************************************)
(* The devices behind the serial line: the vacuum line, the cold and the   *)
(* warm cartridge electronics, the photonic receiver, the IF switch, the   *)
(* FETIM, and the one wire bus of the same board. Messages are handled one *)
(* at a time (can.c) and the devices share the mode, the timers and errno, *)
(* and nothing else. A behaviour is one of the messages to one of them,    *)
(* and of the changes of mode: what two devices do to each other is what   *)
(* they do to the shared variables, which each of them finds in any state  *)
(* the others could leave them in.                                         *)
(***************************************************************************)
EXTENDS Cryostat, Bias, LoRegisters, Lpr, IfSwitch, Fetim, OneWireBus

CONSTANT Units  \* the devices that are looked at: subset of AllUnits

AllUnits == {"cryostat", "bias", "lo", "lpr", "if", "fetim", "owb"}

ASSUME DevicesAssumption == Units \subseteq AllUnits

VARIABLE unit   \* the device the messages go to

deviceVars == <<cryoVars, biasVars, loVars, lprVars, ifVars, fetimVars, owbVars>>
vars == <<shared, deviceVars, unit>>

\* The vacuum line is not commanded in SIMULATION mode, which the promise of
\* VacuumLine excludes, and the one wire bus does not look at it. A local
\* oscillator, the receiver and the IF switch, of which nothing but the answers
\* is looked at from then on, enter it before they were commanded and do not
\* leave it, which bounds the states.
SimulationBound(m) ==
    CASE unit \in {"cryostat", "owb"} -> m # "SIMULATION"
      [] unit = "lo" -> ~Simulated /\ (m = "SIMULATION" => loWritten = {})
      [] unit = "lpr" -> ~Simulated /\ (m = "SIMULATION" => port = PORT_SHUTTERED)
      [] unit = "if" -> ~Simulated /\ (m = "SIMULATION" => ifWritten = {})
      [] OTHER -> TRUE

\* The start succeeded, and no message is being handled.
Listening ==
    /\ cryoStep = 0 /\ fetimUp # "exited"
    /\ unit = "lpr" => lprPhase = "up"
    /\ unit = "if" => ifUp
    /\ unit = "owb" => search = "idle"

\* can.c: SET_FE_MODE
ModeCommand ==
    /\ Listening
    /\ \E m \in Modes : SimulationBound(m) /\ SetFeMode(m)
    /\ UNCHANGED <<deviceVars, unit>>

\* A temperature of the IF switch, in whatever state that is, which could not be
\* converted: what it leaves behind reaches the receiver.
SomeConversionFailed ==
    /\ unit = "lpr" /\ Listening
    /\ IfChannelTempUnusable
    /\ edom' = TRUE
    /\ Answer("HARDW_CON_ERR", TRUE)
    /\ UNCHANGED <<mode, running, simulated, deviceVars, unit>>

ToCryostat ==
    unit = "cryostat" /\ CryostatNext
    /\ UNCHANGED <<biasVars, loVars, lprVars, ifVars, fetimVars, owbVars, unit>>
ToBias ==
    unit = "bias" /\ BiasNext
    /\ UNCHANGED <<cryoVars, loVars, lprVars, ifVars, fetimVars, owbVars, unit>>
ToLo ==
    unit = "lo" /\ LoNext
    /\ UNCHANGED <<cryoVars, biasVars, lprVars, ifVars, fetimVars, owbVars, unit>>
ToLpr ==
    unit = "lpr" /\ LprNext
    /\ UNCHANGED <<cryoVars, biasVars, loVars, ifVars, fetimVars, owbVars, unit>>
ToIf ==
    unit = "if" /\ IfNext
    /\ UNCHANGED <<cryoVars, biasVars, loVars, lprVars, fetimVars, owbVars, unit>>
ToFetim ==
    unit = "fetim" /\ FetimNext
    /\ UNCHANGED <<cryoVars, biasVars, loVars, lprVars, ifVars, owbVars, unit>>
ToOwb ==
    unit = "owb" /\ OwbNext
    /\ UNCHANGED <<cryoVars, biasVars, loVars, lprVars, ifVars, fetimVars, unit>>

Init ==
    /\ unit \in Units
    /\ HandlersInit /\ CryostatInit /\ BiasInit /\ LoInit /\ LprInit /\ IfInit
    /\ FetimInit /\ OwbInit
    /\ unit = "bias" \/ band = CHOOSE b \in Bands : TRUE
    /\ unit = "owb" \/ onBus = CHOOSE b \in Buses : TRUE

Next == ModeCommand \/ SomeConversionFailed \/ ToCryostat \/ ToBias \/ ToLo \/ ToLpr \/ ToIf
        \/ ToFetim \/ ToOwb

Spec == Init /\ [][Next]_vars

-----------------------------------------------------------------------------
\* Every variable stays in its range.
TypeOK ==
    /\ HandlersTypeOK
    /\ CryostatTypeOK /\ BiasTypeOK /\ LoTypeOK /\ LprTypeOK /\ IfTypeOK /\ FetimTypeOK
    /\ OwbTypeOK
    /\ unit \in Units
=============================================================================
