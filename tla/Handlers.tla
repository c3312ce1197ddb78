------------------------------ MODULE Handlers ------------------------------
(***************************************************************************)
(* What the handlers of all devices share. A CAN message is handled from   *)
(* beginning to end, waiting loops included, before anything else runs, so *)
(* a handler is one action. A control message is carried out, refused or   *)
(* fails, and its status is kept to be answered by the monitor request to  *)
(* the same address; a monitor request answers a value and a status. Here  *)
(* `answer' is the status of the last message, for both.                   *)
(*                                                                         *)
(* A control message to a monitor point changes nothing but the error      *)
(* history, and is left out, as are the values measured.                   *)
(***************************************************************************)
EXTENDS Naturals, Sequences, FiniteSets

CONSTANTS Modes,    \* the modes the front end is commanded to
          Faults    \* what may fail: subset of AllFaults

AllModes == {"OPERATIONAL", "TROUBLESHOOTING", "MAINTENANCE", "SIMULATION"}
\* A register or strobe that is not written; a register that is not read; a
\* device that never gets ready; a file or a revision that cannot be read at
\* the start; a measurement outside the domain of its conversion.
AllFaults == {"write", "read", "wait", "startup", "domain"}

ASSUME HandlersAssumption == Modes \subseteq AllModes /\ Faults \subseteq AllFaults

\* A point named by itself is one whose handler does not look at some result.
Unchecked == {"lnaPair", "cartridgeTemp", "photomixerCurrent", "backingPump"}
Timers == {"BIAS_ADC", "BIAS_DAC1", "LO_ADC", "PD_ADC", "IF_ADC", "LPR_ADC", "LPR_SWITCH", "OWB_RESET"}
Statuses == {"NO_ERROR", "ERROR", "HARDW_RNG_ERR", "HARDW_BLKD_ERR", "HARDW_CON_ERR",
             "CON_ERROR_RNG", "MON_CAN_RNG", "MON_ERROR_ACT"}
Answers == [point : Unchecked \cup {"any"}, status : Statuses, failed : BOOLEAN]

VARIABLES
    mode,       \* frontend.mode
    running,    \* the timers of the conversions that are running
    edom,       \* errno holds EDOM: nothing ever clears it
    simulated,  \* history: the mode has been SIMULATION since the start
    answer      \* the last message: its status, and whether a step of it failed

shared == <<mode, running, edom, simulated, answer>>

Simulated == mode = "SIMULATION"
Fails(fault) == fault \in Faults /\ ~Simulated

-----------------------------------------------------------------------------
(* The answers *)

Answer(status, failed) == answer' = [point |-> "any", status |-> status, failed |-> failed]

Done == Answer("NO_ERROR", FALSE)
Error == Answer("ERROR", TRUE)
Blocked == Answer("HARDW_BLKD_ERR", FALSE)
Told(ok) == IF ok THEN Done ELSE Error

\* The result is not looked at.
Untold(point, ok) == answer' = [point |-> point, status |-> "NO_ERROR", failed |-> ~ok]

\* A module of the address that does not exist, is not installed or reserved.
RangeError == Answer("HARDW_RNG_ERR", FALSE)

\* A monitor request to a point that can only be commanded.
NoMonitor == Answer("MON_CAN_RNG", FALSE)

-----------------------------------------------------------------------------
(* timer.c *)

\* A timer that runs is not started again.
Startable(t) == t \notin running
Started(t) == running \cup {t}
Stopped(t, timers) == timers \ {t}

\* Mutated form: a wait that fails leaves the timer running.
WaitsMutant(t, ok) ==
    IF ok THEN Startable(t) /\ running' = Stopped(t, Started(t))
    ELSE IF Startable(t)
    THEN {"read", "wait"} \cap Faults # {} /\ running' = Started(t)
    ELSE UNCHANGED running

\* A wait for a device, limited by timer t, which is stopped when the device is
\* ready, when its status cannot be read, and by the question whether it has
\* expired when it has.
Waits(t, ok) ==
    IF ok THEN Startable(t) /\ running' = Stopped(t, Started(t))
    ELSE IF Startable(t)
    THEN {"read", "wait"} \cap Faults # {} /\ running' = Stopped(t, Started(t))
    ELSE UNCHANGED running

\* A conversion: two writes select the channel and start it; it is waited for,
\* and its result is read.
Converts(t, ok) ==
    \/ ~ok /\ "write" \in Faults /\ UNCHANGED running
    \/ Waits(t, ok)
    \/ ~ok /\ "read" \in Faults /\ Waits(t, TRUE)

\* What is not measured in SIMULATION mode is made up.
Measures(t, ok) == IF Simulated THEN ok /\ UNCHANGED running ELSE Converts(t, ok)

-----------------------------------------------------------------------------
(* Registers *)

With(reg, bit, on) == IF on THEN reg \cup {bit} ELSE reg \ {bit}

SetFeMode(m) ==
    /\ mode' = m
    /\ simulated' = (simulated \/ m = "SIMULATION")
    /\ Done
    /\ UNCHANGED <<running, edom>>

HandlersInit ==
    /\ mode = "OPERATIONAL"
    /\ running = {}
    /\ edom = FALSE
    /\ simulated = FALSE
    /\ answer = [point |-> "any", status |-> "NO_ERROR", failed |-> FALSE]

\* The computer restarts.
HandlersRestart ==
    /\ mode' = "OPERATIONAL"
    /\ running' = {}
    /\ edom' = FALSE
    /\ simulated' = FALSE
    /\ Done

-----------------------------------------------------------------------------

HandlersTypeOK ==
    /\ mode \in AllModes
    /\ running \subseteq Timers
    /\ edom \in BOOLEAN
    /\ simulated \in BOOLEAN
    /\ answer \in Answers

\* No timer is left running when a message has been handled, however its
\* handling ended: a timer left running is not started again (timer.c:59), so
\* every later request for any value of that device would fail.
TimersReleased == running = {}

\* A message of which a step failed is not answered with NO_ERROR, but for the
\* points that do not look at the result of that step.
NothingFailsSilently ==
    answer.failed /\ answer.status = "NO_ERROR" => answer.point \in Unchecked
=============================================================================
