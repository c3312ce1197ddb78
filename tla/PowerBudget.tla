---------------------------- MODULE PowerBudget ----------------------------
(***************************************************************************)
(* What the power distribution promises, without counters, registers or an *)
(* initialisation: which cartridges draw full power and which are in       *)
(* STANDBY2, and how many of each may be.                                  *)
(*                                                                         *)
(* pdModule.c, allowPowerOn: "Allow up to four to be powered on, so long   *)
(* as one of them is in STANDBY2 mode."                                    *)
(***************************************************************************)
EXTENDS Integers, FiniteSets

CONSTANTS Bands, Standby2Able, MaxOn, MaxOnTroubleshooting, MaxStandby2

VARIABLES
    on,                 \* cartridges at full power
    standby,            \* cartridges in STANDBY2
    troubleshooting     \* is the front end in TROUBLESHOOTING_MODE?

vars == <<on, standby, troubleshooting>>

Limit == IF troubleshooting THEN MaxOnTroubleshooting ELSE MaxOn

Init == on = {} /\ standby = {} /\ troubleshooting = FALSE

TurnOn(b) ==
    /\ b \notin on
    /\ Cardinality(on) < Limit
    /\ on' = on \cup {b}
    /\ standby' = standby \ {b}
    /\ UNCHANGED troubleshooting

Standby(b) ==
    /\ b \in Standby2Able \ standby
    /\ Cardinality(standby) < MaxStandby2
    /\ standby' = standby \cup {b}
    /\ on' = on \ {b}
    /\ UNCHANGED troubleshooting

TurnOff(b) ==
    /\ b \in on \cup standby
    /\ on' = on \ {b}
    /\ standby' = standby \ {b}
    /\ UNCHANGED troubleshooting

\* A command to change mode, or the default mode after a restart.
SetMode ==
    /\ troubleshooting' \in BOOLEAN
    /\ UNCHANGED <<on, standby>>

Restart == on' = {} /\ standby' = {} /\ troubleshooting' = FALSE

Next ==
    \/ \E b \in Bands : TurnOn(b) \/ Standby(b) \/ TurnOff(b)
    \/ SetMode
    \/ Restart

Spec == Init /\ [][Next]_vars
=============================================================================
