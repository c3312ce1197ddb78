-------------------------- MODULE MCCartridgePower --------------------------
(***************************************************************************)
(* What comments of the source say of the cartridges' power, as properties *)
(* of CartridgePower that its behaviours break. Each one quotes its source *)
(* and names what TLC needs to refute it. OffMeansUnpowered has a Claim    *)
(* run; the others are checked by taking its place in the configuration,   *)
(* with the constants named here.                                          *)
(***************************************************************************)
EXTENDS CartridgePower

\* cartridge.c:617 "If there was an error in the initialization, attempt to
\* turn off the cartridge", :643 "If it worked. Mark the catridge as off.":
\* a cartridge marked OFF is not fed.
OffMeansUnpowered == \A c \in Cartridges : state[c] = "OFF" => c \notin hwPower

\* pdModule.c:463 "the only allowed action should be to try again to turn off
\* the cartridge": nothing else takes a cartridge out of the error state.
\* Broken with Faults = {"disable"}.
ErrorOnlyLeftByPowerOff ==
    [][\A c \in Cartridges : state[c] = "ERROR" => state'[c] \in {"ERROR", "OFF"}]_vars

\* cartridge.c:727 "Setup timer to wait before initializing the cartridge": a
\* cartridge is initialised only after its own wait since it was fed.
\* Broken without any fault.
ReadyMeansWaited == \A c \in Cartridges : state[c] = "READY" => c \in waited

\* cartridge.c:79 "if the cartridge doesn't go through the initialization
\* sequence, the CPLDs in the cartridge will think that they should operate at
\* 5MHz": a cartridge that may be accessed is at 10 MHz.
\* Broken without any fault.
AccessMeansInitialised == \A c \in Cartridges : Accessible(c) => c \in at10MHz

\* cartridge.h:177 "cold bias electronics may not be powered on" in STANDBY2.
\* Broken with Operations = {"bias"} and Standby2Bands = {1}.
Standby2KeepsColdOff ==
    \A c \in Cartridges : state[c] = "READY" /\ c \in standby2 => c \notin coldOn

\* pdModule.c:418 "illegal state transtition.  Should never happen."
\* Broken with Standby2Bands = {1}.
NoIllegalTransition == ~debugMe

\* cartridge.c:79 "This check should always be performed because if the
\* cartridge doesn't go through the initialization sequence, the CPLDs in the
\* cartridge will think that they should operate at 5MHz": no cartridge, of
\* whatever band, is READY without it.
\* Broken with Standby2Bands = {0}, Commands = {0, 1, 2}: STANDBY2 commanded
\* first takes the place of the initialisation (pdModule.c:410).
EveryReadyInitialised == \A c \in Cartridges : state[c] = "READY" => c \in at10MHz

\* frontend.h:107, SIMULATION_MODE: "All requests will be processed but no
\* access to front end hardware."
\* Broken with Modes = {"SIMULATION"}.
SimulationLeavesHardware ==
    [][mode = "SIMULATION" /\ mode' = "SIMULATION" => UNCHANGED <<hwPower, at10MHz, coldOn>>]_vars

\* pdModule.c:71 "Allow up to four to be powered on, so long as one of them is
\* in STANDBY2 mode", the limit outside TROUBLESHOOTING_MODE: no cartridge is
\* switched on beyond it.
\* Broken with three cartridges, one for STANDBY2, and Modes =
\* {"OPERATIONAL", "TROUBLESHOOTING"}.
AtMostFourPowered ==
    [][mode # "TROUBLESHOOTING" /\ ~(NotOff' \subseteq NotOff) =>
         Cardinality(NotOff') <= MAX_POWERED_BANDS_OPERATIONAL
                                     + MAX_STANDBY2_BANDS_OPERATIONAL]_vars
=============================================================================
