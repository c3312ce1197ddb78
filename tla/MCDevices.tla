----------------------------- MODULE MCDevices -----------------------------
(***************************************************************************)
(* The devices for TLC. Four cartridges have the electronics there are     *)
(* between them: the pair of amplifiers of band 2, the mixers of band 4    *)
(* without magnets, those of band 6 with them, and the heater of band 9    *)
(* that needs its rest. Each has two bits or converters that commands      *)
(* change, so that what one command does to the other's is seen. The       *)
(* one wire bus is empty, has as many devices as there is room for, or     *)
(* more.                                                                   *)
(***************************************************************************)
EXTENDS Devices, TLC

MCCommanded == [b \in Bands |->
    CASE b = 2 -> {<<"lna", 0>>}
      [] b = 4 -> {<<"sis", 0>>, <<"loop", 1>>}
      [] b = 6 -> {<<"sis", 0>>, <<"magnet", 1>>}
      [] b = 9 -> {<<"heater", 0>>, <<"led", 0>>}]

Rom(b0, b1) == 0 :> b0 @@ 1 :> b1
MCBuses == {{}, {Rom(0, 1), Rom(1, 0), Rom(1, 1)},
            {Rom(0, 0), Rom(0, 1), Rom(1, 0), Rom(1, 1)}}
=============================================================================
