----------------------------- MODULE OneWireBus -----------------------------
(***************************************************************************)
(* The one wire bus, on which every part of the front end has a serial     *)
(* number (owb.c). A search goes over the bus once for every device: the   *)
(* devices answer bit by bit, and where those that are still in the search *)
(* differ the bit that was sent decides which of them stay. RecoverROM     *)
(* derives from an answer what is sent next, and remembers in TREE at      *)
(* which of the doubts the other way was already taken.                    *)
(*                                                                         *)
(* A search is made at the start, for a CAN message and for the console,   *)
(* and nothing else runs until it has ended; one action is one passage     *)
(* over the bus. The list is read number by number. The bit rate, the      *)
(* section of the bus outside the module, and the packing of the bits into *)
(* bytes are left out.                                                     *)
(***************************************************************************)
EXTENDS Handlers

CONSTANTS
    ROM_BITS,            \* 64 in the code
    MAX_DEVICES_NUMBER,  \* 35 in the code
    Buses,               \* the sets of devices that are looked at
    ReadBound            \* bound: how far a reader gets who misses the end of the list

Positions == 0 .. (ROM_BITS - 1)
Roms == [Positions -> {0, 1}]
Zeros == [p \in Positions |-> 0]
Slots == 0 .. (MAX_DEVICES_NUMBER - 1)

ASSUME OneWireAssumption ==
    /\ ROM_BITS \in Nat \ {0} /\ MAX_DEVICES_NUMBER \in Nat \ {0} /\ ReadBound \in Nat
    /\ \A b \in Buses : b \subseteq Roms /\ IsFiniteSet(b)

VARIABLES
    onBus,            \* the devices
    search,           \* "start", "message", "console": who searches; "idle", "exited"
    pass,             \* the devices found by the search so far
    tree,             \* TREE: the positions where the second way is being taken
    transmit,         \* TransmitData: the bits sent with the next passage
    ESNS,
    esnDevicesFound,
    esnDevice,        \* can.c: the next number a reader of the list gets
    heard,            \* history: every answer to the latest search was received, to its end
    overtaken         \* history: the console has searched since esnDevice was 0

owbList == <<ESNS, esnDevicesFound>>
owbReader == <<esnDevice, overtaken>>
owbVars == <<onBus, search, pass, tree, transmit, owbList, owbReader, heard>>
owbShared == <<mode, edom, simulated, answer>>

-----------------------------------------------------------------------------
(* The bus *)

Agree(r, s, p) == \A q \in 0 .. (p - 1) : r[q] = s[q]

\* RDIS: where a device that answered like r until then answers differently.
Doubts(r) == {p \in Positions : \E s \in onBus : Agree(r, s, p) /\ s[p] # r[p]}

\* The device the bits sent lead to.
Reached(r) == r \in onBus /\ \A p \in Doubts(r) : r[p] = transmit[p]

-----------------------------------------------------------------------------
(* owb.c: the search *)

\* RecoverROM(NULL): everything is to be searched.
SearchStarts(who) ==
    /\ search' = who /\ pass' = 0 /\ heard' = TRUE
    /\ tree' = {} /\ transmit' = Zeros

\* Mutated form: the doubts behind the one that is decided anew stay decided.
RecoverROMMutant(rom, doubts) ==
    LET undecided == doubts \ tree
    IN  IF undecided = {} THEN tree' = tree \ doubts /\ transmit' = Zeros
        ELSE \E p \in undecided :
                /\ \A q \in undecided : q <= p
                /\ tree' = tree \cup {p}
                /\ transmit' = [q \in Positions |->
                        CASE q < p -> rom[q] [] q = p -> 1 - rom[q] [] OTHER -> 0]

\* The last doubt that is not decided is decided the other way. What comes
\* behind it is searched anew, what comes before it is kept.
RecoverROM(rom, doubts) ==
    LET undecided == doubts \ tree
    IN  IF undecided = {} THEN tree' = tree \ doubts /\ transmit' = Zeros
        ELSE \E p \in undecided :
                /\ \A q \in undecided : q <= p
                /\ tree' = {q \in tree : q < p \/ q \notin doubts} \cup {p}
                /\ transmit' = [q \in Positions |->
                        CASE q < p -> rom[q] [] q = p -> 1 - rom[q] [] OTHER -> 0]

\* The message sets the reader back to the beginning of the list, the search of
\* the console does not.
SearchEnds(found) ==
    /\ search' = "idle" /\ pass' = 0
    /\ esnDevicesFound' = found
    /\ esnDevice' = IF search = "message" THEN 0 ELSE esnDevice
    /\ overtaken' = (search = "console" \/ (overtaken /\ search # "message"))

\* An answer that is waited for in vain is taken for -1 and not looked at: what
\* is recovered then can be anything.
Heard(rom, doubts) ==
    \/ Reached(rom) /\ doubts = Doubts(rom) /\ UNCHANGED heard
    \/ "wait" \in Faults /\ heard' = FALSE

\* A passage. As many devices as there is room for, with more to come, are taken
\* for a broken bus.
SearchPass ==
    /\ search \in {"start", "message", "console"}
    /\ onBus # {} /\ Waits("OWB_RESET", TRUE)
    /\ \E rom \in Roms, doubts \in SUBSET Positions :
        /\ Heard(rom, doubts)
        /\ ESNS' = [ESNS EXCEPT ![pass] = rom]
        /\ RecoverROM(rom, doubts)
        /\ \/ doubts \subseteq tree /\ SearchEnds(pass + 1)
           \/ ~(doubts \subseteq tree) /\ pass + 1 = MAX_DEVICES_NUMBER /\ SearchEnds(0)
           \/ /\ ~(doubts \subseteq tree) /\ pass + 1 < MAX_DEVICES_NUMBER
              /\ pass' = pass + 1
              /\ UNCHANGED <<search, esnDevicesFound, owbReader>>
    /\ UNCHANGED <<owbShared, onBus>>

\* The bus cannot be reset, or no device shows its presence, until the timer has
\* expired. The start ends; a message is not told. The list found so far stays.
SearchFails ==
    /\ search \in {"start", "message", "console"}
    /\ (onBus = {} /\ Waits("OWB_RESET", TRUE)) \/ Waits("OWB_RESET", FALSE)
    /\ search' = IF search = "start" THEN "exited" ELSE "idle"
    /\ pass' = 0 /\ heard' = FALSE
    /\ esnDevice' = IF search = "message" THEN 0 ELSE esnDevice
    /\ overtaken' = (overtaken /\ search # "message")
    /\ UNCHANGED <<owbShared, onBus, tree, transmit, owbList>>

-----------------------------------------------------------------------------
(* The messages *)

SetReadEsn ==
    /\ search = "idle" /\ SearchStarts("message")
    /\ UNCHANGED <<shared, onBus, owbList, owbReader>>

\* console.c: 'e'
ConsoleReadEsn ==
    /\ search = "idle" /\ SearchStarts("console")
    /\ UNCHANGED <<shared, onBus, owbList, owbReader>>

\* The reader asks how many there are, and begins.
GetEsnsFound ==
    /\ search = "idle"
    /\ esnDevice' = 0 /\ overtaken' = FALSE
    /\ UNCHANGED <<shared, onBus, search, pass, tree, transmit, owbList, heard>>

\* The next number; zeros, and again the beginning, after the last.
GetEsns ==
    /\ search = "idle" /\ esnDevicesFound # 0
    /\ IF esnDevice = esnDevicesFound THEN esnDevice' = 0 /\ overtaken' = FALSE
       ELSE esnDevice < ReadBound /\ esnDevice' = esnDevice + 1 /\ UNCHANGED overtaken
    /\ UNCHANGED <<shared, onBus, search, pass, tree, transmit, owbList, heard>>

\* The first search begins.
OwbInit ==
    /\ onBus \in Buses
    /\ search = "start" /\ pass = 0 /\ heard = TRUE
    /\ tree = {} /\ transmit = Zeros
    /\ ESNS = [d \in Slots |-> Zeros] /\ esnDevicesFound = 0
    /\ esnDevice = 0 /\ overtaken = FALSE

\* The computer restarts.
OwbRestart ==
    /\ SearchStarts("start") /\ HandlersRestart
    /\ ESNS' = [d \in Slots |-> Zeros] /\ esnDevicesFound' = 0
    /\ esnDevice' = 0 /\ overtaken' = FALSE
    /\ UNCHANGED onBus

OwbNext ==
    \/ SearchPass \/ SearchFails
    \/ SetReadEsn \/ ConsoleReadEsn \/ GetEsnsFound \/ GetEsns
    \/ OwbRestart

-----------------------------------------------------------------------------

OwbTypeOK ==
    /\ onBus \in Buses
    /\ search \in {"start", "message", "console", "idle", "exited"}
    /\ pass \in Slots
    /\ tree \subseteq Positions
    /\ transmit \in Roms
    /\ ESNS \in [Slots -> Roms]
    /\ esnDevicesFound \in 0 .. MAX_DEVICES_NUMBER
    /\ esnDevice \in Nat
    /\ heard \in BOOLEAN /\ overtaken \in BOOLEAN

\* The list holds every device on the bus once, if there is room for all.
ListIsBus ==
    IF Cardinality(onBus) <= MAX_DEVICES_NUMBER
    THEN /\ {ESNS[d] : d \in 0 .. (esnDevicesFound - 1)} = onBus
         /\ \A d, e \in 0 .. (esnDevicesFound - 1) : ESNS[d] = ESNS[e] => d = e
    ELSE esnDevicesFound = 0

\* The numbers that are answered are those of the devices, each of them once
\* (can.c:411): a search that heard every answer has found every device, whatever
\* the numbers, the searches and the failures before it; and a reader is in the
\* list, unless the console searched while it was read (console.c:226).
EsnsAreTold ==
    search = "idle" =>
        /\ heard => ListIsBus
        /\ ~overtaken => esnDevice <= esnDevicesFound

\* A search that has heard every answer has found another device with every
\* passage, there is one more, and the bits sent next lead to one: it never
\* calls a number that nobody has, and ends after as many passages as there are
\* devices, however the bits of their numbers lie. Nothing else in the loop
\* bounds it but the room in the list (owb.c:213).
SearchGetsOn ==
    search \in {"start", "message", "console"} /\ heard /\ onBus # {} =>
        /\ pass < Cardinality(onBus)
        /\ \E r \in onBus : Reached(r)
        /\ {ESNS[d] : d \in 0 .. (pass - 1)} \subseteq onBus
        /\ \A d, e \in 0 .. (pass - 1) : ESNS[d] = ESNS[e] => d = e
=============================================================================
