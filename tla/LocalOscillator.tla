--------------------------- MODULE LocalOscillator ---------------------------
(***************************************************************************)
(* One local oscillator: its YIG oscillator (yto.c), the drain voltages of *)
(* its two power amplifiers (paChannel.c), the table that limits them by   *)
(* the tuning (lo.c, can.c), and what the potentiometers and the tuning    *)
(* register really hold (loSerialInterface.c).                             *)
(*                                                                         *)
(* A tuning command may reduce both drain voltages before it tunes. Each   *)
(* of these writes is a step of its own, so that the order of what the     *)
(* hardware sees is part of the model; no message is handled in between.   *)
(***************************************************************************)
EXTENDS PaLimits

CONSTANTS
    Ytos,               \* tunings commanded
    YTO_COARSE_SET_MAX,
    Volts,              \* drain voltages commanded
    POT_VALUES,         \* values of a potentiometer, an unsigned char
    EntryPols, EntryYtos, EntryVolts,   \* entries sent for the table
    Modes,              \* modes the front end is switched to
    BypassCold,         \* bands 1 and 2: driven at any temperature
    ChannelsSwapped,    \* bands 3, 4, 8, 9, 10: polarisation 0 is channel B
    Faults              \* "pot", "areg": writes that may fail

AllModes == {"OPERATIONAL", "TROUBLESHOOTING", "MAINTENANCE", "SIMULATION"}
Statuses == {"NO_ERROR", "ERROR", "CON_ERROR_RNG", "HARDW_BLKD_ERR"}
Phases == {"off", "on", "ready"}
Steps == {"idle", "limit0", "limit1", "tune", "zero0", "zero1", "zeroGates", "zeroYto"}

ASSUME LocalOscillatorAssumption ==
    /\ Ytos \subseteq Nat /\ YTO_COARSE_SET_MAX \in Nat
    /\ Volts \subseteq Int
    /\ POT_VALUES \in Nat \ {0}
    /\ EntryPols \subseteq Pols \cup {BothPols}
    /\ EntryYtos \subseteq 0 .. YTO_COARSE_SET_MAX
    /\ EntryVolts \subseteq 0 .. POT_VALUES - 1
    /\ Modes \subseteq AllModes
    /\ BypassCold \in BOOLEAN /\ ChannelsSwapped \in BOOLEAN
    /\ Faults \subseteq {"pot", "areg"}

VARIABLES
    mode,               \* frontend.mode
    cold,               \* a valid cryostat temperature is below the maximum
    phase,              \* cartridge off, fed, or fed and through loInit
    memory,             \* maxSafeLoPaTable
    size,               \* maxSafeLoPaTableSize
    ytoCoarseTune,      \* the tuning remembered
    last,               \* lastDrainVoltage of each polarisation
    paPotReg,           \* shadow of the potentiometers that set them
    hwYto, hwDrain,     \* hardware: what is set
    pc, request, ret,   \* step of a command; tuning asked for; what it returns
    status,             \* status stored for the last command
    potFailed,          \* history: a write failed since loInit began
    told                \* history: the drain voltages the client knows of

vars == <<mode, cold, phase, memory, size, ytoCoarseTune, last, paPotReg, hwYto,
          hwDrain, pc, request, ret, status, potFailed, told>>
tableVars == <<memory, size>>
commandVars == <<pc, request, ret>>
driveVars == <<last, paPotReg, hwDrain, potFailed>>
ytoVars == <<ytoCoarseTune, hwYto>>

-----------------------------------------------------------------------------
Table == SubSeq(memory, 1, size)
HasLimits == size # 0
MaxSafe(yto, p) == FindMaxSafeLoPaEntry(Table, yto)[p]

\* LO_PA_POT_DRAIN_V_SCALE converts to unsigned char.
PotScale(v) == v % POT_VALUES

\* setPaChannel: the shadow gets the new value, and the write sends all of it.
SetPaChannel(reg) ==
    /\ IF mode = "SIMULATION" THEN UNCHANGED <<paPotReg, hwDrain>>
       ELSE paPotReg' = reg /\ hwDrain' = reg
    /\ UNCHANGED potFailed

\* A write that fails leaves the new value in the shadow.
SetPaChannelFails(reg) ==
    /\ "pot" \in Faults /\ mode # "SIMULATION"
    /\ paPotReg' = reg /\ potFailed' = TRUE
    /\ UNCHANGED hwDrain

DrainSet(p, v) == [paPotReg EXCEPT ![p] = PotScale(v)]

\* setYtoCoarseTune
SetYtoCoarseTune(yto) ==
    /\ ytoCoarseTune' = yto
    /\ hwYto' = IF mode = "SIMULATION" THEN hwYto ELSE yto

SetYtoCoarseTuneFails == "areg" \in Faults /\ mode # "SIMULATION" /\ UNCHANGED ytoVars

-----------------------------------------------------------------------------
(* paChannel.c *)

\* A message for this cartridge reaches its handler (cartridgeHandler), and
\* none is under way.
Addressed == pc = "idle" /\ phase # "off"

\* The client learns from the status of its commands: a drain voltage set with
\* no error is known until a command that may have changed it says otherwise.
Tell(p, v) == told' = [told EXCEPT ![p] = IF status' = "NO_ERROR" THEN v ELSE {}]

DriveAllowed == cold \/ BypassCold \/ mode = "TROUBLESHOOTING"

DrainBlocked(p) ==
    /\ Addressed /\ ~DriveAllowed
    /\ status' = "HARDW_BLKD_ERR"
    /\ Tell(p, {})
    /\ UNCHANGED <<mode, cold, phase, tableVars, ytoVars, driveVars, commandVars>>

\* limitSafePaDrainVoltage looks at the tuning remembered. Mutated form: no
\* limit at the end of the table.
LimitedMutant(p, v) ==
    IF /\ mode # "TROUBLESHOOTING" /\ HasLimits
       /\ ytoCoarseTune < Table[size].ytoEndpoint /\ v > MaxSafe(ytoCoarseTune, p)
    THEN MaxSafe(ytoCoarseTune, p) ELSE v

Limited(p, v) ==
    IF mode # "TROUBLESHOOTING" /\ HasLimits /\ v > MaxSafe(ytoCoarseTune, p)
    THEN MaxSafe(ytoCoarseTune, p) ELSE v

\* drainVoltageHandler. The voltage is not checked against a range. Mutated
\* form: the dewar may be warm.
DrainVoltageMutant(p, v) ==
    /\ Addressed
    /\ last' = [last EXCEPT ![p] = Limited(p, v)]
    /\ SetPaChannel(DrainSet(p, Limited(p, v)))
    /\ status' = IF Limited(p, v) = v THEN "NO_ERROR" ELSE "HARDW_BLKD_ERR"
    /\ Tell(p, {v})
    /\ UNCHANGED <<mode, cold, phase, tableVars, ytoVars, commandVars>>

DrainVoltage(p, v) ==
    /\ Addressed /\ DriveAllowed
    /\ last' = [last EXCEPT ![p] = Limited(p, v)]
    /\ \/ /\ SetPaChannel(DrainSet(p, Limited(p, v)))
          /\ status' = IF Limited(p, v) = v THEN "NO_ERROR" ELSE "HARDW_BLKD_ERR"
       \/ /\ SetPaChannelFails(DrainSet(p, Limited(p, v)))
          /\ status' = "ERROR"
    /\ Tell(p, {v})
    /\ UNCHANGED <<mode, cold, phase, tableVars, ytoVars, commandVars>>

DrainVoltageHandler(p, v) == DrainBlocked(p) \/ DrainVoltage(p, v)

\* gateVoltageHandler: the gate voltage is not modelled, but the write sends
\* the drain voltages of the shadow along.
GateVoltageHandler ==
    /\ Addressed
    /\ \/ SetPaChannel(paPotReg) /\ status' = "NO_ERROR"
       \/ SetPaChannelFails(paPotReg) /\ status' = "ERROR"
    /\ UNCHANGED <<mode, cold, phase, tableVars, ytoVars, last, commandVars, told>>

-----------------------------------------------------------------------------
(* yto.c: ytoCoarseTuneHandler, and limitSafeYtoTuning in lo.c *)

YtoOutOfRange(yto) ==
    /\ Addressed /\ yto > YTO_COARSE_SET_MAX
    /\ status' = "CON_ERROR_RNG"
    /\ UNCHANGED <<mode, cold, phase, tableVars, ytoVars, driveVars, commandVars, told>>

\* Mutated form: the range check is off by one.
YtoCoarseTuneMutant(yto) ==
    /\ Addressed /\ yto <= YTO_COARSE_SET_MAX + 1
    /\ request' = yto
    /\ ret' = "NO_ERROR" /\ status' = "NO_ERROR"
    /\ pc' = IF mode # "TROUBLESHOOTING" /\ HasLimits THEN "limit0" ELSE "tune"
    /\ UNCHANGED <<mode, cold, phase, tableVars, ytoVars, driveVars, told>>

YtoCoarseTune(yto) ==
    /\ Addressed /\ yto <= YTO_COARSE_SET_MAX
    /\ request' = yto
    /\ ret' = "NO_ERROR" /\ status' = "NO_ERROR"
    /\ pc' = IF mode # "TROUBLESHOOTING" /\ HasLimits THEN "limit0" ELSE "tune"
    /\ UNCHANGED <<mode, cold, phase, tableVars, ytoVars, driveVars, told>>

\* The command is over, and so are its local variables.
TuneReturns ==
    /\ pc' = "idle" /\ request' = 0 /\ ret' = "NO_ERROR"
    /\ told' = IF status' = "NO_ERROR" THEN told ELSE [p \in Pols |-> {}]

\* An error of one polarisation is kept, a reduction is not reported over it.
Worse(r) == IF ret = "ERROR" THEN ret ELSE r

\* What limitSafeYtoTuning does for a polarisation when the last voltage
\* commanded is above the limit at the new tuning: it is remembered reduced,
\* and sent.
Reduce(p) ==
    /\ last[p] > MaxSafe(request, p)
    /\ last' = [last EXCEPT ![p] = MaxSafe(request, p)]
    /\ \/ SetPaChannel(DrainSet(p, MaxSafe(request, p))) /\ ret' = Worse("HARDW_BLKD_ERR")
       \/ SetPaChannelFails(DrainSet(p, MaxSafe(request, p))) /\ ret' = "ERROR"

WithinLimit(p) == last[p] <= MaxSafe(request, p) /\ UNCHANGED <<driveVars, ret>>

LimitPol0 ==
    /\ pc = "limit0"
    /\ Reduce(0) \/ WithinLimit(0)
    /\ pc' = "limit1"
    /\ UNCHANGED <<mode, cold, phase, tableVars, ytoVars, request, status, told>>

LimitPol1 ==
    /\ pc = "limit1"
    /\ Reduce(1) \/ WithinLimit(1)
    /\ pc' = "tune"
    /\ UNCHANGED <<mode, cold, phase, tableVars, ytoVars, request, status, told>>

\* "some other error.   Don't retune!" (yto.c:94)
DoNotRetune ==
    /\ pc = "tune" /\ ret = "ERROR"
    /\ status' = "ERROR"
    /\ TuneReturns
    /\ UNCHANGED <<mode, cold, phase, tableVars, driveVars, ytoVars>>

\* Mutated form: the status is not the one of the limitation.
RetuneMutant ==
    /\ pc = "tune" /\ ret # "ERROR"
    /\ SetYtoCoarseTune(request) /\ status' = "NO_ERROR"
    /\ TuneReturns
    /\ UNCHANGED <<mode, cold, phase, tableVars, driveVars>>

Retune ==
    /\ pc = "tune" /\ ret # "ERROR"
    /\ \/ SetYtoCoarseTune(request) /\ status' = ret
       \/ SetYtoCoarseTuneFails /\ status' = "ERROR"
    /\ TuneReturns
    /\ UNCHANGED <<mode, cold, phase, tableVars, driveVars>>

YtoCoarseTuneHandler ==
    (\E yto \in Ytos : YtoOutOfRange(yto) \/ YtoCoarseTune(yto))
        \/ LimitPol0 \/ LimitPol1 \/ DoNotRetune \/ Retune

-----------------------------------------------------------------------------
(* can.c: the table can be changed whether the cartridge is fed or not *)

ClearPaLimits ==
    /\ pc = "idle"
    /\ memory' = <<>> /\ size' = 0
    /\ UNCHANGED <<mode, cold, phase, ytoVars, driveVars, commandVars, status, told>>

\* loAddPaLimitsEntry. A tuning below the last is refused.
SetPaLimitsEntry(pol, yto, v) ==
    /\ pc = "idle" /\ ~OutOfOrder(memory, size, yto)
    /\ memory' = LoAddPaLimitsEntry(memory, size, pol, yto, v)
    /\ size' = SizeAfter(memory, size, yto)
    /\ UNCHANGED <<mode, cold, phase, ytoVars, driveVars, commandVars, status, told>>

SetFeMode ==
    /\ pc = "idle"
    /\ mode' \in Modes
    /\ UNCHANGED <<cold, phase, tableVars, ytoVars, driveVars, commandVars, status, told>>

\* The cryostat's turn of async(): new temperatures.
CryostatTemps ==
    /\ pc = "idle"
    /\ cold' = ~cold
    /\ UNCHANGED <<mode, phase, tableVars, ytoVars, driveVars, commandVars, status, told>>

-----------------------------------------------------------------------------
(* Power (pdModule.c, cartridge.c), and loInit. The hardware comes up reset; *)
(* the software, the shadow register included, remembers what it did before. *)

Zero == [p \in Pols |-> 0]

PowerChange ==
    /\ pc = "idle"
    /\ phase' = IF phase = "off" THEN "on" ELSE "off"
    /\ hwYto' = 0 /\ hwDrain' = Zero
    /\ told' = [p \in Pols |-> {}]
    /\ UNCHANGED <<mode, cold, tableVars, ytoCoarseTune, last, paPotReg, potFailed,
                   commandVars, status>>

LoInit ==
    /\ pc = "idle" /\ phase = "on"
    /\ pc' = "zero0"
    /\ told' = [p \in Pols |-> {}] /\ potFailed' = FALSE
    /\ UNCHANGED <<mode, cold, phase, tableVars, ytoVars, last, paPotReg, hwDrain,
                   request, ret, status>>

\* loZeroPaDrainVoltage writes polarisation p but remembers channel p, which in
\* some bands is the other polarisation's. A write that fails ends loInit.
LoZeroPaDrainVoltage(p, next) ==
    /\ \/ /\ SetPaChannel(DrainSet(p, 0))
          /\ last' = [last EXCEPT ![IF ChannelsSwapped THEN 1 - p ELSE p] = 0]
          /\ pc' = next
       \/ SetPaChannelFails(DrainSet(p, 0)) /\ UNCHANGED last /\ pc' = "idle"
    /\ UNCHANGED <<mode, cold, phase, tableVars, ytoVars, request, ret, status, told>>

\* Twice in the code, once for each polarisation.
LoZeroPAGateVoltage ==
    /\ pc = "zeroGates"
    /\ \/ SetPaChannel(paPotReg) /\ pc' = "zeroYto"
       \/ SetPaChannelFails(paPotReg) /\ pc' = "idle"
    /\ UNCHANGED <<mode, cold, phase, tableVars, ytoVars, last, request, ret, status, told>>

\* Mutated form: the tuning is left as it is.
LoZeroYtoCoarseTuningMutant ==
    /\ pc = "zeroYto"
    /\ phase' = "ready" /\ pc' = "idle"
    /\ UNCHANGED <<mode, cold, tableVars, ytoVars, driveVars, request, ret, status, told>>

LoZeroYtoCoarseTuning ==
    /\ pc = "zeroYto"
    /\ \/ SetYtoCoarseTune(0) /\ phase' = "ready"
       \/ SetYtoCoarseTuneFails /\ UNCHANGED phase
    /\ pc' = "idle"
    /\ UNCHANGED <<mode, cold, tableVars, driveVars, request, ret, status, told>>

LoInitStep ==
    \/ pc = "zero0" /\ LoZeroPaDrainVoltage(0, "zero1")
    \/ pc = "zero1" /\ LoZeroPaDrainVoltage(1, "zeroGates")
    \/ LoZeroPAGateVoltage \/ LoZeroYtoCoarseTuning

-----------------------------------------------------------------------------
Init ==
    /\ mode = "OPERATIONAL" /\ cold = FALSE /\ phase = "off"
    /\ memory = <<>> /\ size = 0
    /\ ytoCoarseTune = 0 /\ last = Zero /\ paPotReg = Zero
    /\ hwYto = 0 /\ hwDrain = Zero
    /\ pc = "idle" /\ request = 0 /\ ret = "NO_ERROR" /\ status = "NO_ERROR"
    /\ potFailed = FALSE /\ told = [p \in Pols |-> {}]

Next ==
    \/ \E p \in Pols, v \in Volts : DrainVoltageHandler(p, v)
    \/ GateVoltageHandler
    \/ YtoCoarseTuneHandler
    \/ ClearPaLimits
    \/ \E pol \in EntryPols, yto \in EntryYtos, v \in EntryVolts :
         SetPaLimitsEntry(pol, yto, v)
    \/ SetFeMode \/ CryostatTemps
    \/ PowerChange \/ LoInit \/ LoInitStep

Spec == Init /\ [][Next]_vars

-----------------------------------------------------------------------------
Entries == [ytoEndpoint : Nat, maxVD : [Pols -> 0 .. POT_VALUES - 1]]

\* Every variable stays in its range.
TypeOK ==
    /\ mode \in AllModes /\ cold \in BOOLEAN /\ phase \in Phases
    /\ memory \in Seq(Entries)
    /\ size \in 0 .. TABLE_SIZES - 1 /\ size <= Len(memory)
    /\ ytoCoarseTune \in 0 .. YTO_COARSE_SET_MAX /\ hwYto \in 0 .. YTO_COARSE_SET_MAX
    /\ last \in [Pols -> Int]
    /\ paPotReg \in [Pols -> 0 .. POT_VALUES - 1]
    /\ hwDrain \in [Pols -> 0 .. POT_VALUES - 1]
    /\ pc \in Steps /\ request \in 0 .. YTO_COARSE_SET_MAX
    /\ ret \in {"NO_ERROR", "ERROR", "HARDW_BLKD_ERR"}
    /\ status \in Statuses
    /\ potFailed \in BOOLEAN /\ told \in [Pols -> SUBSET Volts]

\* However the table was sent, the limit found at every tuning is the one the
\* table means (lo.c:669): between neighbours the straight line, level outside.
FindsWhatTableMeans ==
    HasLimits => \A yto \in Ytos, p \in Pols : MaxSafe(yto, p) = SafeAt(Table, yto, p)

\* The software knows what is set, so that a limit computed from what it
\* remembers limits the hardware (loSerialInterface.c:223), from loInit until a
\* write of a potentiometer fails.
MemoryMatchesHardware ==
    phase = "ready" /\ ~potFailed =>
        /\ ytoCoarseTune = hwYto
        /\ paPotReg = hwDrain
        /\ \A p \in Pols : hwDrain[p] = PotScale(last[p])

Safe(p) == HasLimits => hwDrain[p] <= MaxSafe(hwYto, p)

\* No write takes a drain voltage of an initialised cartridge from within the
\* limit at the present tuning to beyond it, not even between the writes of
\* one command (lo.h:193), unless the mode lifts the limits, the table is
\* changed under it or a write has failed before.
DrainStaysSafe ==
    [][/\ phase = "ready" /\ ~potFailed
       /\ mode # "TROUBLESHOOTING" /\ UNCHANGED <<mode, tableVars>>
      => \A p \in Pols : Safe(p) => Safe(p)']_vars

\* A tuning that is carried out leaves both drain voltages within the limits at
\* the new tuning, and a drain voltage command leaves its own within the limit at
\* the present one (yto.c:86, paChannel.c:187): even if the table was sent, or
\* the mode lifted its limits, after the voltages had been set.
CommandsEndSafe ==
    [][phase = "ready" /\ ~potFailed' /\ mode # "TROUBLESHOOTING" =>
        /\ Retune /\ status' # "ERROR" => \A p \in Pols : Safe(p)'
        /\ \A p \in Pols, v \in Volts : DrainVoltage(p, v) => Safe(p)']_vars

\* The drain voltage of a polarisation of an initialised cartridge changes when
\* it is commanded, when a tuning reduces it and when the power goes, and with no
\* other write, although every write of a gate or of the other polarisation sends
\* it again from the shadow (loSerialInterface.c:223).
OnlyAskedChange ==
    [][phase = "ready" /\ ~potFailed =>
        \A p \in Pols : hwDrain'[p] # hwDrain[p] =>
            \/ PowerChange
            \/ \E v \in Volts : DrainVoltage(p, v)
            \/ pc = (IF p = 0 THEN "limit0" ELSE "limit1") /\ Reduce(p)]_vars

\* With the dewar warm no message raises a drain voltage of an initialised
\* cartridge (paChannel.c:129), unless a write has failed before.
WarmStaysDown ==
    [][/\ phase = "ready" /\ ~potFailed /\ ~cold /\ ~BypassCold
       /\ mode # "TROUBLESHOOTING" /\ UNCHANGED mode
      => \A p \in Pols : hwDrain'[p] <= hwDrain[p]]_vars

\* A client that was answered NO_ERROR knows what is set: a drain voltage that
\* a limit, a tuning or a failure has made another one was reported (lo.c:912).
ClientKnows ==
    phase = "ready" /\ pc = "idle" =>
        \A p \in Pols : \A v \in told[p] : hwDrain[p] = PotScale(v)
=============================================================================
