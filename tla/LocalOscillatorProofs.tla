----------------------- MODULE LocalOscillatorProofs -----------------------
(***************************************************************************)
(* Proofs about LocalOscillator, for every table, tuning and voltage, and  *)
(* for every write that fails. In SIMULATION mode what is set and what is  *)
(* remembered do not agree: the theorems that need it assume NoSimulation. *)
(***************************************************************************)
EXTENDS LocalOscillator, WellFoundedInduction, SequenceTheorems, TLAPS

PotValues == 0 .. POT_VALUES - 1

-----------------------------------------------------------------------------
(* Limits found in a table are values of a potentiometer *)

\* Among some numbers there is a first.
LEMMA FirstOne ==
    ASSUME NEW S, S \subseteq Nat, S # {}
    PROVE  \E i \in S : \A j \in S : i <= j
<1>1. PICK i \in S : \A j \in S : <<j, i>> \notin OpToRel(<, Nat)
    BY NatLessThanWellFounded, WFMin
<1>2. \A j \in S : i \in Nat /\ j \in Nat /\ ~(j < i)
    BY <1>1 DEF OpToRel
<1>3. \A j \in S : i <= j
    BY <1>2
<1> QED BY <1>3

\* A quotient is between two numbers when the dividend is between their
\* multiples.
LEMMA DivBetween ==
    ASSUME NEW d \in Nat \ {0}, NEW x \in Int, NEW lo \in Int, NEW hi \in Int,
           lo * d <= x, x <= hi * d
    PROVE  x \div d \in lo .. hi
<1> DEFINE q == x \div d
<1>1. q \in Int /\ q * d <= x /\ x < q * d + d
    BY Z3
<1>2. lo <= q
    <2> SUFFICES ASSUME q + 1 <= lo PROVE FALSE
        BY <1>1
    <2>1. (q + 1) * d <= lo * d
        BY <1>1
    <2> QED BY <1>1, <2>1
<1>3. q <= hi
    <2> SUFFICES ASSUME hi + 1 <= q PROVE FALSE
        BY <1>1
    <2>1. (hi + 1) * d <= q * d
        BY <1>1
    <2> QED BY <1>1, <2>1
<1> QED BY <1>1, <1>2, <1>3

\* Between two entries the limit is between theirs.
LEMMA InterpolateTyped ==
    ASSUME NEW a \in Entries, NEW b \in Entries, NEW yto \in Nat, NEW p \in Pols,
           a.ytoEndpoint < yto, yto < b.ytoEndpoint
    PROVE  Interpolate(a, b, yto, p) \in PotValues
<1> DEFINE d == b.ytoEndpoint - a.ytoEndpoint
           t == yto - a.ytoEndpoint
           va == a.maxVD[p]
           rise == b.maxVD[p] - a.maxVD[p]
<1>1. d \in Nat \ {0} /\ t \in 0 .. d /\ va \in PotValues /\ va + rise \in PotValues
      /\ rise \in Int /\ va \in Int
    BY LocalOscillatorAssumption DEF Entries, PotValues
<1>2. t * rise \in Int /\ d * rise \in Int
    BY <1>1
<1> HIDE DEF d, t, va, rise
<1>3. CASE rise >= 0
    <2>1. 0 <= t * rise /\ 0 <= (d - t) * rise
        BY <1>1, <1>3
    <2>2. 0 * d <= t * rise /\ t * rise <= rise * d
        BY <1>1, <2>1
    <2>3. (t * rise) \div d \in 0 .. rise
        BY <1>1, <1>2, <2>2, DivBetween
    <2> QED BY <1>1, <2>3, LocalOscillatorAssumption DEF PotValues, Interpolate, d, t, va, rise
<1>4. CASE rise < 0
    <2>1. t * rise <= 0 /\ (d - t) * rise <= 0
        BY <1>1, <1>4
    <2>2. rise * d <= t * rise /\ t * rise <= 0 * d
        BY <1>1, <2>1
    <2>3. (t * rise) \div d \in rise .. 0
        BY <1>1, <1>2, <2>2, DivBetween
    <2> QED BY <1>1, <2>3, LocalOscillatorAssumption DEF PotValues, Interpolate, d, t, va, rise
<1> QED BY <1>1, <1>3, <1>4

\* Between the first entry and the last the scan stops.
LEMMA ScanStops ==
    ASSUME NEW table, NEW n \in Nat \ {0}, NEW yto \in Nat,
           \A i \in 1 .. n : table[i].ytoEndpoint \in Nat,
           ~(yto <= table[1].ytoEndpoint), ~(yto >= table[n].ytoEndpoint)
    PROVE  \E k \in 2 .. n : /\ StopsAt(table, yto, k)
                             /\ \A j \in 2 .. k - 1 : ~StopsAt(table, yto, j)
<1>1. \E k \in 2 .. n : StopsAt(table, yto, k)
    <2> DEFINE Reached == {k \in 1 .. n : yto <= table[k].ytoEndpoint}
    <2>1. Reached \subseteq Nat /\ n \in Reached
        OBVIOUS
    <2>2. PICK k \in Reached : \A j \in Reached : k <= j
        BY <2>1, FirstOne
    <2>3. k \in 2 .. n /\ k - 1 \in 1 .. n /\ k - 1 \notin Reached
        BY <2>2
    <2>4. table[k - 1].ytoEndpoint < yto /\ yto <= table[k].ytoEndpoint
        BY <2>2, <2>3
    <2> QED BY <2>3, <2>4 DEF StopsAt
<1>2. DEFINE Stops == {k \in 2 .. n : StopsAt(table, yto, k)}
<1>3. Stops \subseteq Nat /\ Stops # {}
    BY <1>1
<1>4. PICK k \in Stops : \A j \in Stops : k <= j
    BY <1>3, FirstOne
<1>5. \A j \in 2 .. k - 1 : j \in 2 .. n /\ j < k
    BY <1>4
<1>6. \A j \in 2 .. k - 1 : ~StopsAt(table, yto, j)
    BY <1>4, <1>5
<1> QED BY <1>4, <1>6

\* The limits found at a tuning.
LEMMA LimitsTyped ==
    ASSUME NEW table \in Seq(Entries), table # <<>>, NEW yto \in Nat
    PROVE  FindMaxSafeLoPaEntry(table, yto) \in [Pols -> PotValues]
<1> DEFINE n == Len(table)
<1>1. n \in Nat \ {0} /\ \A i \in 1 .. n : table[i] \in Entries
    BY EmptySeq, SeqDef
<1>2. \A i \in 1 .. n : table[i].ytoEndpoint \in Nat /\ table[i].maxVD \in [Pols -> PotValues]
    BY <1>1 DEF Entries, PotValues
<1>3. CASE n = 1 \/ yto <= table[1].ytoEndpoint
    BY <1>1, <1>2, <1>3 DEF FindMaxSafeLoPaEntry
<1>4. CASE ~(n = 1 \/ yto <= table[1].ytoEndpoint) /\ yto >= table[n].ytoEndpoint
    BY <1>1, <1>2, <1>4 DEF FindMaxSafeLoPaEntry
<1>5. CASE ~(n = 1 \/ yto <= table[1].ytoEndpoint) /\ ~(yto >= table[n].ytoEndpoint)
    <2> DEFINE First(i) == StopsAt(table, yto, i) /\ \A j \in 2 .. i - 1 : ~StopsAt(table, yto, j)
               i == CHOOSE i \in 2 .. n : First(i)
    <2>2. \E k \in 2 .. n : First(k)
        BY <1>1, <1>2, <1>5, ScanStops
    <2>3. i \in 2 .. n /\ StopsAt(table, yto, i)
        BY <2>2
    <2>4. FindMaxSafeLoPaEntry(table, yto) =
            IF yto = table[i].ytoEndpoint THEN table[i].maxVD
            ELSE [p \in Pols |-> Interpolate(table[i - 1], table[i], yto, p)]
        BY <1>5 DEF FindMaxSafeLoPaEntry
    <2> HIDE DEF i
    <2>5. i \in 1 .. n /\ i - 1 \in 1 .. n
        BY <1>1, <2>3
    <2>6. CASE yto = table[i].ytoEndpoint
        BY <1>2, <2>4, <2>5, <2>6
    <2>7. CASE yto # table[i].ytoEndpoint
        <3>1. table[i - 1].ytoEndpoint < yto /\ yto < table[i].ytoEndpoint
            BY <2>3, <2>7 DEF StopsAt
        <3>2. \A p \in Pols : Interpolate(table[i - 1], table[i], yto, p) \in PotValues
            BY <1>1, <2>5, <3>1, InterpolateTyped
        <3> QED BY <2>4, <2>7, <3>2
    <2> QED BY <2>6, <2>7
<1> QED BY <1>3, <1>4, <1>5

-----------------------------------------------------------------------------
(* Type correctness *)

\* The table is a sequence of entries, and its limits are values of a
\* potentiometer.
LEMMA TableTyped ==
    ASSUME TypeOK
    PROVE  /\ Table \in Seq(Entries)
           /\ HasLimits => \A yto \in Nat, p \in Pols : MaxSafe(yto, p) \in PotValues
<1>1. size \in Nat /\ size <= Len(memory) /\ memory \in Seq(Entries)
    BY PaLimitsAssumption DEF TypeOK
<1>2. \A i \in 1 .. size : memory[i] \in Entries
    BY <1>1, ElementOfSeq
<1>3. Table \in Seq(Entries) /\ Len(Table) = size
    BY <1>1, <1>2, SubSeqProperties DEF Table
<1>4. ASSUME HasLimits, NEW yto \in Nat, NEW p \in Pols
      PROVE  MaxSafe(yto, p) \in PotValues
    <2>1. Table # <<>>
        BY <1>1, <1>3, <1>4, EmptySeq DEF HasLimits
    <2> QED BY <1>3, <2>1, LimitsTyped DEF MaxSafe
<1> QED BY <1>3, <1>4

\* An entry overwrites a slot of the memory, or takes the one behind it.
LEMMA WithSlotTyped ==
    ASSUME NEW m \in Seq(Entries), NEW e \in Entries, NEW n \in 1 .. Len(m) + 1
    PROVE  WithSlot(m, n, e) \in Seq(Entries) /\ Len(WithSlot(m, n, e)) >= Len(m)
           /\ Len(WithSlot(m, n, e)) >= n
<1> DEFINE k == IF n > Len(m) THEN n ELSE Len(m)
<1>1. k \in Nat /\ k >= n /\ k >= Len(m)
    BY LenProperties
<1>2. \A i \in 1 .. k : (IF i = n THEN e ELSE m[i]) \in Entries
    BY <1>1, ElementOfSeq
<1>3. WithSlot(m, n, e) = [i \in 1 .. k |-> IF i = n THEN e ELSE m[i]]
    BY DEF WithSlot
<1> HIDE DEF k
<1>4. WithSlot(m, n, e) \in [1 .. k -> Entries]
    BY <1>2, <1>3
<1> QED BY <1>1, <1>4

\* What the potentiometers can be set to.
LEMMA ScaleTyped == \A v \in Int : PotScale(v) \in PotValues
BY LocalOscillatorAssumption DEF PotScale, PotValues

\* A write leaves both the shadow and the hardware values of potentiometers.
LEMMA WritesTyped ==
    ASSUME TypeOK, NEW reg \in [Pols -> PotValues],
           SetPaChannel(reg) \/ SetPaChannelFails(reg)
    PROVE  /\ paPotReg' \in [Pols -> PotValues] /\ hwDrain' \in [Pols -> PotValues]
           /\ potFailed' \in BOOLEAN
BY DEF TypeOK, PotValues, SetPaChannel, SetPaChannelFails

\* An accepted entry.
LEMMA SetPaLimitsEntryTyped ==
    ASSUME TypeOK, NEW pol \in EntryPols, NEW yto \in EntryYtos, NEW v \in EntryVolts,
           SetPaLimitsEntry(pol, yto, v)
    PROVE  /\ memory' \in Seq(Entries)
           /\ size' \in 0 .. TABLE_SIZES - 1 /\ size' <= Len(memory')
<1> DEFINE n == SlotFor(memory, size, yto)
           old == IF n = size THEN memory[n] ELSE NextSlot(memory, size)
<1>1. size \in Nat /\ size <= Len(memory) /\ memory \in Seq(Entries) /\ size < TABLE_SIZES
    BY PaLimitsAssumption DEF TypeOK
<1>2. yto \in Nat /\ v \in PotValues /\ 0 \in PotValues
    BY LocalOscillatorAssumption DEF PotValues
<1>3. n \in {size, size + 1} /\ (size = 0 => n = 1) /\ n \in 1 .. Len(memory) + 1
    BY <1>1 DEF SlotFor
<1>4. \A i \in 1 .. Len(memory) : memory[i] \in Entries
    BY <1>1, ElementOfSeq
<1>5. Fresh \in Entries
    BY <1>2 DEF Fresh, Entry, Entries, PotValues
<1>6. old \in Entries
    BY <1>1, <1>3, <1>4, <1>5 DEF NextSlot
<1>7. AssignPaLimitsEntry(old, pol, yto, v) \in Entries
    BY <1>2, <1>6 DEF AssignPaLimitsEntry, Entry, Entries, PotValues
<1>8. memory' = WithSlot(memory, n, AssignPaLimitsEntry(old, pol, yto, v))
    BY DEF SetPaLimitsEntry, LoAddPaLimitsEntry
<1>9. /\ memory' \in Seq(Entries)
      /\ Len(memory') \in Nat /\ Len(memory') >= Len(memory) /\ Len(memory') >= n
    <2> HIDE DEF n, old
    <2> QED BY <1>1, <1>3, <1>7, <1>8, WithSlotTyped, LenProperties
<1>10. size' = IF n = size THEN size ELSE (size + 1) % TABLE_SIZES
    BY DEF SetPaLimitsEntry, SizeAfter
<1>11. (size + 1) % TABLE_SIZES = IF size + 1 = TABLE_SIZES THEN 0 ELSE size + 1
    BY <1>1, PaLimitsAssumption
<1> HIDE DEF n
<1>12. n \in Nat /\ TABLE_SIZES \in Nat /\ Len(memory) \in Nat
    BY <1>1, <1>3, PaLimitsAssumption, LenProperties
<1>13. size' \in 0 .. TABLE_SIZES - 1
    BY <1>1, <1>10, <1>11, <1>12
<1>14. size' <= Len(memory')
    BY <1>1, <1>3, <1>9, <1>10, <1>11, <1>12
<1> QED BY <1>9, <1>13, <1>14

\* The limits are looked up only when there are some.
LimitsLooked == pc \in {"limit0", "limit1"} => HasLimits

\* No step leaves the types.
LEMMA TypeStep ==
    ASSUME TypeOK, LimitsLooked, [Next]_vars
    PROVE  TypeOK' /\ LimitsLooked'
<1> USE LocalOscillatorAssumption
        DEF TypeOK, LimitsLooked, HasLimits, PotValues, Phases, Steps, Statuses,
            tableVars, ytoVars, driveVars, commandVars
<1>1. \A p \in Pols, v \in Int : DrainSet(p, v) \in [Pols -> PotValues]
    BY ScaleTyped DEF DrainSet
<1>2. HasLimits => \A yto \in Nat, p \in Pols : MaxSafe(yto, p) \in PotValues
    BY TableTyped
<1>3. PotValues \subseteq Int /\ 0 \in PotValues
    OBVIOUS
<1>4. ASSUME NEW p \in Pols, NEW v \in Volts, DrainVoltageHandler(p, v)
      PROVE  TypeOK' /\ LimitsLooked'
    <2>1. v \in Int /\ Limited(p, v) \in Int
        BY <1>2, <1>3 DEF Limited
    <2>2. CASE DrainBlocked(p)
        BY <2>2 DEF DrainBlocked, Tell
    <2>3. CASE DrainVoltage(p, v)
        <3>1. /\ paPotReg' \in [Pols -> PotValues] /\ hwDrain' \in [Pols -> PotValues]
              /\ potFailed' \in BOOLEAN
            BY <1>1, <2>1, <2>3, WritesTyped DEF DrainVoltage
        <3>2. last' \in [Pols -> Int] /\ status' \in Statuses
            BY <2>1, <2>3 DEF DrainVoltage
        <3>3. told' \in [Pols -> SUBSET Volts]
            BY <2>3 DEF DrainVoltage, Tell
        <3> QED BY <2>3, <3>1, <3>2, <3>3 DEF DrainVoltage
    <2> QED BY <1>4, <2>2, <2>3 DEF DrainVoltageHandler
<1>5. CASE GateVoltageHandler
    <2>1. /\ paPotReg' \in [Pols -> PotValues] /\ hwDrain' \in [Pols -> PotValues]
          /\ potFailed' \in BOOLEAN
        BY <1>5, WritesTyped DEF GateVoltageHandler
    <2> QED BY <1>5, <2>1 DEF GateVoltageHandler
<1>6. CASE YtoCoarseTuneHandler
    <2>1. ASSUME NEW yto \in Ytos, YtoOutOfRange(yto) \/ YtoCoarseTune(yto)
          PROVE  TypeOK' /\ LimitsLooked'
        BY <2>1 DEF YtoOutOfRange, YtoCoarseTune
    <2>2. ASSUME NEW p \in Pols, pc \in {"limit0", "limit1"}, Reduce(p) \/ WithinLimit(p)
          PROVE  /\ paPotReg' \in [Pols -> PotValues] /\ hwDrain' \in [Pols -> PotValues]
                 /\ potFailed' \in BOOLEAN
                 /\ last' \in [Pols -> Int]
                 /\ ret' \in {"NO_ERROR", "ERROR", "HARDW_BLKD_ERR"}
        <3>1. MaxSafe(request, p) \in Int
            BY <1>2, <1>3, <2>2
        <3>2. CASE Reduce(p)
            <4>1. /\ paPotReg' \in [Pols -> PotValues] /\ hwDrain' \in [Pols -> PotValues]
                  /\ potFailed' \in BOOLEAN
                BY <1>1, <3>1, <3>2, WritesTyped DEF Reduce
            <4> QED BY <3>1, <3>2, <4>1 DEF Reduce, Worse
        <3>3. CASE WithinLimit(p)
            BY <3>3 DEF WithinLimit
        <3> QED BY <2>2, <3>2, <3>3
    <2>3. CASE LimitPol0
        <3>1. 0 \in Pols
            BY DEF Pols
        <3> QED BY <2>2, <2>3, <3>1 DEF LimitPol0
    <2>4. CASE LimitPol1
        <3>1. 1 \in Pols
            BY DEF Pols
        <3> QED BY <2>2, <2>4, <3>1 DEF LimitPol1
    <2>5. CASE DoNotRetune
        BY <2>5 DEF DoNotRetune, TuneReturns
    <2>6. CASE Retune
        BY <2>6 DEF Retune, TuneReturns, SetYtoCoarseTune, SetYtoCoarseTuneFails
    <2> QED BY <1>6, <2>1, <2>3, <2>4, <2>5, <2>6 DEF YtoCoarseTuneHandler
<1>7. CASE ClearPaLimits
    <2>1. <<>> \in Seq(Entries) /\ Len(<<>>) = 0
        BY EmptySeq
    <2> QED BY <1>7, <2>1, PaLimitsAssumption DEF ClearPaLimits
<1>8. ASSUME NEW pol \in EntryPols, NEW yto \in EntryYtos, NEW v \in EntryVolts,
             SetPaLimitsEntry(pol, yto, v)
      PROVE  TypeOK' /\ LimitsLooked'
    <2>1. /\ memory' \in Seq(Entries)
          /\ size' \in 0 .. TABLE_SIZES - 1 /\ size' <= Len(memory')
        BY <1>8, SetPaLimitsEntryTyped
    <2> QED BY <1>8, <2>1 DEF SetPaLimitsEntry
<1>9. CASE SetFeMode \/ CryostatTemps
    BY <1>9 DEF SetFeMode, CryostatTemps
<1>10. CASE PowerChange
    <2>1. Zero \in [Pols -> PotValues] /\ 0 \in 0 .. YTO_COARSE_SET_MAX
        BY DEF Zero
    <2>2. [p \in Pols |-> {}] \in [Pols -> SUBSET Volts]
        OBVIOUS
    <2> QED BY <1>10, <2>1, <2>2 DEF PowerChange
<1>11. CASE LoInit
    <2>1. [p \in Pols |-> {}] \in [Pols -> SUBSET Volts]
        OBVIOUS
    <2> QED BY <1>11, <2>1 DEF LoInit
<1>12. CASE LoInitStep
    <2>1. ASSUME NEW p \in Pols, NEW next \in Steps \ {"limit0", "limit1"},
                 LoZeroPaDrainVoltage(p, next), pc \in {"zero0", "zero1"}
          PROVE  TypeOK' /\ LimitsLooked'
        <3>1. /\ paPotReg' \in [Pols -> PotValues] /\ hwDrain' \in [Pols -> PotValues]
              /\ potFailed' \in BOOLEAN
            BY <1>1, <1>3, <2>1, WritesTyped DEF LoZeroPaDrainVoltage
        <3>2. last' \in [Pols -> Int] /\ pc' \in Steps \ {"limit0", "limit1"}
            BY <2>1 DEF LoZeroPaDrainVoltage
        <3> QED BY <2>1, <3>1, <3>2 DEF LoZeroPaDrainVoltage
    <2>2. CASE LoZeroPAGateVoltage
        <3>1. /\ paPotReg' \in [Pols -> PotValues] /\ hwDrain' \in [Pols -> PotValues]
              /\ potFailed' \in BOOLEAN
            BY <2>2, WritesTyped DEF LoZeroPAGateVoltage
        <3> QED BY <2>2, <3>1 DEF LoZeroPAGateVoltage
    <2>3. CASE LoZeroYtoCoarseTuning
        BY <2>3 DEF LoZeroYtoCoarseTuning, SetYtoCoarseTune, SetYtoCoarseTuneFails
    <2> QED BY <1>12, <2>1, <2>2, <2>3 DEF LoInitStep, Pols
<1>13. CASE UNCHANGED vars
    BY <1>13 DEF vars
<1> QED
    BY <1>4, <1>5, <1>6, <1>7, <1>8, <1>9, <1>10, <1>11, <1>12, <1>13 DEF Next

\* Both hold from the start.
LEMMA TypeInit == Init => TypeOK /\ LimitsLooked
<1>1. Zero \in [Pols -> PotValues] /\ Zero \in [Pols -> Int]
    BY LocalOscillatorAssumption DEF Zero, PotValues
<1>2. <<>> \in Seq(Entries) /\ Len(<<>>) = 0
    BY EmptySeq
<1> SUFFICES ASSUME Init PROVE TypeOK /\ LimitsLooked
    OBVIOUS
<1>3. memory \in Seq(Entries) /\ size \in 0 .. TABLE_SIZES - 1 /\ size <= Len(memory)
    BY <1>2, PaLimitsAssumption DEF Init
<1>4. potFailed \in BOOLEAN /\ told \in [Pols -> SUBSET Volts]
    BY DEF Init
<1>5. /\ last \in [Pols -> Int]
      /\ paPotReg \in [Pols -> PotValues] /\ hwDrain \in [Pols -> PotValues]
    BY <1>1 DEF Init
<1>6. ytoCoarseTune = 0 /\ hwYto = 0 /\ request = 0 /\ 0 \in 0 .. YTO_COARSE_SET_MAX
    BY LocalOscillatorAssumption DEF Init
<1>7. /\ mode \in AllModes /\ cold \in BOOLEAN /\ phase \in Phases
      /\ pc \in Steps /\ pc \notin {"limit0", "limit1"}
      /\ ret \in {"NO_ERROR", "ERROR", "HARDW_BLKD_ERR"} /\ status \in Statuses
    BY DEF Init, AllModes, Phases, Steps, Statuses
<1> QED
    BY <1>3, <1>4, <1>5, <1>6, <1>7 DEF TypeOK, LimitsLooked, PotValues

\* Type correctness: every variable stays in its range, whatever fails.
THEOREM TypeCorrect == Spec => []TypeOK
BY TypeInit, TypeStep, PTL DEF Spec

-----------------------------------------------------------------------------
(* What is remembered, and what is told *)

InitSteps == {"zero0", "zero1", "zeroGates", "zeroYto"}

\* Nothing that is not written is remembered.
NoSimulation == "SIMULATION" \notin Modes

\* loInit makes memory, shadow and hardware agree one write at a time; after
\* it every write that does not fail keeps them so.
Agreement ==
    /\ mode # "SIMULATION"
    /\ pc \in InitSteps => phase = "on"
    /\ pc = "zero1" => /\ paPotReg = hwDrain /\ hwDrain[0] = 0
                       /\ last[IF ChannelsSwapped THEN 1 ELSE 0] = 0
    /\ pc \in {"zeroGates", "zeroYto"} =>
            /\ paPotReg = hwDrain
            /\ \A p \in Pols : hwDrain[p] = 0 /\ last[p] = 0
    /\ MemoryMatchesHardware

\* What the client knows stays true until something is to be reported: what
\* was set with no error is what any write sends.
Told ==
    /\ pc \in {"idle"} \cup InitSteps => ret = "NO_ERROR"
    /\ pc \in InitSteps => \A p \in Pols : told[p] = {}
    /\ phase = "ready" /\ ret = "NO_ERROR" =>
            \A p \in Pols : \A v \in told[p] :
                hwDrain[p] = PotScale(v) /\ paPotReg[p] = PotScale(v)

\* A write that arrives: the other polarisation is sent again what the shadow
\* has.
LEMMA WriteArrives ==
    ASSUME TypeOK, mode # "SIMULATION", NEW p \in Pols, NEW v \in Int,
           SetPaChannel(DrainSet(p, v))
    PROVE  /\ paPotReg' = hwDrain' /\ potFailed' = potFailed
           /\ hwDrain'[p] = PotScale(v)
           /\ \A q \in Pols \ {p} : hwDrain'[q] = paPotReg[q]
BY DEF SetPaChannel, DrainSet, TypeOK

\* A write that does not: the shadow has the new value.
LEMMA WriteFails ==
    ASSUME TypeOK, NEW p \in Pols, NEW v \in Int, SetPaChannelFails(DrainSet(p, v))
    PROVE  /\ potFailed' /\ hwDrain' = hwDrain
           /\ \A q \in Pols \ {p} : paPotReg'[q] = paPotReg[q]
BY DEF SetPaChannelFails, DrainSet, TypeOK

\* The gates are written with the drain voltages of the shadow.
LEMMA GatesWritten ==
    ASSUME mode # "SIMULATION", SetPaChannel(paPotReg) \/ SetPaChannelFails(paPotReg)
    PROVE  /\ paPotReg' = paPotReg
           /\ \/ hwDrain' = paPotReg /\ potFailed' = potFailed
              \/ hwDrain' = hwDrain /\ potFailed'
BY DEF SetPaChannel, SetPaChannelFails

\* Zero volts are the value zero.
LEMMA ZeroScaled == PotScale(0) = 0
BY LocalOscillatorAssumption DEF PotScale

\* Every step keeps memory and hardware in agreement, and the client told.
LEMMA AgreementStep ==
    ASSUME NoSimulation, TypeOK, LimitsLooked, Agreement, Told, [Next]_vars
    PROVE  Agreement' /\ Told'
<1> USE DEF Agreement, Told, MemoryMatchesHardware, InitSteps,
            tableVars, ytoVars, driveVars, commandVars
<1>1. ASSUME NEW p \in Pols, NEW v \in Volts, DrainVoltageHandler(p, v)
      PROVE  Agreement' /\ Told'
    <2>1. v \in Int /\ Limited(p, v) \in Int
        BY LocalOscillatorAssumption, TableTyped DEF Limited, TypeOK, PotValues
    <2>2. CASE DrainBlocked(p)
        BY <2>2 DEF DrainBlocked, Addressed, Tell, TypeOK
    <2>3. CASE DrainVoltage(p, v)
        <3>1. \/ /\ paPotReg' = hwDrain' /\ potFailed' = potFailed
                 /\ hwDrain'[p] = PotScale(Limited(p, v))
                 /\ \A q \in Pols \ {p} : hwDrain'[q] = paPotReg[q]
              \/ /\ potFailed' /\ hwDrain' = hwDrain /\ status' = "ERROR"
                 /\ \A q \in Pols \ {p} : paPotReg'[q] = paPotReg[q]
            BY <2>1, <2>3, WriteArrives, WriteFails DEF DrainVoltage
        <3>2. /\ last'[p] = Limited(p, v) /\ \A q \in Pols \ {p} : last'[q] = last[q]
            BY <2>3 DEF DrainVoltage, TypeOK
        <3>3. /\ pc' = pc /\ pc = "idle" /\ phase' = phase /\ ret' = ret /\ mode' = mode
              /\ ytoCoarseTune' = ytoCoarseTune /\ hwYto' = hwYto
            BY <2>3 DEF DrainVoltage, Addressed
        <3>4. Agreement'
            BY <3>1, <3>2, <3>3
        <3>5. told'[p] \in {{v}, {}} /\ \A q \in Pols \ {p} : told'[q] = told[q]
            BY <2>3 DEF DrainVoltage, Tell, TypeOK
        <3>6. told'[p] # {} => status' = "NO_ERROR"
            BY <2>3 DEF DrainVoltage, Tell, TypeOK
        <3>7. status' = "NO_ERROR" => Limited(p, v) = v
            BY <2>3 DEF DrainVoltage
        <3>8. Told'
            BY <3>1, <3>3, <3>5, <3>6, <3>7
        <3> QED BY <3>4, <3>8
    <2> QED BY <1>1, <2>2, <2>3 DEF DrainVoltageHandler
<1>2. CASE GateVoltageHandler
    <2>1. /\ paPotReg' = paPotReg
          /\ \/ hwDrain' = paPotReg /\ potFailed' = potFailed
             \/ hwDrain' = hwDrain /\ potFailed'
        BY <1>2, GatesWritten DEF GateVoltageHandler
    <2> QED BY <1>2, <2>1 DEF GateVoltageHandler, Addressed
<1>3. ASSUME NEW yto \in Ytos, YtoOutOfRange(yto) \/ YtoCoarseTune(yto)
      PROVE  Agreement' /\ Told'
    BY <1>3 DEF YtoOutOfRange, YtoCoarseTune, Addressed
<1>4. ASSUME NEW p \in Pols, pc \in {"limit0", "limit1"}, pc' \in {"limit1", "tune"},
             Reduce(p) \/ WithinLimit(p),
             UNCHANGED <<mode, phase, ytoVars, told>>
      PROVE  Agreement' /\ Told'
    <2>1. CASE WithinLimit(p)
        BY <1>4, <2>1 DEF WithinLimit
    <2>2. CASE Reduce(p)
        <3>1. MaxSafe(request, p) \in Int
            BY <1>4, TableTyped, LocalOscillatorAssumption DEF TypeOK, LimitsLooked, PotValues
        <3>2. \/ /\ paPotReg' = hwDrain' /\ potFailed' = potFailed
                 /\ hwDrain'[p] = PotScale(MaxSafe(request, p))
                 /\ \A q \in Pols \ {p} : hwDrain'[q] = paPotReg[q]
              \/ potFailed'
            BY <2>2, <3>1, WriteArrives, WriteFails DEF Reduce
        <3>3. last'[p] = MaxSafe(request, p) /\ \A q \in Pols \ {p} : last'[q] = last[q]
            BY <2>2 DEF Reduce, TypeOK
        <3>4. ret' # "NO_ERROR"
            BY <2>2 DEF Reduce, Worse
        <3> QED BY <1>4, <3>2, <3>3, <3>4
    <2> QED BY <1>4, <2>1, <2>2
<1>5. CASE LimitPol0 \/ LimitPol1
    BY <1>4, <1>5 DEF LimitPol0, LimitPol1, Pols
<1>6. CASE DoNotRetune
    <2>1. /\ pc' = "idle" /\ ret' = "NO_ERROR" /\ \A p \in Pols : told'[p] = {}
          /\ pc = "tune"
          /\ UNCHANGED <<mode, phase, last, paPotReg, hwDrain, potFailed, ytoVars>>
        BY <1>6 DEF DoNotRetune, TuneReturns
    <2> QED BY <2>1
<1>7. CASE Retune
    <2>1. ytoCoarseTune = hwYto => ytoCoarseTune' = hwYto'
        BY <1>7 DEF Retune, SetYtoCoarseTune, SetYtoCoarseTuneFails
    <2>2. /\ pc' = "idle" /\ ret' = "NO_ERROR" /\ pc = "tune"
          /\ UNCHANGED <<mode, phase, last, paPotReg, hwDrain, potFailed>>
        BY <1>7 DEF Retune, TuneReturns
    <2>3. \A p \in Pols : told'[p] = {} \/ (told'[p] = told[p] /\ ret = "NO_ERROR")
        BY <1>7 DEF Retune, TuneReturns
    <2> QED BY <2>1, <2>2, <2>3
<1>8. CASE ClearPaLimits \/ SetFeMode \/ CryostatTemps
    BY <1>8 DEF ClearPaLimits, SetFeMode, CryostatTemps, NoSimulation
<1>9. ASSUME NEW pol \in EntryPols, NEW yto \in EntryYtos, NEW v \in EntryVolts,
             SetPaLimitsEntry(pol, yto, v)
      PROVE  Agreement' /\ Told'
    BY <1>9 DEF SetPaLimitsEntry
<1>10. CASE PowerChange \/ LoInit
    BY <1>10 DEF PowerChange, LoInit, TypeOK
<1>11. ASSUME NEW p \in Pols, NEW next \in InitSteps, LoZeroPaDrainVoltage(p, next),
              pc \in InitSteps
       PROVE  /\ UNCHANGED <<mode, phase, ret, told>>
              /\ \/ /\ pc' = next
                    /\ paPotReg' = hwDrain' /\ hwDrain'[p] = 0
                    /\ \A q \in Pols \ {p} : hwDrain'[q] = paPotReg[q]
                    /\ last' = [last EXCEPT ![IF ChannelsSwapped THEN 1 - p ELSE p] = 0]
                 \/ pc' = "idle"
    BY <1>11, ZeroScaled, WriteArrives DEF LoZeroPaDrainVoltage
<1>12. CASE LoInitStep
    <2>1. CASE pc = "zero0" /\ LoZeroPaDrainVoltage(0, "zero1")
        BY <1>11, <2>1 DEF Pols, TypeOK
    <2>2. CASE pc = "zero1" /\ LoZeroPaDrainVoltage(1, "zeroGates")
        <3>1. /\ UNCHANGED <<mode, phase, ret, told>>
              /\ \/ /\ pc' = "zeroGates"
                    /\ paPotReg' = hwDrain' /\ hwDrain'[1] = 0 /\ hwDrain'[0] = 0
                    /\ last' = [last EXCEPT ![IF ChannelsSwapped THEN 0 ELSE 1] = 0]
                 \/ pc' = "idle"
            BY <1>11, <2>2 DEF Pols
        <3>2. pc' = "zeroGates" => last'[0] = 0 /\ last'[1] = 0
            BY <2>2, <3>1 DEF Pols, TypeOK
        <3> QED BY <2>2, <3>1, <3>2 DEF Pols
    <2>3. CASE LoZeroPAGateVoltage
        <3>1. paPotReg' = paPotReg /\ (hwDrain' = paPotReg \/ hwDrain' = hwDrain)
            BY <2>3, GatesWritten DEF LoZeroPAGateVoltage
        <3>2. UNCHANGED <<mode, phase, ret, told, last>> /\ pc' \in {"zeroYto", "idle"}
            BY <2>3 DEF LoZeroPAGateVoltage
        <3> QED BY <2>3, <3>1, <3>2 DEF LoZeroPAGateVoltage
    <2>4. CASE LoZeroYtoCoarseTuning
        BY <2>4, ZeroScaled
           DEF LoZeroYtoCoarseTuning, SetYtoCoarseTune, SetYtoCoarseTuneFails
    <2> QED BY <1>12, <2>1, <2>2, <2>3, <2>4 DEF LoInitStep
<1>13. CASE UNCHANGED vars
    BY <1>13 DEF vars
<1> QED
    BY <1>1, <1>2, <1>3, <1>5, <1>6, <1>7, <1>8, <1>9, <1>10, <1>12, <1>13
       DEF Next, YtoCoarseTuneHandler

\* Both hold at the start.
LEMMA AgreementInit == NoSimulation /\ Init => Agreement /\ Told
BY DEF Init, Agreement, Told, InitSteps, MemoryMatchesHardware

\* The tuning and the drain voltages remembered are the ones set, whatever
\* mode, table, tuning and power did before (loSerialInterface.c:223).
THEOREM MemoryCorrect ==
    ASSUME NoSimulation
    PROVE  Spec => []MemoryMatchesHardware
<1>1. Agreement => MemoryMatchesHardware
    BY DEF Agreement
<1> QED
    BY <1>1, TypeInit, TypeStep, AgreementInit, AgreementStep, PTL DEF Spec

\* A client that was answered NO_ERROR knows what is set (lo.c:912).
THEOREM ClientIsTold ==
    ASSUME NoSimulation
    PROVE  Spec => []ClientKnows
<1>1. Told => ClientKnows
    BY DEF Told, ClientKnows
<1> QED
    BY <1>1, TypeInit, TypeStep, AgreementInit, AgreementStep, PTL DEF Spec

-----------------------------------------------------------------------------
(* The limits *)

\* The voltages commanded are values of a potentiometer: the code checks them
\* against the limits of the table only (paChannel.c:178).
VoltsFit == Volts \subseteq PotValues

\* Less than that: none is negative. A larger one wraps to one below it.
NoneNegative == Volts \subseteq Nat

\* Where limitSafeYtoTuning has been, the voltage is within the new limit.
Within ==
    mode # "TROUBLESHOOTING" /\ HasLimits =>
        /\ pc = "limit1" => last[0] <= MaxSafe(request, 0)
        /\ pc = "tune" => \A p \in Pols : last[p] <= MaxSafe(request, p)

Limiting == Within /\ \A p \in Pols : last[p] \in PotValues

\* A voltage that is a value of a potentiometer is sent as it is.
LEMMA ScaleFits == \A v \in PotValues : PotScale(v) = v
BY LocalOscillatorAssumption DEF PotScale, PotValues

\* Every step keeps the limits computed for a tuning kept until it is set, and
\* remembers voltages that were commanded or are values of a potentiometer.
LEMMA WithinStep ==
    ASSUME NEW R, PotValues \subseteq R, Volts \subseteq R,
           \A p \in Pols : last[p] \in R,
           TypeOK, LimitsLooked, Within, [Next]_vars
    PROVE  Within' /\ \A p \in Pols : last'[p] \in R
<1> DEFINE Goal == Within' /\ \A p \in Pols : last'[p] \in R
<1> USE DEF Within, HasLimits, tableVars, ytoVars, driveVars, commandVars
<1>1. HasLimits => \A yto \in Nat, p \in Pols : MaxSafe(yto, p) \in PotValues
    BY TableTyped
<1>2. 0 \in PotValues /\ PotValues \subseteq Int /\ request \in Nat
    BY LocalOscillatorAssumption DEF TypeOK, PotValues
<1>3. ASSUME UNCHANGED <<memory, size, request>>
      PROVE  \A p \in Pols : MaxSafe(request, p)' = MaxSafe(request, p)
    BY <1>3 DEF MaxSafe, Table
<1>4. ASSUME NEW p \in Pols, NEW v \in Volts, DrainVoltageHandler(p, v)
      PROVE  Goal
    <2>1. ytoCoarseTune \in Nat
        BY LocalOscillatorAssumption DEF TypeOK
    <2>2. Limited(p, v) \in R
        BY <1>1, <2>1 DEF Limited
    <2>3. pc' = "idle"
        BY <1>4 DEF DrainVoltageHandler, DrainBlocked, DrainVoltage, Addressed
    <2>4. last' = last \/ last' = [last EXCEPT ![p] = Limited(p, v)]
        BY <1>4 DEF DrainVoltageHandler, DrainBlocked, DrainVoltage
    <2>5. \A q \in Pols : last'[q] \in R
        BY <2>2, <2>4 DEF TypeOK
    <2> QED BY <2>3, <2>5
<1>5. CASE GateVoltageHandler
    BY <1>5 DEF GateVoltageHandler, Addressed
<1>6. ASSUME NEW yto \in Ytos, YtoOutOfRange(yto) \/ YtoCoarseTune(yto)
      PROVE  Goal
    BY <1>6 DEF YtoOutOfRange, YtoCoarseTune, Addressed
<1>7. ASSUME NEW p \in Pols, pc \in {"limit0", "limit1"}, Reduce(p) \/ WithinLimit(p)
      PROVE  /\ last'[p] <= MaxSafe(request, p)
             /\ last'[p] \in R
             /\ \A q \in Pols \ {p} : last'[q] = last[q]
    <2>1. MaxSafe(request, p) \in PotValues
        BY <1>1, <1>2, <1>7 DEF LimitsLooked
    <2>2. CASE Reduce(p)
        <3>1. last' = [last EXCEPT ![p] = MaxSafe(request, p)] /\ last \in [Pols -> Int]
            BY <2>2 DEF Reduce, TypeOK
        <3>2. last'[p] = MaxSafe(request, p) /\ \A q \in Pols \ {p} : last'[q] = last[q]
            BY <3>1
        <3>3. \A m \in PotValues : m <= m
            BY <1>2
        <3> DEFINE max == MaxSafe(request, p)
        <3>4. max \in PotValues /\ last'[p] = max
            BY <2>1, <3>2
        <3> HIDE DEF max
        <3>5. last'[p] <= max /\ last'[p] \in R
            BY <3>3, <3>4
        <3> QED BY <3>2, <3>5 DEF max
    <2>3. CASE WithinLimit(p)
        BY <2>3 DEF WithinLimit
    <2> QED BY <1>7, <2>2, <2>3
<1>8. CASE LimitPol0
    BY <1>3, <1>7, <1>8 DEF LimitPol0, Pols
<1>9. CASE LimitPol1
    BY <1>3, <1>7, <1>9 DEF LimitPol1, Pols
<1>10. CASE DoNotRetune \/ Retune
    BY <1>10 DEF DoNotRetune, Retune, TuneReturns
<1>11. CASE ClearPaLimits \/ SetFeMode \/ CryostatTemps
    BY <1>11 DEF ClearPaLimits, SetFeMode, CryostatTemps
<1>12. ASSUME NEW pol \in EntryPols, NEW yto \in EntryYtos, NEW v \in EntryVolts,
              SetPaLimitsEntry(pol, yto, v)
       PROVE  Goal
    BY <1>12 DEF SetPaLimitsEntry
<1>13. CASE PowerChange \/ LoInit
    <2>1. pc' \in {"idle", "zero0"} /\ last' = last
        BY <1>13 DEF PowerChange, LoInit
    <2> QED BY <2>1
<1>14. CASE LoInitStep
    <2>1. ASSUME NEW p \in Pols, NEW next \in {"zero1", "zeroGates"},
                 LoZeroPaDrainVoltage(p, next)
          PROVE  Goal
        BY <1>2, <2>1 DEF LoZeroPaDrainVoltage, TypeOK
    <2>2. CASE LoZeroPAGateVoltage \/ LoZeroYtoCoarseTuning
        BY <2>2 DEF LoZeroPAGateVoltage, LoZeroYtoCoarseTuning
    <2>3. 0 \in Pols /\ 1 \in Pols
        BY DEF Pols
    <2> QED BY <1>14, <2>1, <2>2, <2>3 DEF LoInitStep
<1>15. CASE UNCHANGED vars
    <2>1. UNCHANGED <<memory, size, request, mode, pc, last>>
        BY <1>15 DEF vars
    <2> QED BY <1>3, <2>1 DEF Pols
<1> QED
    BY <1>4, <1>5, <1>6, <1>8, <1>9, <1>10, <1>11, <1>12, <1>13, <1>14, <1>15
       DEF Next, YtoCoarseTuneHandler

LEMMA LimitingStep ==
    ASSUME VoltsFit, TypeOK, LimitsLooked, Limiting, [Next]_vars
    PROVE  Limiting'
BY WithinStep DEF VoltsFit, Limiting

\* They are kept at the start.
LEMMA LimitingInit == Init => Limiting
<1>1. 0 \in PotValues
    BY LocalOscillatorAssumption DEF PotValues
<1> QED BY <1>1 DEF Init, Limiting, Within, Zero

\* What the hardware of an initialised cartridge holds, when every voltage is
\* a value of a potentiometer.
LEMMA HardwareIsLast ==
    ASSUME Agreement, Limiting, phase = "ready", ~potFailed
    PROVE  paPotReg = hwDrain /\ \A p \in Pols : hwDrain[p] = last[p] /\ hwDrain[p] \in PotValues
BY ScaleFits DEF Agreement, MemoryMatchesHardware, Limiting

\* A step of a tuning command reduces a voltage or leaves it.
LEMMA ReductionLowers ==
    ASSUME VoltsFit, NoSimulation, TypeOK, LimitsLooked, Agreement, Limiting,
           phase = "ready", ~potFailed, pc \in {"limit0", "limit1"},
           NEW p \in Pols, Reduce(p) \/ WithinLimit(p)
    PROVE  \A q \in Pols : hwDrain'[q] <= hwDrain[q] /\ hwDrain'[q] \in PotValues
<1>1. PotValues \subseteq Int /\ request \in Nat
    BY LocalOscillatorAssumption DEF TypeOK, PotValues
<1>2. MaxSafe(request, p) \in PotValues
    BY <1>1, TableTyped DEF LimitsLooked
<1>3. \A q \in Pols : hwDrain[q] \in Int /\ hwDrain[q] = last[q] /\ paPotReg[q] = hwDrain[q]
    BY <1>1, HardwareIsLast
<1>4. CASE WithinLimit(p)
    <2>1. hwDrain' = hwDrain
        BY <1>4 DEF WithinLimit, driveVars
    <2> QED BY <1>3, <2>1, HardwareIsLast
<1>5. CASE Reduce(p)
    <2>1. /\ last[p] > MaxSafe(request, p)
          /\ \/ SetPaChannel(DrainSet(p, MaxSafe(request, p)))
             \/ SetPaChannelFails(DrainSet(p, MaxSafe(request, p)))
        BY <1>5 DEF Reduce
    <2>2. \/ /\ hwDrain'[p] = PotScale(MaxSafe(request, p))
             /\ \A q \in Pols \ {p} : hwDrain'[q] = paPotReg[q]
          \/ hwDrain' = hwDrain
        BY <1>1, <1>2, <2>1, WriteArrives, WriteFails DEF Agreement
    <2>3. hwDrain'[p] \in {MaxSafe(request, p), hwDrain[p]}
        BY <1>2, <2>2, ScaleFits
    <2>4. hwDrain'[p] <= hwDrain[p] /\ hwDrain'[p] \in PotValues
        <3> DEFINE max == MaxSafe(request, p)
        <3>1. /\ max \in PotValues /\ hwDrain'[p] \in {max, hwDrain[p]}
              /\ hwDrain[p] > max /\ hwDrain[p] \in PotValues
            BY <1>2, <1>3, <2>1, <2>3, HardwareIsLast
        <3> HIDE DEF max
        <3> QED BY <3>1, LocalOscillatorAssumption DEF PotValues
    <2>5. \A q \in Pols \ {p} : hwDrain'[q] = hwDrain[q]
        BY <1>3, <2>2
    <2> QED BY <1>3, <2>4, <2>5, HardwareIsLast
<1> QED BY <1>4, <1>5

\* What each step does to the drain voltages of an initialised cartridge: only
\* a drain voltage command, allowed by the temperature, may raise one.
LEMMA DrainStep ==
    ASSUME VoltsFit, NoSimulation, TypeOK, LimitsLooked, Agreement, Limiting,
           [Next]_vars, phase = "ready", ~potFailed
    PROVE  \/ \E p \in Pols, v \in Volts :
                 /\ DriveAllowed /\ hwYto' = hwYto
                 /\ hwDrain'[p] = Limited(p, v) /\ Limited(p, v) \in PotValues
                 /\ \A q \in Pols \ {p} : hwDrain'[q] = hwDrain[q]
           \/ /\ \A q \in Pols : hwDrain'[q] <= hwDrain[q] /\ hwDrain'[q] \in PotValues
              /\ \/ hwYto' = hwYto
                 \/ pc = "tune" /\ hwYto' = request /\ hwDrain' = hwDrain
                 \/ \A q \in Pols : hwDrain'[q] = 0
<1> USE DEF tableVars, ytoVars, driveVars, commandVars
<1>1. \A q \in Pols : hwDrain[q] \in PotValues /\ hwDrain[q] <= hwDrain[q]
    BY HardwareIsLast DEF PotValues
<1>2. pc \notin InitSteps
    BY DEF Agreement
<1>3. ASSUME NEW p \in Pols, NEW v \in Volts, DrainVoltage(p, v)
      PROVE  \/ /\ DriveAllowed /\ hwYto' = hwYto
                /\ hwDrain'[p] = Limited(p, v) /\ Limited(p, v) \in PotValues
                /\ \A q \in Pols \ {p} : hwDrain'[q] = hwDrain[q]
             \/ hwDrain' = hwDrain /\ hwYto' = hwYto
    <2>1. ytoCoarseTune \in Nat
        BY LocalOscillatorAssumption DEF TypeOK
    <2>2. Limited(p, v) \in PotValues
        BY <2>1, TableTyped DEF Limited, VoltsFit
    <2>3. Limited(p, v) \in Int
        BY <2>2 DEF PotValues
    <2>4. \/ /\ hwDrain'[p] = PotScale(Limited(p, v))
             /\ \A q \in Pols \ {p} : hwDrain'[q] = paPotReg[q]
          \/ hwDrain' = hwDrain
        BY <1>3, <2>3, WriteArrives, WriteFails DEF DrainVoltage, Agreement
    <2>5. DriveAllowed /\ hwYto' = hwYto
        BY <1>3 DEF DrainVoltage
    <2> QED BY <2>2, <2>4, <2>5, ScaleFits, HardwareIsLast
<1>4. ASSUME NEW p \in Pols, NEW v \in Volts, DrainBlocked(p)
      PROVE  hwDrain' = hwDrain /\ hwYto' = hwYto
    BY <1>4 DEF DrainBlocked
<1>5. CASE GateVoltageHandler
    <2>1. hwDrain' = hwDrain /\ hwYto' = hwYto
        BY <1>5, GatesWritten, HardwareIsLast DEF GateVoltageHandler, Agreement
    <2> QED BY <1>1, <2>1
<1>6. ASSUME NEW yto \in Ytos, YtoOutOfRange(yto) \/ YtoCoarseTune(yto)
      PROVE  hwDrain' = hwDrain /\ hwYto' = hwYto
    BY <1>6 DEF YtoOutOfRange, YtoCoarseTune
<1>7. CASE LimitPol0 \/ LimitPol1
    <2>1. /\ \A q \in Pols : hwDrain'[q] <= hwDrain[q] /\ hwDrain'[q] \in PotValues
          /\ hwYto' = hwYto
        BY <1>7, ReductionLowers DEF LimitPol0, LimitPol1, Pols
    <2> QED BY <2>1
<1>8. CASE DoNotRetune \/ Retune
    <2>1. hwDrain' = hwDrain /\ (hwYto' = hwYto \/ (pc = "tune" /\ hwYto' = request))
        BY <1>8 DEF DoNotRetune, Retune, SetYtoCoarseTune, SetYtoCoarseTuneFails
    <2> QED BY <1>1, <2>1
<1>9. CASE ClearPaLimits \/ SetFeMode \/ CryostatTemps \/ LoInit
    <2>1. hwDrain' = hwDrain /\ hwYto' = hwYto
        BY <1>9 DEF ClearPaLimits, SetFeMode, CryostatTemps, LoInit
    <2> QED BY <1>1, <2>1
<1>10. ASSUME NEW pol \in EntryPols, NEW yto \in EntryYtos, NEW v \in EntryVolts,
              SetPaLimitsEntry(pol, yto, v)
       PROVE  hwDrain' = hwDrain /\ hwYto' = hwYto
    BY <1>10 DEF SetPaLimitsEntry
<1>11. CASE PowerChange
    <2>1. \A q \in Pols : hwDrain'[q] = 0
        BY <1>11 DEF PowerChange, Zero
    <2>2. 0 \in PotValues /\ \A v \in PotValues : 0 <= v
        BY LocalOscillatorAssumption DEF PotValues
    <2> QED BY <1>1, <2>1, <2>2
<1>12. CASE LoInitStep
    BY <1>2, <1>12
       DEF LoInitStep, InitSteps, LoZeroPAGateVoltage, LoZeroYtoCoarseTuning
<1>13. CASE UNCHANGED vars
    <2>1. hwDrain' = hwDrain /\ hwYto' = hwYto
        BY <1>13 DEF vars
    <2> QED BY <1>1, <2>1
<1> QED
    BY <1>1, <1>3, <1>4, <1>5, <1>6, <1>7, <1>8, <1>9, <1>10, <1>11, <1>12, <1>13
       DEF Next, YtoCoarseTuneHandler, DrainVoltageHandler

\* No write of a command takes a drain voltage from within the limit at the
\* tuning that is set to beyond it (lo.h:193).
LEMMA SafeStep ==
    ASSUME VoltsFit, NoSimulation, TypeOK, LimitsLooked, Agreement, Limiting,
           [Next]_vars, phase = "ready", ~potFailed, mode # "TROUBLESHOOTING",
           UNCHANGED <<mode, tableVars>>, NEW p \in Pols, Safe(p)
    PROVE  Safe(p)'
<1> SUFFICES ASSUME HasLimits PROVE hwDrain'[p] <= FindMaxSafeLoPaEntry(Table, hwYto')[p]
    BY DEF Safe, MaxSafe, Table, HasLimits, tableVars
<1> DEFINE Max(yto) == FindMaxSafeLoPaEntry(Table, yto)[p]
<1>1. hwYto \in Nat /\ request \in Nat /\ ytoCoarseTune = hwYto
    BY LocalOscillatorAssumption DEF TypeOK, Agreement, MemoryMatchesHardware
<1>2. \A yto \in Nat : Max(yto) \in PotValues
    BY TableTyped DEF MaxSafe
<1>3. hwDrain[p] <= Max(hwYto) /\ hwDrain[p] = last[p] /\ hwDrain[p] \in PotValues
    BY HardwareIsLast DEF Safe, MaxSafe
<1>4. pc = "tune" => last[p] <= Max(request)
    BY DEF Limiting, Within, MaxSafe
<1>5. \A v \in Volts : Limited(p, v) <= Max(hwYto)
    <2> SUFFICES ASSUME NEW v \in Volts PROVE Limited(p, v) <= Max(hwYto)
        OBVIOUS
    <2>1. Limited(p, v) = IF v > Max(hwYto) THEN Max(hwYto) ELSE v
        BY <1>1 DEF Limited, MaxSafe
    <2>2. v \in Int /\ Max(hwYto) \in Int
        BY <1>1, <1>2, LocalOscillatorAssumption DEF PotValues
    <2> HIDE DEF Max
    <2> QED BY <2>1, <2>2
<1> HIDE DEF Max
<1>6. hwDrain'[p] <= Max(hwYto')
    <2>1. CASE \E q \in Pols, v \in Volts :
                 /\ DriveAllowed /\ hwYto' = hwYto
                 /\ hwDrain'[q] = Limited(q, v) /\ Limited(q, v) \in PotValues
                 /\ \A r \in Pols \ {q} : hwDrain'[r] = hwDrain[r]
        BY <1>3, <1>5, <2>1
    <2>2. ASSUME hwDrain'[p] <= hwDrain[p], hwDrain'[p] \in PotValues, hwYto' = hwYto
          PROVE  hwDrain'[p] <= Max(hwYto')
        BY <1>1, <1>2, <1>3, <2>2 DEF PotValues
    <2>3. CASE pc = "tune" /\ hwYto' = request /\ hwDrain' = hwDrain
        BY <1>3, <1>4, <2>3
    <2>4. CASE hwDrain'[p] = 0
        <3>1. hwYto' \in Nat
            BY <1>1, LocalOscillatorAssumption, TypeStep DEF TypeOK
        <3> QED BY <1>2, <2>4, <3>1 DEF PotValues
    <2> QED BY <2>1, <2>2, <2>3, <2>4, DrainStep
<1> QED BY <1>6 DEF Max

\* The limits hold between the writes of a command too.
THEOREM DrainIsSafe ==
    ASSUME VoltsFit, NoSimulation
    PROVE  Spec => DrainStaysSafe
<1>1. TypeOK /\ LimitsLooked /\ Agreement /\ Limiting /\ [Next]_vars
      => [/\ phase = "ready" /\ ~potFailed
          /\ mode # "TROUBLESHOOTING" /\ UNCHANGED <<mode, tableVars>>
         => \A p \in Pols : Safe(p) => Safe(p)']_vars
    BY SafeStep
<1> QED
    BY <1>1, TypeInit, TypeStep, AgreementInit, AgreementStep, LimitingInit, LimitingStep, PTL
       DEF Spec, DrainStaysSafe

\* With the dewar warm no message raises a drain voltage (paChannel.c:129).
THEOREM WarmIsDown ==
    ASSUME VoltsFit, NoSimulation
    PROVE  Spec => WarmStaysDown
<1>1. TypeOK /\ LimitsLooked /\ Agreement /\ Limiting /\ [Next]_vars
      => [/\ phase = "ready" /\ ~potFailed /\ ~cold /\ ~BypassCold
          /\ mode # "TROUBLESHOOTING" /\ UNCHANGED mode
         => \A p \in Pols : hwDrain'[p] <= hwDrain[p]]_vars
    BY DrainStep DEF DriveAllowed
<1> QED
    BY <1>1, TypeInit, TypeStep, AgreementInit, AgreementStep, LimitingInit, LimitingStep, PTL
       DEF Spec, WarmStaysDown
-----------------------------------------------------------------------------
(* What a command does to the drain voltages *)

\* The writes of an initialised cartridge leave the other polarisation alone.
LEMMA OthersUntouched ==
    ASSUME TypeOK, Agreement, phase = "ready", ~potFailed, NEW p \in Pols, NEW v \in Int,
           SetPaChannel(DrainSet(p, v)) \/ SetPaChannelFails(DrainSet(p, v))
    PROVE  \A q \in Pols \ {p} : hwDrain'[q] = hwDrain[q]
<1>1. paPotReg = hwDrain /\ mode # "SIMULATION"
    BY DEF Agreement, MemoryMatchesHardware
<1> QED BY <1>1, WriteArrives, WriteFails

LEMMA OnlyAskedStep ==
    ASSUME TypeOK, LimitsLooked, Agreement, [Next]_vars, phase = "ready", ~potFailed,
           NEW p \in Pols, hwDrain'[p] # hwDrain[p]
    PROVE  \/ PowerChange
           \/ \E v \in Volts : DrainVoltage(p, v)
           \/ pc = (IF p = 0 THEN "limit0" ELSE "limit1") /\ Reduce(p)
<1> USE DEF tableVars, ytoVars, driveVars, commandVars
<1>1. ASSUME NEW q \in Pols, NEW v \in Volts, DrainVoltageHandler(q, v)
      PROVE  q = p /\ DrainVoltage(p, v)
    <2>1. DrainVoltage(q, v)
        BY <1>1 DEF DrainVoltageHandler, DrainBlocked
    <2>2. Limited(q, v) \in Int
        BY LocalOscillatorAssumption, TableTyped DEF Limited, TypeOK, PotValues
    <2>3. \A r \in Pols \ {q} : hwDrain'[r] = hwDrain[r]
        BY <2>1, <2>2, OthersUntouched DEF DrainVoltage
    <2> QED BY <2>1, <2>3
<1>2. ~GateVoltageHandler
    BY GatesWritten DEF GateVoltageHandler, Agreement, MemoryMatchesHardware
<1>3. ~(\E yto \in Ytos : YtoOutOfRange(yto) \/ YtoCoarseTune(yto))
    BY DEF YtoOutOfRange, YtoCoarseTune
<1>4. ASSUME NEW q \in Pols, pc \in {"limit0", "limit1"}, Reduce(q) \/ WithinLimit(q)
      PROVE  q = p /\ Reduce(p)
    <2>1. Reduce(q)
        BY <1>4 DEF WithinLimit
    <2>2. MaxSafe(request, q) \in Int
        BY <1>4, TableTyped, LocalOscillatorAssumption DEF TypeOK, LimitsLooked, PotValues
    <2>3. \A r \in Pols \ {q} : hwDrain'[r] = hwDrain[r]
        BY <2>1, <2>2, OthersUntouched DEF Reduce
    <2> QED BY <2>1, <2>3
<1>5. LimitPol0 => p = 0 /\ pc = "limit0" /\ Reduce(p)
    BY <1>4 DEF LimitPol0, Pols
<1>6. LimitPol1 => p = 1 /\ pc = "limit1" /\ Reduce(p)
    BY <1>4 DEF LimitPol1, Pols
<1>7. ~DoNotRetune /\ ~Retune
    BY DEF DoNotRetune, Retune
<1>8. ~ClearPaLimits /\ ~SetFeMode /\ ~CryostatTemps /\ ~LoInit
    BY DEF ClearPaLimits, SetFeMode, CryostatTemps, LoInit
<1>9. ~(\E pol \in EntryPols, yto \in EntryYtos, v \in EntryVolts : SetPaLimitsEntry(pol, yto, v))
    BY DEF SetPaLimitsEntry
<1>10. ~LoInitStep
    BY DEF Agreement, InitSteps, LoInitStep, LoZeroPAGateVoltage, LoZeroYtoCoarseTuning
<1>11. ~UNCHANGED vars
    BY DEF vars
<1> QED BY <1>1, <1>2, <1>3, <1>5, <1>6, <1>7, <1>8, <1>9, <1>10, <1>11 DEF Next, YtoCoarseTuneHandler

\* A drain voltage of an initialised cartridge changes by its own command, by a
\* tuning that reduces it, and with the power (loSerialInterface.c:223).
THEOREM OnlyAsked ==
    ASSUME NoSimulation
    PROVE  Spec => OnlyAskedChange
<1>1. TypeOK /\ LimitsLooked /\ Agreement /\ [Next]_vars
      => [phase = "ready" /\ ~potFailed =>
            \A p \in Pols : hwDrain'[p] # hwDrain[p] =>
                \/ PowerChange
                \/ \E v \in Volts : DrainVoltage(p, v)
                \/ pc = (IF p = 0 THEN "limit0" ELSE "limit1") /\ Reduce(p)]_vars
    BY OnlyAskedStep
<1> QED
    BY <1>1, TypeInit, TypeStep, AgreementInit, AgreementStep, PTL DEF Spec, OnlyAskedChange

\* A voltage is sent modulo the values of a potentiometer, which raises none.
LEMMA ScaleLowers ==
    ASSUME NEW v \in Nat
    PROVE  PotScale(v) \in PotValues /\ PotScale(v) <= v
<1>1. /\ v % POT_VALUES \in 0 .. POT_VALUES - 1
      /\ v = POT_VALUES * (v \div POT_VALUES) + (v % POT_VALUES)
      /\ v \div POT_VALUES \in Nat
    BY LocalOscillatorAssumption
<1>2. \A q \in Nat, n \in Nat \ {0} : n * q \in Nat
    OBVIOUS
<1>3. POT_VALUES * (v \div POT_VALUES) \in Nat
    BY <1>1, <1>2, LocalOscillatorAssumption
<1> DEFINE below == POT_VALUES * (v \div POT_VALUES)
           rest == v % POT_VALUES
<1>4. below \in Nat /\ rest \in Int /\ v = below + rest
    BY <1>1, <1>3
<1> HIDE DEF below, rest
<1>5. rest <= v
    BY <1>4
<1> QED BY <1>1, <1>5 DEF PotScale, PotValues, rest

LEMMA AtMost ==
    ASSUME NEW v \in Nat, NEW max \in PotValues, v <= max
    PROVE  PotScale(v) <= max
<1>1. PotScale(v) \in Int /\ max \in Int /\ PotScale(v) <= v
    BY ScaleLowers, LocalOscillatorAssumption DEF PotValues
<1> QED BY <1>1

\* No voltage remembered is negative when none is commanded.
NaturalVolts == \A p \in Pols : last[p] \in Nat

LEMMA NaturalStep ==
    ASSUME NoneNegative, TypeOK, LimitsLooked, Within, NaturalVolts, [Next]_vars
    PROVE  Within' /\ NaturalVolts'
<1>1. PotValues \subseteq Nat
    BY LocalOscillatorAssumption DEF PotValues
<1> QED BY <1>1, WithinStep DEF NoneNegative, NaturalVolts

LEMMA NaturalInit == Init => Within /\ NaturalVolts
BY DEF Init, Within, NaturalVolts, Zero

\* The limit a command looks up is the one at the tuning that is set after it.
LEMMA EndsSafe ==
    ASSUME NoneNegative, TypeOK, LimitsLooked, Agreement, Within, NaturalVolts,
           phase = "ready", ~potFailed', mode # "TROUBLESHOOTING"
    PROVE  /\ Retune /\ status' # "ERROR" => \A p \in Pols : Safe(p)'
           /\ \A p \in Pols, v \in Volts : DrainVoltage(p, v) => Safe(p)'
<1> USE DEF tableVars, ytoVars, driveVars, commandVars
<1> DEFINE Max(yto, p) == FindMaxSafeLoPaEntry(Table, yto)[p]
<1>1. ASSUME UNCHANGED tableVars, NEW p \in Pols, HasLimits => hwDrain'[p] <= Max(hwYto', p)
      PROVE  Safe(p)'
    BY <1>1 DEF Safe, MaxSafe, Table, HasLimits
<1>2. HasLimits => \A yto \in Nat, p \in Pols : Max(yto, p) \in PotValues
    BY TableTyped DEF MaxSafe
<1>3. ASSUME Retune, status' # "ERROR", NEW p \in Pols PROVE Safe(p)'
    <2>1. pc = "tune" /\ hwYto' = request /\ hwDrain' = hwDrain /\ UNCHANGED <<tableVars, potFailed>>
        BY <1>3 DEF Retune, SetYtoCoarseTune, Agreement
    <2>2. last[p] \in Nat /\ hwDrain[p] = PotScale(last[p])
        BY <2>1 DEF Agreement, MemoryMatchesHardware, NaturalVolts
    <2>3. HasLimits => last[p] <= Max(request, p) /\ Max(request, p) \in PotValues
        <3>1. request \in Nat
            BY LocalOscillatorAssumption DEF TypeOK
        <3> QED BY <1>2, <2>1, <3>1 DEF Within, MaxSafe
    <2>4. HasLimits => hwDrain[p] <= Max(request, p)
        BY <2>2, <2>3, AtMost
    <2> QED BY <1>1, <2>1, <2>4
<1>4. ASSUME NEW p \in Pols, NEW v \in Volts, DrainVoltage(p, v) PROVE Safe(p)'
    <2>1. ytoCoarseTune \in Nat /\ v \in Nat
        BY LocalOscillatorAssumption DEF TypeOK, NoneNegative
    <2>2. HasLimits => Max(ytoCoarseTune, p) \in PotValues /\ Max(ytoCoarseTune, p) \in Nat
        <3>1. PotValues \subseteq Nat
            BY LocalOscillatorAssumption DEF PotValues
        <3> QED BY <1>2, <2>1, <3>1
    <2>3. Limited(p, v) \in Nat /\ (HasLimits => Limited(p, v) <= Max(ytoCoarseTune, p))
        <3>1. Limited(p, v) = IF HasLimits /\ v > Max(ytoCoarseTune, p) THEN Max(ytoCoarseTune, p) ELSE v
            BY DEF Limited, MaxSafe
        <3> HIDE DEF Max
        <3> QED BY <2>1, <2>2, <3>1
    <2>4. hwDrain'[p] = PotScale(Limited(p, v)) /\ ~potFailed
        BY <1>4, <2>3, WriteArrives DEF DrainVoltage, Agreement, SetPaChannel, SetPaChannelFails
    <2>5. UNCHANGED tableVars /\ hwYto' = ytoCoarseTune
        BY <1>4, <2>4 DEF DrainVoltage, Agreement, MemoryMatchesHardware
    <2>6. HasLimits => hwDrain'[p] <= Max(ytoCoarseTune, p)
        BY <2>2, <2>3, <2>4, AtMost
    <2> QED BY <1>1, <2>5, <2>6
<1> QED BY <1>3, <1>4

\* A tuning and a drain voltage command leave what they set within the limits,
\* whatever it was before (yto.c:86, paChannel.c:187).
THEOREM EndSafe ==
    ASSUME NoneNegative, NoSimulation
    PROVE  Spec => CommandsEndSafe
<1>1. TypeOK /\ LimitsLooked /\ Agreement /\ Within /\ NaturalVolts
      => [phase = "ready" /\ ~potFailed' /\ mode # "TROUBLESHOOTING" =>
            /\ Retune /\ status' # "ERROR" => \A p \in Pols : Safe(p)'
            /\ \A p \in Pols, v \in Volts : DrainVoltage(p, v) => Safe(p)']_vars
    BY EndsSafe
<1> QED
    BY <1>1, TypeInit, TypeStep, AgreementInit, AgreementStep, NaturalInit, NaturalStep, PTL
       DEF Spec, CommandsEndSafe

-----------------------------------------------------------------------------
(* The limit found is the one the table means *)

\* A whole number of divisors goes through a division.
LEMMA DivShift ==
    ASSUME NEW d \in Nat \ {0}, NEW x \in Int, NEW k \in Int
    PROVE  (k * d + x) \div d = k + x \div d
<1> DEFINE q == x \div d
           r == (k * d + x) \div d - k
<1>1. k * d \in Int /\ k * d + x \in Int
    OBVIOUS
<1>2. q \in Int /\ q * d <= x /\ x < q * d + d
    BY Z3
<1>3. \A y \in Int : y \div d \in Int /\ (y \div d) * d <= y /\ y < (y \div d) * d + d
    BY Z3
<1>4. r \in Int /\ (r + k) * d <= k * d + x /\ k * d + x < (r + k) * d + d
    BY <1>1, <1>3
<1> HIDE DEF q, r
<1>5. (r + k) * d = r * d + k * d
    BY <1>4
<1>6. r * d <= x /\ x < r * d + d
    BY <1>1, <1>4, <1>5
<1>7. ~(q + 1 <= r)
    <2> SUFFICES ASSUME q + 1 <= r PROVE FALSE
        OBVIOUS
    <2>1. (q + 1) * d <= r * d
        BY <1>2, <1>4
    <2> QED BY <1>2, <1>4, <1>6, <2>1
<1>8. ~(r + 1 <= q)
    <2> SUFFICES ASSUME r + 1 <= q PROVE FALSE
        OBVIOUS
    <2>1. (r + 1) * d <= q * d
        BY <1>2, <1>4
    <2> QED BY <1>2, <1>4, <1>6, <2>1
<1>9. r = q
    BY <1>2, <1>4, <1>7, <1>8
<1> QED BY <1>1, <1>3, <1>9 DEF q, r

Increasing(table) ==
    \A i, j \in 1 .. Len(table) : i < j => table[i].ytoEndpoint < table[j].ytoEndpoint

\* In an increasing table the scan stops where a and b, the neighbours of the
\* tuning, meet, and the two formulas of the line between them agree.
LEMMA FindsMeaning ==
    ASSUME NEW table \in Seq(Entries), table # <<>>, Increasing(table),
           NEW yto \in Nat, NEW p \in Pols
    PROVE  FindMaxSafeLoPaEntry(table, yto)[p] = SafeAt(table, yto, p)
<1> DEFINE n == Len(table)
           Y(i) == table[i].ytoEndpoint
           V(i) == table[i].maxVD[p]
           below == {i \in DOMAIN table : Y(i) <= yto}
           above == {i \in DOMAIN table : Y(i) >= yto}
           Nearest(i) == \A j \in below : Y(j) <= Y(i)
           NearestAbove(i) == \A j \in above : Y(i) <= Y(j)
           a == CHOOSE i \in below : Nearest(i)
           b == CHOOSE i \in above : NearestAbove(i)
<1>1. n \in Nat \ {0} /\ DOMAIN table = 1 .. n /\ \A i \in 1 .. n : table[i] \in Entries
    BY EmptySeq, SeqDef
<1>2. \A i \in 1 .. n : Y(i) \in Nat /\ V(i) \in Int
    BY <1>1, LocalOscillatorAssumption DEF Entries
<1>3. \A i, j \in 1 .. n : (i < j => Y(i) < Y(j)) /\ (Y(i) = Y(j) => i = j)
    <2>1. \A i, j \in 1 .. n : i < j => Y(i) < Y(j)
        BY DEF Increasing
    <2> QED BY <1>2, <2>1
<1>4. SafeAt(table, yto, p) =
        IF below = {} THEN V(b)
        ELSE IF above = {} \/ Y(a) = Y(b) THEN V(a)
        ELSE (V(a) * (Y(b) - yto) + V(b) * (yto - Y(a))) \div (Y(b) - Y(a))
    BY DEF SafeAt
<1>5. ASSUME NEW i \in below, Nearest(i) PROVE a = i
    <2>1. a \in below /\ Nearest(a)
        BY <1>5
    <2> QED BY <1>1, <1>2, <1>3, <1>5, <2>1
<1>6. ASSUME NEW i \in above, NearestAbove(i) PROVE b = i
    <2>1. b \in above /\ NearestAbove(b)
        BY <1>6
    <2> QED BY <1>1, <1>2, <1>3, <1>6, <2>1
<1> HIDE DEF a, b
<1>7. ASSUME NEW k \in 1 .. n, Y(k) = yto
      PROVE  SafeAt(table, yto, p) = V(k)
    <2>1. k \in below /\ Nearest(k) /\ k \in above /\ NearestAbove(k)
        BY <1>1, <1>2, <1>7
    <2>2. a = k /\ b = k
        BY <1>5, <1>6, <2>1
    <2> QED BY <1>4, <2>1, <2>2
<1>8. CASE yto < Y(1)
    <2>1. \A i \in 1 .. n : Y(1) <= Y(i)
        BY <1>1, <1>2, <1>3
    <2>2. below = {}
        BY <1>1, <1>2, <1>8, <2>1
    <2>3. 1 \in above /\ NearestAbove(1)
        BY <1>1, <1>2, <1>8, <2>1
    <2>4. b = 1
        BY <1>6, <2>3
    <2>5. FindMaxSafeLoPaEntry(table, yto) = table[1].maxVD
        BY <1>1, <1>2, <1>8 DEF FindMaxSafeLoPaEntry
    <2> QED BY <1>4, <2>2, <2>4, <2>5
<1>9. CASE yto = Y(1)
    <2>1. FindMaxSafeLoPaEntry(table, yto) = table[1].maxVD
        BY <1>1, <1>2, <1>9 DEF FindMaxSafeLoPaEntry
    <2> QED BY <1>1, <1>7, <1>9, <2>1
<1>10. CASE yto > Y(1) /\ yto >= Y(n)
    <2>1. \A i \in 1 .. n : Y(i) <= Y(n)
        BY <1>1, <1>2, <1>3
    <2>2. FindMaxSafeLoPaEntry(table, yto)[p] = V(n)
        BY <1>1, <1>2, <1>10 DEF FindMaxSafeLoPaEntry
    <2>3. CASE yto = Y(n)
        BY <1>1, <1>7, <2>2, <2>3
    <2>4. CASE yto > Y(n)
        <3>1. above = {} /\ n \in below /\ Nearest(n)
            BY <1>1, <1>2, <2>1, <2>4
        <3>2. a = n
            BY <1>5, <3>1
        <3> QED BY <1>4, <2>2, <3>1, <3>2
    <2> QED BY <1>1, <1>2, <1>10, <2>3, <2>4
<1>11. CASE yto > Y(1) /\ yto < Y(n)
    <2> DEFINE First(i) == StopsAt(table, yto, i) /\ \A j \in 2 .. i - 1 : ~StopsAt(table, yto, j)
               i == CHOOSE i \in 2 .. n : First(i)
    <2>1. n # 1 /\ ~(yto <= Y(1)) /\ ~(yto >= Y(n))
        BY <1>1, <1>2, <1>11
    <2>2. FindMaxSafeLoPaEntry(table, yto) =
            IF yto = Y(i) THEN table[i].maxVD
            ELSE [q \in Pols |-> Interpolate(table[i - 1], table[i], yto, q)]
        BY <2>1 DEF FindMaxSafeLoPaEntry
    <2>3. \E k \in 2 .. n : First(k)
        BY <1>1, <1>2, <2>1, ScanStops
    <2>4. i \in 2 .. n /\ StopsAt(table, yto, i)
        BY <2>3
    <2> HIDE DEF i
    <2>5. i \in 1 .. n /\ i - 1 \in 1 .. n
        BY <1>1, <2>4
    <2>6. CASE yto = Y(i)
        BY <1>7, <2>2, <2>5, <2>6
    <2>7. CASE yto # Y(i)
        <3>1. Y(i - 1) < yto /\ yto < Y(i)
            BY <2>4, <2>7 DEF StopsAt
        <3>2. \A j \in 1 .. n : (j <= i - 1 /\ Y(j) <= Y(i - 1)) \/ (i <= j /\ Y(i) <= Y(j))
            BY <1>1, <1>2, <1>3, <2>5
        <3>3. i - 1 \in below /\ Nearest(i - 1) /\ i \in above /\ NearestAbove(i)
            BY <1>1, <1>2, <2>5, <3>1, <3>2
        <3>4. a = i - 1 /\ b = i
            BY <1>5, <1>6, <3>3
        <3> DEFINE d == Y(i) - Y(i - 1)
                   t == yto - Y(i - 1)
                   va == V(i - 1)
                   vb == V(i)
        <3>5. d \in Nat \ {0} /\ t \in Int /\ va \in Int /\ vb \in Int /\ Y(i) - yto = d - t
            BY <1>2, <2>5, <3>1
        <3>6. SafeAt(table, yto, p) = (va * (d - t) + vb * t) \div d
            <4>1. below # {} /\ above # {} /\ Y(a) # Y(b)
                BY <1>2, <2>5, <3>1, <3>3, <3>4
            <4>2. SafeAt(table, yto, p) =
                    (V(a) * (Y(b) - yto) + V(b) * (yto - Y(a))) \div (Y(b) - Y(a))
                BY <1>4, <4>1
            <4> HIDE DEF below, above, Y, V
            <4> QED BY <3>4, <3>5, <4>2
        <3>7. FindMaxSafeLoPaEntry(table, yto)[p] = va + (t * (vb - va)) \div d
            BY <2>2, <2>7 DEF Interpolate
        <3> HIDE DEF d, t, va, vb
        <3>8. va * (d - t) + vb * t = va * d + t * (vb - va) /\ t * (vb - va) \in Int
            BY <3>5
        <3>9. (va * d + t * (vb - va)) \div d = va + (t * (vb - va)) \div d
            BY <3>5, <3>8, DivShift
        <3> QED BY <3>6, <3>7, <3>8, <3>9
    <2> QED BY <2>6, <2>7
<1> QED BY <1>1, <1>2, <1>8, <1>9, <1>10, <1>11

\* The tunings of the entries in use are in order, whatever lies behind them.
Sorted ==
    \A i, j \in 1 .. size : i < j => memory[i].ytoEndpoint < memory[j].ytoEndpoint

\* An entry that is accepted has the tuning of the last one, which it replaces,
\* or a higher one, behind which it goes.
LEMMA EntryKeepsOrder ==
    ASSUME TypeOK, Sorted, NEW pol \in EntryPols, NEW yto \in EntryYtos, NEW v \in EntryVolts,
           SetPaLimitsEntry(pol, yto, v)
    PROVE  Sorted'
<1> DEFINE n == SlotFor(memory, size, yto)
           old == IF n = size THEN memory[n] ELSE NextSlot(memory, size)
           k == IF n > Len(memory) THEN n ELSE Len(memory)
           e == AssignPaLimitsEntry(old, pol, yto, v)
<1>1. size \in Nat /\ size <= Len(memory) /\ memory \in Seq(Entries) /\ size < TABLE_SIZES
      /\ Len(memory) \in Nat
    BY PaLimitsAssumption, LenProperties DEF TypeOK
<1>2. yto \in Nat
    BY LocalOscillatorAssumption
<1>3. \A i \in 1 .. size : memory[i].ytoEndpoint \in Nat
    <2>1. \A i \in 1 .. Len(memory) : memory[i] \in Entries
        BY <1>1, ElementOfSeq
    <2> QED BY <1>1, <2>1 DEF Entries
<1>4. n \in {size, size + 1} /\ n \in 1 .. k /\ k \in Nat /\ k >= size
    BY <1>1 DEF SlotFor
<1>5. e.ytoEndpoint = yto
    BY DEF AssignPaLimitsEntry, Entry
<1>6. memory' = [i \in 1 .. k |-> IF i = n THEN e ELSE memory[i]]
    BY DEF SetPaLimitsEntry, LoAddPaLimitsEntry, WithSlot
<1>7. size' \in {0, n}
    <2>1. size' = IF n = size THEN size ELSE (size + 1) % TABLE_SIZES
        BY DEF SetPaLimitsEntry, SizeAfter
    <2>2. (size + 1) % TABLE_SIZES = IF size + 1 = TABLE_SIZES THEN 0 ELSE size + 1
        BY <1>1, PaLimitsAssumption
    <2> QED BY <1>4, <2>1, <2>2
<1>8. size # 0 => /\ n = size => yto = memory[size].ytoEndpoint
                  /\ n # size => yto > memory[size].ytoEndpoint
    BY <1>1, <1>2, <1>3 DEF SetPaLimitsEntry, OutOfOrder, SlotFor
<1>9. ASSUME NEW i \in 1 .. n, i < n
      PROVE  i \in 1 .. size /\ memory'[i] = memory[i] /\ memory[i].ytoEndpoint < yto
    <2> HIDE DEF k, n, e
    <2>1. i \in 1 .. size /\ i \in 1 .. k /\ i # n
        BY <1>1, <1>4, <1>9
    <2>2. memory'[i] = memory[i]
        BY <1>6, <2>1
    <2>3. i = size \/ memory[i].ytoEndpoint < memory[size].ytoEndpoint
        BY <1>1, <2>1 DEF Sorted
    <2> QED BY <1>1, <1>2, <1>3, <1>4, <1>8, <1>9, <2>1, <2>2, <2>3
<1> HIDE DEF k, n, e
<1>10. memory'[n] = e
    BY <1>4, <1>6
<1>11. ASSUME size' = n, NEW i \in 1 .. n, NEW j \in 1 .. n, i < j
       PROVE  memory'[i].ytoEndpoint < memory'[j].ytoEndpoint
    <2>1. i < n
        BY <1>1, <1>4, <1>11
    <2>2. CASE j = n
        BY <1>5, <1>9, <1>10, <2>1, <2>2
    <2>3. CASE j # n
        <3>1. j < n
            BY <1>1, <1>4, <2>3
        <3> QED BY <1>9, <1>11, <2>1, <3>1 DEF Sorted
    <2> QED BY <2>2, <2>3
<1> QED BY <1>7, <1>11 DEF Sorted

\* The table changes by entries and as a whole, and by nothing else.
LEMMA SortedStep ==
    ASSUME TypeOK, Sorted, [Next]_vars
    PROVE  Sorted'
<1>1. ASSUME UNCHANGED tableVars PROVE Sorted'
    BY <1>1 DEF Sorted, tableVars
<1>2. CASE ClearPaLimits
    BY <1>2 DEF ClearPaLimits, Sorted
<1>3. ASSUME NEW pol \in EntryPols, NEW yto \in EntryYtos, NEW v \in EntryVolts,
             SetPaLimitsEntry(pol, yto, v)
      PROVE  Sorted'
    BY <1>3, EntryKeepsOrder
<1>4. CASE \E p \in Pols, v \in Volts : DrainVoltageHandler(p, v)
    BY <1>1, <1>4 DEF DrainVoltageHandler, DrainBlocked, DrainVoltage
<1>5. CASE GateVoltageHandler
    BY <1>1, <1>5 DEF GateVoltageHandler
<1>6. CASE YtoCoarseTuneHandler
    BY <1>1, <1>6 DEF YtoCoarseTuneHandler, YtoOutOfRange, YtoCoarseTune, LimitPol0,
                      LimitPol1, DoNotRetune, Retune
<1>7. CASE SetFeMode \/ CryostatTemps \/ PowerChange \/ LoInit
    BY <1>1, <1>7 DEF SetFeMode, CryostatTemps, PowerChange, LoInit
<1>8. CASE LoInitStep
    BY <1>1, <1>8 DEF LoInitStep, LoZeroPaDrainVoltage, LoZeroPAGateVoltage,
                      LoZeroYtoCoarseTuning
<1>9. CASE UNCHANGED vars
    BY <1>1, <1>9 DEF vars, tableVars
<1> QED BY <1>2, <1>3, <1>4, <1>5, <1>6, <1>7, <1>8, <1>9 DEF Next

\* However a table was sent, of any length, the limit found at any tuning is
\* the one it means.
THEOREM TableCorrect == Spec => []FindsWhatTableMeans
<1>1. Init => Sorted
    BY DEF Init, Sorted
<1>2. TypeOK /\ Sorted /\ [Next]_vars => Sorted'
    BY SortedStep
<1>3. TypeOK /\ Sorted => FindsWhatTableMeans
    <2> SUFFICES ASSUME TypeOK, Sorted, HasLimits, NEW yto \in Ytos, NEW p \in Pols
                 PROVE  MaxSafe(yto, p) = SafeAt(Table, yto, p)
        BY DEF FindsWhatTableMeans
    <2>1. size \in Nat /\ size <= Len(memory) /\ memory \in Seq(Entries)
        BY PaLimitsAssumption DEF TypeOK
    <2>2. \A i \in 1 .. size : memory[i] \in Entries
        BY <2>1, ElementOfSeq
    <2>3. /\ Table \in Seq(Entries) /\ Len(Table) = size
          /\ \A i \in 1 .. size : Table[i] = memory[i]
        BY <2>1, <2>2, SubSeqProperties DEF Table
    <2>4. Table # <<>> /\ Increasing(Table) /\ yto \in Nat
        BY <2>3, EmptySeq, LocalOscillatorAssumption DEF HasLimits, Sorted, Increasing
    <2> QED BY <2>3, <2>4, FindsMeaning DEF MaxSafe
<1> QED BY <1>1, <1>2, <1>3, TypeCorrect, PTL DEF Spec
=============================================================================
