------------------------------ MODULE PaLimits ------------------------------
(***************************************************************************)
(* The table of the drain voltages that are safe for the power amplifiers  *)
(* of a local oscillator, by the tuning of its YIG oscillator (lo.c).      *)
(*                                                                         *)
(* Voltages are in steps of the potentiometer that sets them, 1/102 V. An  *)
(* interpolated limit is rounded down to a step: the potentiometer is set  *)
(* to nothing finer, and a voltage of whole steps is above the one exactly *)
(* when it is above the other.                                             *)
(***************************************************************************)
EXTENDS Integers, Sequences

CONSTANTS TABLE_SIZES       \* values of the unsigned char that holds the size

ASSUME PaLimitsAssumption == TABLE_SIZES \in Nat \ {0}

Pols == {0, 1}
BothPols == 2

Entry(yto, max) == [ytoEndpoint |-> yto, maxVD |-> max]
Fresh == Entry(0, [p \in Pols |-> 0])

\* assignPaLimitsEntry: an entry for one polarisation keeps the other's limit.
AssignPaLimitsEntry(entry, pol, yto, max) ==
    Entry(yto, [p \in Pols |-> IF pol \in {p, BothPols} THEN max ELSE entry.maxVD[p]])

\* The slot behind the last entry: memory used before, or just allocated.
NextSlot(memory, size) == IF size < Len(memory) THEN memory[size + 1] ELSE Fresh

\* Slot n, one of those allocated, is overwritten.
WithSlot(memory, n, entry) ==
    [i \in 1 .. (IF n > Len(memory) THEN n ELSE Len(memory)) |->
        IF i = n THEN entry ELSE memory[i]]

\* The part of loAddPaLimitsEntry that refuses a tuning below the last one.
OutOfOrder(memory, size, yto) == size # 0 /\ yto < memory[size].ytoEndpoint

\* The slot an accepted entry is written to, and the size after it. The mutated
\* form writes behind the last entry although that one has the same tuning.
SlotForMutant(memory, size, yto) == size + 1

SlotFor(memory, size, yto) ==
    IF size # 0 /\ yto = memory[size].ytoEndpoint THEN size ELSE size + 1

SizeAfter(memory, size, yto) ==
    IF SlotFor(memory, size, yto) = size THEN size ELSE (size + 1) % TABLE_SIZES

LoAddPaLimitsEntry(memory, size, pol, yto, max) ==
    LET n == SlotFor(memory, size, yto)
        old == IF n = size THEN memory[n] ELSE NextSlot(memory, size)
    IN  WithSlot(memory, n, AssignPaLimitsEntry(old, pol, yto, max))

-----------------------------------------------------------------------------
\* Between two entries the limits are interpolated.
Interpolate(a, b, yto, p) ==
    a.maxVD[p] + ((yto - a.ytoEndpoint) * (b.maxVD[p] - a.maxVD[p]))
                    \div (b.ytoEndpoint - a.ytoEndpoint)

\* Where the loop of findMaxSafeLoPaEntry stops.
StopsAt(table, yto, i) ==
    \/ yto = table[i].ytoEndpoint
    \/ table[i - 1].ytoEndpoint < yto /\ yto < table[i].ytoEndpoint

\* findMaxSafeLoPaEntry, for a table that is not empty: the limits at a tuning.
FindMaxSafeLoPaEntry(table, yto) ==
    LET n == Len(table) IN
    IF n = 1 \/ yto <= table[1].ytoEndpoint THEN table[1].maxVD
    ELSE IF yto >= table[n].ytoEndpoint THEN table[n].maxVD
    ELSE LET i == CHOOSE i \in 2 .. n : /\ StopsAt(table, yto, i)
                                        /\ \A j \in 2 .. i - 1 : ~StopsAt(table, yto, j)
         IN  IF yto = table[i].ytoEndpoint THEN table[i].maxVD
             ELSE [p \in Pols |-> Interpolate(table[i - 1], table[i], yto, p)]

-----------------------------------------------------------------------------
\* What the table means: the straight line between the nearest entry at or
\* below a tuning and the nearest at or above it, and level outside of them.
SafeAt(table, yto, p) ==
    LET below == {i \in DOMAIN table : table[i].ytoEndpoint <= yto}
        above == {i \in DOMAIN table : table[i].ytoEndpoint >= yto}
        a == CHOOSE i \in below : \A j \in below : table[j].ytoEndpoint <= table[i].ytoEndpoint
        b == CHOOSE i \in above : \A j \in above : table[i].ytoEndpoint <= table[j].ytoEndpoint
    IN  IF below = {} THEN table[b].maxVD[p]
        ELSE IF above = {} \/ table[a].ytoEndpoint = table[b].ytoEndpoint
        THEN table[a].maxVD[p]
        ELSE (table[a].maxVD[p] * (table[b].ytoEndpoint - yto)
                + table[b].maxVD[p] * (yto - table[a].ytoEndpoint))
             \div (table[b].ytoEndpoint - table[a].ytoEndpoint)
=============================================================================
