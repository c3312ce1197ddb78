------------------------- MODULE MCLocalOscillator -------------------------
(***************************************************************************)
(* What comments of the source say of the drain voltages, as properties of *)
(* LocalOscillator that its behaviours break, each with the constants that *)
(* break it.                                                               *)
(***************************************************************************)
EXTENDS LocalOscillator

\* lo.c:117 "Set the PA's drain voltage to 0. The mapping from channel to
\* actual polarization is not relevant since we are zeroing all of them": no
\* write of loInit raises a drain voltage.
\* Broken with any drain voltage that is commanded: the shadow register outlives
\* the power of the cartridge, and the first write sends the other polarization
\* what it was before.
InitOnlyLowers ==
    [][phase = "on" /\ pc \in {"zero0", "zero1", "zeroGates", "zeroYto"}
        => \A p \in Pols : hwDrain'[p] <= hwDrain[p]]_vars

\* lo.c:811 "Prior to YTO tuning ..., send commands to reduce the LO PA drain
\* voltages to the limits": when the tuning asked for is set and no write
\* of the command failed, both are within them.
\* Broken with Faults = {"pot"}: a write that fails is remembered as done
\* (lo.c:862), and the next tuning is not held up.
TunedWithinLimits ==
    [][/\ phase = "ready" /\ mode # "TROUBLESHOOTING"
       /\ pc = "tune" /\ ret # "ERROR" /\ hwYto' = request
      => \A p \in Pols : Safe(p)']_vars

\* lo.h "Maximum number of entries allowed": an entry that is accepted does
\* not make the table forget the ones before.
\* Broken with TABLE_SIZES = 2: the size, an unsigned char, wraps (lo.c:627).
EntryIsKept == [][memory' # <<>> => size' >= size]_tableVars
=============================================================================
