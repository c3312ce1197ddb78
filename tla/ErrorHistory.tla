---------------------------- MODULE ErrorHistory ----------------------------
(***************************************************************************)
(* The error history: the circular buffer in which every part of the       *)
(* firmware leaves its errors (error.c), and the two monitor requests with *)
(* which the bus reads them (can.c).                                       *)
(*                                                                         *)
(* The indices are unsigned char and wrap at 256; the array allocated has  *)
(* 255 slots. A store at the last index is outside the array: the memory   *)
(* there may keep the error or may be in use for something else.           *)
(***************************************************************************)
EXTENDS Integers, Sequences

CONSTANTS
    ERROR_HISTORY_LENGTH,       \* slots allocated, 255
    Errors,                     \* error words: module in the high byte
    Spoiled                     \* what else is found past the array

\* errorNoErrorHistory, the error reported without memory for a history.
NO_MEMORY == 1
\* The answer when no error is unread.
NOTHING_UNREAD == 65535

ASSUME ErrorHistoryAssumption ==
    /\ ERROR_HISTORY_LENGTH \in 1 .. 255
    /\ Errors \subseteq 1 .. NOTHING_UNREAD - 1
    /\ Spoiled \subseteq 0 .. NOTHING_UNREAD

VARIABLES
    errorOn,            \* the history was allocated
    errorNewest,        \* where the next error goes
    errorOldest,        \* where the oldest unread error is
    errorHistory,
    reply,              \* the word last sent to the bus
    promised            \* history: reads the number last sent has promised

vars == <<errorOn, errorNewest, errorOldest, errorHistory, reply, promised>>

\* The values of an unsigned char: one more than the array has slots.
Indices == 0 .. ERROR_HISTORY_LENGTH
Words == 0 .. NOTHING_UNREAD

\* Increment of an unsigned char. Mutated form: wraps with the array.
IncrementedMutant(i) == IF i = ERROR_HISTORY_LENGTH - 1 THEN 0 ELSE i + 1

Incremented(i) == IF i = ERROR_HISTORY_LENGTH THEN 0 ELSE i + 1

\* error.c: errorInit
ErrorInit ==
    /\ errorOn \in BOOLEAN
    /\ errorHistory = [i \in Indices |-> NO_MEMORY]
    /\ errorOldest = 0
    /\ errorNewest = IF errorOn THEN 0 ELSE 1

\* What is found where e was stored at index i.
Stored(i, e) == IF i < ERROR_HISTORY_LENGTH THEN {e} ELSE {e} \cup Spoiled

\* error.c: storeError, called from every part of the main thread. Mutated
\* form: the oldest error is not given up.
StoreErrorMutant(e) ==
    /\ errorOn
    /\ \E word \in Stored(errorNewest, e) :
         errorHistory' = [errorHistory EXCEPT ![errorNewest] = word]
    /\ errorNewest' = Incremented(errorNewest)
    /\ UNCHANGED <<errorOn, errorOldest, reply, promised>>

StoreError(e) ==
    /\ errorOn
    /\ \E word \in Stored(errorNewest, e) :
         errorHistory' = [errorHistory EXCEPT ![errorNewest] = word]
    /\ errorNewest' = Incremented(errorNewest)
    /\ errorOldest' = IF errorNewest' = errorOldest THEN Incremented(errorOldest)
                                                    ELSE errorOldest
    /\ UNCHANGED <<errorOn, reply, promised>>

\* can.c: GET_ERRORS_NUMBER
ErrorsNumber ==
    IF errorNewest >= errorOldest
    THEN errorNewest - errorOldest
    ELSE ERROR_HISTORY_LENGTH - (errorOldest - errorNewest) + 1

GetErrorsNumber ==
    /\ reply' = ErrorsNumber
    /\ promised' = ErrorsNumber
    /\ UNCHANGED <<errorOn, errorNewest, errorOldest, errorHistory>>

\* can.c: GET_NEXT_ERROR
GetNextError ==
    /\ IF errorNewest = errorOldest
       THEN reply' = NOTHING_UNREAD /\ UNCHANGED errorOldest
       ELSE /\ reply' = errorHistory[errorOldest]
            /\ errorOldest' = Incremented(errorOldest)
    /\ promised' = IF promised = 0 THEN 0 ELSE promised - 1
    /\ UNCHANGED <<errorOn, errorNewest, errorHistory>>

Init == ErrorInit /\ reply = 0 /\ promised = 0

Next == (\E e \in Errors : StoreError(e)) \/ GetErrorsNumber \/ GetNextError

Spec == Init /\ [][Next]_vars

-----------------------------------------------------------------------------
\* Every variable stays in its range.
TypeOK ==
    /\ errorOn \in BOOLEAN
    /\ errorNewest \in Indices /\ errorOldest \in Indices
    /\ errorHistory \in [Indices -> Words]
    /\ reply \in Words
    /\ promised \in 0 .. ERROR_HISTORY_LENGTH

\* The errors between the two indices.
UnreadNumber == IF errorNewest >= errorOldest
                THEN errorNewest - errorOldest
                ELSE errorNewest + ERROR_HISTORY_LENGTH + 1 - errorOldest
Slot(i) == IF errorOldest + i - 1 <= ERROR_HISTORY_LENGTH
           THEN errorOldest + i - 1
           ELSE errorOldest + i - 2 - ERROR_HISTORY_LENGTH
Unread == [i \in 1 .. UnreadNumber |-> errorHistory[Slot(i)]]

Queue == INSTANCE ErrorQueue WITH
    Capacity <- ERROR_HISTORY_LENGTH,
    NoMemory <- NO_MEMORY,
    NothingUnread <- NOTHING_UNREAD,
    on <- errorOn,
    unread <- Unread

\* The history keeps the promise of ErrorQueue (error.c:108) if nothing else
\* uses the memory past the array.
KeepsQueue == Queue!Spec

\* A reader that was told n errors are unread can read n errors, whatever is
\* stored, and given up for it, in the meantime (can.c:444).
NumberIsPromise == promised <= UnreadNumber

\* error.c:108 "enough space in memory for the circular buffer containing the
\* latest 255 errors": no error is stored outside the space allocated.
\* Broken with any length: the index wraps with its type, behind the last slot.
StoresInsideHistory == errorOn => errorNewest < ERROR_HISTORY_LENGTH
=============================================================================
