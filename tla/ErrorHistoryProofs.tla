------------------------- MODULE ErrorHistoryProofs -------------------------
(***************************************************************************)
(* Proofs about ErrorHistory, for every length of the array.               *)
(***************************************************************************)
EXTENDS ErrorHistory, TLAPS

USE DEF NO_MEMORY, Words, Indices

\* All the proofs need of the number 65535.
LEMMA Bounds ==
    /\ ERROR_HISTORY_LENGTH \in Nat /\ ERROR_HISTORY_LENGTH >= 1
    /\ NOTHING_UNREAD \in Nat /\ NOTHING_UNREAD > ERROR_HISTORY_LENGTH
<1>1. NOTHING_UNREAD \in Nat /\ NOTHING_UNREAD > 255
    BY SMT DEF NOTHING_UNREAD
<1>2. ERROR_HISTORY_LENGTH \in 1 .. 255
    BY ErrorHistoryAssumption
<1> QED BY <1>1, <1>2

\* Without a history nothing is stored: the one error is unread, or read.
ErrorsOff == ~errorOn => errorNewest = 1 /\ errorOldest \in {0, 1}

LEMMA TypeInit == Init => TypeOK /\ ErrorsOff
<1> SUFFICES ASSUME Init PROVE TypeOK /\ ErrorsOff
    OBVIOUS
<1>1. /\ errorOldest \in Indices /\ errorNewest \in Indices /\ reply \in Words
      /\ promised \in 0 .. ERROR_HISTORY_LENGTH
    BY ErrorHistoryAssumption, Bounds DEF Init, ErrorInit
<1>2. errorHistory \in [Indices -> Words]
    BY ErrorHistoryAssumption, Bounds DEF Init, ErrorInit
<1> QED BY <1>1, <1>2 DEF Init, ErrorInit, TypeOK, ErrorsOff

\* The number of unread errors, as the request computes it and as it is.
LEMMA NumberOfUnread ==
    ASSUME TypeOK
    PROVE  /\ ErrorsNumber = UnreadNumber
           /\ UnreadNumber \in 0 .. ERROR_HISTORY_LENGTH
           /\ UnreadNumber = 0 <=> errorNewest = errorOldest
BY Bounds DEF TypeOK, ErrorsNumber, UnreadNumber

LEMMA IncrementedIndex ==
    ASSUME NEW i \in Indices
    PROVE  Incremented(i) \in Indices /\ Incremented(i) # i
BY Bounds DEF Incremented

LEMMA StoredWord ==
    ASSUME NEW i, NEW e \in Errors, NEW word \in Stored(i, e)
    PROVE  word \in Words
BY ErrorHistoryAssumption, Bounds DEF Stored

LEMMA TypeNext == TypeOK /\ ErrorsOff /\ [Next]_vars => TypeOK' /\ ErrorsOff'
<1> SUFFICES ASSUME TypeOK, ErrorsOff, [Next]_vars PROVE TypeOK' /\ ErrorsOff'
    OBVIOUS
<1>1. ASSUME NEW e \in Errors, StoreError(e) PROVE TypeOK' /\ ErrorsOff'
    <2>1. errorHistory' \in [Indices -> Words]
        BY <1>1, StoredWord DEF StoreError, TypeOK
    <2>2. errorNewest' \in Indices /\ errorOldest' \in Indices
        BY <1>1, IncrementedIndex DEF StoreError, TypeOK
    <2> QED BY <1>1, <2>1, <2>2 DEF StoreError, TypeOK, ErrorsOff
<1>2. CASE GetErrorsNumber
    <2>1. reply' \in Words /\ promised' \in 0 .. ERROR_HISTORY_LENGTH
        BY <1>2, NumberOfUnread, ErrorHistoryAssumption, Bounds DEF GetErrorsNumber
    <2> QED BY <1>2, <2>1 DEF GetErrorsNumber, TypeOK, ErrorsOff
<1>3. CASE GetNextError
    <2>1. reply' \in Words /\ errorOldest' \in Indices
        <3>1. CASE errorNewest = errorOldest
            BY <1>3, <3>1, Bounds DEF GetNextError, TypeOK
        <3>2. CASE errorNewest # errorOldest
            BY <1>3, <3>2, IncrementedIndex DEF GetNextError, TypeOK
        <3> QED BY <3>1, <3>2
    <2>2. promised' \in 0 .. ERROR_HISTORY_LENGTH
        BY <1>3, Bounds DEF GetNextError, TypeOK
    <2>3. ~errorOn => errorOldest' \in {0, 1}
        BY <1>3, Bounds DEF GetNextError, TypeOK, ErrorsOff, Incremented
    <2> QED BY <1>3, <2>1, <2>2, <2>3 DEF GetNextError, TypeOK, ErrorsOff
<1>4. CASE UNCHANGED vars
    BY <1>4 DEF vars, TypeOK, ErrorsOff
<1> QED BY <1>1, <1>2, <1>3, <1>4 DEF Next

\* The indices stay inside the byte and the words inside the slots: TypeOK
\* (error.c:200-222, can.c:439-464).
THEOREM TypeCorrect == Spec => []TypeOK
BY TypeInit, TypeNext, PTL DEF Spec

-----------------------------------------------------------------------------
(* What each operation does to the number of unread errors.                *)

LEMMA StoreNumber ==
    ASSUME TypeOK, TypeOK', NEW e \in Errors, StoreError(e)
    PROVE  UnreadNumber' = IF UnreadNumber < ERROR_HISTORY_LENGTH
                           THEN UnreadNumber + 1 ELSE UnreadNumber
BY Bounds DEF TypeOK, StoreError, UnreadNumber, Incremented

LEMMA ReadNumber ==
    ASSUME TypeOK, TypeOK', GetNextError
    PROVE  UnreadNumber' = IF UnreadNumber = 0 THEN 0 ELSE UnreadNumber - 1
<1>1. CASE errorNewest = errorOldest
    BY <1>1, Bounds DEF TypeOK, GetNextError, UnreadNumber
<1>2. CASE errorNewest # errorOldest
    <2>1. errorNewest' = errorNewest /\ errorOldest' = Incremented(errorOldest)
        BY <1>2 DEF GetNextError
    <2>2. errorNewest \in 0 .. ERROR_HISTORY_LENGTH /\ errorOldest \in 0 .. ERROR_HISTORY_LENGTH
        BY DEF TypeOK
    <2> QED BY <1>2, <2>1, <2>2, Bounds DEF UnreadNumber, Incremented
<1> QED BY <1>1, <1>2

\* A reader told a number can read as many errors: NumberIsPromise, also when
\* errors are given up for new ones between the reads (can.c:444, error.c:214).
THEOREM NumberKept == Spec => []NumberIsPromise
<1>1. Init => NumberIsPromise
    BY NumberOfUnread, TypeInit DEF Init, NumberIsPromise
<1>2. TypeOK /\ TypeOK' /\ NumberIsPromise /\ [Next]_vars => NumberIsPromise'
    <2> SUFFICES ASSUME TypeOK, TypeOK', NumberIsPromise, [Next]_vars
                 PROVE  NumberIsPromise'
        OBVIOUS
    <2>0. /\ UnreadNumber \in 0 .. ERROR_HISTORY_LENGTH
          /\ promised \in 0 .. ERROR_HISTORY_LENGTH
          /\ ERROR_HISTORY_LENGTH \in Nat
        BY NumberOfUnread, Bounds DEF TypeOK
    <2>1. ASSUME NEW e \in Errors, StoreError(e) PROVE NumberIsPromise'
        <3>1. UnreadNumber' >= UnreadNumber
            BY <2>0, <2>1, StoreNumber
        <3>2. UnreadNumber' \in Int
            BY <2>0, <2>1, StoreNumber
        <3>3. promised' = promised
            BY <2>1 DEF StoreError
        <3> QED BY <2>0, <3>1, <3>2, <3>3 DEF NumberIsPromise
    <2>2. CASE GetErrorsNumber
        BY <2>0, <2>2, NumberOfUnread DEF GetErrorsNumber, NumberIsPromise, UnreadNumber
    <2>3. CASE GetNextError
        BY <2>0, <2>3, ReadNumber DEF GetNextError, NumberIsPromise
    <2>4. CASE UNCHANGED vars
        BY <2>4 DEF vars, NumberIsPromise, UnreadNumber
    <2> QED BY <2>1, <2>2, <2>3, <2>4 DEF Next
<1> QED BY <1>1, <1>2, TypeInit, TypeNext, PTL DEF Spec

-----------------------------------------------------------------------------
(* The buffer is a queue.                                                  *)

LEMMA SameSequence ==
    ASSUME NEW S, NEW s \in Seq(S), NEW t \in Seq(S), Len(s) = Len(t),
           \A i \in 1 .. Len(s) : s[i] = t[i]
    PROVE  s = t
OBVIOUS

LEMMA FunctionIsSequence ==
    ASSUME NEW S, NEW n \in Nat, NEW f, DOMAIN f = 1 .. n, f = [i \in 1 .. n |-> f[i]],
           \A i \in 1 .. n : f[i] \in S
    PROVE  f \in Seq(S) /\ Len(f) = n
OBVIOUS

LEMMA SlotsInRange ==
    ASSUME TypeOK, NEW i \in 1 .. ERROR_HISTORY_LENGTH
    PROVE  Slot(i) \in Indices
BY Bounds DEF TypeOK, Slot

LEMMA UnreadTyped ==
    ASSUME TypeOK
    PROVE  /\ Unread \in Seq(Words) /\ Len(Unread) = UnreadNumber
           /\ \A i \in 1 .. UnreadNumber : Unread[i] = errorHistory[Slot(i)]
<1>1. \A i \in 1 .. UnreadNumber : i \in 1 .. ERROR_HISTORY_LENGTH
    BY NumberOfUnread, Bounds
<1>2. \A i \in 1 .. UnreadNumber : errorHistory[Slot(i)] \in Words
    BY <1>1, SlotsInRange DEF TypeOK
<1>3. UnreadNumber \in Nat
    BY NumberOfUnread, Bounds
<1>4. Unread = [i \in 1 .. UnreadNumber |-> errorHistory[Slot(i)]]
    BY DEF Unread
<1> HIDE DEF Words
<1> QED BY <1>2, <1>3, <1>4, FunctionIsSequence

\* Storing appends, and gives up the oldest error of a full history.
LEMMA StoreAppends ==
    ASSUME TypeOK, TypeOK', Spoiled = {}, NEW e \in Errors, StoreError(e)
    PROVE  Queue!Store(e)
<1> DEFINE Kept == IF UnreadNumber < ERROR_HISTORY_LENGTH THEN Unread ELSE Tail(Unread)
           dropped == IF UnreadNumber < ERROR_HISTORY_LENGTH THEN 0 ELSE 1
<1>0. e \in Words
    BY ErrorHistoryAssumption, Bounds
<1>1. /\ errorHistory' = [errorHistory EXCEPT ![errorNewest] = e]
      /\ errorNewest \in Indices
    BY <1>0 DEF StoreError, Stored, TypeOK
<1>2. /\ UnreadNumber \in 0 .. ERROR_HISTORY_LENGTH
      /\ UnreadNumber' = UnreadNumber - dropped + 1
      /\ ERROR_HISTORY_LENGTH \in Nat /\ ERROR_HISTORY_LENGTH >= 1
    BY NumberOfUnread, StoreNumber, Bounds
<1>3. /\ Kept \in Seq(Words) /\ Len(Kept) = UnreadNumber - dropped
      /\ \A i \in 1 .. UnreadNumber - dropped :
            Kept[i] = errorHistory[Slot(i + dropped)] /\ Kept[i] \in Words
    <2>1. CASE UnreadNumber < ERROR_HISTORY_LENGTH
        <3>1. dropped = 0 /\ Kept = Unread
            BY <2>1
        <3>2. UnreadNumber - dropped = UnreadNumber
              /\ \A i \in 1 .. UnreadNumber : i + dropped = i
            BY <1>2, <3>1
        <3> HIDE DEF Kept, dropped, Words
        <3>3. \A i \in 1 .. UnreadNumber : Unread[i] \in Words
            BY UnreadTyped
        <3> QED BY <3>1, <3>2, <3>3, UnreadTyped
    <2>2. CASE ~(UnreadNumber < ERROR_HISTORY_LENGTH)
        <3>1. dropped = 1 /\ Kept = Tail(Unread)
            BY <2>2
        <3>2. UnreadNumber - dropped = UnreadNumber - 1 /\ UnreadNumber - 1 \in Nat
              /\ \A i \in 1 .. UnreadNumber - 1 :
                    i + dropped = i + 1 /\ i + 1 \in 1 .. UnreadNumber
            BY <1>2, <2>2, <3>1
        <3> HIDE DEF Kept, dropped, Words
        <3>3. /\ Tail(Unread) \in Seq(Words) /\ Len(Tail(Unread)) = UnreadNumber - 1
              /\ \A i \in 1 .. UnreadNumber - 1 :
                    Tail(Unread)[i] = Unread[i + 1] /\ Unread[i + 1] \in Words
            BY <1>2, <2>2, <3>2, UnreadTyped
        <3> QED BY <3>1, <3>2, <3>3, UnreadTyped
    <2> QED BY <2>1, <2>2
<1>4. /\ errorNewest' = Incremented(errorNewest)
      /\ errorOldest' = IF dropped = 1 THEN Incremented(errorOldest) ELSE errorOldest
    BY Bounds DEF StoreError, TypeOK, UnreadNumber, Incremented
<1>5. ASSUME NEW i \in 1 .. UnreadNumber - dropped
      PROVE  /\ Slot(i)' = Slot(i + dropped) /\ Slot(i + dropped) # errorNewest
             /\ Slot(i + dropped) \in Indices
    <2>1. CASE UnreadNumber < ERROR_HISTORY_LENGTH
        BY <1>2, <1>4, <1>5, <2>1 DEF Slot, TypeOK, UnreadNumber, Incremented
    <2>2. CASE ~(UnreadNumber < ERROR_HISTORY_LENGTH)
        BY <1>2, <1>4, <1>5, <2>2 DEF Slot, TypeOK, UnreadNumber, Incremented
    <2> QED BY <2>1, <2>2
<1>6. ASSUME NEW i, i = UnreadNumber' PROVE Slot(i)' = errorNewest
    <2>1. CASE UnreadNumber < ERROR_HISTORY_LENGTH
        BY <1>2, <1>4, <1>6, <2>1 DEF Slot, TypeOK, UnreadNumber, Incremented
    <2>2. CASE ~(UnreadNumber < ERROR_HISTORY_LENGTH)
        BY <1>2, <1>4, <1>6, <2>2 DEF Slot, TypeOK, UnreadNumber, Incremented
    <2> QED BY <2>1, <2>2
<1>7. /\ DOMAIN Unread' = 1 .. UnreadNumber'
      /\ Unread' = [i \in 1 .. UnreadNumber' |-> Unread'[i]]
      /\ \A i \in 1 .. UnreadNumber' : Unread'[i] = errorHistory'[Slot(i)']
    BY DEF Unread
<1> HIDE DEF Kept, dropped, Words
<1>8. \A i \in 1 .. UnreadNumber - dropped : Unread'[i] = Kept[i]
    <2> SUFFICES ASSUME NEW i \in 1 .. UnreadNumber - dropped PROVE Unread'[i] = Kept[i]
        OBVIOUS
    <2>1. Unread'[i] = errorHistory'[Slot(i + dropped)]
        BY <1>2, <1>5, <1>7 DEF dropped
    <2>2. errorHistory'[Slot(i + dropped)] = errorHistory[Slot(i + dropped)]
        BY <1>1, <1>5 DEF TypeOK
    <2> QED BY <1>3, <2>1, <2>2
<1>9. Unread'[UnreadNumber'] = e
    <2>1. UnreadNumber' \in 1 .. UnreadNumber'
        BY <1>2 DEF dropped
    <2>2. Unread'[UnreadNumber'] = errorHistory'[errorNewest]
        BY <1>6, <1>7, <2>1
    <2> QED BY <1>1, <2>2 DEF TypeOK
<1>10. Unread' = Append(Kept, e)
    <2>1. UnreadNumber - dropped \in Nat
        BY <1>2 DEF dropped
    <2>2. \A i \in 1 .. UnreadNumber' : Unread'[i] \in Words
        BY <1>0, <1>2, <1>3, <1>8, <1>9, <2>1
    <2>3. Unread' \in Seq(Words) /\ Len(Unread') = UnreadNumber'
        BY <1>2, <1>7, <2>1, <2>2, FunctionIsSequence
    <2>4. /\ Append(Kept, e) \in Seq(Words) /\ Len(Append(Kept, e)) = UnreadNumber'
          /\ \A i \in 1 .. UnreadNumber' : Unread'[i] = Append(Kept, e)[i]
        BY <1>0, <1>2, <1>3, <1>8, <1>9, <2>1
    <2> QED BY <2>3, <2>4, SameSequence
<1> QED
    BY <1>10, UnreadTyped DEF Queue!Store, StoreError, Kept

\* Reading takes the oldest error.
LEMMA ReadTakes ==
    ASSUME TypeOK, TypeOK', GetNextError
    PROVE  Queue!ReadNext \/ Queue!ReadNothing
<1>1. CASE errorNewest = errorOldest
    <2>1. Unread = <<>> /\ Unread' = Unread
        BY <1>1, UnreadTyped, NumberOfUnread DEF GetNextError, Unread, UnreadNumber, Slot
    <2> QED BY <1>1, <2>1 DEF GetNextError, Queue!ReadNothing
<1>2. CASE errorNewest # errorOldest
    <2>1. /\ UnreadNumber \in 1 .. ERROR_HISTORY_LENGTH
          /\ UnreadNumber' = UnreadNumber - 1
        BY <1>2, NumberOfUnread, ReadNumber
    <2>2. \A i \in 1 .. UnreadNumber - 1 : Slot(i)' = Slot(i + 1)
        <3>1. errorOldest' = Incremented(errorOldest)
            BY <1>2 DEF GetNextError
        <3> QED BY <1>2, <2>1, <3>1, Bounds DEF Slot, TypeOK, UnreadNumber, Incremented
    <2>3. Slot(1) = errorOldest
        BY Bounds DEF Slot, TypeOK
    <2>4. /\ DOMAIN Unread' = 1 .. UnreadNumber'
          /\ Unread' = [i \in 1 .. UnreadNumber' |-> Unread'[i]]
          /\ \A i \in 1 .. UnreadNumber' : Unread'[i] = errorHistory'[Slot(i)']
        BY DEF Unread
    <2>5. Unread # <<>> /\ Head(Unread) = errorHistory[errorOldest]
        BY <2>1, <2>3, UnreadTyped
    <2>6. Unread' = Tail(Unread)
        <3> HIDE DEF Words
        <3>1. /\ Tail(Unread) \in Seq(Words) /\ Len(Tail(Unread)) = UnreadNumber'
              /\ \A i \in 1 .. UnreadNumber' :
                    Tail(Unread)[i] = Unread[i + 1] /\ Unread[i + 1] \in Words
            BY <2>1, UnreadTyped, Bounds
        <3>2. \A i \in 1 .. UnreadNumber' : Unread'[i] = Unread[i + 1]
            <4>1. errorHistory' = errorHistory
                BY DEF GetNextError
            <4> QED BY <2>1, <2>2, <2>4, <4>1, UnreadTyped, Bounds
        <3>3. UnreadNumber' \in Nat
            BY <2>1, Bounds
        <3>4. Unread' \in Seq(Words) /\ Len(Unread') = UnreadNumber'
            BY <2>4, <3>1, <3>2, <3>3, FunctionIsSequence
        <3> QED BY <3>1, <3>2, <3>4, SameSequence
    <2> QED BY <1>2, <2>5, <2>6 DEF GetNextError, Queue!ReadNext
<1> QED BY <1>1, <1>2

\* The history keeps the promise of ErrorQueue, KeepsQueue, as long as nothing
\* else is found past the array (error.c:108-222, can.c:439-464).
THEOREM QueueKept ==
    ASSUME Spoiled = {}
    PROVE  Spec => KeepsQueue
<1>1. Init => Queue!Init
    <2> SUFFICES ASSUME Init PROVE Queue!Init
        OBVIOUS
    <2>1. TypeOK
        BY TypeInit
    <2>2. CASE errorOn
        <3>1. UnreadNumber = 0
            BY <2>2 DEF Init, ErrorInit, UnreadNumber
        <3> QED BY <2>1, <2>2, <3>1, UnreadTyped DEF Init, ErrorInit, Queue!Init
    <2>3. CASE ~errorOn
        <3>1. UnreadNumber = 1 /\ Slot(1) = 0
            BY <2>3, Bounds DEF Init, ErrorInit, UnreadNumber, Slot
        <3>2. Unread[1] = NO_MEMORY
            BY <2>1, <3>1, UnreadTyped, Bounds DEF Init, ErrorInit
        <3>3. Unread = <<NO_MEMORY>>
            BY <2>1, <3>1, <3>2, UnreadTyped
        <3> QED BY <2>3, <3>3 DEF Init, ErrorInit, Queue!Init
    <2> QED BY <2>2, <2>3 DEF Init, ErrorInit
<1>2. TypeOK /\ TypeOK' /\ [Next]_vars => [Queue!Next]_(Queue!vars)
    <2> SUFFICES ASSUME TypeOK, TypeOK', [Next]_vars PROVE [Queue!Next]_(Queue!vars)
        OBVIOUS
    <2>1. ASSUME NEW e \in Errors, StoreError(e) PROVE Queue!Next
        BY <2>1, StoreAppends DEF Queue!Next
    <2>2. CASE GetErrorsNumber
        <3>1. Unread' = Unread /\ reply' = Len(Unread) /\ errorOn' = errorOn
            BY <2>2, NumberOfUnread, UnreadTyped
            DEF GetErrorsNumber, Unread, UnreadNumber, Slot
        <3> QED BY <3>1 DEF Queue!Next, Queue!Count
    <2>3. CASE GetNextError
        BY <2>3, ReadTakes DEF Queue!Next
    <2>4. CASE UNCHANGED vars
        BY <2>4 DEF vars, Queue!vars, Unread, UnreadNumber, Slot
    <2> QED BY <2>1, <2>2, <2>3, <2>4 DEF Next
<1> QED
    BY <1>1, <1>2, TypeInit, TypeNext, PTL DEF Spec, KeepsQueue, Queue!Spec
=============================================================================
