----------------------- MODULE CryostatSensorsProofs -----------------------
(***************************************************************************)
(* Proofs about CryostatSensors. Safety holds for any numbers of sensors   *)
(* and retries, the theorem about the round for as many as the code has    *)
(* (CodeBounds): how many steps are left is counted down one by one, with  *)
(* the hypothesis NothingBlocks for each.                                  *)
(***************************************************************************)
EXTENDS CryostatSensors, Integers, TLAPS

USE DEF Points, TempSensors, Supply, NotMeasured, ConversionError, Values

\* The point after the last one is the first.
LEMMA NextPoint ==
    ASSUME NEW p \in Points
    PROVE  /\ Supply \in Nat /\ Supply >= 2
           /\ (p + 1) % (Supply + 1) \in Points
           /\ (p + 1) % (Supply + 1) # p
<1>1. CRYOSTAT_TEMP_SENSORS_NUMBER \in Nat \ {0} /\ VACUUM_SENSORS_NUMBER \in Nat \ {0}
    BY CryostatSensorsAssumption
<1>2. p \in Nat /\ p <= Supply
    BY <1>1
<1>3. CASE p = Supply
    BY <1>1, <1>3
<1>4. CASE p < Supply
    BY <1>1, <1>2, <1>4
<1> QED BY <1>1, <1>2, <1>3, <1>4

LEMMA PointsTyped == 0 \in Points /\ Points \subseteq Values /\ NotMeasured \in Values
                     /\ ConversionError \in Values /\ ConversionError \notin Points
                     /\ NotMeasured # ConversionError
BY CryostatSensorsAssumption

-----------------------------------------------------------------------------
(* The state machine of a sample                                           *)

\* What a step of the state machine for point p does, by its result.
LEMMA SampleStep ==
    ASSUME TypeOK, NEW p \in Points, NEW result \in Results, GetCryoAnalogMonitor(p, result)
    PROVE  /\ analogState' \in AnalogStates
           /\ retries' \in 0 .. CRYO_ADC_MAX_RETRIES
           /\ mux' \in Points /\ sampled' \in Points
           /\ result # "NO_ERROR" => analogState' = "AREG"
           /\ result = "ASYNC_DONE" => analogState = "ADC_READ"
<1> USE DEF TypeOK, AnalogStates, Results, To, AnalogError
<1>1. CASE SelectPoint(p, result)
    BY <1>1 DEF SelectPoint
<1>2. CASE WaitForPoint(result)
    BY <1>2 DEF WaitForPoint
<1>3. CASE StartConversion(result)
    BY <1>3 DEF StartConversion
<1>4. CASE ConversionReady(result)
    BY <1>4, CryostatSensorsAssumption DEF ConversionReady
<1>5. CASE ReadConversion(result)
    BY <1>5 DEF ReadConversion
<1> QED BY <1>1, <1>2, <1>3, <1>4, <1>5 DEF GetCryoAnalogMonitor

\* While a point is sampled it is the one that is selected, and once the
\* conversion was started it is the one that was sampled; the mode does not
\* change in the middle.
Sampling(p) ==
    /\ analogState # "AREG" => ~simulating /\ mux = p
    /\ analogState \in {"ADC_READY", "ADC_READ"} => sampled = p

LEMMA SampleKept ==
    ASSUME TypeOK, NEW p \in Points, NEW result \in Results, GetCryoAnalogMonitor(p, result),
           Sampling(p), ~simulating, UNCHANGED simulating
    PROVE  Sampling(p)'
<1> USE DEF TypeOK, AnalogStates, Results, To, AnalogError, Sampling
<1>1. CASE SelectPoint(p, result)
    BY <1>1 DEF SelectPoint
<1>2. CASE WaitForPoint(result)
    BY <1>2 DEF WaitForPoint
<1>3. CASE StartConversion(result)
    BY <1>3 DEF StartConversion
<1>4. CASE ConversionReady(result)
    BY <1>4 DEF ConversionReady
<1>5. CASE ReadConversion(result)
    BY <1>5 DEF ReadConversion
<1> QED BY <1>1, <1>2, <1>3, <1>4, <1>5 DEF GetCryoAnalogMonitor

-----------------------------------------------------------------------------
(* Types                                                                   *)

LEMMA NoValues == [p \in Points |-> NotMeasured] \in [Points -> Values]
BY PointsTyped

LEMMA TypeInit == Init => TypeOK
<1> SUFFICES ASSUME Init PROVE TypeOK
    OBVIOUS
<1>1. value \in [Points -> Values]
    BY NoValues DEF Init
<1>2. /\ point \in Points /\ mux \in Points /\ sampled \in Points
      /\ retries \in 0 .. CRYO_ADC_MAX_RETRIES
    BY CryostatSensorsAssumption DEF Init
<1> QED BY <1>1, <1>2 DEF Init, TypeOK, AsyncStates, AnalogStates, LogHoursStates

LEMMA MeasureTyped ==
    ASSUME TypeOK, NEW p \in Points, NEW result \in Results, Measure(p, result)
    PROVE  /\ analogState' \in AnalogStates
           /\ retries' \in 0 .. CRYO_ADC_MAX_RETRIES
           /\ mux' \in Points /\ sampled' \in Points
           /\ value' \in [Points -> Values]
<1>1. CASE simulating
    BY <1>1, PointsTyped DEF Measure, TypeOK, analogVars
<1>2. ASSUME ~simulating, NEW analog \in Results, GetCryoAnalogMonitor(p, analog),
             value' = IF analog # "ASYNC_DONE" THEN value
                      ELSE [value EXCEPT ![p] = IF p = Supply \/ ~edom THEN sampled ELSE ConversionError]
      PROVE  /\ analogState' \in AnalogStates
             /\ retries' \in 0 .. CRYO_ADC_MAX_RETRIES
             /\ mux' \in Points /\ sampled' \in Points
             /\ value' \in [Points -> Values]
    <2>1. sampled \in Values
        BY PointsTyped DEF TypeOK
    <2>2. value' \in [Points -> Values]
        BY <1>2, <2>1, PointsTyped DEF TypeOK
    <2> QED BY <1>2, <2>2, SampleStep
<1> QED BY <1>1, <1>2 DEF Measure

LEMMA TypeNext == TypeOK /\ [Next]_vars => TypeOK'
<1> SUFFICES ASSUME TypeOK, [Next]_vars PROVE TypeOK'
    OBVIOUS
<1> USE DEF AsyncStates, LogHoursStates
<1>1. ASSUME MeasurePoint, asyncState = "CRYOSTAT", UNCHANGED settings PROVE TypeOK'
    <2>1. PICK result \in Results :
            /\ Measure(point, result)
            /\ asyncError' = IF result = "ERROR" THEN asyncError \cup {point} ELSE asyncError \ {point}
            /\ IF result = "NO_ERROR" THEN UNCHANGED <<point, logging, asyncState>>
               ELSE /\ point' = (point + 1) % (Supply + 1)
                    /\ logging' = (point = Supply)
                    /\ asyncState' = IF logging' THEN "CARTRIDGE" ELSE asyncState
            /\ UNCHANGED <<logHoursState, hoursVars>>
        BY <1>1 DEF MeasurePoint
    <2>2. point \in Points
        BY DEF TypeOK
    <2>3. /\ analogState' \in AnalogStates
          /\ retries' \in 0 .. CRYO_ADC_MAX_RETRIES
          /\ mux' \in Points /\ sampled' \in Points
          /\ value' \in [Points -> Values]
        BY <2>1, <2>2, MeasureTyped
    <2>4. point' \in Points /\ logging' \in BOOLEAN /\ asyncState' \in AsyncStates
        BY <2>1, <2>2, NextPoint DEF TypeOK
    <2>5. asyncError' \subseteq Points
        BY <2>1, <2>2 DEF TypeOK
    <2> QED BY <1>1, <2>1, <2>3, <2>4, <2>5 DEF TypeOK, hoursVars, settings
<1>2. CASE LogHoursTurn /\ asyncState = "CRYOSTAT" /\ UNCHANGED settings
    BY <1>2 DEF LogHoursTurn, LogHours, CountHours, TypeOK, hoursVars, analogVars, settings, Results
<1>3. CASE OthersAsync /\ UNCHANGED settings
    BY <1>3 DEF OthersAsync, TypeOK, hoursVars, analogVars, settings
<1>4. CASE PowerCommand
    BY <1>4 DEF PowerCommand, TypeOK, hoursVars, analogVars, settings
<1>5. CASE ToggleAsync
    BY <1>5 DEF ToggleAsync, TypeOK, hoursVars, analogVars, settings
<1>6. CASE SetColdHeadHours
    BY <1>6 DEF SetColdHeadHours, TypeOK, analogVars, settings
<1>7. CASE WriteNVMemory
    BY <1>7 DEF WriteNVMemory, TypeOK, analogVars, settings
<1>8. CASE SetFeMode
    BY <1>8 DEF SetFeMode, TypeOK, hoursVars, analogVars
<1>9. CASE OtherConversionFailed
    BY <1>9 DEF OtherConversionFailed, TypeOK, hoursVars, analogVars
<1>10. CASE Restart
    <2>1. value' \in [Points -> Values]
        BY <1>10, NoValues DEF Restart
    <2>2. point' \in Points /\ retries' \in 0 .. CRYO_ADC_MAX_RETRIES
        BY <1>10, CryostatSensorsAssumption DEF Restart
    <2> QED BY <1>10, <2>1, <2>2 DEF Restart, TypeOK, AnalogStates
<1>11. CASE UNCHANGED vars
    BY <1>11 DEF vars, TypeOK, hoursVars, analogVars, settings
<1> QED BY <1>1, <1>2, <1>3, <1>4, <1>5, <1>6, <1>7, <1>8, <1>9, <1>10, <1>11
        DEF Next, Async, CryostatAsync

\* Every variable stays in its range: the retries counted stay within their
\* limit, also when a status that cannot be read leaves some behind
\* (cryostatSerialInterface.c:211).
THEOREM TypeCorrect == Spec => []TypeOK
BY TypeInit, TypeNext, PTL DEF Spec

-----------------------------------------------------------------------------
(* The values                                                              *)

\* The sample in progress is the current point's, and the values kept are of
\* their sensors; a point that is not being measured has an error if its last
\* conversion failed.
ValueInv ==
    /\ Sampling(point)
    /\ logging => analogState = "AREG"
    /\ \A p \in Points :
          /\ value[p] \in {p, NotMeasured, ConversionError}
          /\ value[p] = ConversionError => p \in asyncError \/ point = p

LEMMA ValueInit == Init => ValueInv
BY PointsTyped DEF Init, ValueInv, Sampling

\* One step of the measurement of the current point.
LEMMA MeasureKeepsValues ==
    ASSUME TypeOK, ValueInv, MeasurePoint, UNCHANGED settings
    PROVE  ValueInv'
<1>1. PICK result \in Results :
        /\ Measure(point, result)
        /\ asyncError' = IF result = "ERROR" THEN asyncError \cup {point} ELSE asyncError \ {point}
        /\ IF result = "NO_ERROR" THEN UNCHANGED <<point, logging, asyncState>>
           ELSE /\ point' = (point + 1) % (Supply + 1)
                /\ logging' = (point = Supply)
                /\ asyncState' = IF logging' THEN "CARTRIDGE" ELSE asyncState
    BY DEF MeasurePoint
<1>2. point \in Points /\ value \in [Points -> Values] /\ ~logging
    BY DEF TypeOK, MeasurePoint
<1>3. UNCHANGED simulating /\ UNCHANGED edom
    BY DEF settings
<1>4. /\ Sampling(point)
      /\ \A p \in Points :
            /\ value[p] \in {p, NotMeasured, ConversionError}
            /\ value[p] = ConversionError => p \in asyncError \/ point = p
    BY DEF ValueInv
<1>5. result # "NO_ERROR" => point' # point
    BY <1>1, <1>2, NextPoint
<1>6. CASE simulating
    <2>1. result = "ASYNC_DONE" /\ value' = [value EXCEPT ![point] = point] /\ UNCHANGED analogVars
        BY <1>1, <1>6 DEF Measure
    <2>2. analogState = "AREG"
        BY <1>4, <1>6 DEF Sampling
    <2>3. Sampling(point)' /\ (logging' => analogState' = "AREG")
        BY <2>1, <2>2 DEF Sampling, analogVars
    <2>4. \A p \in Points : value'[p] \in {p, NotMeasured, ConversionError}
        BY <1>2, <1>4, <2>1
    <2>5. ASSUME NEW p \in Points, value'[p] = ConversionError
          PROVE  p \in asyncError' \/ point' = p
        <3>1. p # point /\ value[p] = ConversionError
            BY <1>2, <2>1, <2>5, PointsTyped
        <3> QED BY <1>1, <1>4, <2>1, <3>1
    <2> QED BY <2>3, <2>4, <2>5 DEF ValueInv
<1>7. CASE ~simulating
    <2>1. PICK analog \in Results :
            /\ GetCryoAnalogMonitor(point, analog)
            /\ LET converts == point = Supply \/ ~edom IN
               /\ result = IF analog = "ASYNC_DONE" /\ ~converts THEN "ERROR" ELSE analog
               /\ value' = IF analog # "ASYNC_DONE" THEN value
                           ELSE [value EXCEPT ![point] = IF converts THEN sampled ELSE ConversionError]
        BY <1>1, <1>7 DEF Measure
    <2>2. Sampling(point) /\ (analog # "NO_ERROR" => analogState' = "AREG")
          /\ (analog = "ASYNC_DONE" => sampled = point)
        BY <1>2, <1>4, <2>1, SampleStep DEF Sampling
    <2>3. /\ analog # "NO_ERROR" => Sampling(point)'
          /\ analog = "NO_ERROR" => Sampling(point)'
        <3>1. CASE analog # "NO_ERROR"
            BY <2>2, <3>1 DEF Sampling
        <3>2. CASE analog = "NO_ERROR"
            <4>1. point' = point /\ result = "NO_ERROR"
                BY <1>1, <2>1, <3>2
            <4> DEFINE q == point
            <4>2. q \in Points /\ Sampling(q)
                BY <1>2, <1>4
            <4> HIDE DEF q
            <4>3. Sampling(q)' /\ q' = q
                BY <1>3, <1>7, <2>1, <4>1, <4>2, SampleKept DEF q
            <4> QED BY <4>1, <4>3 DEF q
        <3> QED BY <3>1, <3>2
    <2>4. logging' => analogState' = "AREG"
        BY <1>1, <1>2, <2>1, <2>2
    <2>5. \A p \in Points : value'[p] \in {p, NotMeasured, ConversionError}
        BY <1>2, <1>4, <2>1, <2>2
    <2>6. ASSUME NEW p \in Points, value'[p] = ConversionError
          PROVE  p \in asyncError' \/ point' = p
        <3>1. CASE p # point
            BY <1>1, <1>2, <1>4, <2>1, <2>6, <3>1
        <3>2. CASE p = point
            <4>1. CASE result = "NO_ERROR"
                BY <1>1, <3>2, <4>1
            <4>2. CASE result = "ERROR"
                BY <1>1, <3>2, <4>2
            <4>3. CASE result = "ASYNC_DONE"
                BY <1>2, <2>1, <2>2, <2>6, <3>2, <4>3, PointsTyped
            <4> QED BY <4>1, <4>2, <4>3 DEF Results
        <3> QED BY <3>1, <3>2
    <2> QED BY <2>3, <2>4, <2>5, <2>6 DEF ValueInv
<1> QED BY <1>6, <1>7

LEMMA ValueNext ==
    ASSUME WithinSample = FALSE
    PROVE  TypeOK /\ ValueInv /\ [Next]_vars => ValueInv'
<1> SUFFICES ASSUME TypeOK, ValueInv, [Next]_vars PROVE ValueInv'
    OBVIOUS
<1> USE DEF ValueInv, Sampling
<1>1. CASE MeasurePoint /\ UNCHANGED settings
    BY <1>1, MeasureKeepsValues
<1>2. CASE LogHoursTurn /\ UNCHANGED settings
    BY <1>2 DEF LogHoursTurn, analogVars, settings
<1>3. CASE OthersAsync /\ UNCHANGED settings
    BY <1>3 DEF OthersAsync, analogVars, settings
<1>4. CASE PowerCommand
    BY <1>4 DEF PowerCommand, analogVars, settings
<1>5. CASE ToggleAsync
    BY <1>5 DEF ToggleAsync, analogVars, settings
<1>6. CASE SetColdHeadHours
    BY <1>6 DEF SetColdHeadHours, analogVars, settings
<1>7. CASE WriteNVMemory
    BY <1>7 DEF WriteNVMemory, analogVars, settings
<1>8. CASE SetFeMode
    BY <1>8 DEF SetFeMode, analogVars
<1>9. CASE OtherConversionFailed
    BY <1>9 DEF OtherConversionFailed, analogVars
<1>10. CASE Restart
    BY <1>10, PointsTyped DEF Restart
<1>11. CASE UNCHANGED vars
    BY <1>11 DEF vars, analogVars, settings
<1> QED BY <1>1, <1>2, <1>3, <1>4, <1>5, <1>6, <1>7, <1>8, <1>9, <1>10, <1>11
        DEF Next, Async, CryostatAsync

LEMMA ValueInvImplies == ValueInv => ValuesBelong
BY DEF ValueInv, ValuesBelong, Status

\* If the mode does not change in the middle of a sample, a value is of its
\* sensor and a failed conversion is not answered as a value: ValuesBelong, for
\* any number of sensors that share the one state machine
\* (cryostatSerialInterface.c:58).
THEOREM ValuesCorrect ==
    ASSUME WithinSample = FALSE
    PROVE  Spec => []ValuesBelong
BY TypeInit, TypeNext, ValueInit, ValueNext, ValueInvImplies, PTL DEF Spec

-----------------------------------------------------------------------------
(* The hours                                                               *)

\* If the file can be written, hours that are not in it are marked to be
\* written: HoursAreSaved (cryostat.c:679, frontend.c:209).
THEOREM HoursCorrect ==
    ASSUME "file" \notin Faults
    PROVE  Spec => []HoursAreSaved
<1>1. Init => HoursAreSaved
    BY DEF Init, HoursAreSaved
<1>2. TypeOK /\ HoursAreSaved /\ [Next]_vars => HoursAreSaved'
    <2> SUFFICES ASSUME TypeOK, HoursAreSaved, [Next]_vars PROVE HoursAreSaved'
        OBVIOUS
    <2> USE DEF HoursAreSaved, hoursVars
    <2>1. CASE MeasurePoint
        BY <2>1 DEF MeasurePoint
    <2>2. CASE LogHoursTurn
        BY <2>2 DEF LogHoursTurn, LogHours, CountHours, TypeOK
    <2>3. CASE OthersAsync
        BY <2>3 DEF OthersAsync
    <2>4. CASE PowerCommand \/ ToggleAsync \/ SetFeMode \/ OtherConversionFailed
        BY <2>4 DEF PowerCommand, ToggleAsync, SetFeMode, OtherConversionFailed
    <2>5. CASE SetColdHeadHours \/ WriteNVMemory
        BY <2>5 DEF SetColdHeadHours, WriteNVMemory
    <2>6. CASE Restart
        BY <2>6 DEF Restart
    <2>7. CASE UNCHANGED vars
        BY <2>7 DEF vars
    <2> QED BY <2>1, <2>2, <2>3, <2>4, <2>5, <2>6, <2>7 DEF Next, Async, CryostatAsync
<1> QED BY <1>1, <1>2, TypeInit, TypeNext, PTL DEF Spec
-----------------------------------------------------------------------------
(* The round goes on                                                       *)

AsyncRuns == asyncState # "OFF"
Undisturbed == ~PowerCommand /\ ~Restart

\* The hours are counted at the end of a round, before the first point.
RoundInv == TypeOK /\ ValueInv /\ (logging => point = 0)

LEMMA RoundInvHolds ==
    ASSUME WithinSample = FALSE
    PROVE  Spec => []RoundInv
<1>1. Init => (logging => point = 0)
    BY DEF Init
<1>2. TypeOK /\ (logging => point = 0) /\ [Next]_vars => (logging => point = 0)'
    <2> SUFFICES ASSUME TypeOK, logging => point = 0, [Next]_vars, logging' PROVE point' = 0
        OBVIOUS
    <2>1. CASE MeasurePoint
        <3>1. point = Supply /\ point' = (point + 1) % (Supply + 1)
            BY <2>1 DEF MeasurePoint
        <3>2. Supply \in Nat
            BY CryostatSensorsAssumption
        <3> HIDE DEF Supply
        <3> QED BY <3>1, <3>2
    <2>2. CASE LogHoursTurn
        BY <2>2 DEF LogHoursTurn
    <2>3. CASE OthersAsync
        BY <2>3 DEF OthersAsync
    <2>4. CASE PowerCommand \/ ToggleAsync \/ SetFeMode \/ OtherConversionFailed
        BY <2>4 DEF PowerCommand, ToggleAsync, SetFeMode, OtherConversionFailed
    <2>5. CASE SetColdHeadHours \/ WriteNVMemory
        BY <2>5 DEF SetColdHeadHours, WriteNVMemory
    <2>6. CASE Restart
        BY <2>6 DEF Restart
    <2>7. CASE UNCHANGED vars
        BY <2>7 DEF vars
    <2> QED BY <2>1, <2>2, <2>3, <2>4, <2>5, <2>6, <2>7 DEF Next, Async, CryostatAsync
<1> QED BY <1>1, <1>2, TypeInit, TypeNext, ValueInit, ValueNext, PTL DEF Spec, RoundInv

\* What is where in the round.
position == <<asyncState, point, logging, analogState, retries, logHoursState>>

LEMMA OnlyAsyncMoves ==
    ASSUME RoundInv, AsyncRuns, AsyncRuns', [Next]_vars, [Undisturbed]_vars, ~<<Async>>_vars
    PROVE  UNCHANGED position
<1> USE DEF position
<1>1. CASE Async \/ UNCHANGED vars
    BY <1>1 DEF vars, analogVars
<1>2. CASE PowerCommand \/ Restart
    BY <1>2 DEF Undisturbed, vars, analogVars
<1>3. CASE ToggleAsync
    BY <1>3 DEF ToggleAsync, AsyncRuns
<1>4. CASE SetColdHeadHours \/ WriteNVMemory \/ SetFeMode \/ OtherConversionFailed
    BY <1>4 DEF SetColdHeadHours, WriteNVMemory, SetFeMode, OtherConversionFailed, analogVars
<1> QED BY <1>1, <1>2, <1>3, <1>4 DEF Next

\* The calls of async() a sample takes at most from here on.
CallsLeft ==
    CASE analogState = "AREG" -> CRYO_ADC_MAX_RETRIES + 6
      [] analogState = "SET_WAIT" -> CRYO_ADC_MAX_RETRIES + 5
      [] analogState = "WAIT" -> CRYO_ADC_MAX_RETRIES + 4
      [] analogState = "ADC_CONV" -> CRYO_ADC_MAX_RETRIES + 3
      [] analogState = "ADC_READY" -> CRYO_ADC_MAX_RETRIES + 2 - retries
      [] OTHER -> 1

LEMMA CallsLeftBounds == TypeOK => CallsLeft \in 1 .. CRYO_ADC_MAX_RETRIES + 6
<1> SUFFICES ASSUME TypeOK PROVE CallsLeft \in 1 .. CRYO_ADC_MAX_RETRIES + 6
    OBVIOUS
<1>1. /\ CRYO_ADC_MAX_RETRIES \in Nat
      /\ retries \in 0 .. CRYO_ADC_MAX_RETRIES
      /\ analogState \in AnalogStates
    BY CryostatSensorsAssumption DEF TypeOK
<1> QED BY <1>1 DEF AnalogStates, CallsLeft

LEMMA CallsLeftNext == TypeOK' => (CallsLeft \in 1 .. CRYO_ADC_MAX_RETRIES + 6)'
BY CallsLeftBounds, PTL

\* The round moves on to the next point, with no sample begun; the hours come
\* after the last.
MovesOn ==
    /\ point' = IF point = Supply THEN 0 ELSE point + 1
    /\ analogState' = "AREG"
    /\ point = Supply => logging'

LEMMA NextPointIs ==
    ASSUME NEW p \in Points
    PROVE  (p + 1) % (Supply + 1) = IF p = Supply THEN 0 ELSE p + 1
<1>1. Supply \in Nat /\ p \in 0 .. Supply
    BY CryostatSensorsAssumption
<1> HIDE DEF Supply
<1> QED BY <1>1

\* A call that measures either ends the sample, well or not, or brings its end
\* nearer.
LEMMA SampleAdvances ==
    ASSUME RoundInv, MeasurePoint, UNCHANGED settings
    PROVE  \/ MovesOn
           \/ /\ UNCHANGED <<asyncState, point, logging>>
              /\ CallsLeft' <= CallsLeft - 1
<1> PICK result \in Results :
        /\ Measure(point, result)
        /\ IF result = "NO_ERROR" THEN UNCHANGED <<point, logging, asyncState>>
           ELSE /\ point' = (point + 1) % (Supply + 1)
                /\ logging' = (point = Supply)
    BY DEF MeasurePoint
<1>0. TypeOK /\ Sampling(point)
    BY DEF RoundInv, ValueInv
<1>1. point' = (point + 1) % (Supply + 1) /\ logging' = (point = Supply) /\ analogState' = "AREG"
        => MovesOn
    <2>1. (point + 1) % (Supply + 1) = IF point = Supply THEN 0 ELSE point + 1
        BY <1>0, NextPointIs DEF TypeOK
    <2> HIDE DEF Supply
    <2> QED BY <2>1 DEF MovesOn
<1>2. CASE simulating
    BY <1>0, <1>1, <1>2 DEF Measure, Sampling, analogVars, GetCryoAnalogMonitor
<1>3. CASE ~simulating
    <2>1. PICK analog \in Results :
            /\ GetCryoAnalogMonitor(point, analog)
            /\ analog = "NO_ERROR" <=> result = "NO_ERROR"
        BY <1>3 DEF Measure, Results
    <2>2. analog # "NO_ERROR" => analogState' = "AREG"
        BY <1>0, <2>1, SampleStep DEF TypeOK
    <2>3. CASE result # "NO_ERROR"
        BY <1>1, <2>1, <2>2, <2>3
    <2>4. CASE result = "NO_ERROR"
        <3>1. GetCryoAnalogMonitor(point, "NO_ERROR")
            BY <2>1, <2>4
        <3>2. CallsLeft' <= CallsLeft - 1
            BY <1>0, <3>1, CryostatSensorsAssumption
            DEF GetCryoAnalogMonitor, SelectPoint, WaitForPoint, StartConversion, ConversionReady,
                ReadConversion, To, AnalogError, CallsLeft, TypeOK, AnalogStates
        <3> QED BY <2>4, <3>2
    <2> QED BY <2>3, <2>4
<1> QED BY <1>2, <1>3
\* A step of the hours, by what is left of them.
HoursLeft ==
    CASE logHoursState = "SET_TIMER" -> 3
      [] logHoursState = "READ_TIMER" -> 2
      [] OTHER -> 1

LEMMA HoursAdvance ==
    ASSUME RoundInv, LogHoursTurn
    PROVE  \/ ~logging' /\ asyncState' = "CARTRIDGE"
           \/ UNCHANGED <<asyncState, logging>> /\ HoursLeft' = HoursLeft - 1
<1>1. PICK result \in Results :
        /\ logging /\ LogHours(result)
        /\ logging' = (result = "NO_ERROR")
        /\ asyncState' = IF logging' THEN asyncState ELSE "CARTRIDGE"
    BY DEF LogHoursTurn
<1>2. logging \in BOOLEAN
    BY DEF RoundInv, TypeOK
<1>3. CASE result = "NO_ERROR"
    <2>1. \/ logHoursState = "SET_TIMER" /\ logHoursState' = "READ_TIMER"
          \/ logHoursState = "READ_TIMER" /\ logHoursState' = "CHECK_TEMPS"
        BY <1>1, <1>3 DEF LogHours
    <2>2. HoursLeft' = HoursLeft - 1
        BY <2>1 DEF HoursLeft
    <2> QED BY <1>1, <1>2, <1>3, <2>2
<1>4. CASE result # "NO_ERROR"
    BY <1>1, <1>4
<1> QED BY <1>3, <1>4

\* The turn of the others comes to its end, and the point stays.
LEMMA OthersAdvance ==
    ASSUME RoundInv, OthersAsync
    PROVE  /\ UNCHANGED <<point, logging, analogState>>
           /\ \/ asyncState = "CARTRIDGE" /\ asyncState' = "FETIM"
              \/ asyncState \in {"FETIM", "ON"} /\ asyncState' = "CRYOSTAT"
BY DEF OthersAsync, analogVars

\* The behaviours in which async() is scheduled, not stopped, and left its turn,
\* from any of their states on.
Scheduled ==
    /\ [][Next]_vars /\ [][Undisturbed]_vars /\ WF_vars(Async)
    /\ []RoundInv /\ []NothingBlocks /\ []AsyncRuns

PointChanges == point' # point

\* No point keeps the round. The calls a sample takes are bounded by the number
\* of retries of the code (cryostatSerialInterface.h:140).
LEMMA PointsMove ==
    ASSUME CRYO_ADC_MAX_RETRIES <= 10
    PROVE  Scheduled => []<><<PointChanges>>_vars
<1> DEFINE Cryo(n) == asyncState = "CRYOSTAT" /\ ~logging /\ CallsLeft <= n
           Hours(n) == asyncState = "CRYOSTAT" /\ logging /\ HoursLeft = n
           Cartridges1 == asyncState = "CARTRIDGE" /\ logging
           Fetim1 == asyncState \in {"FETIM", "ON"} /\ logging
           Cartridges2 == asyncState = "CARTRIDGE" /\ ~logging
           Fetim2 == asyncState \in {"FETIM", "ON"} /\ ~logging
           Inv == RoundInv /\ AsyncRuns
           Call == <<Async>>_vars
           Step == [Next]_vars /\ [Undisturbed]_vars
<1>1. Inv => \/ Cartridges1 \/ Fetim1 \/ Hours(3) \/ Hours(2) \/ Hours(1)
             \/ Cartridges2 \/ Fetim2 \/ Cryo(16)
    <2>1. Inv => CallsLeft <= 16
        BY CallsLeftBounds, CryostatSensorsAssumption DEF RoundInv
    <2> QED BY <2>1 DEF RoundInv, TypeOK, AsyncStates, AsyncRuns, HoursLeft
<1>2. Inv /\ Inv' /\ Step => Call \/ UNCHANGED position
    BY OnlyAsyncMoves
<1>3. ASSUME NEW n \in Int
      PROVE  /\ Inv /\ Inv' /\ Cryo(n) /\ Step => Cryo(n)' \/ Call
             /\ Inv /\ Inv' /\ Hours(n) /\ Step => Hours(n)' \/ Call
    <2>1. UNCHANGED position => CallsLeft' = CallsLeft /\ HoursLeft' = HoursLeft
        BY DEF position, CallsLeft, HoursLeft
    <2>2. UNCHANGED position => UNCHANGED <<asyncState, logging>>
        BY DEF position
    <2> QED BY <1>2, <2>1, <2>2
<1>5. /\ asyncState \in {"CARTRIDGE", "FETIM", "ON"} /\ Call => OthersAsync
      /\ asyncState = "CRYOSTAT" /\ Call
            => (MeasurePoint \/ LogHoursTurn) /\ UNCHANGED settings
    BY DEF Async, CryostatAsync, OthersAsync
<1>6. ASSUME NEW n \in Int
      PROVE  Inv /\ Inv' /\ Cryo(n) /\ Call => Cryo(n - 1)' \/ <<PointChanges>>_vars
    <2> SUFFICES ASSUME Inv, Inv', Cryo(n), Call, ~<<PointChanges>>_vars PROVE Cryo(n - 1)'
        OBVIOUS
    <2>1. point' = point
        BY DEF PointChanges, vars
    <2>2. ~MovesOn
        BY <2>1, NextPoint DEF MovesOn, RoundInv, TypeOK
    <2>3. MeasurePoint /\ UNCHANGED settings
        BY <1>5 DEF LogHoursTurn
    <2>4. UNCHANGED <<asyncState, point, logging>> /\ CallsLeft' <= CallsLeft - 1
        BY <2>2, <2>3, SampleAdvances
    <2>5. CallsLeft \in Int /\ CallsLeft' \in Int
        BY CallsLeftBounds, CallsLeftNext, CryostatSensorsAssumption DEF RoundInv
    <2> QED BY <2>4, <2>5
<1>7. ASSUME NEW n \in Int
      PROVE  Inv /\ Inv' /\ Hours(n) /\ Call => Hours(n - 1)' \/ Cartridges2'
    BY <1>5, HoursAdvance DEF MeasurePoint, RoundInv, TypeOK
<1>8. /\ Inv /\ Cartridges1 /\ Call => Fetim1'
      /\ Inv /\ Cartridges2 /\ Call => Fetim2'
    BY <1>5, OthersAdvance
<1>9. /\ Inv /\ Inv' /\ Fetim1 /\ Call => Hours(3)' \/ Hours(2)' \/ Hours(1)'
      /\ Inv /\ Inv' /\ Fetim2 /\ Call => Cryo(16)'
    <2>1. Inv' => CallsLeft' <= 16
        BY CallsLeftNext, CryostatSensorsAssumption DEF RoundInv
    <2>2. /\ Inv /\ Fetim1 /\ Call => asyncState' = "CRYOSTAT" /\ logging'
          /\ Inv /\ Fetim2 /\ Call => asyncState' = "CRYOSTAT" /\ ~logging'
        BY <1>5, OthersAdvance
    <2> QED BY <2>1, <2>2 DEF HoursLeft
<1>10. Inv => ~Cryo(0) /\ ~Hours(0)
    BY CallsLeftBounds, CryostatSensorsAssumption DEF HoursLeft, RoundInv
<1>11. Inv /\ NothingBlocks => ENABLED <<Async>>_vars
    BY DEF NothingBlocks, AsyncRuns
<1>15. /\ Inv /\ Inv' /\ Cartridges1 /\ Step => Cartridges1' \/ Call
       /\ Inv /\ Inv' /\ Cartridges2 /\ Step => Cartridges2' \/ Call
       /\ Inv /\ Inv' /\ Fetim1 /\ Step => Fetim1' \/ Call
       /\ Inv /\ Inv' /\ Fetim2 /\ Step => Fetim2' \/ Call
    BY <1>2 DEF position
<1> HIDE DEF Cryo, Hours, Cartridges1, Cartridges2, Fetim1, Fetim2, Inv
\* Each phase is kept until async() is called, and the call leads to the next.
<1>12. /\ Inv /\ Inv' /\ Cryo(16) /\ Call => Cryo(15)' \/ <<PointChanges>>_vars
       /\ Inv /\ Inv' /\ Cryo(15) /\ Call => Cryo(14)' \/ <<PointChanges>>_vars
       /\ Inv /\ Inv' /\ Cryo(14) /\ Call => Cryo(13)' \/ <<PointChanges>>_vars
       /\ Inv /\ Inv' /\ Cryo(13) /\ Call => Cryo(12)' \/ <<PointChanges>>_vars
       /\ Inv /\ Inv' /\ Cryo(12) /\ Call => Cryo(11)' \/ <<PointChanges>>_vars
       /\ Inv /\ Inv' /\ Cryo(11) /\ Call => Cryo(10)' \/ <<PointChanges>>_vars
       /\ Inv /\ Inv' /\ Cryo(10) /\ Call => Cryo(9)' \/ <<PointChanges>>_vars
       /\ Inv /\ Inv' /\ Cryo(9) /\ Call => Cryo(8)' \/ <<PointChanges>>_vars
       /\ Inv /\ Inv' /\ Cryo(8) /\ Call => Cryo(7)' \/ <<PointChanges>>_vars
       /\ Inv /\ Inv' /\ Cryo(7) /\ Call => Cryo(6)' \/ <<PointChanges>>_vars
       /\ Inv /\ Inv' /\ Cryo(6) /\ Call => Cryo(5)' \/ <<PointChanges>>_vars
       /\ Inv /\ Inv' /\ Cryo(5) /\ Call => Cryo(4)' \/ <<PointChanges>>_vars
       /\ Inv /\ Inv' /\ Cryo(4) /\ Call => Cryo(3)' \/ <<PointChanges>>_vars
       /\ Inv /\ Inv' /\ Cryo(3) /\ Call => Cryo(2)' \/ <<PointChanges>>_vars
       /\ Inv /\ Inv' /\ Cryo(2) /\ Call => Cryo(1)' \/ <<PointChanges>>_vars
       /\ Inv /\ Inv' /\ Cryo(1) /\ Call => Cryo(0)' \/ <<PointChanges>>_vars
    BY <1>6
<1>13. /\ Inv /\ Inv' /\ Cryo(16) /\ Step => Cryo(16)' \/ Call
       /\ Inv /\ Inv' /\ Cryo(15) /\ Step => Cryo(15)' \/ Call
       /\ Inv /\ Inv' /\ Cryo(14) /\ Step => Cryo(14)' \/ Call
       /\ Inv /\ Inv' /\ Cryo(13) /\ Step => Cryo(13)' \/ Call
       /\ Inv /\ Inv' /\ Cryo(12) /\ Step => Cryo(12)' \/ Call
       /\ Inv /\ Inv' /\ Cryo(11) /\ Step => Cryo(11)' \/ Call
       /\ Inv /\ Inv' /\ Cryo(10) /\ Step => Cryo(10)' \/ Call
       /\ Inv /\ Inv' /\ Cryo(9) /\ Step => Cryo(9)' \/ Call
       /\ Inv /\ Inv' /\ Cryo(8) /\ Step => Cryo(8)' \/ Call
       /\ Inv /\ Inv' /\ Cryo(7) /\ Step => Cryo(7)' \/ Call
       /\ Inv /\ Inv' /\ Cryo(6) /\ Step => Cryo(6)' \/ Call
       /\ Inv /\ Inv' /\ Cryo(5) /\ Step => Cryo(5)' \/ Call
       /\ Inv /\ Inv' /\ Cryo(4) /\ Step => Cryo(4)' \/ Call
       /\ Inv /\ Inv' /\ Cryo(3) /\ Step => Cryo(3)' \/ Call
       /\ Inv /\ Inv' /\ Cryo(2) /\ Step => Cryo(2)' \/ Call
       /\ Inv /\ Inv' /\ Cryo(1) /\ Step => Cryo(1)' \/ Call
    BY <1>3
<1>14. /\ /\ Inv /\ Inv' /\ Hours(3) /\ Call => Hours(2)' \/ Cartridges2'
          /\ Inv /\ Inv' /\ Hours(2) /\ Call => Hours(1)' \/ Cartridges2'
          /\ Inv /\ Inv' /\ Hours(1) /\ Call => Hours(0)' \/ Cartridges2'
       /\ /\ Inv /\ Inv' /\ Hours(3) /\ Step => Hours(3)' \/ Call
          /\ Inv /\ Inv' /\ Hours(2) /\ Step => Hours(2)' \/ Call
          /\ Inv /\ Inv' /\ Hours(1) /\ Step => Hours(1)' \/ Call
    <2>1. /\ Inv /\ Inv' /\ Hours(3) /\ Call => Hours(2)' \/ Cartridges2'
          /\ Inv /\ Inv' /\ Hours(2) /\ Call => Hours(1)' \/ Cartridges2'
          /\ Inv /\ Inv' /\ Hours(1) /\ Call => Hours(0)' \/ Cartridges2'
        BY <1>7
    <2>2. /\ Inv /\ Inv' /\ Hours(3) /\ Step => Hours(3)' \/ Call
          /\ Inv /\ Inv' /\ Hours(2) /\ Step => Hours(2)' \/ Call
          /\ Inv /\ Inv' /\ Hours(1) /\ Step => Hours(1)' \/ Call
        BY <1>3
    <2> QED BY <2>1, <2>2
<1>16. Scheduled => []Inv
    BY PTL DEF Scheduled, Inv
\* In stages: the provers take few phases at a time.
<1>17. Scheduled => [](Cryo(16) => <><<PointChanges>>_vars \/ <>Cryo(11))
    BY <1>11, <1>12, <1>13, <1>16, PTL DEF Scheduled
<1>18. Scheduled => [](Cryo(11) => <><<PointChanges>>_vars \/ <>Cryo(6))
    BY <1>11, <1>12, <1>13, <1>16, PTL DEF Scheduled
<1>19. Scheduled => [](Cryo(6) => <><<PointChanges>>_vars)
    BY <1>10, <1>11, <1>12, <1>13, <1>16, PTL DEF Scheduled
<1>20. Scheduled => []<>(Cryo(16) \/ Cartridges2 \/ Fetim2)
    BY <1>1, <1>8, <1>9, <1>10, <1>11, <1>14, <1>15, <1>16, PTL DEF Scheduled
<1>21. Scheduled => []<>Cryo(16)
    BY <1>8, <1>9, <1>11, <1>15, <1>16, <1>20, PTL DEF Scheduled
<1> QED BY <1>17, <1>18, <1>19, <1>21, PTL
\* j points are measured before point q.
Before(q, j) == j <= Supply /\ point = IF j <= q THEN q - j ELSE q - j + Supply + 1

\* A point is left for the next one, with no sample begun there.
LEMMA PointLeft ==
    ASSUME RoundInv, AsyncRuns, AsyncRuns', [Next]_vars, [Undisturbed]_vars
    PROVE  /\ PointChanges => MovesOn
           /\ ~PointChanges => point' = point
<1> USE DEF PointChanges
<1>1. CASE ~<<Async>>_vars
    BY <1>1, OnlyAsyncMoves DEF position
<1>2. CASE Async
    <2>1. CASE MeasurePoint /\ UNCHANGED settings
        BY <2>1, SampleAdvances
    <2>2. CASE LogHoursTurn
        BY <2>2 DEF LogHoursTurn
    <2>3. CASE OthersAsync
        BY <2>3 DEF OthersAsync
    <2> QED BY <1>2, <2>1, <2>2, <2>3 DEF Async, CryostatAsync
<1> QED BY <1>1, <1>2

\* The numbers of sensors and retries of the code (cryostatTemp.h:26,
\* vacuumSensor.h:28, cryostatSerialInterface.h:140), or fewer.
CodeBounds ==
    /\ CRYOSTAT_TEMP_SENSORS_NUMBER + VACUUM_SENSORS_NUMBER <= 15
    /\ CRYO_ADC_MAX_RETRIES <= 10

\* Every point is come to, with no sample begun, again and again; and the hours
\* after the last.
LEMMA PointComesBack ==
    ASSUME CodeBounds, NEW p \in Points
    PROVE  Scheduled => /\ []<>(point = p /\ analogState = "AREG")
                        /\ p = Supply => []<>logging
<1> DEFINE D(j) == Before(p, j)
           Here == point = p /\ analogState = "AREG"
           Inv == RoundInv /\ AsyncRuns
           Step == [Next]_vars /\ [Undisturbed]_vars
           Leaves == <<PointChanges>>_vars
           Last == p = Supply
<1>0. /\ Supply \in Nat /\ 2 <= Supply /\ Supply <= 15 /\ p \in 0 .. Supply
      /\ Points = 0 .. Supply
    BY CryostatSensorsAssumption DEF CodeBounds
<1> HIDE DEF Points, Supply
<1>1. Inv => \/ D(0) \/ D(1) \/ D(2) \/ D(3) \/ D(4) \/ D(5) \/ D(6) \/ D(7)
             \/ D(8) \/ D(9) \/ D(10) \/ D(11) \/ D(12) \/ D(13) \/ D(14) \/ D(15)
    <2> DEFINE n == IF point <= p THEN p - point ELSE p - point + Supply + 1
    <2>1. Inv => n \in 0 .. 15 /\ D(n)
        BY <1>0 DEF RoundInv, TypeOK, Before
    <2> HIDE DEF n, D
    <2> QED BY <2>1
<1>2. /\ Inv /\ Inv' /\ Step /\ Leaves => MovesOn
      /\ Inv /\ Inv' /\ Step => Leaves \/ point' = point
    BY PointLeft DEF vars, PointChanges
<1>3. ASSUME NEW j \in 0 .. 15
      PROVE  Inv /\ Inv' /\ D(j) /\ Step => D(j)' \/ Leaves
    BY <1>2 DEF Before
<1>4. ASSUME NEW j \in 2 .. 15
      PROVE  Inv /\ Inv' /\ Step /\ D(j) /\ Leaves => D(j - 1)'
    BY <1>0, <1>2 DEF Before, MovesOn
<1>5. Inv /\ Inv' /\ Step /\ D(1) /\ Leaves => Here'
    BY <1>0, <1>2 DEF Before, MovesOn
<1>6. Inv /\ Inv' /\ Step /\ D(0) /\ Leaves => (~D(0))' /\ (Last => logging')
    BY <1>0, <1>2 DEF Before, MovesOn
<1>7. Here => D(0)
    BY <1>0 DEF Before
<1> HIDE DEF D, Here, Inv
<1>8. /\ Inv /\ Inv' /\ Step /\ D(15) /\ Leaves => D(14)'
      /\ Inv /\ Inv' /\ Step /\ D(14) /\ Leaves => D(13)'
      /\ Inv /\ Inv' /\ Step /\ D(13) /\ Leaves => D(12)'
      /\ Inv /\ Inv' /\ Step /\ D(12) /\ Leaves => D(11)'
      /\ Inv /\ Inv' /\ Step /\ D(11) /\ Leaves => D(10)'
      /\ Inv /\ Inv' /\ Step /\ D(10) /\ Leaves => D(9)'
      /\ Inv /\ Inv' /\ Step /\ D(9) /\ Leaves => D(8)'
      /\ Inv /\ Inv' /\ Step /\ D(8) /\ Leaves => D(7)'
      /\ Inv /\ Inv' /\ Step /\ D(7) /\ Leaves => D(6)'
      /\ Inv /\ Inv' /\ Step /\ D(6) /\ Leaves => D(5)'
      /\ Inv /\ Inv' /\ Step /\ D(5) /\ Leaves => D(4)'
      /\ Inv /\ Inv' /\ Step /\ D(4) /\ Leaves => D(3)'
      /\ Inv /\ Inv' /\ Step /\ D(3) /\ Leaves => D(2)'
      /\ Inv /\ Inv' /\ Step /\ D(2) /\ Leaves => D(1)'
    BY <1>4
<1>9. /\ Inv /\ Inv' /\ D(15) /\ Step => D(15)' \/ Leaves
      /\ Inv /\ Inv' /\ D(14) /\ Step => D(14)' \/ Leaves
      /\ Inv /\ Inv' /\ D(13) /\ Step => D(13)' \/ Leaves
      /\ Inv /\ Inv' /\ D(12) /\ Step => D(12)' \/ Leaves
      /\ Inv /\ Inv' /\ D(11) /\ Step => D(11)' \/ Leaves
      /\ Inv /\ Inv' /\ D(10) /\ Step => D(10)' \/ Leaves
      /\ Inv /\ Inv' /\ D(9) /\ Step => D(9)' \/ Leaves
      /\ Inv /\ Inv' /\ D(8) /\ Step => D(8)' \/ Leaves
      /\ Inv /\ Inv' /\ D(7) /\ Step => D(7)' \/ Leaves
      /\ Inv /\ Inv' /\ D(6) /\ Step => D(6)' \/ Leaves
      /\ Inv /\ Inv' /\ D(5) /\ Step => D(5)' \/ Leaves
      /\ Inv /\ Inv' /\ D(4) /\ Step => D(4)' \/ Leaves
      /\ Inv /\ Inv' /\ D(3) /\ Step => D(3)' \/ Leaves
      /\ Inv /\ Inv' /\ D(2) /\ Step => D(2)' \/ Leaves
      /\ Inv /\ Inv' /\ D(1) /\ Step => D(1)' \/ Leaves
      /\ Inv /\ Inv' /\ D(0) /\ Step => D(0)' \/ Leaves
    BY <1>3
<1>10. Scheduled => []Inv /\ []<><<PointChanges>>_vars
    BY PointsMove, PTL DEF Scheduled, Inv, CodeBounds
\* In stages again.
<1>11. Scheduled => [](D(15) \/ D(14) \/ D(13) \/ D(12) \/ D(11) => <>D(10))
    BY <1>8, <1>9, <1>10, PTL DEF Scheduled
<1>12. Scheduled => [](D(10) \/ D(9) \/ D(8) \/ D(7) \/ D(6) => <>D(5))
    BY <1>8, <1>9, <1>10, PTL DEF Scheduled
<1>13. Scheduled => [](D(5) \/ D(4) \/ D(3) \/ D(2) \/ D(1) => <>Here)
    BY <1>5, <1>8, <1>9, <1>10, PTL DEF Scheduled
<1>14. Scheduled => []<>(~D(0))
    BY <1>6, <1>10, PTL DEF Scheduled
<1>15. Scheduled => []<>Here
    BY <1>1, <1>10, <1>11, <1>12, <1>13, <1>14, PTL
<1>16. Last => (Scheduled => []<>logging)
    <2>1. Last => Last'
        OBVIOUS
    <2> HIDE DEF Last
    <2> QED BY <1>6, <1>7, <1>9, <1>10, <1>15, <2>1, PTL DEF Scheduled
<1>17. Scheduled => []<>(point = p /\ analogState = "AREG")
    BY <1>15, PTL DEF Here
<1> QED BY <1>16, <1>17 DEF Last

\* If the mode does not change in the middle of a sample, every point is measured
\* again and again and the hours are looked at, whatever fails, RoundGoesOn
\* (cryostat.c:388-560).
THEOREM RoundAlwaysGoesOn ==
    ASSUME WithinSample = FALSE, CodeBounds
    PROVE  Spec /\ []NothingBlocks => RoundGoesOn
<1> DEFINE LeftToItself == <>[](asyncState # "OFF") /\ <>[][~PowerCommand /\ ~Restart]_vars
           ComesBack(p) == []<>(point = p /\ analogState = "AREG")
<1>0. /\ AsyncRuns <=> asyncState # "OFF"
      /\ [Undisturbed]_vars <=> [~PowerCommand /\ ~Restart]_vars
    BY DEF AsyncRuns, Undisturbed
<1>1. ASSUME NEW p \in Points
      PROVE  Spec /\ []NothingBlocks => (LeftToItself => ComesBack(p))
    <2>1. Scheduled => ComesBack(p)
        BY PointComesBack
    <2> QED BY <1>0, <2>1, RoundInvHolds, PTL DEF Scheduled, Spec
<1>2. ASSUME NEW p \in Points, p = Supply
      PROVE  Spec /\ []NothingBlocks => (LeftToItself => []<>logging)
    <2>1. Scheduled => []<>logging
        BY <1>2, PointComesBack
    <2> QED BY <1>0, <2>1, RoundInvHolds, PTL DEF Scheduled, Spec
<1> HIDE DEF LeftToItself, ComesBack
<1>3. Spec /\ []NothingBlocks => (LeftToItself => []<>logging)
    <2>1. Supply \in Points
        BY CryostatSensorsAssumption
    <2> QED BY <1>2, <2>1
<1>4. Spec /\ []NothingBlocks
        => (LeftToItself => (\A p \in Points : ComesBack(p)) /\ []<>logging)
    BY <1>1, <1>3
<1> QED BY <1>4 DEF RoundGoesOn, LeftToItself, ComesBack
=============================================================================
