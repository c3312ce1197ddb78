--------------------------- MODULE CanCommProofs ---------------------------
(***************************************************************************)
(* Proofs about CanComm, for any kinds and number of messages.             *)
(*                                                                         *)
(* ExecutedOnce holds with the console and with every timeout: a message   *)
(* is numbered above all those handled before until it is handled itself   *)
(* (OrderInv); AnsweredOnce says the same of the answers. The promise of   *)
(* CanService holds as long as the console is not used and no write is     *)
(* lost, whatever reads time out: the interrupt stays in service from the  *)
(* reading of a message to its PPClear, and the buffer holds the one       *)
(* message not yet handled (ServiceInv).                                   *)
(*                                                                         *)
(* Liveness (PortReleased, EveryMessageServed) follows from the fairness   *)
(* of FairSpec by leading each place a message can be at to the next. That *)
(* a fair action is enabled there is the hypothesis NothingBlocks.         *)
(***************************************************************************)
EXTENDS CanComm, Integers, TLAPS

\* The messages the interrupt handler has read.
Read == IF waiting THEN Len(sent) - 1 ELSE Len(sent)

-----------------------------------------------------------------------------
(* The ranges of the variables that both arguments need.                   *)

VarTypes ==
    /\ sent \in Seq(Kinds) /\ Len(sent) <= MaxMessages
    /\ waiting \in BOOLEAN /\ (waiting => Len(sent) > 0)
    /\ inService \in BOOLEAN /\ newCANMsg \in BOOLEAN
    /\ PPRxBuffer \in Messages /\ CANMessage \in Messages
    /\ pc \in Steps /\ again \in BOOLEAN /\ stop \in BOOLEAN
    /\ headerTimeout \in Nat
    /\ executed \in Seq(Numbers) /\ replies \in Seq(Numbers)

LEMMA MessageFields ==
    ASSUME NEW m \in Messages
    PROVE  m.number \in Numbers /\ m.kind \in AllKinds /\ m.own \in BOOLEAN
BY DEF Messages

LEMMA MessageTyped ==
    ASSUME NEW n \in Numbers, NEW k \in AllKinds, NEW own \in BOOLEAN
    PROVE  /\ Message(n, k, own) \in Messages
           /\ Message(n, k, own).number = n
           /\ Message(n, k, own).kind = k
BY DEF Message, Messages

\* Appending keeps the type of a sequence and what it held.
LEMMA AppendTyped ==
    ASSUME NEW S, NEW s \in Seq(S), NEW e \in S
    PROVE  /\ Append(s, e) \in Seq(S)
           /\ Len(Append(s, e)) = Len(s) + 1
           /\ \A i \in 1 .. Len(s) : Append(s, e)[i] = s[i]
           /\ Append(s, e)[Len(s) + 1] = e
OBVIOUS

\* What the interrupt handler puts in the buffer is a message.
LEMMA LastSent ==
    ASSUME VarTypes, waiting
    PROVE  /\ Len(sent) \in Numbers \ {0}
           /\ sent[Len(sent)] \in AllKinds
BY CanCommAssumption DEF VarTypes, Numbers

LEMMA ExecutedNumbers ==
    ASSUME VarTypes
    PROVE  /\ DOMAIN executed = 1 .. Len(executed)
           /\ \A i \in 1 .. Len(executed) : executed[i] \in Nat
<1>1. \A i \in 1 .. Len(executed) : executed[i] \in Numbers
    BY DEF VarTypes
<1> QED BY <1>1 DEF VarTypes, Numbers

LEMMA VarTypesInit == Init => VarTypes
<1>1. 0 \in Numbers /\ "monitor" \in AllKinds
    BY CanCommAssumption DEF Numbers, AllKinds
<1> QED
    <2>1. [number |-> 0, kind |-> "monitor", own |-> TRUE] \in Messages
        BY <1>1 DEF Messages
    <2>2. <<>> \in Seq(Kinds) /\ <<>> \in Seq(Numbers) /\ Len(<<>>) <= MaxMessages
        BY CanCommAssumption
    <2> SUFFICES ASSUME Init PROVE VarTypes
        OBVIOUS
    <2>3. sent \in Seq(Kinds) /\ Len(sent) <= MaxMessages
          /\ executed \in Seq(Numbers) /\ replies \in Seq(Numbers)
        BY <2>2 DEF Init
    <2>4. PPRxBuffer \in Messages /\ CANMessage \in Messages
        BY <2>1 DEF Init, Message
    <2>5. ~waiting /\ waiting \in BOOLEAN /\ inService \in BOOLEAN /\ newCANMsg \in BOOLEAN
          /\ pc \in Steps /\ again \in BOOLEAN /\ stop \in BOOLEAN
        BY DEF Init, Steps
    <2>6. headerTimeout \in Nat
        BY DEF Init
    <2> QED BY <2>3, <2>4, <2>5, <2>6 DEF VarTypes

LEMMA VarTypesNext == VarTypes /\ [Next]_vars => VarTypes'
<1> SUFFICES ASSUME VarTypes, [Next]_vars PROVE VarTypes'
    OBVIOUS
<1> USE DEF VarTypes, Steps, bufferVars, historyVars
<1>0. 0 \in Numbers /\ {"monitor", "control", "reserved"} \subseteq AllKinds
    BY CanCommAssumption DEF Numbers, AllKinds
<1>1. CASE Present
    BY <1>1, CanCommAssumption, AppendTyped DEF Present
<1>2. CASE MessageRead
    <2>1. PPRxBuffer' \in Messages
        BY <1>2, LastSent, MessageTyped DEF MessageRead, HeaderRead, InterruptAccepted
    <2> QED BY <1>2, <2>1 DEF MessageRead, HeaderRead, InterruptAccepted
<1>3. CASE HeaderTimeout
    <2>1. PPRxBuffer' \in Messages
        BY <1>3, LastSent, MessageTyped DEF HeaderTimeout, HeaderRead, InterruptAccepted
    <2>2. headerTimeout' \in Nat
        BY <1>3 DEF HeaderTimeout
    <2> QED BY <1>3, <2>1, <2>2 DEF HeaderTimeout, HeaderRead, InterruptAccepted
<1>4. CASE StartHandler BY <1>4 DEF StartHandler
<1>5. CASE Console
    <2>1. CANMessage' \in Messages
        <3>1. \A k \in AllKinds : Message(0, k, TRUE) \in Messages
            BY <1>0 DEF Message, Messages
        <3> QED BY <1>0, <1>5, <3>1 DEF Console
    <2> QED BY <1>5, <2>1 DEF Console
<1>6. CASE Stop BY <1>6 DEF Stop
<1>7. CASE ReceiveCANMessage
    <2>1. CANMessage' \in Messages
        BY <1>7 DEF ReceiveCANMessage
    <2>2. executed' \in Seq(Numbers)
        BY <1>7, <2>1, MessageFields, AppendTyped DEF ReceiveCANMessage
    <2> QED BY <1>7, <2>1, <2>2 DEF ReceiveCANMessage
<1>8. CASE Handle
    <2>1. executed' \in Seq(Numbers)
        BY <1>8, MessageFields, AppendTyped DEF Handle
    <2> QED BY <1>8, <2>1 DEF Handle
<1>9. CASE SendCANMessage
    <2>1. replies' \in Seq(Numbers)
        BY <1>9, MessageFields, AppendTyped DEF SendCANMessage
    <2> QED BY <1>9, <2>1 DEF SendCANMessage
<1>10. CASE ClearFlag BY <1>10 DEF ClearFlag
<1>11. CASE PPClear
    <2>1. CANMessage' \in Messages
        <3>1. \A k \in AllKinds : Message(0, k, TRUE) \in Messages
            BY <1>0 DEF Message, Messages
        <3>2. CASE again /\ CANMessage.kind = "reserved"
            BY <1>0, <1>11, <3>1, <3>2 DEF PPClear
        <3>3. CASE again /\ CANMessage.kind # "reserved"
            BY <1>0, <1>11, <3>1, <3>3 DEF PPClear
        <3>4. CASE ~again
            BY <1>11, <3>4 DEF PPClear
        <3> QED BY <3>2, <3>3, <3>4
    <2> QED BY <1>11, <2>1 DEF PPClear
<1>12. CASE Idle \/ UNCHANGED vars BY <1>12 DEF Idle, vars
<1> QED
    BY <1>1, <1>2, <1>3, <1>4, <1>5, <1>6, <1>7, <1>8, <1>9, <1>10, <1>11, <1>12
    DEF Next, PPIntHandler, MainThread, CANMessageHandler

-----------------------------------------------------------------------------
(* No message is handled twice, nor after a later one.                     *)

\* Every number handled so far is below n.
AllBelow(n) == \A i \in DOMAIN executed : executed[i] < n

OrderInv ==
    /\ AllBelow(Read + 1)
    /\ PPRxBuffer.number <= Read
    /\ newCANMsg /\ pc \in {"idle", "receive", "clearPort"} => AllBelow(PPRxBuffer.number)
    /\ pc = "receive" /\ ~newCANMsg => CANMessage.number = 0
    /\ pc = "handle" => CANMessage.number = 0 \/ AllBelow(CANMessage.number)
    /\ pc = "handle" => CANMessage.number <= Read
    /\ ExecutedAtMostOnce

\* A message above those before it keeps the order.
LEMMA AppendKeepsOrder ==
    ASSUME VarTypes, ExecutedAtMostOnce, NEW n \in Numbers, AllBelow(n),
           executed' = Append(executed, n)
    PROVE  ExecutedAtMostOnce' /\ (\A k \in Nat : n < k => AllBelow(k)')
<1>1. /\ executed' \in Seq(Numbers)
      /\ Len(executed') = Len(executed) + 1
      /\ \A i \in 1 .. Len(executed) : executed'[i] = executed[i] /\ executed[i] < n
      /\ executed'[Len(executed) + 1] = n
      /\ Len(executed) \in Nat /\ n \in Nat
    BY AppendTyped DEF VarTypes, AllBelow, Numbers
<1>2. \A i \in 1 .. Len(executed) : executed[i] \in Nat
    BY ExecutedNumbers
<1>3. ASSUME NEW i \in DOMAIN executed', NEW j \in DOMAIN executed', i < j
      PROVE  executed'[i] < executed'[j]
    <2>1. CASE j \in 1 .. Len(executed)
        BY <1>1, <1>3, <2>1 DEF VarTypes, ExecutedAtMostOnce
    <2>2. CASE j = Len(executed) + 1
        BY <1>1, <1>3, <2>2
    <2> QED BY <1>1, <2>1, <2>2
<1>4. ASSUME NEW k \in Nat, n < k, NEW i \in DOMAIN executed'
      PROVE  executed'[i] < k
    BY <1>1, <1>2, <1>4
<1> QED BY <1>3, <1>4 DEF ExecutedAtMostOnce, AllBelow

LEMMA OrderNext == VarTypes /\ VarTypes' /\ OrderInv /\ [Next]_vars => OrderInv'
<1> SUFFICES ASSUME VarTypes, VarTypes', OrderInv, [Next]_vars PROVE OrderInv'
    OBVIOUS
<1> USE DEF bufferVars, historyVars
<1>0. /\ Read \in Nat /\ Len(sent) \in Nat
      /\ CANMessage.number \in Nat /\ PPRxBuffer.number \in Nat
      /\ \A i \in DOMAIN executed : executed[i] \in Nat
    <2>1. CANMessage.number \in Nat /\ PPRxBuffer.number \in Nat
        BY MessageFields DEF VarTypes, Numbers
    <2>2. Len(sent) \in Nat /\ (waiting => Len(sent) > 0)
        BY DEF VarTypes
    <2> QED BY <2>1, <2>2, ExecutedNumbers DEF Read
<1>1. CASE Present
    <2>1. Read' = Read
        BY <1>1, AppendTyped DEF Present, Read, VarTypes
    <2> QED BY <1>1, <2>1 DEF Present, OrderInv, AllBelow, ExecutedAtMostOnce
<1>2. ASSUME HeaderRead, PPRxBuffer'.number = Len(sent),
             pc = "receive" /\ newCANMsg => newCANMsg',
             UNCHANGED <<sent, CANMessage, pc, executed>>
      PROVE  OrderInv'
    <2>1. Read + 1 = Len(sent) /\ Read' = Len(sent)
        BY <1>0, <1>2 DEF HeaderRead, InterruptAccepted, Read
    <2>2. AllBelow(Read + 1)' /\ AllBelow(PPRxBuffer.number)'
        BY <1>0, <1>2, <2>1 DEF OrderInv, AllBelow
    <2>3. PPRxBuffer'.number <= Read'
        BY <1>0, <1>2, <2>1
    <2>4. ExecutedAtMostOnce'
        BY <1>2 DEF OrderInv, ExecutedAtMostOnce
    <2>5. /\ pc = "handle" => CANMessage.number = 0 \/ AllBelow(CANMessage.number)'
          /\ pc = "handle" => CANMessage.number <= Read'
        BY <1>0, <1>2, <2>1 DEF OrderInv, AllBelow
    <2> QED
        BY <1>2, <2>2, <2>3, <2>4, <2>5 DEF OrderInv
<1>3. CASE PPIntHandler
    <2>1. PPRxBuffer'.number = Len(sent)
        BY <1>3 DEF PPIntHandler, MessageRead, HeaderTimeout, Message
    <2> QED
        BY <1>2, <1>3, <2>1 DEF PPIntHandler, MessageRead, HeaderTimeout
<1>4. CASE StartHandler
    BY <1>4 DEF StartHandler, Read, OrderInv, AllBelow, ExecutedAtMostOnce
<1>5. CASE Console
    <2>1. pc' = "receive" => CANMessage'.number = 0
        BY <1>5 DEF Console, Message
    <2>2. UNCHANGED <<sent, waiting, bufferVars, historyVars>> /\ pc = "idle"
          /\ pc' \in {"receive", "idle"}
        BY <1>5 DEF Console
    <2> QED BY <2>1, <2>2 DEF Read, OrderInv, AllBelow, ExecutedAtMostOnce
<1>6. CASE Stop
    BY <1>6 DEF Stop, Read, OrderInv, AllBelow, ExecutedAtMostOnce
<1>7. CASE ReceiveCANMessage
    <2>1. UNCHANGED <<sent, waiting, bufferVars>> /\ Read' = Read
          /\ pc = "receive" /\ pc' \in {"clearFlag", "handle"}
        BY <1>7 DEF ReceiveCANMessage, Read
    <2>2. CANMessage'.number = 0 \/ AllBelow(CANMessage'.number)
        BY <1>7 DEF ReceiveCANMessage, OrderInv
    <2>3. CANMessage'.number <= Read
        BY <1>0, <1>7 DEF ReceiveCANMessage, OrderInv
    <2>4. CASE executed' = executed
        BY <2>1, <2>2, <2>3, <2>4 DEF OrderInv, AllBelow, ExecutedAtMostOnce
    <2>5. CASE executed' = Append(executed, CANMessage'.number) /\ CANMessage'.number # 0
               /\ pc' = "clearFlag"
        <3>1. ExecutedAtMostOnce' /\ AllBelow(Read + 1)'
            <4>1. CANMessage'.number \in Numbers /\ CANMessage'.number < Read + 1
                BY <1>0, <2>3, MessageFields DEF VarTypes, Numbers
            <4>2. \A k \in Nat : CANMessage'.number < k => AllBelow(k)'
                BY <2>2, <2>5, <4>1, AppendKeepsOrder DEF OrderInv
            <4>3. ExecutedAtMostOnce'
                BY <2>2, <2>5, <4>1, AppendKeepsOrder DEF OrderInv
            <4> QED BY <1>0, <2>1, <4>1, <4>2, <4>3
        <3> QED BY <2>1, <2>5, <3>1 DEF OrderInv
    <2> QED BY <1>7, <2>4, <2>5 DEF ReceiveCANMessage
<1>8. CASE Handle
    <2>1. UNCHANGED <<sent, waiting, bufferVars>> /\ Read' = Read
          /\ pc = "handle" /\ pc' \in {"clearFlag", "send"}
        BY <1>8 DEF Handle, Read
    <2>2. CASE CANMessage.number = 0
        BY <1>8, <2>1, <2>2 DEF Handle, OrderInv, AllBelow, ExecutedAtMostOnce
    <2>3. CASE CANMessage.number # 0
        <3>1. CANMessage.number \in Numbers /\ AllBelow(CANMessage.number)
              /\ CANMessage.number < Read + 1
            BY <1>0, <2>1, <2>3, MessageFields DEF VarTypes, OrderInv
        <3>2. executed' = Append(executed, CANMessage.number)
            BY <1>8, <2>3 DEF Handle
        <3>3. ExecutedAtMostOnce' /\ (\A k \in Nat : CANMessage.number < k => AllBelow(k)')
            BY <3>1, <3>2, AppendKeepsOrder DEF OrderInv
        <3>4. AllBelow(Read + 1)'
            BY <1>0, <2>1, <3>1, <3>3
        <3> QED BY <2>1, <3>3, <3>4 DEF OrderInv
    <2> QED BY <2>2, <2>3
<1>9. CASE SendCANMessage
    BY <1>9 DEF SendCANMessage, Read, OrderInv, AllBelow, ExecutedAtMostOnce
<1>10. CASE ClearFlag
    BY <1>10 DEF ClearFlag, Read, OrderInv, AllBelow, ExecutedAtMostOnce
<1>11. CASE PPClear
    <2>1. pc' = "receive" => CANMessage'.number = 0
        BY <1>11 DEF PPClear, Message
    <2>2. /\ UNCHANGED <<sent, waiting, PPRxBuffer, newCANMsg, historyVars>>
          /\ pc = "clearPort" /\ pc' \in {"receive", "idle"}
        BY <1>11 DEF PPClear
    <2> QED BY <2>1, <2>2 DEF Read, OrderInv, AllBelow, ExecutedAtMostOnce
<1>12. CASE Idle \/ UNCHANGED vars
    BY <1>12 DEF Idle, vars, Read, OrderInv, AllBelow, ExecutedAtMostOnce
<1> QED
    BY <1>1, <1>3, <1>4, <1>5, <1>6, <1>7, <1>8, <1>9, <1>10, <1>11, <1>12
    DEF Next, MainThread, CANMessageHandler

\* No message is handled twice or after a later one, whatever the console
\* does and whatever times out: ExecutedAtMostOnce (can.c:87-113, ppComm.c:278).
THEOREM ExecutedOnce == Spec => []ExecutedAtMostOnce
<1>1. Init => OrderInv
    BY DEF Init, OrderInv, AllBelow, ExecutedAtMostOnce, Message, Read
<1>2. OrderInv => ExecutedAtMostOnce
    BY DEF OrderInv
<1> QED
    BY <1>1, <1>2, VarTypesInit, VarTypesNext, OrderNext, PTL DEF Spec

-----------------------------------------------------------------------------
(* What the bus is answered, with the console and with every timeout.      *)

\* A message with a number is one of those sent, and of its kind.
Sent(m) == m.number # 0 => m.number \in DOMAIN sent /\ m.kind = sent[m.number]

\* The request to be answered now was handled, after all those answered.
AnswerInv ==
    /\ Sent(PPRxBuffer) /\ Sent(CANMessage)
    /\ pc = "send" => /\ CANMessage.kind = "monitor"
                      /\ CANMessage.number # 0 =>
                            /\ \A i \in DOMAIN replies : replies[i] < CANMessage.number
                            /\ \E k \in DOMAIN executed : executed[k] = CANMessage.number
    /\ AnsweredAtMostOnce

\* What is said of the messages sent and handled stays true as more are sent
\* and handled.
LEMMA HistoryGrows ==
    ASSUME NEW S, NEW s \in Seq(S), NEW e \in S
    PROVE  /\ DOMAIN s \subseteq DOMAIN Append(s, e)
           /\ \A i \in DOMAIN s : Append(s, e)[i] = s[i]
           /\ \A i \in DOMAIN Append(s, e) : i \notin DOMAIN s => i = Len(s) + 1
           /\ Len(s) + 1 \in DOMAIN Append(s, e)
           /\ Append(s, e)[Len(s) + 1] = e
           /\ DOMAIN s = 1 .. Len(s)
<1>1. DOMAIN s = 1 .. Len(s) /\ DOMAIN Append(s, e) = 1 .. Len(s) + 1 /\ Len(s) \in Nat
    OBVIOUS
<1> QED BY <1>1, AppendTyped

LEMMA RepliesNumbers ==
    ASSUME VarTypes
    PROVE  /\ DOMAIN replies = 1 .. Len(replies) /\ Len(replies) \in Nat
           /\ \A i \in DOMAIN replies : replies[i] \in Nat
<1>1. replies \in Seq(Numbers)
    BY DEF VarTypes
<1>2. DOMAIN replies = 1 .. Len(replies) /\ Len(replies) \in Nat
    BY <1>1
<1>3. \A i \in 1 .. Len(replies) : replies[i] \in Numbers
    BY <1>1
<1> QED BY <1>2, <1>3 DEF Numbers

LEMMA SentNumbers ==
    ASSUME VarTypes
    PROVE  DOMAIN sent = 1 .. Len(sent) /\ Len(sent) \in Nat
<1>1. sent \in Seq(Kinds)
    BY DEF VarTypes
<1> QED BY <1>1

LEMMA AnswerNext == VarTypes /\ VarTypes' /\ OrderInv /\ AnswerInv /\ [Next]_vars => AnswerInv'
<1> SUFFICES ASSUME VarTypes, VarTypes', OrderInv, AnswerInv, [Next]_vars
             PROVE  AnswerInv'
    OBVIOUS
<1> USE DEF bufferVars, historyVars
<1>1. CASE Present
    <2>1. PICK k \in Kinds : sent' = Append(sent, k)
        BY <1>1 DEF Present
    <2>2. \A n \in DOMAIN sent : n \in DOMAIN sent' /\ sent'[n] = sent[n]
        BY <2>1, HistoryGrows DEF VarTypes
    <2>3. \A i \in DOMAIN replies : replies[i] # 0 => replies[i] \in DOMAIN sent
        <3>1. \A i \in DOMAIN executed : executed[i] < Read + 1
            BY DEF OrderInv, AllBelow
        <3>2. /\ Len(sent) \in Nat /\ DOMAIN sent = 1 .. Len(sent)
              /\ Read \in Nat /\ Read <= Len(sent)
            BY SentNumbers DEF VarTypes, Read
        <3>3. \A i \in DOMAIN replies : replies[i] \in Nat
            BY RepliesNumbers
        <3> QED BY <3>1, <3>2, <3>3 DEF AnswerInv, AnsweredAtMostOnce
    <2>4. AnsweredAtMostOnce'
        BY <1>1, <2>2, <2>3 DEF Present, AnswerInv, AnsweredAtMostOnce
    <2>5. Sent(PPRxBuffer)' /\ Sent(CANMessage)'
        BY <1>1, <2>2 DEF Present, AnswerInv, Sent
    <2> QED BY <1>1, <2>4, <2>5 DEF Present, AnswerInv
<1>2. CASE PPIntHandler
    <2>1. Sent(PPRxBuffer)'
        <3>1. Len(sent) \in DOMAIN sent
            <4>1. Len(sent) > 0
                BY <1>2 DEF PPIntHandler, MessageRead, HeaderTimeout, HeaderRead,
                            InterruptAccepted, VarTypes
            <4> QED BY <4>1, SentNumbers
        <3> QED BY <1>2, <3>1 DEF PPIntHandler, MessageRead, HeaderTimeout, Message, Sent
    <2>2. UNCHANGED <<sent, CANMessage, pc, executed, replies>>
        BY <1>2 DEF PPIntHandler, MessageRead, HeaderTimeout
    <2> QED BY <2>1, <2>2 DEF AnswerInv, AnsweredAtMostOnce, Sent
<1>3. CASE StartHandler
    BY <1>3 DEF StartHandler, AnswerInv, AnsweredAtMostOnce, Sent
<1>4. CASE Console
    <2>1. CANMessage' = CANMessage \/ CANMessage'.number = 0
        BY <1>4 DEF Console, Message
    <2>2. UNCHANGED <<sent, PPRxBuffer, executed, replies>> /\ pc' \in {"receive", "idle"}
        BY <1>4 DEF Console
    <2> QED BY <2>1, <2>2 DEF AnswerInv, AnsweredAtMostOnce, Sent
<1>5. CASE Stop
    BY <1>5 DEF Stop, AnswerInv, AnsweredAtMostOnce, Sent
<1>6. CASE ReceiveCANMessage
    <2>1. Sent(CANMessage)' /\ Sent(PPRxBuffer)'
        BY <1>6 DEF ReceiveCANMessage, AnswerInv, Sent
    <2>2. UNCHANGED <<sent, replies>> /\ pc' \in {"clearFlag", "handle"}
        BY <1>6 DEF ReceiveCANMessage
    <2>3. \A k \in DOMAIN executed : k \in DOMAIN executed' /\ executed'[k] = executed[k]
        <3>1. CANMessage'.number \in Numbers
            BY MessageFields DEF VarTypes
        <3> QED BY <1>6, <3>1, HistoryGrows DEF ReceiveCANMessage, VarTypes
    <2>4. AnsweredAtMostOnce'
        BY <2>2, <2>3 DEF AnswerInv, AnsweredAtMostOnce
    <2> QED BY <2>1, <2>2, <2>4 DEF AnswerInv
<1>7. CASE Handle
    <2>0. CANMessage.number \in Numbers
        BY MessageFields DEF VarTypes
    <2>1. UNCHANGED <<sent, replies, CANMessage, PPRxBuffer>>
          /\ (pc' = "send" => CANMessage.kind = "monitor")
        BY <1>7 DEF Handle
    <2>2. \A k \in DOMAIN executed : k \in DOMAIN executed' /\ executed'[k] = executed[k]
        BY <1>7, <2>0, HistoryGrows DEF Handle, VarTypes
    <2>3. AnsweredAtMostOnce'
        BY <2>1, <2>2 DEF AnswerInv, AnsweredAtMostOnce
    <2>4. ASSUME CANMessage.number # 0
          PROVE  /\ \A i \in DOMAIN replies : replies[i] < CANMessage.number
                 /\ \E k \in DOMAIN executed' : executed'[k] = CANMessage.number
        <3>1. executed' = Append(executed, CANMessage.number)
            BY <1>7, <2>4 DEF Handle
        <3>2. \E k \in DOMAIN executed' : executed'[k] = CANMessage.number
            <4>1. Len(executed) + 1 \in DOMAIN executed'
                  /\ executed'[Len(executed) + 1] = CANMessage.number
                BY <2>0, <3>1, HistoryGrows DEF VarTypes
            <4> QED BY <4>1
        <3>3. \A i \in DOMAIN executed : executed[i] < CANMessage.number
            BY <1>7, <2>4 DEF Handle, OrderInv, AllBelow
        <3>4. \A i \in DOMAIN replies : replies[i] \in Nat
            BY RepliesNumbers
        <3>5. ASSUME NEW i \in DOMAIN replies
              PROVE  replies[i] < CANMessage.number
            <4>1. CASE replies[i] = 0
                BY <2>0, <2>4, <4>1 DEF Numbers
            <4>2. CASE replies[i] # 0
                BY <3>3, <4>2 DEF AnswerInv, AnsweredAtMostOnce
            <4> QED BY <4>1, <4>2
        <3> QED BY <3>2, <3>5
    <2> QED BY <2>1, <2>3, <2>4 DEF AnswerInv, Sent
<1>8. CASE SendCANMessage
    <2>1. UNCHANGED <<sent, executed, CANMessage, PPRxBuffer>> /\ pc = "send" /\ pc' = "clearFlag"
        BY <1>8 DEF SendCANMessage
    <2>2. CASE UNCHANGED replies
        BY <2>1, <2>2 DEF AnswerInv, AnsweredAtMostOnce, Sent
    <2>3. CASE replies' = Append(replies, CANMessage.number)
        <3> DEFINE m == CANMessage.number
        <3>1. m \in Numbers /\ replies \in Seq(Numbers)
            BY MessageFields DEF VarTypes
        <3>2. /\ \A i \in DOMAIN replies : replies'[i] = replies[i]
              /\ \A i \in DOMAIN replies' : i \notin DOMAIN replies => i = Len(replies) + 1
              /\ replies'[Len(replies) + 1] = m
              /\ DOMAIN replies = 1 .. Len(replies) /\ Len(replies) \in Nat
              /\ DOMAIN replies' \subseteq Nat
            <4>1. DOMAIN replies' \subseteq Nat /\ Len(replies) \in Nat
                BY DEF VarTypes
            <4> QED BY <2>3, <3>1, <4>1, HistoryGrows
        <3>3. m # 0 => /\ \A i \in DOMAIN replies : replies[i] < m
                       /\ \E k \in DOMAIN executed : executed[k] = m
                       /\ sent[m] = "monitor"
            BY <2>1 DEF AnswerInv, Sent
        <3>4. ASSUME NEW i \in DOMAIN replies', NEW j \in DOMAIN replies', i < j,
                     replies'[i] # 0, replies'[j] # 0
              PROVE  replies'[i] < replies'[j]
            <4>1. CASE j \in DOMAIN replies
                <5>1. i \in DOMAIN replies
                    BY <3>2, <3>4, <4>1
                <5> QED BY <3>2, <3>4, <4>1, <5>1 DEF AnswerInv, AnsweredAtMostOnce
            <4>2. CASE j \notin DOMAIN replies
                <5>1. j = Len(replies) + 1 /\ replies'[j] = m
                    BY <3>2, <4>2
                <5>2. i \in DOMAIN replies
                    BY <3>2, <3>4, <5>1
                <5> QED BY <3>2, <3>3, <3>4, <5>1, <5>2
            <4> QED BY <4>1, <4>2
        <3>5. ASSUME NEW i \in DOMAIN replies', replies'[i] # 0
              PROVE  /\ sent[replies'[i]] = "monitor"
                     /\ \E k \in DOMAIN executed : executed[k] = replies'[i]
            BY <3>2, <3>3, <3>5 DEF AnswerInv, AnsweredAtMostOnce
        <3>6. AnsweredAtMostOnce'
            BY <2>1, <3>4, <3>5 DEF AnsweredAtMostOnce
        <3> QED BY <2>1, <3>6 DEF AnswerInv, Sent
    <2> QED BY <1>8, <2>2, <2>3 DEF SendCANMessage
<1>9. CASE ClearFlag
    BY <1>9 DEF ClearFlag, AnswerInv, AnsweredAtMostOnce, Sent
<1>10. CASE PPClear
    <2>1. CANMessage' = CANMessage \/ CANMessage'.number = 0
        BY <1>10 DEF PPClear, Message
    <2>2. UNCHANGED <<sent, PPRxBuffer, executed, replies>> /\ pc' \in {"receive", "idle"}
        BY <1>10 DEF PPClear
    <2> QED BY <2>1, <2>2 DEF AnswerInv, AnsweredAtMostOnce, Sent
<1>11. CASE Idle \/ UNCHANGED vars
    BY <1>11 DEF Idle, vars, AnswerInv, AnsweredAtMostOnce, Sent
<1> QED
    BY <1>1, <1>2, <1>3, <1>4, <1>5, <1>6, <1>7, <1>8, <1>9, <1>10, <1>11
    DEF Next, MainThread, CANMessageHandler

\* The bus is answered each request at most once, in order, and only what was
\* handled and asks for an answer, whatever the console does and whatever times
\* out: AnsweredAtMostOnce (can.c:825).
THEOREM AnsweredOnce == Spec => []AnsweredAtMostOnce
<1>1. Init => OrderInv
    BY DEF Init, OrderInv, AllBelow, ExecutedAtMostOnce, Message, Read
<1>2. Init => AnswerInv
    BY DEF Init, AnswerInv, AnsweredAtMostOnce, Sent, Message
<1>3. AnswerInv => AnsweredAtMostOnce
    BY DEF AnswerInv
<1> QED
    BY <1>1, <1>2, <1>3, VarTypesInit, VarTypesNext, OrderNext, AnswerNext, PTL DEF Spec

-----------------------------------------------------------------------------
(* Without the console: the promise of CanService.                         *)

\* The message the interrupt handler read last is in the buffer, and the
\* interrupt in service.
Holding == inService /\ Read > 0 /\ PPRxBuffer.number = Read /\ PPRxBuffer.kind = sent[Read]

\* What the main thread has done with it, at each of its steps.
Progress ==
    /\ pc = "idle" /\ ~inService => ~newCANMsg /\ Len(executed) = Read
    /\ pc = "idle" /\ newCANMsg => Holding /\ Len(executed) = Read - 1
    /\ pc = "receive" => newCANMsg /\ Holding /\ Len(executed) = Read - 1
    /\ pc = "handle" => /\ newCANMsg /\ Holding /\ Len(executed) = Read - 1
                        /\ CANMessage.number = Read /\ CANMessage.kind = sent[Read]
    /\ pc = "send" => /\ newCANMsg /\ Holding /\ Len(executed) = Read
                      /\ CANMessage.number = Read
                      /\ Len(replies) < Len(executed)
    /\ pc = "clearFlag" => newCANMsg /\ Holding /\ Len(executed) = Read
    /\ pc = "clearPort" => ~newCANMsg /\ inService /\ Len(executed) = Read

ServiceInv ==
    /\ ~again
    /\ \A i \in 1 .. Len(executed) : executed[i] = i
    /\ Len(executed) <= Read
    /\ Len(replies) <= Len(executed)
    /\ Progress

LEMMA ServiceInvInit == Init => ServiceInv
<1> SUFFICES ASSUME Init PROVE ServiceInv
    OBVIOUS
<1>1. Len(executed) = 0 /\ Len(replies) = 0 /\ Len(sent) = 0
    BY DEF Init
<1> QED BY <1>1 DEF Init, ServiceInv, Progress, Read

LEMMA ServiceInvNext ==
    ASSUME ConsoleCommands = {}, VarTypes, VarTypes', ServiceInv, [Next]_vars
    PROVE  ServiceInv'
<1> USE DEF bufferVars, historyVars
<1>0. /\ Len(sent) \in Nat /\ Len(executed) \in Nat /\ Len(replies) \in Nat
      /\ Read \in Nat /\ (waiting => Len(sent) = Read + 1)
      /\ (~waiting => Len(sent) = Read)
    BY DEF VarTypes, Read
<1>1. CASE Present
    <2>1. PICK k \in Kinds : sent' = Append(sent, k)
        BY <1>1 DEF Present
    <2>2. Len(sent') = Len(sent) + 1 /\ (\A i \in 1 .. Len(sent) : sent'[i] = sent[i])
        BY <2>1, AppendTyped DEF VarTypes
    <2>3. Read = Len(sent) /\ Read' = Len(sent') - 1
        BY <1>1 DEF Present, Read
    <2>4. Read' = Read /\ (Read > 0 => sent'[Read'] = sent[Read])
        BY <1>0, <2>2, <2>3
    <2>5. UNCHANGED <<bufferVars, CANMessage, pc, again, historyVars>>
        BY <1>1 DEF Present
    <2> QED BY <2>4, <2>5 DEF ServiceInv, Progress, Holding
<1>2. CASE PPIntHandler
    <2>1. /\ waiting /\ ~inService /\ pc # "stopped" /\ inService'
          /\ UNCHANGED <<sent, CANMessage, pc, again, historyVars>>
        BY <1>2 DEF PPIntHandler, MessageRead, HeaderTimeout, HeaderRead, InterruptAccepted
    <2>2. pc = "idle" /\ ~newCANMsg /\ Len(executed) = Read
        BY <2>1 DEF ServiceInv, Progress, Holding, VarTypes, Steps
    <2>3. Read' = Len(sent) /\ Read' = Read + 1
        BY <1>0, <1>2, <2>1 DEF Read, PPIntHandler, MessageRead, HeaderTimeout, HeaderRead
    <2>4. newCANMsg' => Holding'
        <3>1. CASE MessageRead
            <4>1. PPRxBuffer'.number = Len(sent) /\ PPRxBuffer'.kind = sent[Len(sent)]
                BY <3>1 DEF MessageRead, Message
            <4>2. Read' > 0
                BY <1>0, <2>3
            <4>3. PPRxBuffer'.number = Read' /\ PPRxBuffer'.kind = sent'[Read']
                BY <2>1, <2>3, <4>1
            <4> QED BY <2>1, <4>2, <4>3 DEF Holding
        <3>2. CASE HeaderTimeout
            BY <2>2, <3>2 DEF HeaderTimeout
        <3> QED BY <1>2, <3>1, <3>2 DEF PPIntHandler
    <2> QED BY <1>0, <2>1, <2>2, <2>3, <2>4 DEF ServiceInv, Progress
<1>3. CASE StartHandler
    BY <1>3 DEF StartHandler, ServiceInv, Progress, Holding, Read
<1>4. CASE Console
    BY <1>4 DEF Console
<1>5. CASE Stop
    BY <1>5 DEF Stop, ServiceInv, Progress, Holding, Read
<1>6. ASSUME NEW n, n = Read, Len(executed) = Read - 1, executed' = Append(executed, n),
             UNCHANGED <<sent, waiting, replies, again>>
      PROVE  /\ Len(executed') = Read /\ Read' = Read
             /\ \A i \in 1 .. Len(executed') : executed'[i] = i
             /\ Len(replies) < Len(executed') /\ ~again'
    <2>1. /\ Len(executed') = Len(executed) + 1
          /\ \A i \in 1 .. Len(executed) : executed'[i] = executed[i]
          /\ executed'[Len(executed) + 1] = n
        <3>1. DEFINE S == Numbers \cup {n}
        <3>2. executed \in Seq(S) /\ n \in S
            BY DEF VarTypes
        <3> HIDE DEF S
        <3> QED BY <1>6, <3>2, AppendTyped
    <2> QED BY <1>0, <1>6, <2>1 DEF ServiceInv, Read
<1>7. CASE ReceiveCANMessage
    <2>1. /\ pc = "receive" /\ newCANMsg /\ CANMessage' = PPRxBuffer /\ Holding
          /\ Len(executed) = Read - 1
          /\ UNCHANGED <<sent, waiting, bufferVars, again, replies>>
        BY <1>7 DEF ReceiveCANMessage, ServiceInv, Progress
    <2>2. Read' = Read /\ Holding'
        BY <2>1 DEF Read, Holding
    <2>3. CASE CANMessage'.kind = "reserved"
        <3>1. executed' = Append(executed, Read) /\ pc' = "clearFlag"
            BY <1>0, <1>7, <2>1, <2>3 DEF ReceiveCANMessage, Holding
        <3> QED BY <1>0, <1>6, <2>1, <2>2, <3>1 DEF ServiceInv, Progress
    <2>4. CASE CANMessage'.kind # "reserved"
        <3>1. executed' = executed /\ pc' = "handle"
            BY <1>7, <2>4 DEF ReceiveCANMessage
        <3> QED BY <2>1, <2>2, <3>1 DEF ServiceInv, Progress, Holding
    <2> QED BY <2>3, <2>4
<1>8. CASE Handle
    <2>1. /\ pc = "handle" /\ newCANMsg /\ Holding /\ Len(executed) = Read - 1
          /\ CANMessage.number = Read
          /\ pc' \in {"send", "clearFlag"}
          /\ UNCHANGED <<sent, waiting, bufferVars, CANMessage, again, replies>>
        BY <1>8 DEF Handle, ServiceInv, Progress
    <2>2. executed' = Append(executed, Read)
        BY <1>0, <1>8, <2>1 DEF Handle, Holding
    <2>3. Holding' /\ Read' = Read
        BY <2>1 DEF Holding, Read
    <2> QED BY <1>0, <1>6, <2>1, <2>2, <2>3 DEF ServiceInv, Progress
<1>9. CASE SendCANMessage
    <2>1. /\ pc = "send" /\ pc' = "clearFlag"
          /\ UNCHANGED <<sent, waiting, bufferVars, again, executed>>
          /\ replies' = replies \/ replies' = Append(replies, CANMessage.number)
        BY <1>9 DEF SendCANMessage
    <2>2. Len(replies') <= Len(replies) + 1 /\ Len(replies) < Len(executed)
        BY <1>0, <2>1, AppendTyped, MessageFields DEF VarTypes, ServiceInv, Progress
    <2>3. Holding' = Holding /\ Read' = Read /\ Len(replies') \in Nat
        BY <2>1 DEF Holding, Read, VarTypes
    <2> QED BY <1>0, <2>1, <2>2, <2>3 DEF ServiceInv, Progress
<1>10. CASE ClearFlag
    BY <1>10 DEF ClearFlag, ServiceInv, Progress, Holding, Read
<1>11. CASE PPClear
    BY <1>11 DEF PPClear, ServiceInv, Progress, Holding, Read
<1>12. CASE Idle \/ UNCHANGED vars
    BY <1>12 DEF Idle, vars, ServiceInv, Progress, Holding, Read
<1> QED
    BY <1>1, <1>2, <1>3, <1>4, <1>5, <1>7, <1>8, <1>9, <1>10, <1>11, <1>12
    DEF Next, MainThread, CANMessageHandler

\* Every variable stays in its range and no more is handled than sent, nor
\* answered than handled: TypeOK, as long as the console is not used.
THEOREM TypeCorrect ==
    ASSUME ConsoleCommands = {}
    PROVE  Spec => []TypeOK
<1>1. VarTypes /\ ServiceInv => TypeOK
    <2> SUFFICES ASSUME VarTypes, ServiceInv PROVE TypeOK
        OBVIOUS
    <2>1. Len(executed) <= Len(sent)
        BY DEF VarTypes, ServiceInv, Read
    <2> QED BY <2>1 DEF VarTypes, ServiceInv, TypeOK
<1> QED
    BY <1>1, VarTypesInit, VarTypesNext, ServiceInvInit, ServiceInvNext, PTL DEF Spec

\* The firmware keeps the promise of CanService, KeepsService: each message is
\* handled once, in order, and each request gets its own answer before the next
\* message is handled, as long as the console is not used and no write is lost
\* (can.c:75-113, ppComm.c:278-351).
THEOREM ServiceKept ==
    ASSUME ConsoleCommands = {}, "write" \notin Faults
    PROVE  Spec => KeepsService
<1>1. Init => Service!Init
    BY DEF Init, Service!Init
<1>2. ASSUME VarTypes, ServiceInv, [Next]_vars
      PROVE  [Service!Next]_(Service!vars)
    <2> USE <1>2 DEF bufferVars, historyVars
    <2>0. /\ Len(sent) \in Nat /\ Len(executed) \in Nat
          /\ Read \in Nat /\ Read <= Len(sent)
        BY DEF VarTypes, Read
    <2>1. ASSUME UNCHANGED <<sent, executed, replies>>, pc # "send", pc' # "send"
          PROVE  UNCHANGED Service!vars
        BY <2>1 DEF Service!vars
    <2>2. CASE Present
        BY <2>2 DEF Present, Service!Next, Service!Ask
    <2>3. CASE PPIntHandler
        BY <2>3 DEF PPIntHandler, MessageRead, HeaderTimeout, Service!vars
    <2>4. CASE StartHandler \/ Stop \/ ClearFlag \/ PPClear
        BY <2>1, <2>4 DEF StartHandler, Stop, ClearFlag, PPClear
    <2>5. CASE Console
        BY <2>5 DEF Console
    <2>6. ASSUME executed' = Append(executed, Read), Len(executed) = Read - 1, Read > 0,
                 pc # "send", UNCHANGED <<sent, replies>>,
                 (pc' = "send") = (sent[Read] \in {"monitor"})
          PROVE  Service!Execute
        BY <2>0, <2>6 DEF Service!Execute
    <2>7. CASE ReceiveCANMessage
        <3>1. /\ pc = "receive" /\ CANMessage' = PPRxBuffer /\ Holding
              /\ Len(executed) = Read - 1 /\ UNCHANGED <<sent, replies>>
              /\ pc' # "send"
            <4>1. pc = "receive" /\ newCANMsg /\ Holding /\ Len(executed) = Read - 1
                BY <2>7 DEF ReceiveCANMessage, ServiceInv, Progress
            <4> QED BY <2>7, <4>1 DEF ReceiveCANMessage
        <3>2. CASE CANMessage'.kind = "reserved"
            <4>1. executed' = Append(executed, Read) /\ sent[Read] = "reserved"
                BY <2>0, <2>7, <3>1, <3>2 DEF ReceiveCANMessage, Holding
            <4> QED BY <2>6, <3>1, <4>1 DEF Holding, Service!Next
        <3>3. CASE CANMessage'.kind # "reserved"
            BY <2>1, <2>7, <3>1, <3>3 DEF ReceiveCANMessage
        <3> QED BY <3>2, <3>3
    <2>8. CASE Handle
        <3>1. /\ pc = "handle" /\ Holding /\ Len(executed) = Read - 1
              /\ CANMessage.number = Read /\ CANMessage.kind = sent[Read]
              /\ UNCHANGED <<sent, replies>>
            <4>1. pc = "handle"
                BY <2>8 DEF Handle
            <4>2. UNCHANGED <<sent, replies>>
                BY <2>8 DEF Handle
            <4> QED BY <4>1, <4>2 DEF ServiceInv, Progress
        <3>2. executed' = Append(executed, Read)
            BY <2>0, <2>8, <3>1 DEF Handle, Holding
        <3>3. (pc' = "send") = (sent[Read] \in {"monitor"})
            BY <2>8, <3>1 DEF Handle
        <3> QED BY <2>6, <3>1, <3>2, <3>3 DEF Holding, Service!Next
    <2>9. CASE SendCANMessage
        <3>1. /\ pc = "send" /\ newCANMsg /\ Len(executed) = Read /\ Read > 0
              /\ CANMessage.number = Read /\ executed[Read] = Read
            <4>1. pc = "send"
                BY <2>9 DEF SendCANMessage
            <4>2. /\ newCANMsg /\ Len(executed) = Read /\ Read > 0
                  /\ CANMessage.number = Read
                BY <4>1 DEF ServiceInv, Progress, Holding
            <4>3. executed[Read] = Read
                BY <2>0, <4>2 DEF ServiceInv
            <4> QED BY <4>1, <4>2, <4>3
        <3>2. /\ replies' = Append(replies, CANMessage.number) /\ pc' = "clearFlag"
              /\ UNCHANGED <<sent, executed>>
            BY <2>9, <3>1 DEF SendCANMessage
        <3> QED BY <3>1, <3>2 DEF Service!Next, Service!Reply
    <2>10. CASE Idle \/ UNCHANGED vars
        BY <2>10 DEF Idle, vars, Service!vars
    <2> QED
        BY <2>2, <2>3, <2>4, <2>5, <2>7, <2>8, <2>9, <2>10
        DEF Next, MainThread, CANMessageHandler
<1> QED
    BY <1>1, <1>2, VarTypesInit, VarTypesNext, ServiceInvInit, ServiceInvNext, PTL
    DEF Spec, KeepsService, Service!Spec
-----------------------------------------------------------------------------
(* What must happen in the end. A step of the main thread or of the        *)
(* interrupt is fair where it is enabled; that it is enabled where the     *)
(* guards say so is NothingBlocks, which TLC checks.                       *)

\* The interrupt in service has a message for the main thread, or is ended by
\* the step the main thread is at.
ServiceIsAwaited == headerTimeout = 0 /\ inService /\ pc = "idle" => newCANMsg
StoppedIsClosed == pc = "stopped" => ~inService

LEMMA AwaitedNext ==
    VarTypes /\ ServiceIsAwaited /\ StoppedIsClosed /\ [Next]_vars
        => ServiceIsAwaited' /\ StoppedIsClosed'
<1> SUFFICES ASSUME VarTypes, ServiceIsAwaited, StoppedIsClosed, [Next]_vars
             PROVE  ServiceIsAwaited' /\ StoppedIsClosed'
    OBVIOUS
<1> USE DEF ServiceIsAwaited, StoppedIsClosed, bufferVars
<1>1. CASE Present BY <1>1 DEF Present
<1>2. CASE MessageRead BY <1>2 DEF MessageRead, HeaderRead, InterruptAccepted
<1>3. CASE HeaderTimeout
    <2>1. headerTimeout' # 0
        BY <1>3 DEF HeaderTimeout, VarTypes
    <2> QED BY <1>3, <2>1 DEF HeaderTimeout, HeaderRead, InterruptAccepted
<1>4. CASE StartHandler BY <1>4 DEF StartHandler
<1>5. CASE Console BY <1>5 DEF Console
<1>6. CASE Stop BY <1>6 DEF Stop
<1>7. CASE ReceiveCANMessage BY <1>7 DEF ReceiveCANMessage
<1>8. CASE Handle BY <1>8 DEF Handle
<1>9. CASE SendCANMessage BY <1>9 DEF SendCANMessage
<1>10. CASE ClearFlag BY <1>10 DEF ClearFlag
<1>11. CASE PPClear BY <1>11 DEF PPClear
<1>12. CASE Idle \/ UNCHANGED vars BY <1>12 DEF Idle, vars
<1> QED
    BY <1>1, <1>2, <1>3, <1>4, <1>5, <1>6, <1>7, <1>8, <1>9, <1>10, <1>11, <1>12
    DEF Next, PPIntHandler, MainThread, CANMessageHandler

LEMMA AwaitedAlways == Spec => [](VarTypes /\ ServiceIsAwaited /\ StoppedIsClosed)
<1>1. Init => ServiceIsAwaited /\ StoppedIsClosed
    BY DEF Init, ServiceIsAwaited, StoppedIsClosed
<1> QED BY <1>1, VarTypesInit, VarTypesNext, AwaitedNext, PTL DEF Spec

\* The main thread is at step s and an interrupt in service.
InServiceAt(s) == headerTimeout = 0 /\ inService /\ pc = s
Released == ~inService \/ headerTimeout # 0

\* The main thread stays at a step until it takes it; nothing else touches the
\* service of the interrupt meanwhile.
LEMMA OnlyMainThreadMoves ==
    ASSUME NEW s \in Steps, VarTypes, ServiceIsAwaited, InServiceAt(s), [Next]_vars,
           ~<<MainThread>>_vars
    PROVE  InServiceAt(s)'
<1> USE DEF InServiceAt, bufferVars
<1>1. CASE Present BY <1>1 DEF Present
<1>2. CASE PPIntHandler
    BY <1>2 DEF PPIntHandler, MessageRead, HeaderTimeout, HeaderRead, InterruptAccepted
<1>3. CASE Console BY <1>3 DEF Console, ServiceIsAwaited
<1>4. CASE MainThread BY <1>4 DEF vars
<1>5. CASE UNCHANGED vars BY <1>5 DEF vars
<1> QED BY <1>1, <1>2, <1>3, <1>4, <1>5 DEF Next

\* An interrupt that was taken is cleared in the end, PortIsReleased, whatever
\* the console does and whichever payloads and writes time out
\* (can.c:87-113, ppComm.c:347).
THEOREM PortReleased == FairSpec /\ []NothingBlocks => PortIsReleased
<1> DEFINE Busy == VarTypes /\ ServiceIsAwaited /\ StoppedIsClosed
           Idling == InServiceAt("idle")
           Receiving == InServiceAt("receive")
           Handling == InServiceAt("handle")
           Sending == InServiceAt("send")
           ClearingFlag == InServiceAt("clearFlag")
           ClearingPort == InServiceAt("clearPort")
<1> USE DEF InServiceAt, bufferVars
<1>1. Busy /\ ~Released
        => Idling \/ Receiving \/ Handling \/ Sending \/ ClearingFlag \/ ClearingPort
    BY DEF Released, VarTypes, Steps, StoppedIsClosed
<1>2. Busy /\ ~Released => MainThreadBusy
    BY DEF Released, MainThreadBusy, ServiceIsAwaited, StoppedIsClosed
<1>3. ASSUME NEW s \in Steps
      PROVE  Busy /\ InServiceAt(s) /\ [Next]_vars => InServiceAt(s)' \/ <<MainThread>>_vars
    BY OnlyMainThreadMoves
<1>4. {"idle", "receive", "handle", "send", "clearFlag", "clearPort"} \subseteq Steps
    BY DEF Steps
<1>5. Busy /\ Idling /\ [Next]_vars => Idling' \/ <<MainThread>>_vars
    BY <1>3, <1>4
<1>6. Busy /\ Idling /\ <<MainThread>>_vars => Released' \/ Receiving'
    <2>1. Busy /\ Idling /\ Stop => Released'
        BY DEF Stop, Released
    <2>2. Busy /\ Idling /\ StartHandler => Receiving'
        BY DEF StartHandler
    <2>3. Idling => ~CANMessageHandler
        BY DEF CANMessageHandler, ReceiveCANMessage, Handle, SendCANMessage, ClearFlag, PPClear
    <2> QED BY <2>1, <2>2, <2>3 DEF MainThread, Idle
<1> DEFINE Only(s, A) == InServiceAt(s) /\ <<MainThread>>_vars => A
<1>7. /\ Only("receive", ReceiveCANMessage) /\ Only("handle", Handle)
      /\ Only("send", SendCANMessage) /\ Only("clearFlag", ClearFlag)
      /\ Only("clearPort", PPClear)
    BY DEF MainThread, Idle, StartHandler, Stop, CANMessageHandler,
           ReceiveCANMessage, Handle, SendCANMessage, ClearFlag, PPClear
<1>8. /\ Busy /\ Receiving /\ [Next]_vars => Receiving' \/ <<MainThread>>_vars
      /\ Receiving /\ <<MainThread>>_vars => Handling' \/ ClearingFlag'
    BY <1>3, <1>4, <1>7 DEF ReceiveCANMessage
<1>9. /\ Busy /\ Handling /\ [Next]_vars => Handling' \/ <<MainThread>>_vars
      /\ Handling /\ <<MainThread>>_vars => Sending' \/ ClearingFlag'
    BY <1>3, <1>4, <1>7 DEF Handle
<1>10. /\ Busy /\ Sending /\ [Next]_vars => Sending' \/ <<MainThread>>_vars
       /\ Sending /\ <<MainThread>>_vars => ClearingFlag'
    BY <1>3, <1>4, <1>7 DEF SendCANMessage
<1>11. /\ Busy /\ ClearingFlag /\ [Next]_vars => ClearingFlag' \/ <<MainThread>>_vars
       /\ ClearingFlag /\ <<MainThread>>_vars => ClearingPort'
    BY <1>3, <1>4, <1>7 DEF ClearFlag
<1>12. /\ Busy /\ ClearingPort /\ [Next]_vars => ClearingPort' \/ <<MainThread>>_vars
       /\ ClearingPort /\ <<MainThread>>_vars => Released'
    BY <1>3, <1>4, <1>7 DEF PPClear, Released
<1>13. /\ NothingBlocks => (MainThreadBusy => ENABLED <<MainThread>>_vars)
       /\ Idling \/ Receiving \/ Handling \/ Sending \/ ClearingFlag \/ ClearingPort
            => ~Released
    BY DEF NothingBlocks, Released
<1>14. Released <=> (~inService \/ headerTimeout # 0)
    BY DEF Released
<1> HIDE DEF Busy, Idling, Receiving, Handling, Sending, ClearingFlag, ClearingPort
<1>15. Spec => []Busy
    BY AwaitedAlways DEF Busy
<1> QED
    BY <1>1, <1>2, <1>5, <1>6, <1>8, <1>9, <1>10, <1>11, <1>12, <1>13, <1>14, <1>15, PTL
    DEF FairSpec, Spec, Fairness, PortIsReleased
-----------------------------------------------------------------------------
(* Every message is served, as long as the console is not used.            *)

ServiceAlways == VarTypes /\ ServiceInv /\ ServiceIsAwaited /\ StoppedIsClosed
Undisturbed == headerTimeout = 0 /\ pc # "stopped"

LEMMA ServiceHolds ==
    ASSUME ConsoleCommands = {}
    PROVE  Spec => []ServiceAlways
BY AwaitedAlways, VarTypesInit, VarTypesNext, ServiceInvInit, ServiceInvNext, PTL
DEF Spec, ServiceAlways

\* m messages are executed and there are more.
Behind(m) == Len(executed) = m /\ m < Len(sent)

LEMMA LengthsTyped == VarTypes => Len(sent) \in Nat /\ Len(executed) \in Nat
BY DEF VarTypes

\* What was executed and sent stays executed and sent.
LEMMA LengthsGrow ==
    ASSUME VarTypes, [Next]_vars
    PROVE  /\ Len(sent') \in Nat /\ Len(sent) <= Len(sent')
           /\ Len(executed') \in {Len(executed), Len(executed) + 1}
           /\ Len(executed) \in Nat /\ Len(sent) \in Nat
<1> USE DEF bufferVars, historyVars
<1>0. Len(executed) \in Nat /\ Len(sent) \in Nat
    BY DEF VarTypes
<1>1. CASE Present
    <2>1. Len(sent') = Len(sent) + 1
        BY <1>1, AppendTyped DEF Present, VarTypes
    <2> QED BY <1>0, <1>1, <2>1 DEF Present
<1>2. CASE ReceiveCANMessage \/ Handle
    <2>1. \A n \in Numbers : Len(Append(executed, n)) = Len(executed) + 1
        BY AppendTyped DEF VarTypes
    <2>2. CANMessage.number \in Numbers
          /\ (ReceiveCANMessage => CANMessage'.number \in Numbers)
        BY MessageFields DEF VarTypes, ReceiveCANMessage
    <2> QED BY <1>0, <1>2, <2>1, <2>2 DEF ReceiveCANMessage, Handle
<1>3. CASE UNCHANGED <<sent, executed>>
    BY <1>0, <1>3
<1> QED
    BY <1>1, <1>2, <1>3
    DEF Next, PPIntHandler, MessageRead, HeaderTimeout, MainThread, CANMessageHandler,
        Console, Idle, StartHandler, Stop, SendCANMessage, ClearFlag, PPClear, vars

\* If the program is behind, the next message is on the port and the interrupt
\* accepted, or the interrupt is in service.
LEMMA WhereItIs ==
    ASSUME NEW m \in Int, ServiceAlways, Undisturbed, Behind(m)
    PROVE  \/ ~inService /\ waiting /\ pc = "idle"
           \/ \E s \in Steps \ {"stopped"} : InServiceAt(s)
<1> USE DEF ServiceAlways, Undisturbed
<1>1. CASE inService
    BY <1>1 DEF InServiceAt, VarTypes, Steps
<1>2. CASE ~inService
    <2>1. pc = "idle" /\ Len(executed) = Read
        BY <1>2 DEF ServiceInv, Progress, Holding, VarTypes, Steps
    <2> QED BY <1>2, <2>1 DEF Read, Behind
<1> QED BY <1>1, <1>2

LEMMA BehindIsServed ==
    ASSUME NEW m \in Int, ConsoleCommands = {}
    PROVE  FairSpec /\ []NothingBlocks /\ []Undisturbed => (Behind(m) ~> Len(executed) > m)
<1> DEFINE At(s) == Behind(m) /\ InServiceAt(s)
           Waiting == Behind(m) /\ ~inService /\ waiting /\ pc = "idle"
           Idling == At("idle")
           Receiving == At("receive")
           Handling == At("handle")
           Sending == At("send")
           ClearingFlag == At("clearFlag")
           ClearingPort == At("clearPort")
           Free == Behind(m) /\ ~inService
           Done == Len(executed) > m
           Inv == ServiceAlways /\ Undisturbed
<1> USE DEF bufferVars, historyVars
<1>1. Inv /\ Behind(m) => \/ Waiting \/ Idling \/ Receiving \/ Handling
                          \/ Sending \/ ClearingFlag \/ ClearingPort
    BY WhereItIs DEF Steps
<1>2. Inv /\ Free => Waiting
    BY WhereItIs DEF InServiceAt
<1>3. Inv /\ Behind(m) /\ [Next]_vars => Behind(m)' \/ Done'
    BY LengthsGrow DEF Behind, ServiceAlways
<1>4. Inv => (Waiting => InterruptAccepted)
             /\ (Idling \/ Receiving \/ Handling \/ Sending \/ ClearingFlag \/ ClearingPort
                    => MainThreadBusy)
    BY DEF InterruptAccepted, MainThreadBusy, InServiceAt, ServiceAlways, ServiceIsAwaited
<1>5. Inv /\ Inv' /\ Waiting /\ [Next]_vars => Free' \/ Done' \/ <<PPIntHandler>>_vars
    <2> SUFFICES ASSUME Inv, Inv', Waiting, [Next]_vars, ~<<PPIntHandler>>_vars
                 PROVE  Free' \/ Done'
        OBVIOUS
    <2>1. ~newCANMsg /\ Len(executed) = Read
        BY DEF ServiceAlways, ServiceInv, Progress
    <2>2. ~inService'
        BY <2>1 DEF Next, Present, PPIntHandler, MessageRead, HeaderTimeout, HeaderRead, MainThread, Idle,
           StartHandler, Stop, Console, CANMessageHandler, ReceiveCANMessage, Handle,
           SendCANMessage, ClearFlag, PPClear, vars
    <2> QED BY <1>3, <2>2
<1>6. Inv /\ Inv' /\ Waiting /\ <<PPIntHandler>>_vars => Idling'
    BY DEF PPIntHandler, MessageRead, HeaderTimeout, HeaderRead, Behind, InServiceAt, Undisturbed
<1>7. ASSUME NEW s \in Steps
      PROVE  Inv /\ At(s) /\ [Next]_vars => At(s)' \/ Done' \/ <<MainThread>>_vars
    BY <1>3, OnlyMainThreadMoves DEF ServiceAlways
<1>8. {"idle", "receive", "handle", "send", "clearFlag", "clearPort"} \subseteq Steps
    BY DEF Steps
<1> DEFINE Only(s, A) == InServiceAt(s) /\ <<MainThread>>_vars => A
<1>9. /\ Only("receive", ReceiveCANMessage) /\ Only("handle", Handle)
      /\ Only("send", SendCANMessage) /\ Only("clearFlag", ClearFlag)
      /\ Only("clearPort", PPClear)
    BY DEF InServiceAt, MainThread, Idle, StartHandler, Stop, CANMessageHandler,
           ReceiveCANMessage, Handle, SendCANMessage, ClearFlag, PPClear
<1>10. <<MainThread>>_vars => [Next]_vars
    BY DEF Next
<1>11. Inv /\ Inv' /\ Idling /\ <<MainThread>>_vars => Receiving' \/ Done'
    <2>1. InServiceAt("idle") /\ <<MainThread>>_vars /\ Undisturbed' => InServiceAt("receive")'
        BY DEF InServiceAt, MainThread, Idle, StartHandler, Stop, CANMessageHandler, Undisturbed,
               ReceiveCANMessage, Handle, SendCANMessage, ClearFlag, PPClear
    <2> QED BY <1>3, <1>10, <2>1
<1>12. Inv /\ Inv' /\ Receiving /\ <<MainThread>>_vars => Handling' \/ Done'
    <2> SUFFICES ASSUME Inv, Inv', Receiving, <<MainThread>>_vars PROVE Handling' \/ Done'
        OBVIOUS
    <2>1. (ReceiveCANMessage /\ Behind(m)') \/ Done'
        BY <1>3, <1>9, <1>10
    <2>2. pc' = "clearFlag" => Len(executed') = Len(executed) + 1
        <3>1. newCANMsg /\ Holding /\ Len(executed) = Read - 1
            BY DEF InServiceAt, ServiceAlways, ServiceInv, Progress
        <3>2. ServiceInv' /\ Read' = Read
            BY <1>9 DEF ServiceAlways, ReceiveCANMessage, Read
        <3> QED BY <3>1, <3>2 DEF ServiceInv, Progress, ServiceAlways, VarTypes
    <2>3. pc' = "clearFlag" => Done'
        BY <2>2, LengthsGrow, <1>10 DEF Behind, ServiceAlways
    <2> QED BY <2>1, <2>3 DEF ReceiveCANMessage, InServiceAt
<1>13. Inv /\ Inv' /\ Handling /\ <<MainThread>>_vars => Done'
    <2> SUFFICES ASSUME Inv, Inv', Handling, <<MainThread>>_vars PROVE Done'
        OBVIOUS
    <2>1. Len(executed) = Read - 1 /\ Handle
        BY <1>9 DEF InServiceAt, ServiceAlways, ServiceInv, Progress
    <2>2. Read' = Read /\ pc' \in {"send", "clearFlag"}
        BY <2>1 DEF Handle, Read
    <2>3. Len(executed') = Read'
        BY <2>2 DEF ServiceAlways, ServiceInv, Progress
    <2> QED BY <2>1, <2>2, <2>3, <1>10, LengthsGrow DEF Behind, ServiceAlways
<1>14. Inv /\ Inv' /\ Sending /\ <<MainThread>>_vars => ClearingFlag' \/ Done'
    BY <1>3, <1>9, <1>10 DEF SendCANMessage, InServiceAt
<1>15. Inv /\ Inv' /\ ClearingFlag /\ <<MainThread>>_vars => ClearingPort' \/ Done'
    BY <1>3, <1>9, <1>10 DEF ClearFlag, InServiceAt
<1>16. Inv /\ Inv' /\ ClearingPort /\ <<MainThread>>_vars => Free' \/ Done'
    BY <1>3, <1>9, <1>10 DEF PPClear
<1>17. /\ Inv /\ Idling /\ [Next]_vars => Idling' \/ Done' \/ <<MainThread>>_vars
       /\ Inv /\ Receiving /\ [Next]_vars => Receiving' \/ Done' \/ <<MainThread>>_vars
       /\ Inv /\ Handling /\ [Next]_vars => Handling' \/ Done' \/ <<MainThread>>_vars
       /\ Inv /\ Sending /\ [Next]_vars => Sending' \/ Done' \/ <<MainThread>>_vars
       /\ Inv /\ ClearingFlag /\ [Next]_vars => ClearingFlag' \/ Done' \/ <<MainThread>>_vars
       /\ Inv /\ ClearingPort /\ [Next]_vars => ClearingPort' \/ Done' \/ <<MainThread>>_vars
    BY <1>7, <1>8
<1>18. NothingBlocks => /\ MainThreadBusy => ENABLED <<MainThread>>_vars
                        /\ InterruptAccepted => ENABLED <<PPIntHandler>>_vars
    BY DEF NothingBlocks
<1> HIDE DEF At, Waiting, Idling, Receiving, Handling, Sending, ClearingFlag, ClearingPort,
             Free, Done, Inv
<1>19. FairSpec /\ []Undisturbed => []Inv
    BY ServiceHolds, PTL DEF FairSpec, Inv
<1>20. FairSpec /\ []NothingBlocks /\ []Undisturbed => (Behind(m) ~> Done)
    BY <1>1, <1>2, <1>4, <1>5, <1>6, <1>11, <1>12, <1>13, <1>14, <1>15, <1>16, <1>17, <1>18,
       <1>19, PTL
    DEF FairSpec, Spec, Fairness
<1> QED BY <1>20 DEF Done

\* At most two messages are sent and not executed: one on the port and one read.
LEMMA MessageIsServed ==
    ASSUME NEW n \in Nat, ConsoleCommands = {}
    PROVE  FairSpec /\ []NothingBlocks /\ []Undisturbed
               => (Len(sent) >= n ~> Len(executed) >= n)
<1> DEFINE IsSent == Len(sent) >= n
           Executed == Len(executed) >= n
           OneLeft == Len(executed) = n - 1
           Inv == ServiceAlways /\ Undisturbed
<1>1. Inv /\ IsSent => Executed \/ OneLeft \/ Len(executed) = n - 2
    <2> SUFFICES ASSUME Inv, IsSent PROVE Len(executed) >= n - 2
        BY LengthsTyped DEF ServiceAlways
    <2>1. Len(executed) \in {Read, Read - 1}
        BY LengthsTyped DEF ServiceAlways, ServiceInv, Progress, ServiceIsAwaited, Undisturbed,
                            VarTypes, Steps
    <2> QED BY <2>1, LengthsTyped DEF ServiceAlways, Read
<1>2. Inv /\ IsSent /\ [Next]_vars => IsSent'
    BY LengthsGrow DEF ServiceAlways
<1>3. FairSpec /\ []Undisturbed => []Inv
    BY ServiceHolds, PTL DEF FairSpec
<1>4. ASSUME NEW m \in Int, m = n - 2
      PROVE  FairSpec /\ []NothingBlocks /\ []Undisturbed => (IsSent ~> (Executed \/ OneLeft))
    <2>1. Inv /\ IsSent => Executed \/ OneLeft \/ Behind(m)
        BY <1>1, <1>4 DEF Behind
    <2>2. Inv /\ Len(executed) > m => Executed \/ OneLeft
        BY <1>4, LengthsTyped DEF ServiceAlways
    <2>3. FairSpec /\ []NothingBlocks /\ []Undisturbed => (Behind(m) ~> Len(executed) > m)
        BY BehindIsServed
    <2> HIDE DEF IsSent, Executed, OneLeft, Inv
    <2> QED BY <1>3, <2>1, <2>2, <2>3, PTL
<1>5. ASSUME NEW m \in Int, m = n - 1
      PROVE  FairSpec /\ []NothingBlocks /\ []Undisturbed => ((IsSent /\ OneLeft) ~> Executed)
    <2>1. Inv /\ IsSent /\ OneLeft => Behind(m)
        BY <1>5, LengthsTyped DEF Behind, ServiceAlways
    <2>2. Inv /\ Len(executed) > m => Executed
        BY <1>5, LengthsTyped DEF ServiceAlways
    <2>3. FairSpec /\ []NothingBlocks /\ []Undisturbed => (Behind(m) ~> Len(executed) > m)
        BY BehindIsServed
    <2> HIDE DEF IsSent, Executed, OneLeft, Inv
    <2> QED BY <1>3, <2>1, <2>2, <2>3, PTL
<1> HIDE DEF IsSent, Executed, OneLeft, Inv
<1>6. n - 1 \in Int /\ n - 2 \in Int
    OBVIOUS
<1>7. FairSpec /\ []NothingBlocks /\ []Undisturbed => (IsSent ~> (Executed \/ OneLeft))
    BY <1>4, <1>6
<1>8. FairSpec /\ []NothingBlocks /\ []Undisturbed => ((IsSent /\ OneLeft) ~> Executed)
    BY <1>5, <1>6
<1>9. FairSpec /\ []NothingBlocks /\ []Undisturbed => (IsSent ~> Executed)
    BY <1>2, <1>3, <1>7, <1>8, PTL DEF FairSpec, Spec
<1> QED BY <1>9 DEF IsSent, Executed

\* An answer that is owed is given, or its write lost.
LEMMA AnswerIsGiven ==
    FairSpec /\ []NothingBlocks => (pc = "send" ~> ~(pc = "send"))
<1>1. pc = "send" /\ [Next]_vars => (pc = "send")' \/ <<MainThread>>_vars
    BY DEF Next, Present, PPIntHandler, MessageRead, HeaderTimeout, HeaderRead, Console, vars,
           MainThread, Idle, StartHandler, Stop, CANMessageHandler, ReceiveCANMessage,
           Handle, SendCANMessage, ClearFlag, PPClear
<1>2. pc = "send" /\ <<MainThread>>_vars => ~(pc = "send")'
    BY DEF MainThread, Idle, StartHandler, Stop, CANMessageHandler, ReceiveCANMessage,
           Handle, SendCANMessage, ClearFlag, PPClear
<1>3. pc = "send" /\ NothingBlocks => ENABLED <<MainThread>>_vars
    BY DEF NothingBlocks, MainThreadBusy
<1> QED BY <1>1, <1>2, <1>3, PTL DEF FairSpec, Spec, Fairness

\* Unless the program is stopped or a header times out, every message that is
\* sent is executed and no answer is owed for ever, ServesEveryMessage, as long
\* as the console is not used (can.c:75-113, ppComm.c:278-351).
THEOREM EveryMessageServed ==
    ASSUME ConsoleCommands = {}
    PROVE  FairSpec /\ []NothingBlocks => ServesEveryMessage
<1>1. ASSUME NEW n \in Numbers \ {0}
      PROVE  FairSpec /\ []NothingBlocks /\ []Undisturbed => Service!Executes(n)
    <2>1. n \in Nat
        BY DEF Numbers
    <2>2. FairSpec /\ []NothingBlocks /\ []Undisturbed
              => (Len(sent) >= n ~> Len(executed) >= n)
        BY <2>1, MessageIsServed
    <2> QED BY <2>2 DEF Service!Executes
<1>2. FairSpec /\ []NothingBlocks => Service!Answers
    BY AnswerIsGiven DEF Service!Answers
<1>3. FairSpec /\ []NothingBlocks /\ []Undisturbed
          => (\A n \in Numbers \ {0} : Service!Executes(n)) /\ Service!Answers
    BY <1>1, <1>2
<1> QED BY <1>3 DEF ServesEveryMessage, Undisturbed
=============================================================================
