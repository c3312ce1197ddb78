------------------------------- MODULE CanComm -------------------------------
(***************************************************************************)
(* The CAN messages on their way through the firmware: the AMBSI puts a    *)
(* message on the parallel port, the interrupt handler reads it into       *)
(* PPRxBuffer and sets newCANMsg (ppComm.c), the main loop finds the flag  *)
(* (main.c), handles the message and answers it (can.c); the console calls *)
(* the same message handler on the same CANMessage (console.c).            *)
(*                                                                         *)
(* The interrupt may come between any two steps of the main thread, so     *)
(* each of these is as small as what the two share: newCANMsg, PPRxBuffer  *)
(* and the interrupt controller.                                           *)
(***************************************************************************)
EXTENDS Naturals, Sequences

CONSTANTS
    Kinds,              \* kinds of message the AMBSI sends
    ConsoleCommands,    \* 'm', 'c' and 'q', if the console is enabled
    Faults,             \* "header", "payload", "write": EPP timeouts
    MaxMessages         \* bound on the messages the AMBSI sends

\* A monitor request, a control message, one of class 3 (reserved), and the
\* control message SET_EXIT_PROGRAM.
AllKinds == {"monitor", "control", "reserved", "exit"}
FaultKinds == {"header", "payload", "write"}

ASSUME CanCommAssumption ==
    /\ Kinds \subseteq AllKinds
    /\ ConsoleCommands \subseteq {"m", "c", "q"}
    /\ Faults \subseteq FaultKinds
    /\ MaxMessages \in Nat

VARIABLES
    sent,               \* history: the kinds of the messages sent, in order
    waiting,            \* the last message sent is on the port, unread
    inService,          \* interrupt taken, and not cleared by PPClear
    PPRxBuffer,
    newCANMsg,
    CANMessage,         \* number 0: a request of the console
    pc,                 \* what the main thread does next
    again,              \* the console will monitor the RCA it controlled
    stop,
    headerTimeout,      \* how often the header of a message timed out
    executed,           \* history: the messages handled, those of the AMBSI
    replies             \* history: the messages whose answers were written

vars == <<sent, waiting, inService, PPRxBuffer, newCANMsg, CANMessage, pc,
          again, stop, headerTimeout, executed, replies>>
bufferVars == <<PPRxBuffer, newCANMsg, inService>>
historyVars == <<executed, replies>>

\* "idle": the inner loop of main; then the steps of CANMessageHandler.
Steps == {"idle", "receive", "handle", "send", "clearFlag", "clearPort", "stopped"}

\* "own" says whether the payload is the one the AMBSI sent.
Message(n, k, own) == [number |-> n, kind |-> k, own |-> own]
Numbers == 0 .. MaxMessages

-----------------------------------------------------------------------------
(* The AMBSI puts the next message on the port once the last was read.     *)

Present ==
    /\ ~waiting /\ Len(sent) < MaxMessages
    /\ \E k \in Kinds : sent' = Append(sent, k)
    /\ waiting' = TRUE
    /\ UNCHANGED <<bufferVars, CANMessage, pc, again, stop, historyVars,
                   headerTimeout>>

-----------------------------------------------------------------------------
(* ppComm.c: PPIntHandler. Nothing interrupts it. *)

\* The interrupt controller passes the port's interrupt on.
InterruptAccepted == waiting /\ ~inService /\ pc # "stopped"

HeaderRead == InterruptAccepted /\ waiting' = FALSE /\ inService' = TRUE

MessageRead ==
    LET n == Len(sent) IN
    /\ HeaderRead
    /\ newCANMsg' = TRUE
    /\ \E own \in BOOLEAN :
         /\ ~own => "payload" \in Faults /\ sent[n] # "monitor"
         /\ PPRxBuffer' = Message(n, sent[n], own)
    /\ UNCHANGED <<sent, CANMessage, pc, again, stop, historyVars,
                   headerTimeout>>

\* The timeout is counted and the handler returns: newCANMsg stays as it is,
\* and what was in PPRxBuffer is gone.
HeaderTimeout ==
    /\ "header" \in Faults
    /\ HeaderRead
    /\ PPRxBuffer' = Message(Len(sent), sent[Len(sent)], FALSE)
    /\ headerTimeout' = headerTimeout + 1
    /\ UNCHANGED <<sent, newCANMsg, CANMessage, pc, again, stop, historyVars>>

PPIntHandler == MessageRead \/ HeaderTimeout

-----------------------------------------------------------------------------
(* main.c: the main loop; console.c: the commands that matter here *)

\* A turn of the inner loop: async(), no console command.
Idle == pc = "idle" /\ ~newCANMsg /\ ~stop /\ UNCHANGED vars

StartHandler ==
    /\ pc = "idle" /\ newCANMsg /\ ~stop
    /\ pc' = "receive"
    /\ UNCHANGED <<sent, waiting, bufferVars, CANMessage, again, stop,
                   historyVars, headerTimeout>>

\* 'm' and 'c' put their request in CANMessage and call the handler. 'c'
\* calls it twice when the RCA is a control point, or the value not a byte.
Console ==
    /\ pc = "idle" /\ ~newCANMsg /\ ~stop
    /\ \/ /\ "m" \in ConsoleCommands
          /\ \E k \in {"monitor", "reserved"} : CANMessage' = Message(0, k, TRUE)
          /\ pc' = "receive"
          /\ UNCHANGED <<again, stop>>
       \/ /\ "c" \in ConsoleCommands
          /\ \E k \in {"control", "reserved"} : CANMessage' = Message(0, k, TRUE)
          /\ again' \in BOOLEAN
          /\ pc' = "receive"
          /\ UNCHANGED stop
       \/ /\ "q" \in ConsoleCommands
          /\ stop' = TRUE
          /\ UNCHANGED <<CANMessage, again, pc>>
    /\ UNCHANGED <<sent, waiting, bufferVars, historyVars, headerTimeout>>

\* The loop ends without handling a message just read, and shutDown closes the
\* port: the interrupt is disabled and cleared.
Stop ==
    /\ pc = "idle" /\ stop
    /\ pc' = "stopped"
    /\ inService' = FALSE
    /\ UNCHANGED <<sent, waiting, PPRxBuffer, newCANMsg, CANMessage, again, stop,
                   historyVars, headerTimeout>>

-----------------------------------------------------------------------------
(* can.c: CANMessageHandler *)

\* receiveCANMessage; a class out of range is not handled. Mutated forms: the
\* flag is not looked at; the port is not cleared after such a message.
ReceiveCANMessageMutant ==
    /\ pc = "receive"
    /\ CANMessage' = PPRxBuffer
    /\ pc' = IF CANMessage'.kind = "reserved" THEN "clearFlag" ELSE "handle"
    /\ executed' = IF CANMessage'.kind = "reserved" /\ CANMessage'.number # 0
                   THEN Append(executed, CANMessage'.number) ELSE executed
    /\ UNCHANGED <<sent, waiting, bufferVars, again, stop, replies,
                   headerTimeout>>

ReceiveCANMessageMutantClear ==
    /\ pc = "receive"
    /\ CANMessage' = IF newCANMsg THEN PPRxBuffer ELSE CANMessage
    /\ pc' = IF CANMessage'.kind = "reserved" THEN "idle" ELSE "handle"
    /\ newCANMsg' = (newCANMsg /\ CANMessage'.kind # "reserved")
    /\ executed' = IF CANMessage'.kind = "reserved" /\ CANMessage'.number # 0
                   THEN Append(executed, CANMessage'.number) ELSE executed
    /\ UNCHANGED <<sent, waiting, inService, PPRxBuffer, again, stop, replies,
                   headerTimeout>>

ReceiveCANMessage ==
    /\ pc = "receive"
    /\ CANMessage' = IF newCANMsg THEN PPRxBuffer ELSE CANMessage
    /\ pc' = IF CANMessage'.kind = "reserved" THEN "clearFlag" ELSE "handle"
    /\ executed' = IF CANMessage'.kind = "reserved" /\ CANMessage'.number # 0
                   THEN Append(executed, CANMessage'.number) ELSE executed
    /\ UNCHANGED <<sent, waiting, bufferVars, again, stop, replies,
                   headerTimeout>>

\* standardRCAsHandler and specialRCAsHandler; only monitor requests are
\* answered. Mutated form: a control message is answered too.
HandleMutant ==
    /\ pc = "handle"
    /\ executed' = IF CANMessage.number = 0 THEN executed
                                            ELSE Append(executed, CANMessage.number)
    /\ stop' = (stop \/ CANMessage.kind = "exit")
    /\ pc' = "send"
    /\ UNCHANGED <<sent, waiting, bufferVars, CANMessage, again, replies,
                   headerTimeout>>

Handle ==
    /\ pc = "handle"
    /\ executed' = IF CANMessage.number = 0 THEN executed
                                            ELSE Append(executed, CANMessage.number)
    /\ stop' = (stop \/ CANMessage.kind = "exit")
    /\ pc' = IF CANMessage.kind = "monitor" THEN "send" ELSE "clearFlag"
    /\ UNCHANGED <<sent, waiting, bufferVars, CANMessage, again, replies,
                   headerTimeout>>

\* sendCANMessage and PPWrite: to the AMBSI if newCANMsg is set, else to the
\* console. A write timeout is only counted.
SendCANMessage ==
    /\ pc = "send"
    /\ \/ replies' = IF newCANMsg THEN Append(replies, CANMessage.number) ELSE replies
       \/ "write" \in Faults /\ UNCHANGED replies
    /\ pc' = "clearFlag"
    /\ UNCHANGED <<sent, waiting, bufferVars, CANMessage, again, stop,
                   executed, headerTimeout>>

ClearFlag ==
    /\ pc = "clearFlag"
    /\ newCANMsg' = FALSE
    /\ pc' = "clearPort"
    /\ UNCHANGED <<sent, waiting, inService, PPRxBuffer, CANMessage, again, stop,
                   historyVars, headerTimeout>>

\* PPClear ends the service of the interrupt, whoever called the handler. A
\* console request on a control point then asks for the RCA it finds in
\* CANMessage. Mutated forms: PPClear waits for an interrupt to be in service;
\* the handler returns before PPClear.
PPClearMutantWaits ==
    /\ pc = "clearPort" /\ inService
    /\ inService' = FALSE
    /\ IF again
       THEN /\ CANMessage' = Message(0, IF CANMessage.kind = "reserved"
                                        THEN "reserved" ELSE "monitor", TRUE)
            /\ pc' = "receive"
       ELSE /\ pc' = "idle"
            /\ UNCHANGED CANMessage
    /\ again' = FALSE
    /\ UNCHANGED <<sent, waiting, PPRxBuffer, newCANMsg, stop, historyVars,
                   headerTimeout>>

PPClearMutant ==
    /\ pc = "clearPort"
    /\ pc' = "idle"
    /\ UNCHANGED <<sent, waiting, bufferVars, CANMessage, again, stop,
                   historyVars, headerTimeout>>

PPClear ==
    /\ pc = "clearPort"
    /\ inService' = FALSE
    /\ IF again
       THEN /\ CANMessage' = Message(0, IF CANMessage.kind = "reserved"
                                        THEN "reserved" ELSE "monitor", TRUE)
            /\ pc' = "receive"
       ELSE /\ pc' = "idle"
            /\ UNCHANGED CANMessage
    /\ again' = FALSE
    /\ UNCHANGED <<sent, waiting, PPRxBuffer, newCANMsg, stop, historyVars,
                   headerTimeout>>

CANMessageHandler ==
    ReceiveCANMessage \/ Handle \/ SendCANMessage \/ ClearFlag \/ PPClear

-----------------------------------------------------------------------------
Init ==
    /\ sent = <<>> /\ waiting = FALSE /\ inService = FALSE
    /\ PPRxBuffer = Message(0, "monitor", TRUE)
    /\ newCANMsg = FALSE
    /\ CANMessage = Message(0, "monitor", TRUE)
    /\ pc = "idle" /\ again = FALSE /\ stop = FALSE
    /\ headerTimeout = 0
    /\ executed = <<>> /\ replies = <<>>

MainThread == Idle \/ StartHandler \/ Stop \/ CANMessageHandler

Next == Present \/ PPIntHandler \/ MainThread \/ Console

Spec == Init /\ [][Next]_vars

\* The processor runs the main thread, and takes an interrupt that stays
\* accepted.
Fairness == WF_vars(MainThread) /\ WF_vars(PPIntHandler)

FairSpec == Spec /\ Fairness

\* What the main thread does next: anything but waiting for a message.
MainThreadBusy ==
    IF pc = "idle" THEN newCANMsg \/ stop ELSE pc # "stopped"

-----------------------------------------------------------------------------
Messages == [number : Numbers, kind : AllKinds, own : BOOLEAN]

\* Every variable stays in its range; no more is handled than was sent, and no
\* more is answered than was handled.
TypeOK ==
    /\ sent \in Seq(Kinds) /\ Len(sent) <= MaxMessages
    /\ waiting \in BOOLEAN /\ inService \in BOOLEAN /\ newCANMsg \in BOOLEAN
    /\ PPRxBuffer \in Messages /\ CANMessage \in Messages
    /\ pc \in Steps /\ again \in BOOLEAN /\ stop \in BOOLEAN
    /\ headerTimeout \in Nat
    /\ executed \in Seq(Numbers) /\ Len(executed) <= Len(sent)
    /\ replies \in Seq(Numbers) /\ Len(replies) <= Len(executed)

\* The firmware keeps the promise of CanService (can.c:75-86): interrupts,
\* flag and buffers lose, repeat, reorder and mix up nothing.
Service == INSTANCE CanService WITH
    Answered <- {"monitor"},
    asked <- sent,
    owed <- pc = "send"

KeepsService == Service!Spec

\* Unless the program is told to stop or the header of a message times out,
\* every message is executed and every request answered (can.c:75-86).
ServesEveryMessage ==
    [](headerTimeout = 0 /\ pc # "stopped")
    => (\A n \in Numbers \ {0} : Service!Executes(n)) /\ Service!Answers

\* The program only ever waits for a message: no step of a handler depends on
\* what the interrupt or the AMBSI does, and an interrupt that is passed on is
\* taken (main.c:70, can.c:87-113).
NothingBlocks ==
    /\ MainThreadBusy => ENABLED <<MainThread>>_vars
    /\ InterruptAccepted => ENABLED <<PPIntHandler>>_vars

\* Whatever the console does in between, no message is handled twice, nor
\* after a later one: a power command is not carried out again.
ExecutedAtMostOnce == \A i, j \in DOMAIN executed : i < j => executed[i] < executed[j]

\* Whatever the console does in between and whatever times out, the bus gets no
\* second answer to a request, none after that to a later request, and none to
\* a message that asks for nothing or was not handled (can.c:825): an answer of
\* the console, number 0, may come between.
AnsweredAtMostOnce ==
    /\ \A i, j \in DOMAIN replies :
          i < j /\ replies[i] # 0 /\ replies[j] # 0 => replies[i] < replies[j]
    /\ \A i \in DOMAIN replies : replies[i] # 0 =>
          /\ sent[replies[i]] = "monitor"
          /\ \E k \in DOMAIN executed : executed[k] = replies[i]

\* An interrupt that was taken is cleared in the end, so that the port can
\* receive another message (ppComm.c:347), unless it found a header timed out.
PortIsReleased == [](inService => <>(~inService \/ headerTimeout # 0))
=============================================================================
