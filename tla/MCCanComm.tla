----------------------------- MODULE MCCanComm -----------------------------
(***************************************************************************)
(* What comments of the source say of the way of a CAN message, as         *)
(* properties of CanComm that its behaviours break when the console is     *)
(* used or a transfer times out. Each names the constants that break it.   *)
(***************************************************************************)
EXTENDS CanComm

\* can.c:825 "If it was a request coming from the CAN bus, send back the
\* data", :831 "If it was coming from console, deal with the console": no
\* answer to a request of the console is written to the AMBSI.
\* Broken with ConsoleCommands = {"m"}.
BusGetsBusAnswers == \A i \in DOMAIN replies : replies[i] # 0

\* can.c:109 "After handling the message, the firmware is ready to receive
\* more messages. The parallel port IRQ is cleared": when it is cleared, the
\* messages read so far have been handled.
\* Broken with ConsoleCommands = {"m"}: a message that arrives while the
\* console's request is handled is dropped (console.c:167).
ClearedAfterHandling ==
    ~inService /\ pc # "stopped" =>
        \A n \in DOMAIN sent :
            \/ n = Len(sent) /\ waiting
            \/ \E i \in DOMAIN executed : executed[i] = n

\* can.c:75 the message is recomposed "using the data in the PPRxBuffer which
\* contains all the relevant information about the newly received message":
\* what is handled is what was sent.
\* Broken with Faults = {"payload"}.
BufferHoldsMessage == pc = "handle" => CANMessage.own
=============================================================================
