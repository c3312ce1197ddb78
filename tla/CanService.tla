----------------------------- MODULE CanService -----------------------------
(***************************************************************************)
(* What the front end promises the AMBSI, without buffers, flags and       *)
(* interrupts: the messages are executed one at a time, each one once and  *)
(* in the order they were sent, and a request that has an answer is given  *)
(* its own before the next message is executed.                            *)
(*                                                                         *)
(* can.c, CANMessageHandler: "after the message has been dealt with, the   *)
(* PPTxBuffer will be compose using information now available in the       *)
(* CANMessage variable and then send back to the AMBSI1 board".            *)
(***************************************************************************)
EXTENDS Naturals, Sequences

CONSTANTS Kinds, Answered

VARIABLES
    asked,              \* the messages sent so far, message n of kind asked[n]
    executed,           \* the numbers of the messages executed
    owed,               \* is the answer to the last of them still to come?
    replies             \* the messages the answers given so far belong to

vars == <<asked, executed, owed, replies>>

Init == asked = <<>> /\ executed = <<>> /\ owed = FALSE /\ replies = <<>>

Ask ==
    /\ \E k \in Kinds : asked' = Append(asked, k)
    /\ UNCHANGED <<executed, owed, replies>>

Execute ==
    LET n == Len(executed) + 1 IN
    /\ ~owed /\ n <= Len(asked)
    /\ executed' = Append(executed, n)
    /\ owed' = (asked[n] \in Answered)
    /\ UNCHANGED <<asked, replies>>

Reply ==
    /\ owed
    /\ owed' = FALSE
    /\ replies' = Append(replies, executed[Len(executed)])
    /\ UNCHANGED <<asked, executed>>

Next == Ask \/ Execute \/ Reply

Spec == Init /\ [][Next]_vars

\* Message n is executed once it was sent.
Executes(n) == Len(asked) >= n ~> Len(executed) >= n

\* No answer is owed for ever.
Answers == owed ~> ~owed
=============================================================================
