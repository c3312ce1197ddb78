----------------------------- MODULE ErrorQueue -----------------------------
(***************************************************************************)
(* What the error history promises a reader on the CAN bus: the latest     *)
(* Capacity unread errors, oldest first, each read once; without memory    *)
(* for it, the one error that says so.                                     *)
(*                                                                         *)
(* error.c, errorInit: "the circular buffer containing the latest 255      *)
(* errors".                                                                *)
(***************************************************************************)
EXTENDS Naturals, Sequences

CONSTANTS Errors, Capacity, NoMemory, NothingUnread

VARIABLES
    on,                 \* are errors stored?
    unread,             \* the unread errors, oldest first
    reply               \* the last answer given to a reader

vars == <<on, unread, reply>>

Init ==
    /\ on \in BOOLEAN
    /\ unread = IF on THEN <<>> ELSE <<NoMemory>>
    /\ reply = 0

\* A full queue loses its oldest error.
Store(e) ==
    /\ on
    /\ unread' = Append(IF Len(unread) < Capacity THEN unread ELSE Tail(unread), e)
    /\ UNCHANGED <<on, reply>>

Count == reply' = Len(unread) /\ UNCHANGED <<on, unread>>

ReadNext ==
    /\ unread # <<>>
    /\ reply' = Head(unread)
    /\ unread' = Tail(unread)
    /\ UNCHANGED on

ReadNothing == unread = <<>> /\ reply' = NothingUnread /\ UNCHANGED <<on, unread>>

Next == (\E e \in Errors : Store(e)) \/ Count \/ ReadNext \/ ReadNothing

Spec == Init /\ [][Next]_vars
=============================================================================
