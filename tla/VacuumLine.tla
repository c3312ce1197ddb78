----------------------------- MODULE VacuumLine -----------------------------
(***************************************************************************)
(* What the commands to the cryostat promise about the vacuum line: the    *)
(* backing pump feeds the turbo pump and the two valves (backingPump.c:64, *)
(* turboPump.c:70), so nothing of the line is on or open without it, and   *)
(* it is given up one device at a time, from the dewar outwards. Only the  *)
(* first command after a restart of the computer may change several        *)
(* devices at once, and then it leaves on what it asks for and no more.    *)
(***************************************************************************)
CONSTANTS Fed,      \* the devices behind the backing pump
          Backing   \* the backing pump

VARIABLES line,     \* what is on or open
          restarted \* the computer restarted and has not sent a command since

vars == <<line, restarted>>

Init == line = {} /\ restarted = FALSE

Start == /\ restarted = FALSE
         /\ line' = line \cup {Backing}
         /\ UNCHANGED restarted

Admit(d) == /\ restarted = FALSE
            /\ Backing \in line
            /\ line' = line \cup {d}
            /\ UNCHANGED restarted

Isolate(d) == /\ restarted = FALSE
              /\ line' = line \ {d}
              /\ UNCHANGED restarted

Stop == /\ restarted = FALSE
        /\ line \subseteq {Backing}
        /\ line' = {}
        /\ UNCHANGED restarted

Restart == line' \in {line, {}} /\ restarted' = TRUE

FirstCommand == /\ restarted
                /\ line' \in {{}, {Backing}}
                /\ restarted' = FALSE

Next == \/ Start \/ Stop \/ Restart \/ FirstCommand
        \/ \E d \in Fed : Admit(d) \/ Isolate(d)

Spec == Init /\ [][Next]_vars
=============================================================================
