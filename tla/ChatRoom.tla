------------------------------ MODULE ChatRoom ------------------------------
(***************************************************************************)
(* What test_multi promises to its clients: a room.  Whoever has joined    *)
(* may speak, and hears everything that is spoken from then on, the own    *)
(* words included, in the one order in which it was spoken.                *)
(***************************************************************************)
EXTENDS Integers, Sequences

CONSTANT Conns

VARIABLES
    joined,     \* how much had been spoken when a client joined, -1 before
    spoken,     \* who spoke, in order
    heard       \* what each client has heard: places in spoken

roomVars == <<joined, spoken, heard>>

Init ==
    /\ joined = [c \in Conns |-> -1]
    /\ spoken = <<>>
    /\ heard = [c \in Conns |-> <<>>]

Join(c) ==
    /\ joined[c] = -1
    /\ joined' = [joined EXCEPT ![c] = Len(spoken)]
    /\ UNCHANGED <<spoken, heard>>

Speak(c) ==
    /\ joined[c] # -1
    /\ spoken' = Append(spoken, c)
    /\ UNCHANGED <<joined, heard>>

Hear(c) ==
    /\ joined[c] # -1
    /\ LET next == joined[c] + Len(heard[c]) + 1
       IN  /\ next <= Len(spoken)
           /\ heard' = [heard EXCEPT ![c] = Append(@, next)]
    /\ UNCHANGED <<joined, spoken>>

Next == \E c \in Conns : Join(c) \/ Speak(c) \/ Hear(c)

Spec == Init /\ [][Next]_roomVars
=============================================================================
