------------------------------- MODULE Mailbox -------------------------------
(***************************************************************************)
(* What the server promises about private messages (CHAT_TO), as one state *)
(* per message and nothing about connections, queues, routes or files:     *)
(*                                                                         *)
(*    new -> stored -> queued -> written                                   *)
(*       \-> queued                                                        *)
(*                                                                         *)
(* and from every state but the final ones to "lost".  A message never     *)
(* moves against the arrows: it is written to at most one connection and   *)
(* once, a message that was written or lost never comes back, and one that *)
(* left the message file is not put back into it.  This is "at most once"; *)
(* "at least once" is no promise of the code, which forgets a message as   *)
(* soon as it has queued it.                                               *)
(***************************************************************************)
EXTENDS Naturals

CONSTANT Ids        \* message identities

VARIABLE box        \* message -> its state

State == {"new", "stored", "queued", "written", "lost"}

Arrow == { <<"new", "stored">>,    <<"new", "queued">>,    <<"new", "lost">>,
           <<"stored", "queued">>, <<"stored", "lost">>,
           <<"queued", "written">>, <<"queued", "lost">> }

Init == box = [m \in Ids |-> "new"]

Moves(ms, from, to) ==
    /\ ms # {} /\ ms \subseteq {m \in Ids : box[m] = from}
    /\ <<from, to>> \in Arrow
    /\ box' = [m \in Ids |-> IF m \in ms THEN to ELSE box[m]]

\* A message is accepted: kept for later, queued for a connection, or dropped.
Send(m)  == \E s \in {"stored", "queued", "lost"} : Moves({m}, "new", s)

\* A LOGIN moves all the stored messages of a user to its connection.
Flush(ms) == Moves(ms, "stored", "queued")

\* The bytes of the oldest queued message go to the socket.
Write(m) == Moves({m}, "queued", "written")

\* A connection or the process ends: what it holds is lost.
Lose(ms) ==
    /\ ms # {} /\ ms \subseteq {m \in Ids : box[m] \in {"new", "stored", "queued"}}
    /\ box' = [m \in Ids |-> IF m \in ms THEN "lost" ELSE box[m]]

Next ==
    \/ \E m \in Ids : Send(m) \/ Write(m)
    \/ \E ms \in SUBSET Ids : Flush(ms) \/ Lose(ms)

Spec == Init /\ [][Next]_box
=============================================================================
