-------------------------------- MODULE Inbox --------------------------------
(***************************************************************************)
(* What the message storage promises: messages wait, in the order in which *)
(* they were saved, until they are fetched once, marked or cleared; and    *)
(* what is left of that when the file cannot be read or written, or the    *)
(* process ends while it is written.                                       *)
(***************************************************************************)
EXTENDS Naturals, Sequences, Selection

CONSTANTS Users, Texts

VARIABLES
    pending,    \* messages that wait
    fetched,    \* what the last operation returned, if it was a fetch
    fault       \* did the last operation fail to read or to write?

Message == [from : Users, to : Users, text : Texts]

\* what a fetch returns of s, and what waits after a fetch, a marking, a clearing
Fetched(s, u)   == Those(s, LAMBDA m : m.to = u)
Unfetched(s, u) == Those(s, LAMBDA m : m.to # u)
Unmarked(s, u, v) == Those(s, LAMBDA m : ~(m.to = u /\ m.from = v))
Cleared(s, u)   == Those(s, LAMBDA m : m.to # u /\ m.from # u)

Init == pending = <<>> /\ fetched = <<>> /\ fault = FALSE

Save ==
    /\ fetched' = <<>> /\ fault' = FALSE
    /\ \E m \in Message : pending' = Append(pending, m)

Fetch(u) ==
    /\ fault' = FALSE
    /\ fetched' = Fetched(pending, u)
    /\ pending' = Unfetched(pending, u)

Mark(u, v) ==
    /\ fetched' = <<>> /\ fault' = FALSE
    /\ pending' = Unmarked(pending, u, v)

Clear(u) ==
    /\ fetched' = <<>> /\ fault' = FALSE
    /\ pending' = Cleared(pending, u)

Restart ==
    /\ fetched' = <<>> /\ fault' = FALSE
    /\ UNCHANGED pending

-----------------------------------------------------------------------------
\* of what should wait now only a first part is written
Cut(s) == pending' \in {SubSeq(s, 1, n) : n \in 0..Len(s)}

\* What waits is found or not, and what should wait then is not written or cut.
\* A fetch whose change is not written returns its messages all the same.
Fault ==
    /\ fault' = TRUE
    /\ \/ fetched' = <<>> /\ pending' \in {pending, <<>>}
       \/ \E s \in {pending, <<>>} :
            \/ /\ fetched' = <<>>
               /\ \/ \E m \in Message : Cut(Append(s, m))
                  \/ \E u \in Users : Cut(Unfetched(s, u)) \/ Cut(Cleared(s, u))
                  \/ \E u, v \in Users : Cut(Unmarked(s, u, v))
            \/ \E u \in Users :
                 /\ fetched' = Fetched(s, u)
                 /\ UNCHANGED pending \/ Cut(Unfetched(s, u))

Next ==
    \/ Save \/ Restart \/ Fault
    \/ \E u \in Users : Fetch(u) \/ Clear(u)
    \/ \E u, v \in Users : Mark(u, v)

Spec == Init /\ [][Next]_<<pending, fetched, fault>>
=============================================================================
