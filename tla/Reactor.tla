------------------------------- MODULE Reactor -------------------------------
(***************************************************************************)
(* The reactor (event_loop.cpp, conn.cpp, server.cpp) under the program    *)
(* that runs it, test_multi.cpp: one thread waits in epoll_wait and calls  *)
(* the handlers, every CHAT is sent back to its sender and to all other    *)
(* connections of the program's map clients.                               *)
(*                                                                         *)
(* A step of the loop is one system call with what the code does about its *)
(* result, so peers write, read and close between any two of them, and the *)
(* events of one epoll_wait are handled in a state that has moved on.      *)
(*                                                                         *)
(* A CHAT is named by its place in log, the order in which the handler saw *)
(* it.  Its packet is Size units long, a socket takes Cap units that the   *)
(* peer has not read; write() takes what fits.  What read() returns is a   *)
(* packet at a time: StreamDecoder has the pieces.                         *)
(***************************************************************************)
EXTENDS Integers, Sequences, FiniteSets, SequencesExt

CONSTANTS
    Conns,      \* connections, named by their descriptors
    Size,       \* units of a packet
    Cap,        \* units that a socket takes
    MaxSay      \* bound: packets that the peers send

ASSUME ConnsAssumption == Conns \subseteq Nat \ {0}
ASSUME SizesAssumption == Size \in Nat \ {0} /\ Cap \in Nat \ {0} /\ MaxSay \in Nat

Listen == 0     \* the descriptor of the listening socket
None   == -1    \* no descriptor

VARIABLES
    state,      \* Conn::state_, "none" before accept
    interest,   \* events a descriptor is registered for; {}: no handler
    connections,\* Server::connections_
    clients,    \* the map clients of test_multi
    outQ,       \* Conn::out_q_
    offset,     \* Conn::write_offset_
    batch,      \* events of the last epoll_wait that are not handled yet
    cur,        \* the descriptor whose handle_read runs, or None, and whether
    curOut,     \* its event asks for handle_write too
    from, left, \* the broadcast: its sender, and who is still to be sent to
    writing,    \* the connection whose handle_write runs
    running,    \* the process lives
    peer,       \* "off", "open" or "closed"
    sock,       \* the server's end: "open", "eof", "reset" or "broken"
    rx,         \* packets that the peer sent and nobody has read
    tx,         \* units written that the peer has not read
    said,       \* packets sent by the peers (bounds the behaviour only)
    log,        \* history: the senders of the CHATs that were handled
    since,      \* history: Len(log) when a connection was accepted
    pushed,     \* history: what send() put into out_q_
    got         \* history: units a peer has read

connVars == <<state, interest, connections, clients>>
outVars  == <<outQ, offset, pushed>>
loopVars == <<batch, cur, curOut>>
castVars == <<from, left, log, since>>
netVars  == <<peer, rx, said, got>>
vars == <<connVars, outVars, loopVars, castVars, writing, running, netVars, sock, tx>>

Units   == Nat \X (1..Size)
Events  == [fd : Conns \cup {Listen}, err : BOOLEAN, in : BOOLEAN, out : BOOLEAN]

TypeOK ==
    /\ state \in [Conns -> {"none", "connected", "closed"}]
    /\ interest \in [Conns -> {{}, {"R"}, {"R", "W"}}]
    /\ connections = {c \in Conns : state[c] = "connected"}
    /\ \A c \in Conns : interest[c] # {} <=> c \in connections
    /\ clients = {c \in Conns : state[c] # "none"}
    /\ outQ \in [Conns -> Seq(Nat)] /\ pushed \in [Conns -> Seq(Nat)]
    /\ offset \in [Conns -> 0..(Size - 1)]
    /\ batch \subseteq Events
    /\ cur \in Conns \cup {Listen, None} /\ curOut \in BOOLEAN
    /\ from \in Conns \cup {None} /\ left \subseteq clients
    /\ writing \in Conns \cup {None} /\ running \in BOOLEAN
    /\ log \in Seq(Conns) /\ since \in [Conns -> Nat]
    /\ peer \in [Conns -> {"off", "open", "closed"}]
    /\ sock \in [Conns -> {"open", "eof", "reset", "broken"}]
    /\ rx \in [Conns -> Seq({"chat", "other"})]
    /\ tx \in [Conns -> Seq(Units)] /\ got \in [Conns -> Seq(Units)]
    /\ \A c \in Conns : Len(tx[c]) <= Cap
    /\ said \in 0..MaxSay

Init ==
    /\ state = [c \in Conns |-> "none"] /\ interest = [c \in Conns |-> {}]
    /\ connections = {} /\ clients = {}
    /\ outQ = [c \in Conns |-> <<>>] /\ pushed = [c \in Conns |-> <<>>]
    /\ offset = [c \in Conns |-> 0]
    /\ batch = {} /\ cur = None /\ curOut = FALSE
    /\ from = None /\ left = {} /\ writing = None /\ running = TRUE
    /\ log = <<>> /\ since = [c \in Conns |-> 0]
    /\ peer = [c \in Conns |-> "off"] /\ sock = [c \in Conns |-> "open"]
    /\ rx = [c \in Conns |-> <<>>] /\ tx = [c \in Conns |-> <<>>]
    /\ got = [c \in Conns |-> <<>>] /\ said = 0

-----------------------------------------------------------------------------
(* Conn.                                                                   *)

\* epoll_ctl on a descriptor that has been taken out fails and is not looked at
Mod(c, events) ==
    interest' = [interest EXCEPT ![c] = IF @ = {} THEN {} ELSE events]

\* enable_writing: only while the connection is open
EnableWriting(c) ==
    IF state[c] = "connected" THEN Mod(c, {"R", "W"}) ELSE UNCHANGED interest

\* mutant of HandleError: del_handler is missing
HandleError_KeepsHandler(c) ==
    /\ state' = [state EXCEPT ![c] = "closed"]
    /\ connections' = connections \ {c}
    /\ UNCHANGED <<interest, clients>>

\* handle_error, and the callback it runs: Server::handle_connection_close.  The
\* close callback that test_multi hands to the server is never called, so
\* clients keeps the connection and with it the open descriptor.
HandleError(c) ==
    /\ state' = [state EXCEPT ![c] = "closed"]
    /\ interest' = [interest EXCEPT ![c] = {}]
    /\ connections' = connections \ {c}
    /\ UNCHANGED clients

\* mutant of Send: the queue takes a packet without asking for write events
Send_NoInterest(c, m) ==
    /\ outQ' = [outQ EXCEPT ![c] = Append(@, m)]
    /\ pushed' = [pushed EXCEPT ![c] = Append(@, m)]
    /\ writing' = IF outQ[c] = <<>> THEN c ELSE None
    /\ UNCHANGED <<connVars, offset>>

\* send
Send(c, m) ==
    /\ outQ' = [outQ EXCEPT ![c] = Append(@, m)]
    /\ pushed' = [pushed EXCEPT ![c] = Append(@, m)]
    /\ IF outQ[c] = <<>>
       THEN EnableWriting(c) /\ writing' = c
       ELSE UNCHANGED <<interest, writing>>
    /\ UNCHANGED <<state, connections, clients, offset>>

\* the units from i to j of the packet at the front of the queue
Slice(c, i, j) == [k \in 1..(j - i + 1) |-> <<Head(outQ[c]), i + k - 1>>]

Writing(c) == running /\ writing = c

\* mutant of WriteSome: write_offset_ is not set back to 0
WriteSome_KeepsOffset(c) ==
    /\ Writing(c) /\ outQ[c] # <<>> /\ sock[c] \in {"open", "eof"}
    /\ Len(tx[c]) < Cap
    /\ LET room == Cap - Len(tx[c])
           last == IF Size - offset[c] <= room THEN Size ELSE offset[c] + room
       IN  /\ tx' = [tx EXCEPT ![c] = @ \o Slice(c, offset[c] + 1, last)]
           /\ IF last = Size
              THEN outQ' = [outQ EXCEPT ![c] = Tail(@)] /\ UNCHANGED offset
              ELSE UNCHANGED outQ /\ offset' = [offset EXCEPT ![c] = last]
    /\ UNCHANGED <<connVars, pushed, loopVars, castVars, writing, running, netVars, sock>>

\* handle_write: one write() that takes something
WriteSome(c) ==
    /\ Writing(c) /\ outQ[c] # <<>> /\ sock[c] \in {"open", "eof"}
    /\ Len(tx[c]) < Cap
    /\ LET room == Cap - Len(tx[c])
           last == IF Size - offset[c] <= room THEN Size ELSE offset[c] + room
       IN  /\ tx' = [tx EXCEPT ![c] = @ \o Slice(c, offset[c] + 1, last)]
           /\ IF last = Size
              THEN outQ' = [outQ EXCEPT ![c] = Tail(@)] /\ offset' = [offset EXCEPT ![c] = 0]
              ELSE UNCHANGED outQ /\ offset' = [offset EXCEPT ![c] = last]
    /\ UNCHANGED <<connVars, pushed, loopVars, castVars, writing, running, netVars, sock>>

\* EAGAIN
WriteFull(c) ==
    /\ Writing(c) /\ outQ[c] # <<>> /\ sock[c] \in {"open", "eof"}
    /\ Len(tx[c]) = Cap
    /\ writing' = None
    /\ UNCHANGED <<connVars, outVars, loopVars, castVars, running, netVars, sock, tx>>

\* ECONNRESET, which a socket reports once
WriteFails(c) ==
    /\ Writing(c) /\ outQ[c] # <<>> /\ sock[c] = "reset"
    /\ HandleError(c)
    /\ sock' = [sock EXCEPT ![c] = "broken"]
    /\ writing' = None
    /\ UNCHANGED <<outVars, loopVars, castVars, running, netVars, tx>>

\* SIGPIPE: SO_NOSIGPIPE is set on macOS only
WriteKills(c) ==
    /\ Writing(c) /\ outQ[c] # <<>> /\ sock[c] = "broken"
    /\ running' = FALSE
    /\ UNCHANGED <<connVars, outVars, loopVars, castVars, writing, netVars, sock, tx>>

\* mutant of WriteDone: disable_writing is missing
WriteDone_KeepsInterest(c) ==
    /\ Writing(c) /\ outQ[c] = <<>>
    /\ writing' = None
    /\ UNCHANGED <<connVars, outVars, loopVars, castVars, running, netVars, sock, tx>>

\* the queue is empty: disable_writing.  close_internal, which would set CLOSING,
\* has no caller.
WriteDone(c) ==
    /\ Writing(c) /\ outQ[c] = <<>>
    /\ Mod(c, {"R"})
    /\ writing' = None
    /\ UNCHANGED <<state, connections, clients, outVars, loopVars, castVars,
                   running, netVars, sock, tx>>

HandleWrite(c) ==
    \/ WriteSome(c) \/ WriteFull(c) \/ WriteFails(c) \/ WriteKills(c) \/ WriteDone(c)

-----------------------------------------------------------------------------
(* The message callback of test_multi: to the sender, then to the others.  *)

Broadcast(c) ==
    /\ running /\ writing = None
    /\ c \in left /\ (from \in left => c = from)
    /\ left' = left \ {c}
    /\ Send(c, Len(log))
    /\ UNCHANGED <<loopVars, from, log, since, running, netVars, sock, tx>>

-----------------------------------------------------------------------------
(* Reading.  The loop of handle_read goes on when the connection was closed *)
(* by a write of the broadcast.                                             *)

Reading(c) == running /\ writing = None /\ left = {} /\ cur = c

\* mutant of ReadPacket: the sender is not answered
ReadPacket_OthersOnly(c) ==
    /\ Reading(c)
    /\ rx[c] # <<>>
    /\ rx' = [rx EXCEPT ![c] = Tail(@)]
    /\ IF Head(rx[c]) = "chat"
       THEN /\ log' = Append(log, c) /\ from' = c /\ left' = clients \ {c}
            /\ UNCHANGED since
       ELSE UNCHANGED castVars
    /\ UNCHANGED <<connVars, outVars, loopVars, writing, running, peer, said, got, sock, tx>>

ReadPacket(c) ==
    /\ Reading(c)
    /\ rx[c] # <<>>
    /\ rx' = [rx EXCEPT ![c] = Tail(@)]
    /\ IF Head(rx[c]) = "chat"
       THEN /\ log' = Append(log, c) /\ from' = c /\ left' = clients
            /\ UNCHANGED since
       ELSE UNCHANGED castVars
    /\ UNCHANGED <<connVars, outVars, loopVars, writing, running, peer, said, got, sock, tx>>

\* handle_read returns; handle_write follows if the event said so
EndRead(c) ==
    /\ cur' = None /\ curOut' = FALSE
    /\ writing' = IF curOut THEN c ELSE None
    /\ UNCHANGED <<outVars, batch, castVars, running, netVars, tx>>

\* EAGAIN
ReadNone(c) ==
    /\ Reading(c) /\ rx[c] = <<>> /\ sock[c] = "open"
    /\ EndRead(c)
    /\ UNCHANGED <<connVars, sock>>

\* end of file, or an error that is reported once
ReadEnd(c) ==
    /\ Reading(c) /\ rx[c] = <<>> /\ sock[c] # "open"
    /\ HandleError(c)
    /\ sock' = [sock EXCEPT ![c] = IF @ = "reset" THEN "broken" ELSE @]
    /\ EndRead(c)

-----------------------------------------------------------------------------
(* Server::handle_read: accept until there is nobody left.                 *)

Backlog == {c \in Conns : peer[c] # "off" /\ state[c] = "none"}

Accepting == running /\ cur = Listen

Accept(c) ==
    /\ Accepting /\ c \in Backlog
    /\ clients' = clients \cup {c}
    /\ connections' = connections \cup {c}
    /\ state' = [state EXCEPT ![c] = "connected"]
    /\ interest' = [interest EXCEPT ![c] = {"R"}]
    /\ since' = [since EXCEPT ![c] = Len(log)]
    /\ UNCHANGED <<outVars, loopVars, from, left, log, writing, running, netVars, sock, tx>>

AcceptNone ==
    /\ Accepting /\ Backlog = {}
    /\ cur' = None
    /\ UNCHANGED <<connVars, outVars, batch, curOut, castVars, writing, running, netVars, sock, tx>>

-----------------------------------------------------------------------------
(* EventLoop::run.                                                         *)

Waiting == running /\ writing = None /\ left = {} /\ cur = None

Broken(c)   == sock[c] \in {"reset", "broken"}
Readable(c) == rx[c] # <<>> \/ sock[c] # "open"
Writable(c) == "W" \in interest[c] /\ (Len(tx[c]) < Cap \/ Broken(c))

\* the events are level-triggered
Ready ==
    {e \in Events :
        \/ e.fd = Listen /\ Backlog # {} /\ ~e.err /\ e.in /\ ~e.out
        \/ /\ e.fd \in Conns /\ interest[e.fd] # {}
           /\ e.err = Broken(e.fd) /\ e.in = Readable(e.fd) /\ e.out = Writable(e.fd)
           /\ e.in \/ e.out}

Poll ==
    /\ Waiting /\ batch = {}
    /\ Ready # {} /\ batch' = Ready
    /\ UNCHANGED <<connVars, outVars, cur, curOut, castVars, writing, running, netVars, sock, tx>>

\* the handler is gone
Skip(e) ==
    /\ Waiting /\ e \in batch
    /\ e.fd # Listen /\ interest[e.fd] = {}
    /\ batch' = batch \ {e}
    /\ UNCHANGED <<connVars, outVars, cur, curOut, castVars, writing, running, netVars, sock, tx>>

\* EPOLLERR or EPOLLHUP: handle_error, and nothing is read any more
Failed(e) ==
    /\ Waiting /\ e \in batch
    /\ e.fd # Listen /\ interest[e.fd] # {} /\ e.err
    /\ batch' = batch \ {e}
    /\ HandleError(e.fd)
    /\ UNCHANGED <<outVars, cur, curOut, castVars, writing, running, netVars, sock, tx>>

\* EPOLLIN: handle_read, then handle_write if there is EPOLLOUT as well
Handle(e) ==
    /\ Waiting /\ e \in batch
    /\ e.fd # Listen => interest[e.fd] # {} /\ ~e.err
    /\ batch' = batch \ {e}
    /\ IF e.in
       THEN cur' = e.fd /\ curOut' = e.out /\ UNCHANGED writing
       ELSE writing' = e.fd /\ UNCHANGED <<cur, curOut>>
    /\ UNCHANGED <<connVars, outVars, castVars, running, netVars, sock, tx>>

Loop ==
    \/ Poll \/ AcceptNone
    \/ \E e \in batch : Skip(e) \/ Failed(e) \/ Handle(e)
    \/ \E c \in Conns : Accept(c) \/ ReadPacket(c) \/ ReadNone(c) \/ ReadEnd(c)
                          \/ Broadcast(c) \/ HandleWrite(c)

-----------------------------------------------------------------------------
(* Peers and the network.                                                  *)

loopSide == <<connVars, outVars, loopVars, castVars, writing, running>>

Connect(c) ==
    /\ peer[c] = "off" /\ \A d \in Conns : d < c => peer[d] # "off"
    /\ peer' = [peer EXCEPT ![c] = "open"]
    /\ UNCHANGED <<loopSide, rx, said, got, sock, tx>>

Say(c) ==
    /\ peer[c] = "open" /\ sock[c] = "open" /\ said < MaxSay
    /\ said' = said + 1
    /\ \E kind \in {"chat", "other"} : rx' = [rx EXCEPT ![c] = Append(@, kind)]
    /\ UNCHANGED <<loopSide, peer, got, sock, tx>>

\* a peer reads what has arrived
PeerReads(c) ==
    /\ peer[c] = "open" /\ tx[c] # <<>>
    /\ tx' = [tx EXCEPT ![c] = Tail(@)]
    /\ got' = [got EXCEPT ![c] = Append(@, Head(tx[c]))]
    /\ UNCHANGED <<loopSide, peer, rx, said, sock>>

\* close() by the peer: a FIN, or a RST if it has not read everything
PeerCloses(c) ==
    /\ peer[c] = "open"
    /\ peer' = [peer EXCEPT ![c] = "closed"]
    /\ \/ sock' = [sock EXCEPT ![c] = "eof"] /\ UNCHANGED tx
       \/ /\ tx[c] # <<>>
          /\ sock' = [sock EXCEPT ![c] = "reset"] /\ tx' = [tx EXCEPT ![c] = <<>>]
    /\ UNCHANGED <<loopSide, rx, said, got>>

\* what is written after the FIN is answered with a RST
ResetArrives(c) ==
    /\ sock[c] = "eof" /\ tx[c] # <<>>
    /\ sock' = [sock EXCEPT ![c] = "broken"] /\ tx' = [tx EXCEPT ![c] = <<>>]
    /\ UNCHANGED <<loopSide, netVars>>

Network(c) == Connect(c) \/ Say(c) \/ PeerReads(c) \/ PeerCloses(c) \/ ResetArrives(c)

Next == Loop \/ \E c \in Conns : Network(c)

\* The loop's thread runs as long as it has something to do, and a peer that is
\* there reads what arrives (test_multi is driven by hand; im_client has a thread
\* that does nothing else).  Nobody has to send, connect or close.
Fairness == WF_vars(Loop) /\ \A c \in Conns : WF_vars(PeerReads(c))

Spec == Init /\ [][Next]_vars /\ Fairness

-----------------------------------------------------------------------------
(* Properties.                                                             *)

\* StreamIntact: what a peer has read, what is in its socket and what is still
\* in out_q_, cut at write_offset_, are together the packets that send() was
\* given for it, whole and in order, over any pattern of partial writes
\* (conn.cpp:101-139); nothing is lost before the peer closes.
Whole(ms) ==
    [k \in 1..(Len(ms) * Size) |->
        <<ms[(k - 1) \div Size + 1], ((k - 1) % Size) + 1>>]

StreamIntact ==
    \A c \in Conns :
        /\ IsPrefix(got[c], Whole(pushed[c]))
        /\ sock[c] = "open" =>
              got[c] \o tx[c] \o SubSeq(Whole(outQ[c]), offset[c] + 1, Len(outQ[c]) * Size)
                = Whole(pushed[c])

\* InterestFollowsQueue: outside handle_write, an open connection waits for
\* EPOLLOUT exactly when something is in its queue (conn.cpp:55-68, 131-133):
\* send() relies on it when it does not ask again for a queue that is not empty,
\* and a level-triggered EPOLLOUT on an empty queue would spin.
InterestFollowsQueue ==
    \A c \in connections \ {writing} : "W" \in interest[c] <=> outQ[c] # <<>>

\* RoomSpec: to its clients the program is a room in which everybody hears the
\* same messages in the same order from the moment of joining, without a gap,
\* whatever the pattern of writes, closes and errors.
Seen(c) == [i \in 1..(Len(got[c]) \div Size) |-> got[c][i * Size][1]]

Room == INSTANCE ChatRoom WITH
            joined <- [c \in Conns |-> IF state[c] = "none" THEN -1 ELSE since[c]],
            spoken <- log,
            heard  <- [c \in Conns |-> Seen(c)]
RoomSpec == Room!Spec

\* EventuallyHeard: a connection with packets that were not handled, or with
\* queued bytes that its peer has not read, gets out of that state again, unless
\* it closes or the process dies: no wake-up is lost between send(), handle_write
\* and epoll, and no handler keeps the loop from the others.
Over(c)   == peer[c] = "closed" \/ ~running
Behind(c) == rx[c] # <<>> \/ Len(got[c]) < Len(pushed[c]) * Size

EventuallyHeard == \A c \in Conns : Behind(c) ~> (~Behind(c) \/ Over(c))
=============================================================================
