---------------------------- MODULE ReactorProofs ----------------------------
(***************************************************************************)
(* The reactor for any number of connections, any size of packets and      *)
(* sockets, and any order of events: its types, its write events, the      *)
(* streams it writes and the room that its clients see.                    *)
(*                                                                         *)
(* InterestFollowsQueue says nothing of the connection in handle_write;    *)
(* Asked does, and Known and Fresh say that a descriptor is served, and    *)
(* has a queue, only once it was accepted.  Streams counts the packets of  *)
(* one connection in units from send() to its peer; Speech ties what was   *)
(* pushed to the log of the room.                                          *)
(***************************************************************************)
EXTENDS Reactor, SequenceTheorems, TLAPS

\* The handlers run for connections that were accepted, and the listening
\* socket is only read.
Known ==
    /\ cur \in clients \cup {Listen, None} /\ writing \in clients \cup {None}
    /\ \A e \in batch : e.fd = Listen => e.in

\* A connection that is not accepted has nothing to send.
Fresh == \A c \in Conns : state[c] = "none" => outQ[c] = <<>>

\* An open connection with something to send waits for EPOLLOUT.
Asked == \A c \in connections : outQ[c] # <<>> => "W" \in interest[c]

\* An open connection that waits for EPOLLOUT has something to send, or
\* handle_write runs for it.
Needed == \A c \in connections \ {writing} : "W" \in interest[c] => outQ[c] # <<>>

Inv == TypeOK /\ Known /\ Fresh /\ Asked /\ Needed

\* TypeOK in four parts.
Tables ==
    /\ state \in [Conns -> {"none", "connected", "closed"}]
    /\ interest \in [Conns -> {{}, {"R"}, {"R", "W"}}]
    /\ connections = {c \in Conns : state[c] = "connected"}
    /\ \A c \in Conns : interest[c] # {} <=> c \in connections
    /\ clients = {c \in Conns : state[c] # "none"}

Queues ==
    /\ outQ \in [Conns -> Seq(Nat)] /\ pushed \in [Conns -> Seq(Nat)]
    /\ offset \in [Conns -> 0..(Size - 1)]

Control ==
    /\ batch \subseteq Events
    /\ cur \in Conns \cup {Listen, None} /\ curOut \in BOOLEAN
    /\ from \in Conns \cup {None} /\ left \subseteq clients
    /\ writing \in Conns \cup {None} /\ running \in BOOLEAN
    /\ log \in Seq(Conns) /\ since \in [Conns -> Nat]

Net ==
    /\ peer \in [Conns -> {"off", "open", "closed"}]
    /\ sock \in [Conns -> {"open", "eof", "reset", "broken"}]
    /\ rx \in [Conns -> Seq({"chat", "other"})]
    /\ tx \in [Conns -> Seq(Units)] /\ got \in [Conns -> Seq(Units)]
    /\ \A c \in Conns : Len(tx[c]) <= Cap
    /\ said \in 0..MaxSay

LEMMA TypeParts == TypeOK <=> Tables /\ Queues /\ Control /\ Net
  BY DEF TypeOK, Tables, Queues, Control, Net

LEMMA Descriptors == 0 \notin Conns /\ -1 \notin Conns
  BY ConnsAssumption

LEMMA InitInv == Init => Inv
  <1> SUFFICES ASSUME Init PROVE Inv
    OBVIOUS
  <1> USE DEF Init
  <1>e. Len(<<>>) = 0 /\ \A S : <<>> \in Seq(S)
    BY EmptySeq
  <1>1. Tables
    BY DEF Tables
  <1>2. Queues
    BY <1>e, SizesAssumption DEF Queues
  <1>3. Control
    BY <1>e DEF Control, Listen, None
  <1>4. Net
    <2>1. tx \in [Conns -> Seq(Units)] /\ \A c \in Conns : Len(tx[c]) = 0
      BY <1>e
    <2> QED
      BY <1>e, <2>1, SizesAssumption DEF Net
  <1>5. Known
    BY DEF Known
  <1>6. Fresh /\ Asked /\ Needed
    BY DEF Fresh, Asked, Needed
  <1> QED
    BY <1>1, <1>2, <1>3, <1>4, <1>5, <1>6, TypeParts DEF Inv

-----------------------------------------------------------------------------
(* The tables of connections and handlers.                                 *)

LEMMA HandleErrorTables ==
  ASSUME Tables, NEW c \in clients, HandleError(c)
  PROVE  Tables'
  BY DEF Tables, HandleError

LEMMA TablesStep == Tables /\ Control /\ Known /\ [Next]_vars => Tables'
  <1> SUFFICES ASSUME Tables, Control, Known, [Next]_vars PROVE Tables'
    OBVIOUS
  <1>u. UNCHANGED connVars => Tables'
    BY DEF connVars, Tables
  <1>1. CASE Poll \/ AcceptNone
    BY <1>1, <1>u DEF Poll, AcceptNone
  <1>2. ASSUME NEW e \in batch, Skip(e) \/ Handle(e) PROVE Tables'
    BY <1>2, <1>u DEF Skip, Handle
  <1>3. ASSUME NEW e \in batch, Failed(e) PROVE Tables'
    <2>1. HandleError(e.fd) /\ interest[e.fd] # {} /\ e.fd \in Conns
      BY <1>3 DEF Failed, Control, Events
    <2>2. e.fd \in clients
      BY <2>1 DEF Tables
    <2> QED
      BY <2>1, <2>2, HandleErrorTables
  <1>4. ASSUME NEW c \in Conns, Accept(c) PROVE Tables'
    BY <1>4 DEF Accept, Tables
  <1>5. ASSUME NEW c \in Conns, ReadPacket(c) \/ ReadNone(c) PROVE Tables'
    BY <1>5, <1>u DEF ReadPacket, ReadNone
  <1>6. ASSUME NEW c \in Conns, ReadEnd(c) PROVE Tables'
    <2>1. c \in clients /\ HandleError(c)
      BY <1>6, Descriptors DEF ReadEnd, Reading, Known, Listen, None
    <2> QED
      BY <2>1, HandleErrorTables
  <1>7. ASSUME NEW c \in Conns, Broadcast(c) PROVE Tables'
    <2>1. UNCHANGED <<state, connections, clients>> /\ (EnableWriting(c) \/ UNCHANGED interest)
      BY <1>7 DEF Broadcast, Send
    <2> QED
      BY <2>1 DEF EnableWriting, Mod, Tables
  <1>8. ASSUME NEW c \in Conns, WriteSome(c) \/ WriteFull(c) \/ WriteKills(c) PROVE Tables'
    BY <1>8, <1>u DEF WriteSome, WriteFull, WriteKills
  <1>9. ASSUME NEW c \in Conns, WriteFails(c) PROVE Tables'
    <2>1. c \in clients /\ HandleError(c)
      BY <1>9, Descriptors DEF WriteFails, Writing, Known, None
    <2> QED
      BY <2>1, HandleErrorTables
  <1>10. ASSUME NEW c \in Conns, WriteDone(c) PROVE Tables'
    <2>1. UNCHANGED <<state, connections, clients>> /\ Mod(c, {"R"})
      BY <1>10 DEF WriteDone
    <2> QED
      BY <2>1 DEF Mod, Tables
  <1>11. ASSUME NEW c \in Conns, Network(c) PROVE Tables'
    BY <1>11, <1>u DEF Network, Connect, Say, PeerReads, PeerCloses, ResetArrives, loopSide
  <1>12. CASE UNCHANGED vars
    BY <1>12, <1>u DEF vars
  <1> QED
    BY <1>1, <1>2, <1>3, <1>4, <1>5, <1>6, <1>7, <1>8, <1>9, <1>10, <1>11, <1>12
    DEF Next, Loop, HandleWrite

-----------------------------------------------------------------------------
(* The queues, and what one write() takes from them.                       *)

\* A write() stops at the end of the packet or where the socket is full.
LEMMA Cut ==
  ASSUME NEW o \in 0..(Size - 1), NEW room \in Nat \ {0},
         NEW last, last = IF Size - o <= room THEN Size ELSE o + room
  PROVE  /\ last \in (o + 1)..Size /\ last - o <= room
         /\ last # Size => last \in 0..(Size - 1)
  <1>1. CASE Size - o <= room
    BY <1>1, SizesAssumption
  <1>2. CASE ~(Size - o <= room)
    BY <1>2, SizesAssumption
  <1> QED
    BY <1>1, <1>2

LEMMA SliceType ==
  ASSUME Queues, NEW c \in Conns, outQ[c] # <<>>,
         NEW i \in 1..Size, NEW j \in i..Size
  PROVE  Slice(c, i, j) \in Seq(Units) /\ Len(Slice(c, i, j)) = j - i + 1
  <1>1. Head(outQ[c]) \in Nat
    <2>1. outQ[c] \in Seq(Nat)
      BY DEF Queues
    <2> QED
      BY <2>1, HeadTailProperties
  <1>2. i \in Nat /\ j \in Nat /\ i <= j /\ 1 <= i /\ j <= Size
    BY SizesAssumption
  <1> DEFINE n == j - i + 1
  <1>3. n \in Nat
    BY <1>2
  <1>4. ASSUME NEW k \in 1..n PROVE <<Head(outQ[c]), i + k - 1>> \in Units
    <2>1. i + k - 1 \in 1..Size
      BY <1>2, <1>4, SizesAssumption
    <2> QED
      BY <1>1, <2>1 DEF Units
  <1>5. Slice(c, i, j) = [k \in 1..n |-> <<Head(outQ[c]), i + k - 1>>]
    BY DEF Slice
  <1> HIDE DEF n
  <1>6. Slice(c, i, j) \in [1..n -> Units]
    BY <1>4, <1>5
  <1>7. Slice(c, i, j) \in Seq(Units)
    BY <1>3, <1>6, SeqDef
  <1>8. DOMAIN Slice(c, i, j) = 1..n
    BY <1>6
  <1>9. Len(Slice(c, i, j)) = n
    BY <1>3, <1>7, <1>8, LenProperties
  <1> QED
    BY <1>7, <1>9 DEF n

\* What a write() does: a slice goes to the socket, and the packet goes with
\* it or the offset moves.
LEMMA WriteSomeEffect ==
  ASSUME Queues, Net, NEW c \in Conns, WriteSome(c)
  PROVE  \E s \in Seq(Units) :
            /\ tx' = [tx EXCEPT ![c] = @ \o s]
            /\ Len(tx[c]) + Len(s) <= Cap
            /\ \/ /\ outQ' = [outQ EXCEPT ![c] = Tail(@)]
                  /\ offset' = [offset EXCEPT ![c] = 0]
               \/ /\ UNCHANGED outQ
                  /\ \E o \in 0..(Size - 1) : offset' = [offset EXCEPT ![c] = o]
  <1>1. /\ outQ[c] # <<>> /\ Len(tx[c]) < Cap
        /\ Len(tx[c]) \in Nat /\ offset[c] \in 0..(Size - 1)
    <2>1. tx[c] \in Seq(Units)
      BY DEF Net
    <2> QED
      BY <2>1, LenProperties DEF WriteSome, Queues
  <1>2. PICK room : room = Cap - Len(tx[c])
    OBVIOUS
  <1>3. room \in Nat \ {0}
    BY <1>1, <1>2, SizesAssumption
  <1>4. PICK last : last = IF Size - offset[c] <= room THEN Size ELSE offset[c] + room
    OBVIOUS
  <1>5. /\ last \in (offset[c] + 1)..Size /\ last - offset[c] <= room
        /\ last # Size => last \in 0..(Size - 1)
    BY <1>1, <1>3, <1>4, Cut
  <1>6. PICK s : s = Slice(c, offset[c] + 1, last)
    OBVIOUS
  <1>7. offset[c] + 1 \in 1..Size
    BY <1>1, SizesAssumption
  <1>8. s \in Seq(Units) /\ Len(s) = last - (offset[c] + 1) + 1
    BY <1>1, <1>5, <1>6, <1>7, SliceType
  <1>9. Len(tx[c]) + Len(s) <= Cap
    BY <1>1, <1>2, <1>5, <1>8, SizesAssumption
  <1>10. /\ tx' = [tx EXCEPT ![c] = @ \o s]
         /\ IF last = Size
            THEN outQ' = [outQ EXCEPT ![c] = Tail(@)] /\ offset' = [offset EXCEPT ![c] = 0]
            ELSE UNCHANGED outQ /\ offset' = [offset EXCEPT ![c] = last]
    BY <1>2, <1>4, <1>6 DEF WriteSome
  <1> QED
    BY <1>5, <1>8, <1>9, <1>10

LEMMA QueuesStep == Queues /\ Control /\ Net /\ [Next]_vars => Queues'
  <1> SUFFICES ASSUME Queues, Control, Net, [Next]_vars PROVE Queues'
    OBVIOUS
  <1>u. UNCHANGED outVars => Queues'
    BY DEF outVars, Queues
  <1>1. CASE Poll \/ AcceptNone
    BY <1>1, <1>u DEF Poll, AcceptNone
  <1>2. ASSUME NEW e \in batch, Skip(e) \/ Handle(e) \/ Failed(e) PROVE Queues'
    BY <1>2, <1>u DEF Skip, Handle, Failed
  <1>3. ASSUME NEW c \in Conns, Accept(c) \/ ReadPacket(c) \/ ReadNone(c) \/ ReadEnd(c)
        PROVE  Queues'
    BY <1>3, <1>u DEF Accept, ReadPacket, ReadNone, ReadEnd, EndRead
  <1>4. ASSUME NEW c \in Conns, Broadcast(c) PROVE Queues'
    <2>1. outQ[c] \in Seq(Nat) /\ pushed[c] \in Seq(Nat) /\ Len(log) \in Nat
      BY LenProperties DEF Queues, Control
    <2>2. Append(outQ[c], Len(log)) \in Seq(Nat) /\ Append(pushed[c], Len(log)) \in Seq(Nat)
      BY <2>1, AppendProperties
    <2>3. /\ outQ' = [outQ EXCEPT ![c] = Append(@, Len(log))]
          /\ pushed' = [pushed EXCEPT ![c] = Append(@, Len(log))]
          /\ UNCHANGED offset
      BY <1>4 DEF Broadcast, Send
    <2> QED
      BY <2>2, <2>3 DEF Queues
  <1>5. ASSUME NEW c \in Conns, WriteSome(c) PROVE Queues'
    <2>1. UNCHANGED pushed /\ outQ[c] # <<>> /\ outQ[c] \in Seq(Nat)
      BY <1>5 DEF WriteSome, Queues
    <2>2. Tail(outQ[c]) \in Seq(Nat)
      BY <2>1, HeadTailProperties
    <2>3. \/ /\ outQ' = [outQ EXCEPT ![c] = Tail(@)]
             /\ offset' = [offset EXCEPT ![c] = 0]
          \/ /\ UNCHANGED outQ
             /\ \E o \in 0..(Size - 1) : offset' = [offset EXCEPT ![c] = o]
      BY <1>5, WriteSomeEffect
    <2>4. 0 \in 0..(Size - 1)
      BY SizesAssumption
    <2> QED
      BY <2>1, <2>2, <2>3, <2>4 DEF Queues
  <1>6. ASSUME NEW c \in Conns, WriteFull(c) \/ WriteFails(c) \/ WriteKills(c) \/ WriteDone(c)
        PROVE  Queues'
    BY <1>6, <1>u DEF WriteFull, WriteFails, WriteKills, WriteDone
  <1>7. ASSUME NEW c \in Conns, Network(c) PROVE Queues'
    BY <1>7, <1>u DEF Network, Connect, Say, PeerReads, PeerCloses, ResetArrives, loopSide
  <1>8. CASE UNCHANGED vars
    BY <1>8, <1>u DEF vars
  <1> QED
    BY <1>1, <1>2, <1>3, <1>4, <1>5, <1>6, <1>7, <1>8 DEF Next, Loop, HandleWrite

-----------------------------------------------------------------------------
(* The loop.                                                               *)

LEMMA ControlStep == Tables /\ Control /\ Known /\ [Next]_vars => Control' /\ Known'
  <1> SUFFICES ASSUME Tables, Control, Known, [Next]_vars PROVE Control' /\ Known'
    OBVIOUS
  <1>u. UNCHANGED <<loopVars, castVars, writing, running, clients>> => Control' /\ Known'
    BY DEF loopVars, castVars, Control, Known
  <1> USE DEF Control, Known, loopVars, castVars, connVars
  <1>1. CASE Poll \/ AcceptNone
    <2>1. Ready \subseteq Events /\ \A e \in Ready : e.fd = Listen => e.in
      BY Descriptors DEF Ready, Listen
    <2> QED
      BY <1>1, <2>1 DEF Poll, AcceptNone
  <1>2. ASSUME NEW e \in batch, Skip(e) PROVE Control' /\ Known'
    BY <1>2 DEF Skip
  <1>3. ASSUME NEW e \in batch, Failed(e) PROVE Control' /\ Known'
    BY <1>3 DEF Failed, HandleError
  <1>4. ASSUME NEW e \in batch, Handle(e) PROVE Control' /\ Known'
    <2>1. /\ batch' = batch \ {e} /\ UNCHANGED <<clients, castVars, running>>
          /\ \/ cur' = e.fd /\ curOut' = e.out /\ UNCHANGED writing
             \/ writing' = e.fd /\ e.in = FALSE /\ UNCHANGED <<cur, curOut>>
      BY <1>4 DEF Handle, Events
    <2>2. /\ e.fd \in Conns \cup {Listen} /\ e.out \in BOOLEAN
          /\ e.fd # Listen => interest[e.fd] # {}
      BY <1>4 DEF Handle, Events
    <2>3. e.fd # Listen => e.fd \in clients
      BY <2>2 DEF Tables
    <2>4. e.fd = Listen => e.in
      BY <1>4
    <2> QED
      BY <2>1, <2>2, <2>3, <2>4
  <1>5. ASSUME NEW c \in Conns, Accept(c) PROVE Control' /\ Known'
    <2>1. /\ clients' = clients \cup {c} /\ since' = [since EXCEPT ![c] = Len(log)]
          /\ UNCHANGED <<loopVars, from, left, log, writing, running>>
      BY <1>5 DEF Accept
    <2>2. Len(log) \in Nat
      BY LenProperties
    <2> QED
      BY <2>1, <2>2
  <1>6. ASSUME NEW c \in Conns, ReadPacket(c) PROVE Control' /\ Known'
    <2>1. UNCHANGED <<clients, loopVars, writing, running, since>>
      BY <1>6 DEF ReadPacket
    <2>2. \/ log' = Append(log, c) /\ from' = c /\ left' = clients
          \/ UNCHANGED <<log, from, left>>
      BY <1>6 DEF ReadPacket
    <2>3. Append(log, c) \in Seq(Conns)
      BY AppendProperties
    <2> QED
      BY <2>1, <2>2, <2>3
  <1>7. ASSUME NEW c \in Conns, ReadNone(c) \/ ReadEnd(c) PROVE Control' /\ Known'
    <2>1. cur = c /\ EndRead(c) /\ UNCHANGED clients
      BY <1>7 DEF ReadNone, ReadEnd, Reading, HandleError
    <2>2. c \in clients
      BY <2>1, Descriptors DEF Listen, None
    <2> QED
      BY <2>1, <2>2 DEF EndRead
  <1>8. ASSUME NEW c \in Conns, Broadcast(c) PROVE Control' /\ Known'
    BY <1>8 DEF Broadcast, Send
  <1>9. ASSUME NEW c \in Conns, WriteSome(c) PROVE Control' /\ Known'
    BY <1>9, <1>u DEF WriteSome
  <1>10. ASSUME NEW c \in Conns, WriteFull(c) \/ WriteFails(c) \/ WriteKills(c) \/ WriteDone(c)
         PROVE  Control' /\ Known'
    BY <1>10 DEF WriteFull, WriteFails, WriteKills, WriteDone, HandleError
  <1>11. ASSUME NEW c \in Conns, Network(c) PROVE Control' /\ Known'
    BY <1>11, <1>u DEF Network, Connect, Say, PeerReads, PeerCloses, ResetArrives, loopSide
  <1>12. CASE UNCHANGED vars
    BY <1>12, <1>u DEF vars
  <1> QED
    BY <1>1, <1>2, <1>3, <1>4, <1>5, <1>6, <1>7, <1>8, <1>9, <1>10, <1>11, <1>12
    DEF Next, Loop, HandleWrite

-----------------------------------------------------------------------------
(* The sockets.                                                            *)

LEMMA NetStep == Queues /\ Net /\ [Next]_vars => Net'
  <1> SUFFICES ASSUME Queues, Net, [Next]_vars PROVE Net'
    OBVIOUS
  <1>u. UNCHANGED <<netVars, sock, tx>> => Net'
    BY DEF netVars, Net
  <1>e. <<>> \in Seq(Units) /\ Len(<<>>) = 0
    BY EmptySeq
  <1>1. CASE Poll \/ AcceptNone
    BY <1>1, <1>u DEF Poll, AcceptNone
  <1>2. ASSUME NEW e \in batch, Skip(e) \/ Handle(e) \/ Failed(e) PROVE Net'
    BY <1>2, <1>u DEF Skip, Handle, Failed
  <1>3. ASSUME NEW c \in Conns, Accept(c) \/ ReadNone(c) \/ Broadcast(c) PROVE Net'
    BY <1>3, <1>u DEF Accept, ReadNone, EndRead, Broadcast
  <1>4. ASSUME NEW c \in Conns, ReadPacket(c) PROVE Net'
    <2>1. /\ rx' = [rx EXCEPT ![c] = Tail(@)] /\ rx[c] # <<>>
          /\ UNCHANGED <<peer, said, got, sock, tx>>
      BY <1>4 DEF ReadPacket
    <2>2. rx[c] \in Seq({"chat", "other"})
      BY DEF Net
    <2>3. Tail(rx[c]) \in Seq({"chat", "other"})
      BY <2>1, <2>2, HeadTailProperties
    <2> QED
      BY <2>1, <2>3 DEF Net
  <1>5. ASSUME NEW c \in Conns, ReadEnd(c) \/ WriteFails(c) PROVE Net'
    <2>1. /\ UNCHANGED <<netVars, tx>>
          /\ \E x \in {"broken", sock[c]} : sock' = [sock EXCEPT ![c] = x]
      BY <1>5 DEF ReadEnd, EndRead, WriteFails
    <2> QED
      BY <2>1 DEF Net, netVars
  <1>6. ASSUME NEW c \in Conns, WriteSome(c) PROVE Net'
    <2>1. UNCHANGED <<netVars, sock>>
      BY <1>6 DEF WriteSome
    <2>2. PICK s \in Seq(Units) : tx' = [tx EXCEPT ![c] = @ \o s] /\ Len(tx[c]) + Len(s) <= Cap
      BY <1>6, WriteSomeEffect
    <2>3. tx[c] \in Seq(Units)
      BY DEF Net
    <2>4. tx[c] \o s \in Seq(Units) /\ Len(tx[c] \o s) <= Cap
      BY <2>2, <2>3, ConcatProperties
    <2> QED
      BY <2>1, <2>2, <2>4 DEF Net, netVars
  <1>7. ASSUME NEW c \in Conns, WriteFull(c) \/ WriteKills(c) \/ WriteDone(c) PROVE Net'
    BY <1>7, <1>u DEF WriteFull, WriteKills, WriteDone
  <1>8. ASSUME NEW c \in Conns, Connect(c) PROVE Net'
    BY <1>8 DEF Connect, Net
  <1>9. ASSUME NEW c \in Conns, Say(c) PROVE Net'
    <2>1. PICK kind \in {"chat", "other"} : rx' = [rx EXCEPT ![c] = Append(@, kind)]
      BY <1>9 DEF Say
    <2>2. rx[c] \in Seq({"chat", "other"})
      BY DEF Net
    <2>3. Append(rx[c], kind) \in Seq({"chat", "other"})
      BY <2>2, AppendProperties
    <2>4. said' \in 0..MaxSay /\ UNCHANGED <<peer, got, sock, tx>>
      BY <1>9, SizesAssumption DEF Say, Net
    <2> QED
      BY <2>1, <2>3, <2>4 DEF Net
  <1>10. ASSUME NEW c \in Conns, PeerReads(c) PROVE Net'
    <2>1. /\ tx[c] # <<>> /\ tx' = [tx EXCEPT ![c] = Tail(@)]
          /\ got' = [got EXCEPT ![c] = Append(@, Head(tx[c]))]
          /\ UNCHANGED <<peer, rx, said, sock>>
      BY <1>10 DEF PeerReads
    <2>2. tx[c] \in Seq(Units) /\ got[c] \in Seq(Units) /\ Len(tx[c]) <= Cap
      BY DEF Net
    <2>3. /\ Head(tx[c]) \in Units /\ Tail(tx[c]) \in Seq(Units)
          /\ Len(Tail(tx[c])) = Len(tx[c]) - 1 /\ Len(tx[c]) \in Nat
      BY <2>1, <2>2, HeadTailProperties, LenProperties
    <2>4. Append(got[c], Head(tx[c])) \in Seq(Units) /\ Len(Tail(tx[c])) <= Cap
      BY <2>2, <2>3, AppendProperties, SizesAssumption
    <2> QED
      BY <2>1, <2>3, <2>4 DEF Net
  <1>11. ASSUME NEW c \in Conns, PeerCloses(c) PROVE Net'
    <2>1. /\ peer' = [peer EXCEPT ![c] = "closed"] /\ UNCHANGED <<rx, said, got>>
          /\ \/ sock' = [sock EXCEPT ![c] = "eof"] /\ UNCHANGED tx
             \/ sock' = [sock EXCEPT ![c] = "reset"] /\ tx' = [tx EXCEPT ![c] = <<>>]
      BY <1>11 DEF PeerCloses
    <2>2. tx \in [Conns -> Seq(Units)] /\ \A d \in Conns : Len(tx[d]) <= Cap
      BY DEF Net
    <2>3. 0 <= Cap
      BY SizesAssumption
    <2>4. tx' \in [Conns -> Seq(Units)] /\ \A d \in Conns : Len(tx'[d]) <= Cap
      <3>1. CASE UNCHANGED tx
        BY <3>1, <2>2
      <3>2. CASE tx' = [tx EXCEPT ![c] = <<>>]
        BY <3>2, <2>2, <2>3, <1>e
      <3> QED
        BY <3>1, <3>2, <2>1
    <2>5. sock' \in [Conns -> {"open", "eof", "reset", "broken"}]
      BY <2>1 DEF Net
    <2>6. peer' \in [Conns -> {"off", "open", "closed"}]
      BY <2>1 DEF Net
    <2> QED
      BY <2>1, <2>4, <2>5, <2>6 DEF Net
  <1>12. ASSUME NEW c \in Conns, ResetArrives(c) PROVE Net'
    <2>1. /\ sock' = [sock EXCEPT ![c] = "broken"] /\ UNCHANGED netVars
          /\ tx' = [tx EXCEPT ![c] = <<>>]
      BY <1>12 DEF ResetArrives
    <2>2. \A d \in Conns : tx'[d] \in Seq(Units) /\ Len(tx'[d]) <= Cap
      BY <2>1, <1>e, SizesAssumption DEF Net
    <2> QED
      BY <2>1, <2>2 DEF Net, netVars
  <1>13. CASE UNCHANGED vars
    BY <1>13, <1>u DEF vars
  <1> QED
    BY <1>1, <1>2, <1>3, <1>4, <1>5, <1>6, <1>7, <1>8, <1>9, <1>10, <1>11, <1>12, <1>13
    DEF Next, Loop, HandleWrite, Network

LEMMA TypeStep == TypeOK /\ Known /\ [Next]_vars => TypeOK' /\ Known'
  <1>1. TypeOK' <=> Tables' /\ Queues' /\ Control' /\ Net'
    BY TypeParts, PTL
  <1> QED
    BY <1>1, TypeParts, TablesStep, QueuesStep, ControlStep, NetStep

-----------------------------------------------------------------------------
(* Write events.                                                           *)

LEMMA InterestStep == Inv /\ [Next]_vars => Fresh' /\ Asked' /\ Needed'
  <1> SUFFICES ASSUME Inv, [Next]_vars PROVE Fresh' /\ Asked' /\ Needed'
    OBVIOUS
  <1>t. Tables /\ Control /\ Queues /\ Known
    BY TypeParts DEF Inv
  <1> USE DEF Inv, Fresh, Asked, Needed
  <1>u. UNCHANGED <<connVars, outQ, writing>> => Fresh' /\ Asked' /\ Needed'
    BY DEF connVars
  <1>1. CASE Poll \/ AcceptNone \/ \E e \in batch : Skip(e)
    BY <1>1, <1>u DEF Poll, AcceptNone, Skip, outVars
  <1>2. ASSUME NEW c \in Conns, HandleError(c), UNCHANGED outQ, c \in clients,
               writing' = writing \/ (writing' = None /\ writing = c) \/ writing = None
        PROVE  Fresh' /\ Asked' /\ Needed'
    <2>1. /\ \A d \in Conns \ {c} : state'[d] = state[d] /\ interest'[d] = interest[d]
          /\ state'[c] = "closed" /\ connections' = connections \ {c}
      BY <1>2, <1>t DEF HandleError, Tables
    <2>2. connections \subseteq Conns
      BY <1>t DEF Tables
    <2>3. None \notin Conns
      BY Descriptors DEF None
    <2>4. \A d \in connections' \ {writing'} : d \in connections \ {writing}
      BY <1>2, <2>1, <2>2, <2>3
    <2> QED
      BY <1>2, <2>1, <2>2, <2>4
  <1>3. ASSUME NEW e \in batch, Failed(e) PROVE Fresh' /\ Asked' /\ Needed'
    <2>1. HandleError(e.fd) /\ interest[e.fd] # {} /\ e.fd \in Conns
      BY <1>3, <1>t DEF Failed, Control, Events
    <2>2. e.fd \in clients /\ UNCHANGED <<outQ, writing>>
      BY <2>1, <1>3, <1>t DEF Tables, Failed, outVars
    <2> QED
      BY <1>2, <2>1, <2>2
  <1>4. ASSUME NEW e \in batch, Handle(e) PROVE Fresh' /\ Asked' /\ Needed'
    <2>1. UNCHANGED <<state, interest, connections, outQ>> /\ writing = None
      BY <1>4 DEF Handle, Waiting, connVars, outVars
    <2>2. None \notin connections
      BY <1>t, Descriptors DEF Tables, None
    <2> QED
      BY <2>1, <2>2
  <1>5. ASSUME NEW c \in Conns, Accept(c) PROVE Fresh' /\ Asked' /\ Needed'
    <2>1. outQ[c] = <<>> /\ outQ' = outQ /\ writing' = writing
      BY <1>5 DEF Accept, Backlog, outVars
    <2>2. /\ \A d \in Conns \ {c} : state'[d] = state[d] /\ interest'[d] = interest[d]
          /\ state'[c] = "connected" /\ interest'[c] = {"R"}
          /\ connections' = connections \cup {c} /\ connections \subseteq Conns
      BY <1>5, <1>t DEF Accept, Tables
    <2>3. "W" \notin {"R"}
      OBVIOUS
    <2> QED
      BY <2>1, <2>2, <2>3
  <1>6. ASSUME NEW c \in Conns, ReadPacket(c) PROVE Fresh' /\ Asked' /\ Needed'
    BY <1>6, <1>u DEF ReadPacket, outVars
  <1>7. ASSUME NEW c \in Conns, ReadNone(c) PROVE Fresh' /\ Asked' /\ Needed'
    <2>1. UNCHANGED <<state, interest, connections, outQ>> /\ writing = None
      BY <1>7 DEF ReadNone, Reading, EndRead, connVars, outVars
    <2>2. None \notin connections
      BY <1>t, Descriptors DEF Tables, None
    <2> QED
      BY <2>1, <2>2
  <1>8. ASSUME NEW c \in Conns, ReadEnd(c) PROVE Fresh' /\ Asked' /\ Needed'
    <2>1. HandleError(c) /\ UNCHANGED outQ /\ writing = None /\ cur = c
      BY <1>8 DEF ReadEnd, Reading, EndRead, outVars
    <2>2. c \in clients
      BY <2>1, <1>t, Descriptors DEF Known, Listen, None
    <2> QED
      BY <2>1, <2>2, <1>2
  <1>9. ASSUME NEW c \in Conns, Broadcast(c) PROVE Fresh' /\ Asked' /\ Needed'
    <2>1. /\ outQ' = [outQ EXCEPT ![c] = Append(@, Len(log))]
          /\ UNCHANGED <<state, connections>>
          /\ c \in left /\ writing = None
      BY <1>9 DEF Broadcast, Send
    <2>2. outQ'[c] # <<>> /\ \A d \in Conns \ {c} : outQ'[d] = outQ[d]
      <3>1. outQ[c] \in Seq(Nat) /\ Len(log) \in Nat
        BY <1>t, LenProperties DEF Queues, Control
      <3>2. /\ Append(outQ[c], Len(log)) \in Seq(Nat)
            /\ Len(Append(outQ[c], Len(log))) = Len(outQ[c]) + 1 /\ Len(outQ[c]) \in Nat
        BY <3>1, AppendProperties, LenProperties
      <3>3. Append(outQ[c], Len(log)) # <<>>
        BY <3>2, EmptySeq
      <3> QED
        BY <2>1, <3>3, <1>t DEF Queues
    <2>3. state[c] # "none" /\ connections \subseteq Conns /\ None \notin connections
      BY <2>1, <1>t, Descriptors DEF Tables, Control, None
    <2>4. Fresh'
      BY <2>1, <2>2, <2>3
    <2>5. CASE outQ[c] = <<>>
      <3>1. writing' = c /\ EnableWriting(c)
        BY <1>9, <2>5 DEF Broadcast, Send
      <3>2. \A d \in Conns \ {c} : interest'[d] = interest[d]
        BY <3>1, <1>t DEF EnableWriting, Mod, Tables
      <3>3. c \in connections => "W" \in interest'[c]
        <4> SUFFICES ASSUME c \in connections PROVE "W" \in interest'[c]
          OBVIOUS
        <4>1. state[c] = "connected" /\ interest[c] # {}
          BY <1>t DEF Tables
        <4>2. interest'[c] = {"R", "W"}
          BY <3>1, <4>1, <1>t DEF EnableWriting, Mod, Tables
        <4> QED
          BY <4>2
      <3>4. \A d \in connections' \ {writing'} : d \in connections \ {writing} /\ d # c
        BY <2>1, <2>3, <3>1
      <3> QED
        BY <2>1, <2>2, <2>3, <2>4, <3>2, <3>3, <3>4
    <2>6. CASE outQ[c] # <<>>
      <3>1. UNCHANGED <<interest, writing>>
        BY <1>9, <2>6 DEF Broadcast, Send
      <3> QED
        BY <2>1, <2>2, <2>3, <2>4, <2>6, <3>1
    <2> QED
      BY <2>5, <2>6
  <1>10. ASSUME NEW c \in Conns, WriteSome(c) PROVE Fresh' /\ Asked' /\ Needed'
    <2>1. /\ writing = c /\ outQ[c] # <<>> /\ UNCHANGED <<connVars, writing>>
          /\ \/ outQ' = [outQ EXCEPT ![c] = Tail(@)]
             \/ UNCHANGED outQ
      BY <1>10 DEF WriteSome, Writing
    <2>2. \A d \in Conns \ {c} : outQ'[d] = outQ[d]
      BY <2>1, <1>t DEF Queues
    <2>3. connections \subseteq Conns
      BY <1>t DEF Tables
    <2>4. state[c] # "none"
      BY <2>1
    <2> QED
      BY <2>1, <2>2, <2>3, <2>4 DEF connVars
  <1>11. ASSUME NEW c \in Conns, WriteFull(c) PROVE Fresh' /\ Asked' /\ Needed'
    BY <1>11 DEF WriteFull, Writing, connVars, outVars
  <1>12. ASSUME NEW c \in Conns, WriteFails(c) PROVE Fresh' /\ Asked' /\ Needed'
    <2>1. HandleError(c) /\ UNCHANGED outQ /\ writing = c /\ writing' = None
      BY <1>12 DEF WriteFails, Writing, outVars
    <2>2. c \in clients
      BY <2>1, <1>t, Descriptors DEF Known, None
    <2> QED
      BY <2>1, <2>2, <1>2
  <1>13. ASSUME NEW c \in Conns, WriteKills(c) PROVE Fresh' /\ Asked' /\ Needed'
    BY <1>13, <1>u DEF WriteKills, outVars
  <1>14. ASSUME NEW c \in Conns, WriteDone(c) PROVE Fresh' /\ Asked' /\ Needed'
    <2>1. /\ writing = c /\ outQ[c] = <<>> /\ writing' = None
          /\ UNCHANGED <<state, connections, outQ>>
          /\ interest' = [interest EXCEPT ![c] = IF @ = {} THEN {} ELSE {"R"}]
      BY <1>14 DEF WriteDone, Writing, Mod, outVars
    <2>2. /\ "W" \notin interest'[c] /\ connections \subseteq Conns
          /\ \A d \in Conns \ {c} : interest'[d] = interest[d]
      BY <2>1, <1>t DEF Tables
    <2> QED
      BY <2>1, <2>2
  <1>15. ASSUME NEW c \in Conns, Network(c) PROVE Fresh' /\ Asked' /\ Needed'
    BY <1>15, <1>u DEF Network, Connect, Say, PeerReads, PeerCloses, ResetArrives, loopSide,
       outVars
  <1>16. CASE UNCHANGED vars
    BY <1>16, <1>u DEF vars, outVars
  <1> QED
    BY <1>1, <1>3, <1>4, <1>5, <1>6, <1>7, <1>8, <1>9, <1>10, <1>11, <1>12, <1>13,
       <1>14, <1>15, <1>16 DEF Next, Loop, HandleWrite

-----------------------------------------------------------------------------
LEMMA InductiveInvariant == Spec => []Inv
  <1>1. Inv /\ [Next]_vars => Inv'
    BY TypeStep, InterestStep DEF Inv
  <1> QED
    BY InitInv, <1>1, PTL DEF Spec

\* The tables of the event loop, the server and the connections agree: a
\* descriptor has a handler exactly while its connection is open, whatever is
\* closed while its events wait in the batch (conn.cpp:141-158, server.cpp:60-90).
THEOREM TypeCorrect == Spec => []TypeOK
  <1>1. Inv => TypeOK
    BY DEF Inv
  <1> QED
    BY <1>1, InductiveInvariant, PTL

\* No wake-up is asked for in vain and none is missing: outside handle_write an
\* open connection waits for EPOLLOUT exactly when its queue holds something.
THEOREM InterestIsRight == Spec => []InterestFollowsQueue
  <1>1. Inv => InterestFollowsQueue
    BY DEF Inv, Asked, Needed, InterestFollowsQueue
  <1> QED
    BY <1>1, InductiveInvariant, PTL

-----------------------------------------------------------------------------
(* The streams.                                                            *)
(*                                                                         *)
(* Every connection is looked at by itself: what is in its queue, in its   *)
(* socket and with its peer are parts of what was pushed for it, counted   *)
(* in units.                                                               *)

\* The k-th unit of the packets ms, and how many units the socket was given.
Unit(ms, k) == <<ms[(k - 1) \div Size + 1], ((k - 1) % Size) + 1>>
Done(c)   == Len(pushed[c]) - Len(outQ[c])
Handed(c) == Done(c) * Size + offset[c]

\* The queue is the end of what was pushed.
Backed(c) ==
    /\ Len(outQ[c]) <= Len(pushed[c])
    /\ \A i \in 1..Len(outQ[c]) : outQ[c][i] = pushed[c][Done(c) + i]
    /\ outQ[c] = <<>> => offset[c] = 0

\* What was handed to the socket is what was read and, while the socket is whole,
\* what is in it.
Passed(c) ==
    /\ Len(got[c]) <= Handed(c)
    /\ \A k \in 1..Len(got[c]) : got[c][k] = Unit(pushed[c], k)
    /\ sock[c] = "open" =>
         /\ Len(got[c]) + Len(tx[c]) = Handed(c)
         /\ \A k \in 1..Len(tx[c]) : tx[c][k] = Unit(pushed[c], Len(got[c]) + k)

Ends == \A c \in Conns : sock[c] # "open" => peer[c] = "closed"

Streams == Ends /\ \A c \in Conns : Backed(c) /\ Passed(c)

\* Places: packet q, unit r of it.
LEMMA Places ==
  ASSUME NEW q \in Nat, NEW r \in 0..(Size - 1)
  PROVE  (q * Size + r) \div Size = q /\ (q * Size + r) % Size = r
  BY SizesAssumption

LEMMA PlaceOf ==
  ASSUME NEW n \in Nat
  PROVE  /\ n \div Size \in Nat /\ n % Size \in 0..(Size - 1)
         /\ n = (n \div Size) * Size + (n % Size)
  BY SizesAssumption

LEMMA Units1 ==
  ASSUME NEW a \in Nat, NEW b \in Nat
  PROVE  /\ a * Size \in Nat /\ (a + b) * Size = a * Size + b * Size
         /\ (a + 1) * Size = a * Size + Size
  BY SizesAssumption

\* A unit up to the end of a packets is one of these packets.
LEMMA Within ==
  ASSUME NEW a \in Nat, NEW k \in 1..(a * Size)
  PROVE  (k - 1) \div Size + 1 \in 1..a
  <1>1. PICK q \in Nat, r \in 0..(Size - 1) : k - 1 = q * Size + r /\ q = (k - 1) \div Size
    <2>1. k - 1 \in Nat
      BY Units1
    <2> QED
      BY <2>1, PlaceOf
  <1>2. CASE q < a
    BY <1>1, <1>2
  <1>3. CASE q >= a
    <2>1. PICK b \in Nat : q = a + b
      BY <1>3
    <2>2. q * Size = a * Size + b * Size /\ a * Size \in Nat /\ b * Size \in Nat
      BY <2>1, Units1
    <2> QED
      BY <1>1, <2>2
  <1> QED
    BY <1>1, <1>2, <1>3

\* What is pushed later does not change the units that there are.
LEMMA UnitKept ==
  ASSUME NEW m \in Seq(Nat), NEW x \in Nat, NEW k \in 1..(Len(m) * Size)
  PROVE  Unit(Append(m, x), k) = Unit(m, k)
  <1>1. Len(m) \in Nat
    BY LenProperties
  <1>2. (k - 1) \div Size + 1 \in 1..Len(m)
    BY <1>1, Within
  <1>3. \A i \in 1..Len(m) : Append(m, x)[i] = m[i]
    BY AppendProperties
  <1> QED
    BY <1>2, <1>3 DEF Unit

-----------------------------------------------------------------------------
(* What a step does to the stream of one connection.                       *)

SameStream(d) ==
    /\ outQ'[d] = outQ[d] /\ pushed'[d] = pushed[d] /\ offset'[d] = offset[d]
    /\ got'[d] = got[d]
    /\ sock'[d] = "open" => sock[d] = "open" /\ tx'[d] = tx[d]

Pushes(d) ==
    /\ outQ'[d] = Append(outQ[d], Len(log)) /\ pushed'[d] = Append(pushed[d], Len(log))
    /\ offset'[d] = offset[d] /\ got'[d] = got[d] /\ tx'[d] = tx[d] /\ sock'[d] = sock[d]

\* n units of the packet at the front
Writes(d, n) ==
    /\ outQ[d] # <<>> /\ n \in 1..(Size - offset[d])
    /\ tx'[d] = tx[d] \o Slice(d, offset[d] + 1, offset[d] + n)
    /\ \/ offset[d] + n = Size /\ outQ'[d] = Tail(outQ[d]) /\ offset'[d] = 0
       \/ offset[d] + n # Size /\ outQ'[d] = outQ[d] /\ offset'[d] = offset[d] + n
    /\ pushed'[d] = pushed[d] /\ got'[d] = got[d] /\ sock'[d] = sock[d]

TakenFrom(d) ==
    /\ sock[d] = "open" /\ tx[d] # <<>>
    /\ tx'[d] = Tail(tx[d]) /\ got'[d] = Append(got[d], Head(tx[d]))
    /\ outQ'[d] = outQ[d] /\ pushed'[d] = pushed[d] /\ offset'[d] = offset[d]
    /\ sock'[d] = sock[d]

Moves(d) == SameStream(d) \/ Pushes(d) \/ (\E n \in Nat : Writes(d, n)) \/ TakenFrom(d)

LEMMA StreamKinds ==
  ASSUME Inv, Ends, [Next]_vars
  PROVE  \A d \in Conns : Moves(d)
  <1>t. Tables /\ Control /\ Queues /\ Net /\ Known
    BY TypeParts DEF Inv
  <1>u. ASSUME UNCHANGED <<outVars, got>>,
               \A d \in Conns : sock'[d] = "open" => sock[d] = "open" /\ tx'[d] = tx[d]
        PROVE  \A d \in Conns : Moves(d)
    BY <1>u DEF outVars, Moves, SameStream
  <1>1. CASE Poll \/ AcceptNone \/ UNCHANGED vars
    BY <1>1, <1>u DEF Poll, AcceptNone, vars, outVars, netVars
  <1>2. ASSUME NEW e \in batch, Skip(e) \/ Handle(e) \/ Failed(e)
        PROVE  \A d \in Conns : Moves(d)
    BY <1>2, <1>u DEF Skip, Handle, Failed, netVars
  <1>3. ASSUME NEW c \in Conns, Accept(c) \/ ReadPacket(c) \/ ReadNone(c) \/ WriteFull(c)
                                  \/ WriteKills(c) \/ WriteDone(c)
        PROVE  \A d \in Conns : Moves(d)
    BY <1>3, <1>u DEF Accept, ReadPacket, ReadNone, EndRead, WriteFull, WriteKills, WriteDone,
       netVars
  <1>4. ASSUME NEW c \in Conns, ReadEnd(c) \/ WriteFails(c)
        PROVE  \A d \in Conns : Moves(d)
    <2>1. /\ UNCHANGED <<outVars, got, tx>> /\ sock[c] # "open"
          /\ \E x \in {"broken", sock[c]} : sock' = [sock EXCEPT ![c] = x]
      BY <1>4 DEF ReadEnd, EndRead, WriteFails, netVars
    <2>2. \A d \in Conns : sock'[d] = "open" => sock[d] = "open"
      BY <2>1, <1>t DEF Net
    <2> QED
      BY <2>1, <2>2, <1>u
  <1>5. ASSUME NEW c \in Conns, Broadcast(c)
        PROVE  \A d \in Conns : Moves(d)
    <2>1. /\ outQ' = [outQ EXCEPT ![c] = Append(@, Len(log))]
          /\ pushed' = [pushed EXCEPT ![c] = Append(@, Len(log))]
          /\ UNCHANGED <<offset, got, tx, sock>>
      BY <1>5 DEF Broadcast, Send, netVars
    <2>2. Pushes(c) /\ \A d \in Conns \ {c} : SameStream(d)
      BY <2>1, <1>t DEF Queues, Pushes, SameStream
    <2> QED
      BY <2>2 DEF Moves
  <1>6. ASSUME NEW c \in Conns, WriteSome(c)
        PROVE  \A d \in Conns : Moves(d)
    <2>1. /\ outQ[c] # <<>> /\ Len(tx[c]) < Cap
          /\ Len(tx[c]) \in Nat /\ offset[c] \in 0..(Size - 1)
      <3>1. tx[c] \in Seq(Units)
        BY <1>t DEF Net
      <3> QED
        BY <1>6, <1>t, <3>1, LenProperties DEF WriteSome, Queues
    <2>2. PICK room : room = Cap - Len(tx[c])
      OBVIOUS
    <2>3. room \in Nat \ {0}
      BY <2>1, <2>2, SizesAssumption
    <2>4. PICK last : last = IF Size - offset[c] <= room THEN Size ELSE offset[c] + room
      OBVIOUS
    <2>5. last \in (offset[c] + 1)..Size
      BY <2>1, <2>3, <2>4, Cut
    <2>6. PICK n \in Nat : n \in 1..(Size - offset[c]) /\ last = offset[c] + n
      <3>1. last - offset[c] \in 1..(Size - offset[c]) /\ last = offset[c] + (last - offset[c])
        BY <2>1, <2>5, SizesAssumption
      <3> QED
        BY <3>1
    <2>7. /\ tx' = [tx EXCEPT ![c] = @ \o Slice(c, offset[c] + 1, last)]
          /\ IF last = Size
             THEN outQ' = [outQ EXCEPT ![c] = Tail(@)] /\ offset' = [offset EXCEPT ![c] = 0]
             ELSE UNCHANGED outQ /\ offset' = [offset EXCEPT ![c] = last]
          /\ UNCHANGED <<pushed, got, sock>>
      BY <1>6, <2>2, <2>4 DEF WriteSome, netVars
    <2>8. Writes(c, n)
      BY <2>1, <2>6, <2>7, <1>t DEF Writes, Queues, Net
    <2>9. \A d \in Conns \ {c} : SameStream(d)
      BY <2>7, <1>t DEF Queues, Net, SameStream
    <2> QED
      BY <2>8, <2>9 DEF Moves
  <1>7. ASSUME NEW c \in Conns, Connect(c) \/ Say(c)
        PROVE  \A d \in Conns : Moves(d)
    BY <1>7, <1>u DEF Connect, Say, loopSide
  <1>8. ASSUME NEW c \in Conns, PeerCloses(c) \/ ResetArrives(c)
        PROVE  \A d \in Conns : Moves(d)
    <2>1. /\ UNCHANGED <<outVars, got>>
          /\ \E x \in {"eof", "reset", "broken"} : sock' = [sock EXCEPT ![c] = x]
          /\ tx' = tx \/ tx' = [tx EXCEPT ![c] = <<>>]
      BY <1>8 DEF PeerCloses, ResetArrives, loopSide, netVars
    <2>2. \A d \in Conns : sock'[d] = "open" => sock[d] = "open" /\ tx'[d] = tx[d]
      BY <2>1, <1>t DEF Net
    <2> QED
      BY <2>1, <2>2, <1>u
  <1>9. ASSUME NEW c \in Conns, PeerReads(c)
        PROVE  \A d \in Conns : Moves(d)
    <2>1. /\ peer[c] = "open" /\ tx[c] # <<>> /\ tx' = [tx EXCEPT ![c] = Tail(@)]
          /\ got' = [got EXCEPT ![c] = Append(@, Head(tx[c]))]
          /\ UNCHANGED <<outVars, sock>>
      BY <1>9 DEF PeerReads, loopSide
    <2>2. sock[c] = "open"
      BY <2>1 DEF Ends
    <2>3. TakenFrom(c) /\ \A d \in Conns \ {c} : SameStream(d)
      BY <2>1, <2>2, <1>t DEF Net, TakenFrom, SameStream, outVars
    <2> QED
      BY <2>3 DEF Moves
  <1> QED
    BY <1>1, <1>2, <1>3, <1>4, <1>5, <1>6, <1>7, <1>8, <1>9
    DEF Next, Loop, HandleWrite, Network

LEMMA EndsStep == Inv /\ Ends /\ [Next]_vars => Ends'
  <1> SUFFICES ASSUME Inv, Ends, [Next]_vars PROVE Ends'
    OBVIOUS
  <1>t. Net
    BY TypeParts DEF Inv
  <1>u. UNCHANGED <<sock, peer>> => Ends'
    BY DEF Ends
  <1>1. CASE Poll \/ AcceptNone \/ UNCHANGED vars
    BY <1>1, <1>u DEF Poll, AcceptNone, vars, netVars
  <1>2. ASSUME NEW e \in batch, Skip(e) \/ Handle(e) \/ Failed(e) PROVE Ends'
    BY <1>2, <1>u DEF Skip, Handle, Failed, netVars
  <1>3. ASSUME NEW c \in Conns, Accept(c) \/ ReadPacket(c) \/ ReadNone(c) \/ Broadcast(c)
                                  \/ WriteSome(c) \/ WriteFull(c) \/ WriteKills(c)
                                  \/ WriteDone(c) \/ Say(c) \/ PeerReads(c)
        PROVE  Ends'
    BY <1>3, <1>u DEF Accept, ReadPacket, ReadNone, EndRead, Broadcast, WriteSome, WriteFull,
       WriteKills, WriteDone, Say, PeerReads, netVars
  <1>4. ASSUME NEW c \in Conns, ReadEnd(c) \/ WriteFails(c) PROVE Ends'
    <2>1. /\ UNCHANGED peer /\ sock[c] # "open"
          /\ \E x \in {"broken", sock[c]} : sock' = [sock EXCEPT ![c] = x]
      BY <1>4 DEF ReadEnd, EndRead, WriteFails, netVars
    <2> QED
      BY <2>1, <1>t DEF Net, Ends
  <1>5. ASSUME NEW c \in Conns, Connect(c) PROVE Ends'
    BY <1>5, <1>t DEF Connect, Net, Ends
  <1>6. ASSUME NEW c \in Conns, PeerCloses(c) PROVE Ends'
    BY <1>6, <1>t DEF PeerCloses, Net, Ends
  <1>7. ASSUME NEW c \in Conns, ResetArrives(c) PROVE Ends'
    BY <1>7, <1>t DEF ResetArrives, Net, Ends, netVars
  <1> QED
    BY <1>1, <1>2, <1>3, <1>4, <1>5, <1>6, <1>7
    DEF Next, Loop, HandleWrite, Network

-----------------------------------------------------------------------------
(* The stream of one connection stays whole.                               *)

Intact(d) == Backed(d) /\ Passed(d)

\* The sizes that all of the following is about.
LEMMA Sizes ==
  ASSUME Inv, NEW d \in Conns
  PROVE  /\ outQ[d] \in Seq(Nat) /\ pushed[d] \in Seq(Nat)
         /\ tx[d] \in Seq(Units) /\ got[d] \in Seq(Units)
         /\ Len(outQ[d]) \in Nat /\ Len(pushed[d]) \in Nat
         /\ Len(tx[d]) \in Nat /\ Len(got[d]) \in Nat
         /\ offset[d] \in 0..(Size - 1)
         /\ Backed(d) => Done(d) \in Nat /\ Len(pushed[d]) = Done(d) + Len(outQ[d])
  <1>1. /\ outQ[d] \in Seq(Nat) /\ pushed[d] \in Seq(Nat)
        /\ tx[d] \in Seq(Units) /\ got[d] \in Seq(Units)
        /\ offset[d] \in 0..(Size - 1)
    BY TypeParts DEF Inv, Queues, Net
  <1>2. /\ Len(outQ[d]) \in Nat /\ Len(pushed[d]) \in Nat
        /\ Len(tx[d]) \in Nat /\ Len(got[d]) \in Nat
    BY <1>1, LenProperties
  <1>3. ASSUME Backed(d) PROVE Done(d) \in Nat /\ Len(pushed[d]) = Done(d) + Len(outQ[d])
    <2>1. PICK p \in Nat, q \in Nat : p = Len(pushed[d]) /\ q = Len(outQ[d])
      BY <1>2
    <2>2. q <= p /\ Done(d) = p - q
      BY <1>3, <2>1 DEF Backed, Done
    <2>3. p - q \in Nat /\ p = (p - q) + q
      BY <2>2
    <2> QED
      BY <2>1, <2>2, <2>3
  <1> QED
    BY <1>1, <1>2, <1>3

\* What was handed over has been pushed.
LEMMA HandedPushed ==
  ASSUME Inv, NEW d \in Conns, Backed(d)
  PROVE  Handed(d) \in Nat /\ Handed(d) <= Len(pushed[d]) * Size
  <1>1. /\ Done(d) \in Nat /\ Len(outQ[d]) \in Nat /\ offset[d] \in 0..(Size - 1)
        /\ Len(pushed[d]) = Done(d) + Len(outQ[d])
    BY Sizes
  <1>2. /\ Done(d) * Size \in Nat /\ Len(outQ[d]) * Size \in Nat
        /\ Len(pushed[d]) * Size = Done(d) * Size + Len(outQ[d]) * Size
    BY <1>1, Units1
  <1>3. CASE Len(outQ[d]) = 0
    <2>1. outQ[d] = <<>>
      BY <1>3, Sizes, EmptySeq
    <2>2. offset[d] = 0
      BY <2>1 DEF Backed
    <2> QED
      BY <1>1, <1>2, <2>2, SizesAssumption DEF Handed
  <1>4. CASE Len(outQ[d]) # 0
    <2>1. PICK b \in Nat : Len(outQ[d]) = b + 1
      <3>1. PICK a \in Nat : a = Len(outQ[d])
        BY <1>1
      <3>2. a - 1 \in Nat /\ a = (a - 1) + 1
        BY <3>1, <1>4
      <3> QED
        BY <3>1, <3>2
    <2>2. Len(outQ[d]) * Size = b * Size + Size /\ b * Size \in Nat
      BY <2>1, Units1
    <2>3. PICK u \in Nat, v \in Nat : u = Done(d) * Size /\ v = b * Size
      BY <1>2, <2>2
    <2>4. Len(pushed[d]) * Size = u + (v + Size) /\ Handed(d) = u + offset[d]
      BY <1>2, <2>2, <2>3 DEF Handed
    <2>5. PICK o \in 0..(Size - 1) : o = offset[d]
      BY <1>1
    <2>6. u + o \in Nat /\ u + o <= u + (v + Size)
      BY <2>3, <2>5, SizesAssumption
    <2> QED
      BY <2>4, <2>5, <2>6
  <1> QED
    BY <1>3, <1>4

LEMMA SameIntact ==
  ASSUME NEW d \in Conns, Intact(d), SameStream(d)
  PROVE  Intact(d)'
  <1>1. Done(d)' = Done(d) /\ Handed(d)' = Handed(d)
    BY DEF SameStream, Done, Handed
  <1>2. Backed(d)'
    BY <1>1 DEF SameStream, Intact, Backed
  <1>3. Passed(d)'
    BY <1>1 DEF SameStream, Intact, Passed
  <1> QED
    BY <1>2, <1>3 DEF Intact

LEMMA PushIntact ==
  ASSUME Inv, NEW d \in Conns, Intact(d), Pushes(d)
  PROVE  Intact(d)'
  <1>s. /\ outQ[d] \in Seq(Nat) /\ pushed[d] \in Seq(Nat)
        /\ Len(outQ[d]) \in Nat /\ Len(pushed[d]) \in Nat /\ Done(d) \in Nat
        /\ Len(got[d]) \in Nat /\ Len(tx[d]) \in Nat
    BY Sizes DEF Intact
  <1>n. PICK n \in Nat : n = Len(log)
    BY TypeParts, LenProperties DEF Inv, Control
  <1>1. /\ outQ'[d] = Append(outQ[d], n) /\ pushed'[d] = Append(pushed[d], n)
        /\ offset'[d] = offset[d] /\ got'[d] = got[d] /\ tx'[d] = tx[d] /\ sock'[d] = sock[d]
    BY <1>n DEF Pushes
  <1>2. /\ Len(outQ'[d]) = Len(outQ[d]) + 1 /\ Len(pushed'[d]) = Len(pushed[d]) + 1
        /\ \A i \in 1..Len(outQ[d]) : outQ'[d][i] = outQ[d][i]
        /\ \A i \in 1..Len(pushed[d]) : pushed'[d][i] = pushed[d][i]
        /\ outQ'[d][Len(outQ[d]) + 1] = n /\ pushed'[d][Len(pushed[d]) + 1] = n
    BY <1>1, <1>s, AppendProperties
  <1>3. Done(d)' = Done(d) /\ Handed(d)' = Handed(d) /\ Len(pushed[d]) = Done(d) + Len(outQ[d])
    <2>1. PICK p \in Nat, q \in Nat : p = Len(pushed[d]) /\ q = Len(outQ[d])
      BY <1>s
    <2>2. Done(d) = p - q /\ Done(d)' = (p + 1) - (q + 1)
      BY <2>1, <1>2 DEF Done
    <2>3. Done(d)' = Done(d)
      BY <2>2
    <2> QED
      BY <2>3, <1>1, Sizes DEF Handed, Intact
  <1>4. Backed(d)'
    <2>1. ASSUME NEW i \in 1..(Len(outQ[d]) + 1)
          PROVE  outQ'[d][i] = pushed'[d][Done(d) + i]
      <3>1. CASE i \in 1..Len(outQ[d])
        <4>1. outQ[d][i] = pushed[d][Done(d) + i]
          BY <3>1 DEF Intact, Backed
        <4>2. Done(d) + i \in 1..Len(pushed[d])
          BY <3>1, <1>3, <1>s
        <4> QED
          BY <3>1, <4>1, <4>2, <1>2
      <3>2. CASE i = Len(outQ[d]) + 1
        <4>1. Done(d) + i = Len(pushed[d]) + 1
          BY <3>2, <1>3, <1>s
        <4> QED
          BY <3>2, <4>1, <1>2
      <3> QED
        BY <3>1, <3>2, <1>s
    <2>2. outQ'[d] # <<>>
      BY <1>2, <1>s, EmptySeq
    <2>3. Len(outQ'[d]) <= Len(pushed'[d])
      BY <1>2, <1>3, <1>s
    <2> QED
      BY <2>1, <2>2, <2>3, <1>2, <1>3 DEF Backed
  <1>5. Passed(d)'
    <2>1. Handed(d) \in Nat /\ Handed(d) <= Len(pushed[d]) * Size
      BY HandedPushed DEF Intact
    <2>2. \A k \in 1..Handed(d) : Unit(pushed'[d], k) = Unit(pushed[d], k)
      <3>1. PICK u \in Nat : u = Len(pushed[d]) * Size
        BY <1>s, Units1
      <3>2. \A k \in 1..Handed(d) : k \in 1..u
        BY <2>1, <3>1
      <3> QED
        BY <3>1, <3>2, <1>1, <1>s, UnitKept
    <2>3. \A k \in 1..Len(got[d]) : k \in 1..Handed(d)
      <3>1. Len(got[d]) <= Handed(d)
        BY DEF Intact, Passed
      <3> QED
        BY <3>1, <2>1, <1>s
    <2>4. sock[d] = "open" => \A k \in 1..Len(tx[d]) : Len(got[d]) + k \in 1..Handed(d)
      <3>1. sock[d] = "open" => Len(got[d]) + Len(tx[d]) = Handed(d)
        BY DEF Intact, Passed
      <3>2. PICK a \in Nat, b \in Nat : a = Len(got[d]) /\ b = Len(tx[d])
        BY <1>s
      <3>3. \A k \in 1..b : a + k \in 1..(a + b)
        OBVIOUS
      <3> QED
        BY <3>1, <3>2, <3>3
    <2> QED
      BY <2>2, <2>3, <2>4, <1>1, <1>3 DEF Intact, Passed
  <1> QED
    BY <1>4, <1>5 DEF Intact

LEMMA WriteIntact ==
  ASSUME Inv, NEW d \in Conns, Intact(d), NEW n \in Nat, Writes(d, n)
  PROVE  Intact(d)'
  <1>s. /\ outQ[d] \in Seq(Nat) /\ pushed[d] \in Seq(Nat) /\ tx[d] \in Seq(Units)
        /\ Len(outQ[d]) \in Nat /\ Len(pushed[d]) \in Nat /\ Done(d) \in Nat
        /\ Len(got[d]) \in Nat /\ Len(tx[d]) \in Nat /\ offset[d] \in 0..(Size - 1)
        /\ Len(pushed[d]) = Done(d) + Len(outQ[d])
    BY Sizes DEF Intact
  <1>b. PICK q \in Nat, o \in 0..(Size - 1), m \in Nat :
           q = Done(d) /\ o = offset[d] /\ m = Len(outQ[d])
    BY <1>s
  <1>c. outQ[d] # <<>> /\ n \in 1..(Size - o)
    BY <1>b DEF Writes
  <1>h. /\ Tail(outQ[d]) \in Seq(Nat) /\ Len(Tail(outQ[d])) = m - 1 /\ m # 0
        /\ \A i \in 1..(m - 1) : Tail(outQ[d])[i] = outQ[d][i + 1]
        /\ Head(outQ[d]) = outQ[d][1]
    BY <1>s, <1>b, <1>c, HeadTailProperties, EmptySeq
  <1>f. Head(outQ[d]) = pushed[d][q + 1]
    BY <1>h, <1>b DEF Intact, Backed
  <1>1. Backed(d)' /\ Done(d)' \in {q, q + 1} /\ Handed(d)' = Handed(d) + n
    <2>1. CASE o + n = Size
      <3>1. outQ'[d] = Tail(outQ[d]) /\ offset'[d] = 0 /\ pushed'[d] = pushed[d]
        BY <2>1, <1>b DEF Writes
      <3>2. Len(outQ'[d]) = m - 1 /\ Len(pushed'[d]) = q + m
        BY <3>1, <1>h, <1>s, <1>b
      <3>3. Done(d)' = q + 1
        BY <3>2, <1>b DEF Done
      <3>4. (q + 1) * Size = q * Size + Size /\ q * Size \in Nat
        BY Units1
      <3>5. Handed(d)' = Handed(d) + n
        <4>1. PICK u \in Nat : u = q * Size
          BY <3>4
        <4>2. Handed(d)' = (u + Size) + 0 /\ Handed(d) = u + o
          BY <4>1, <3>1, <3>3, <3>4, <1>b DEF Handed
        <4> QED
          BY <4>1, <4>2, <2>1, SizesAssumption
      <3>6. \A i \in 1..(m - 1) : outQ'[d][i] = pushed'[d][(q + 1) + i]
        <4> SUFFICES ASSUME NEW i \in 1..(m - 1) PROVE outQ'[d][i] = pushed'[d][(q + 1) + i]
          OBVIOUS
        <4>1. outQ'[d][i] = outQ[d][i + 1] /\ i + 1 \in 1..m
          BY <3>1, <1>h
        <4>2. outQ[d][i + 1] = pushed[d][q + (i + 1)]
          BY <4>1, <1>b DEF Intact, Backed
        <4>3. q + (i + 1) = (q + 1) + i
          OBVIOUS
        <4> QED
          BY <4>1, <4>2, <4>3, <3>1
      <3>7. m - 1 <= q + m
        OBVIOUS
      <3> QED
        BY <3>1, <3>2, <3>3, <3>5, <3>6, <3>7 DEF Backed
    <2>2. CASE o + n # Size
      <3>1. outQ'[d] = outQ[d] /\ offset'[d] = o + n /\ pushed'[d] = pushed[d]
        BY <2>2, <1>b DEF Writes
      <3>2. Done(d)' = q
        BY <3>1, <1>b DEF Done
      <3>3. Handed(d)' = Handed(d) + n
        <4>1. PICK u \in Nat : u = q * Size
          BY Units1
        <4>2. Handed(d)' = u + (o + n) /\ Handed(d) = u + o
          BY <4>1, <3>1, <3>2, <1>b DEF Handed
        <4> QED
          BY <4>1, <4>2, SizesAssumption
      <3>4. Backed(d)'
        BY <3>1, <3>2, <1>b, <1>c DEF Intact, Backed
      <3> QED
        BY <3>2, <3>3, <3>4
    <2> QED
      BY <2>1, <2>2
  <1>2. PICK u \in Nat, g \in Nat, t \in Nat :
           u = q * Size /\ g = Len(got[d]) /\ t = Len(tx[d])
    BY <1>s, Units1
  <1>3. Handed(d) = u + o
    BY <1>2, <1>b DEF Handed
  <1>4. PICK s : s = Slice(d, o + 1, o + n)
    OBVIOUS
  <1>5. s \in Seq(Units) /\ Len(s) = n
    <2>1. o + 1 \in 1..Size /\ o + n \in (o + 1)..Size /\ (o + n) - (o + 1) + 1 = n
      BY <1>c, SizesAssumption
    <2> QED
      BY <2>1, <1>4, <1>c, SliceType, TypeParts DEF Inv
  <1>6. \A k \in 1..n : s[k] = Unit(pushed[d], (u + o) + k)
    <2> SUFFICES ASSUME NEW k \in 1..n PROVE s[k] = Unit(pushed[d], (u + o) + k)
      OBVIOUS
    <2>1. (o + n) - (o + 1) + 1 = n
      BY <1>c, SizesAssumption
    <2>2. s[k] = <<Head(outQ[d]), o + 1 + k - 1>>
      BY <2>1, <1>4 DEF Slice
    <2>3. PICK r \in 0..(Size - 1) : r = o + k - 1
      BY <1>c, SizesAssumption
    <2>4. (u + o) + k - 1 = u + r /\ o + 1 + k - 1 = r + 1
      BY <2>3, SizesAssumption
    <2>5. (u + r) \div Size = q /\ (u + r) % Size = r
      BY <1>2, Places
    <2>6. Unit(pushed[d], (u + o) + k) = <<pushed[d][q + 1], r + 1>>
      BY <2>4, <2>5 DEF Unit
    <2> QED
      BY <2>2, <2>4, <2>6, <1>f
  <1>7. tx'[d] = tx[d] \o s /\ pushed'[d] = pushed[d] /\ got'[d] = got[d] /\ sock'[d] = sock[d]
    BY <1>b, <1>4 DEF Writes
  <1>8. /\ Len(tx'[d]) = t + n
        /\ \A k \in 1..t : tx'[d][k] = tx[d][k]
        /\ \A k \in 1..n : tx'[d][t + k] = s[k]
    <2>1. /\ Len(tx'[d]) = t + n
          /\ \A k \in 1..(t + n) : tx'[d][k] = IF k <= t THEN tx[d][k] ELSE s[k - t]
      <3>1. /\ Len(tx[d] \o s) = Len(tx[d]) + Len(s)
            /\ \A k \in 1..(Len(tx[d]) + Len(s)) :
                  (tx[d] \o s)[k] = IF k <= Len(tx[d]) THEN tx[d][k] ELSE s[k - Len(tx[d])]
        BY <1>s, <1>5, ConcatProperties
      <3> QED
        BY <3>1, <1>2, <1>5, <1>7
    <2>2. \A k \in 1..n : t + k \in 1..(t + n) /\ ~(t + k <= t) /\ (t + k) - t = k
      OBVIOUS
    <2>3. \A k \in 1..t : k \in 1..(t + n) /\ k <= t
      OBVIOUS
    <2> QED
      BY <2>1, <2>2, <2>3
  <1>9. g <= u + o /\ (sock[d] = "open" => g + t = u + o)
    BY <1>2, <1>3 DEF Intact, Passed
  <1>10. ASSUME sock[d] = "open"
         PROVE  /\ g + (t + n) = (u + o) + n
                /\ \A k \in 1..(t + n) : tx'[d][k] = Unit(pushed[d], g + k)
    <2>1. g + (t + n) = (u + o) + n
      BY <1>9, <1>10, SizesAssumption
    <2>2. ASSUME NEW k \in 1..(t + n) PROVE tx'[d][k] = Unit(pushed[d], g + k)
      <3>1. CASE k <= t
        BY <3>1, <1>2, <1>8, <1>10 DEF Intact, Passed
      <3>2. CASE k > t
        <4>1. PICK j \in 1..n : k = t + j
          <5>1. k - t \in 1..n /\ k = t + (k - t)
            BY <3>2
          <5> QED
            BY <5>1
        <4>2. g + k = (u + o) + j
          BY <4>1, <1>9, <1>10, SizesAssumption
        <4> QED
          BY <4>1, <4>2, <1>6, <1>8
      <3> QED
        BY <3>1, <3>2
    <2> QED
      BY <2>1, <2>2
  <1>11. Passed(d)'
    <2>1. Handed(d)' = (u + o) + n
      BY <1>1, <1>3
    <2>2. g <= (u + o) + n
      BY <1>9, SizesAssumption
    <2>3. \A k \in 1..g : got[d][k] = Unit(pushed[d], k)
      BY <1>2 DEF Intact, Passed
    <2> QED
      BY <2>1, <2>2, <2>3, <1>2, <1>7, <1>8, <1>10 DEF Passed
  <1> QED
    BY <1>1, <1>11 DEF Intact

LEMMA TakeIntact ==
  ASSUME Inv, NEW d \in Conns, Intact(d), TakenFrom(d)
  PROVE  Intact(d)'
  <1>s. tx[d] \in Seq(Units) /\ got[d] \in Seq(Units)
    BY Sizes
  <1>1. /\ sock[d] = "open" /\ tx[d] # <<>>
        /\ tx'[d] = Tail(tx[d]) /\ got'[d] = Append(got[d], Head(tx[d]))
        /\ outQ'[d] = outQ[d] /\ pushed'[d] = pushed[d] /\ offset'[d] = offset[d]
        /\ sock'[d] = sock[d]
    BY DEF TakenFrom
  <1>2. PICK g \in Nat, t \in Nat, h \in Nat :
           g = Len(got[d]) /\ t = Len(tx[d]) /\ h = Handed(d)
    BY <1>s, Sizes, HandedPushed DEF Intact
  <1>3. /\ t # 0 /\ Len(tx'[d]) = t - 1 /\ Head(tx[d]) = tx[d][1] /\ Head(tx[d]) \in Units
        /\ \A k \in 1..(t - 1) : tx'[d][k] = tx[d][k + 1]
    BY <1>s, <1>1, <1>2, HeadTailProperties, EmptySeq
  <1>4. /\ Len(got'[d]) = g + 1 /\ got'[d][g + 1] = tx[d][1]
        /\ \A k \in 1..g : got'[d][k] = got[d][k]
    BY <1>s, <1>1, <1>2, <1>3, AppendProperties
  <1>5. Done(d)' = Done(d) /\ Handed(d)' = h
    BY <1>1, <1>2 DEF Done, Handed
  <1>6. Backed(d)'
    BY <1>1, <1>5 DEF Intact, Backed
  <1>7. /\ g + t = h
        /\ \A k \in 1..g : got[d][k] = Unit(pushed[d], k)
        /\ \A k \in 1..t : tx[d][k] = Unit(pushed[d], g + k)
    BY <1>1, <1>2 DEF Intact, Passed
  <1>8. (g + 1) + (t - 1) = h /\ g + 1 <= h
    BY <1>3, <1>7
  <1>9. \A k \in 1..(g + 1) : got'[d][k] = Unit(pushed[d], k)
    <2>1. tx[d][1] = Unit(pushed[d], g + 1)
      BY <1>3, <1>7
    <2>2. \A k \in 1..(g + 1) : k \in 1..g \/ k = g + 1
      OBVIOUS
    <2> QED
      BY <2>1, <2>2, <1>4, <1>7
  <1>10. \A k \in 1..(t - 1) : tx'[d][k] = Unit(pushed[d], (g + 1) + k)
    <2> SUFFICES ASSUME NEW k \in 1..(t - 1) PROVE tx'[d][k] = Unit(pushed[d], (g + 1) + k)
      OBVIOUS
    <2>1. k + 1 \in 1..t /\ g + (k + 1) = (g + 1) + k
      OBVIOUS
    <2>2. tx[d][k + 1] = Unit(pushed[d], g + (k + 1))
      BY <2>1, <1>7
    <2> QED
      BY <2>1, <2>2, <1>3
  <1>11. Passed(d)'
    BY <1>1, <1>3, <1>4, <1>5, <1>8, <1>9, <1>10 DEF Passed
  <1> QED
    BY <1>6, <1>11 DEF Intact

-----------------------------------------------------------------------------
LEMMA InitStreams == Init => Streams
  <1> SUFFICES ASSUME Init PROVE Streams
    OBVIOUS
  <1>1. \A c \in Conns : /\ outQ[c] = <<>> /\ pushed[c] = <<>> /\ offset[c] = 0
                         /\ got[c] = <<>> /\ tx[c] = <<>> /\ sock[c] = "open"
    BY DEF Init
  <1>2. Ends
    BY <1>1 DEF Ends
  <1>3. Len(<<>>) = 0
    BY EmptySeq
  <1>4. 0 * Size = 0
    BY SizesAssumption
  <1>5. ASSUME NEW c \in Conns PROVE Done(c) = 0 /\ Handed(c) = 0
    <2>1. Done(c) = 0
      BY <1>1, <1>3 DEF Done
    <2> QED
      BY <1>1, <1>4, <2>1 DEF Handed
  <1>6. ASSUME NEW c \in Conns PROVE Backed(c)
    BY <1>1, <1>3 DEF Backed
  <1>7. ASSUME NEW c \in Conns PROVE Passed(c)
    <2>1. Len(got[c]) = 0 /\ Len(tx[c]) = 0 /\ Handed(c) = 0
      BY <1>1, <1>3, <1>5
    <2>2. 0 + 0 = 0 /\ 0 <= 0 /\ 1..0 = {}
      OBVIOUS
    <2> QED
      BY <2>1, <2>2 DEF Passed
  <1> QED
    BY <1>2, <1>6, <1>7 DEF Streams

LEMMA StreamsStep == Inv /\ Streams /\ [Next]_vars => Streams'
  <1> SUFFICES ASSUME Inv, Streams, [Next]_vars PROVE Streams'
    OBVIOUS
  <1>1. Ends /\ Ends'
    BY EndsStep DEF Streams
  <1>2. ASSUME NEW d \in Conns PROVE Intact(d)'
    <2>1. Intact(d) /\ Moves(d)
      BY <1>1, StreamKinds DEF Streams, Intact
    <2> QED
      BY <2>1, SameIntact, PushIntact, WriteIntact, TakeIntact DEF Moves
  <1> QED
    BY <1>1, <1>2 DEF Streams, Intact

LEMMA InductiveStreams == Spec => []Streams
  BY InitStreams, StreamsStep, InductiveInvariant, PTL DEF Spec

\* The packets ms as units.
LEMMA WholeUnits ==
  ASSUME NEW m \in Seq(Nat)
  PROVE  /\ Whole(m) \in Seq(Units) /\ Len(Whole(m)) = Len(m) * Size
         /\ \A k \in 1..(Len(m) * Size) : Whole(m)[k] = Unit(m, k)
  <1>1. PICK a \in Nat, n \in Nat : a = Len(m) /\ n = a * Size
    BY LenProperties, Units1
  <1>2. Whole(m) = [k \in 1..n |-> Unit(m, k)]
    BY <1>1 DEF Whole, Unit
  <1>3. ASSUME NEW k \in 1..n PROVE Unit(m, k) \in Units
    <2>1. (k - 1) \div Size + 1 \in 1..Len(m)
      BY <1>1, Within
    <2>2. m[(k - 1) \div Size + 1] \in Nat
      BY <2>1, ElementOfSeq
    <2>3. (k - 1) % Size \in 0..(Size - 1)
      <3>1. k - 1 \in Nat
        OBVIOUS
      <3> QED
        BY <3>1, PlaceOf
    <2>4. ((k - 1) % Size) + 1 \in 1..Size
      BY <2>3, SizesAssumption
    <2> QED
      BY <2>2, <2>4 DEF Unit, Units
  <1>4. Whole(m) \in [1..n -> Units]
    BY <1>2, <1>3
  <1>5. Whole(m) \in Seq(Units)
    BY <1>4, SeqDef
  <1>6. Len(Whole(m)) = n
    <2>1. DOMAIN Whole(m) = 1..n
      BY <1>4
    <2> QED
      BY <1>5, <2>1, LenProperties
  <1> QED
    BY <1>1, <1>2, <1>5, <1>6

\* What a peer has read is the beginning of what was pushed for it.
LEMMA ReadIsPrefix ==
  ASSUME Inv, NEW c \in Conns, Intact(c)
  PROVE  IsPrefix(got[c], Whole(pushed[c]))
  <1>1. got[c] \in Seq(Units) /\ pushed[c] \in Seq(Nat)
    BY Sizes
  <1>2. PICK g \in Nat, n \in Nat, h \in Nat :
           g = Len(got[c]) /\ n = Len(pushed[c]) * Size /\ h = Handed(c) /\ h <= n
    BY <1>1, LenProperties, Units1, HandedPushed DEF Intact
  <1>3. g <= h /\ \A k \in 1..g : got[c][k] = Unit(pushed[c], k)
    BY <1>2 DEF Intact, Passed
  <1>4. PICK w : w = Whole(pushed[c])
    OBVIOUS
  <1>5. w \in Seq(Units) /\ Len(w) = n /\ \A k \in 1..n : w[k] = Unit(pushed[c], k)
    BY <1>1, <1>2, <1>4, WholeUnits
  <1>6. g <= n /\ \A k \in 1..g : k \in 1..n
    BY <1>2, <1>3
  <1>7. \A k \in 1..g : w[k] \in Units
    BY <1>5, <1>6, ElementOfSeq
  <1>8. /\ SubSeq(w, 1, g) \in Seq(Units)
        /\ Len(SubSeq(w, 1, g)) = IF 1 <= g THEN g - 1 + 1 ELSE 0
        /\ \A i \in 1..(g - 1 + 1) : SubSeq(w, 1, g)[i] = w[1 + i - 1]
    BY <1>7, SubSeqProperties
  <1>9. Len(SubSeq(w, 1, g)) = g /\ \A i \in 1..g : SubSeq(w, 1, g)[i] = w[i]
    <2>1. g - 1 + 1 = g /\ \A i \in 1..g : 1 + i - 1 = i
      OBVIOUS
    <2> QED
      BY <1>8, <2>1
  <1>10. \A k \in 1..g : got[c][k] = SubSeq(w, 1, g)[k]
    BY <1>3, <1>5, <1>6, <1>9
  <1>11. SubSeq(w, 1, g) = got[c]
    BY <1>1, <1>2, <1>8, <1>9, <1>10, SeqEqual
  <1>12. SubSeq(got[c], 1, g) = got[c]
    <2>1. \A k \in 1..g : got[c][k] \in Units
      BY <1>1, <1>2, ElementOfSeq
    <2>2. /\ SubSeq(got[c], 1, g) \in Seq(Units)
          /\ Len(SubSeq(got[c], 1, g)) = IF 1 <= g THEN g - 1 + 1 ELSE 0
          /\ \A i \in 1..(g - 1 + 1) : SubSeq(got[c], 1, g)[i] = got[c][1 + i - 1]
      BY <2>1, SubSeqProperties
    <2>3. g - 1 + 1 = g /\ \A i \in 1..g : 1 + i - 1 = i
      OBVIOUS
    <2>4. /\ Len(SubSeq(got[c], 1, g)) = g
          /\ \A i \in 1..g : SubSeq(got[c], 1, g)[i] = got[c][i]
      BY <2>2, <2>3
    <2> QED
      BY <1>1, <1>2, <2>2, <2>4, SeqEqual
  <1> QED
    BY <1>2, <1>4, <1>5, <1>6, <1>11, <1>12 DEF IsPrefix

\* The units of the queue are the last of those of what was pushed.
LEMMA QueueUnits ==
  ASSUME Inv, NEW c \in Conns, Intact(c), NEW j \in 1..(Len(outQ[c]) * Size)
  PROVE  Unit(outQ[c], j) = Unit(pushed[c], Done(c) * Size + j)
  <1>1. Done(c) \in Nat /\ Len(outQ[c]) \in Nat
    BY Sizes DEF Intact
  <1>2. j \in Nat /\ j - 1 \in Nat
    <2>1. Len(outQ[c]) * Size \in Nat
      BY <1>1, Units1
    <2> QED
      BY <2>1
  <1>3. PICK a \in Nat, r \in 0..(Size - 1) :
           /\ a = (j - 1) \div Size /\ r = (j - 1) % Size
           /\ j - 1 = a * Size + r
    BY <1>2, PlaceOf
  <1>4. a + 1 \in 1..Len(outQ[c])
    BY <1>1, <1>3, Within
  <1>5. outQ[c][a + 1] = pushed[c][Done(c) + (a + 1)]
    BY <1>4 DEF Intact, Backed
  <1>6. PICK q \in Nat : q = Done(c)
    BY <1>1
  <1>7. PICK u \in Nat, b \in Nat : u = q * Size /\ b = a * Size
    BY Units1
  <1>8. (q + a) * Size = u + b /\ q + a \in Nat
    BY <1>7, Units1
  <1>9. (u + j) - 1 = (u + b) + r
    BY <1>3, <1>7, SizesAssumption
  <1>10. ((u + j) - 1) \div Size = q + a /\ ((u + j) - 1) % Size = r
    BY <1>8, <1>9, Places
  <1>11. (q + a) + 1 = q + (a + 1)
    OBVIOUS
  <1>12. Unit(pushed[c], u + j) = <<pushed[c][q + (a + 1)], r + 1>>
    BY <1>10, <1>11 DEF Unit
  <1>13. Unit(outQ[c], j) = <<outQ[c][a + 1], r + 1>>
    BY <1>3 DEF Unit
  <1> QED
    BY <1>5, <1>6, <1>7, <1>12, <1>13

\* The part of the queue that is still to be written.
LEMMA RestUnits ==
  ASSUME Inv, NEW c \in Conns, Intact(c)
  PROVE  LET rest == SubSeq(Whole(outQ[c]), offset[c] + 1, Len(outQ[c]) * Size)
         IN  /\ rest \in Seq(Units)
             /\ Handed(c) + Len(rest) = Len(pushed[c]) * Size
             /\ \A i \in 1..Len(rest) : rest[i] = Unit(pushed[c], Handed(c) + i)
  <1>1. /\ outQ[c] \in Seq(Nat) /\ Done(c) \in Nat
        /\ Len(pushed[c]) = Done(c) + Len(outQ[c])
    BY Sizes DEF Intact
  <1>2. PICK q \in Nat, m \in Nat, o \in 0..(Size - 1) :
           q = Done(c) /\ m = Len(outQ[c]) /\ o = offset[c]
    BY <1>1, Sizes DEF Intact
  <1>3. PICK u \in Nat, v \in Nat : u = q * Size /\ v = m * Size
    BY Units1
  <1>4. Len(pushed[c]) * Size = u + v /\ Handed(c) = u + o
    <2>1. (q + m) * Size = q * Size + m * Size
      BY Units1
    <2>2. Len(pushed[c]) = q + m
      BY <1>1, <1>2
    <2> QED
      BY <2>1, <2>2, <1>2, <1>3 DEF Handed
  <1>5. o <= v
    <2>1. u + o <= u + v
      BY <1>4, HandedPushed DEF Intact
    <2> QED
      BY <2>1, SizesAssumption
  <1>6. PICK w : w = Whole(outQ[c])
    OBVIOUS
  <1>7. w \in Seq(Units) /\ Len(w) = v /\ \A k \in 1..v : w[k] = Unit(outQ[c], k)
    BY <1>1, <1>2, <1>3, <1>6, WholeUnits
  <1>8. PICK rest : rest = SubSeq(w, o + 1, v)
    OBVIOUS
  <1>9. o + 1 \in Int /\ v \in Int /\ \A i \in (o + 1)..v : i \in 1..v
    BY SizesAssumption
  <1>10. \A i \in (o + 1)..v : w[i] \in Units
    BY <1>7, <1>9, ElementOfSeq
  <1>11. /\ rest \in Seq(Units)
         /\ Len(rest) = IF o + 1 <= v THEN v - (o + 1) + 1 ELSE 0
         /\ \A i \in 1..(v - (o + 1) + 1) : rest[i] = w[(o + 1) + i - 1]
    BY <1>8, <1>9, <1>10, SubSeqProperties
  <1>12. Len(rest) = v - o /\ \A i \in 1..(v - o) : rest[i] = w[o + i]
    <2>1. v - (o + 1) + 1 = v - o /\ \A i \in 1..(v - o) : (o + 1) + i - 1 = o + i
      BY SizesAssumption
    <2>2. (IF o + 1 <= v THEN v - (o + 1) + 1 ELSE 0) = v - o
      BY <1>5, SizesAssumption
    <2> QED
      BY <1>11, <2>1, <2>2
  <1>13. (u + o) + (v - o) = u + v
    BY SizesAssumption
  <1>14. ASSUME NEW i \in 1..(v - o) PROVE rest[i] = Unit(pushed[c], (u + o) + i)
    <2>1. o + i \in 1..v /\ u + (o + i) = (u + o) + i
      BY SizesAssumption
    <2>2. w[o + i] = Unit(outQ[c], o + i)
      BY <2>1, <1>7
    <2>3. Unit(outQ[c], o + i) = Unit(pushed[c], u + (o + i))
      BY <2>1, <1>2, <1>3, QueueUnits
    <2> QED
      BY <1>12, <2>1, <2>2, <2>3
  <1>15. /\ rest \in Seq(Units)
         /\ Handed(c) + Len(rest) = Len(pushed[c]) * Size
         /\ \A i \in 1..Len(rest) : rest[i] = Unit(pushed[c], Handed(c) + i)
    BY <1>4, <1>11, <1>12, <1>13, <1>14
  <1>16. SubSeq(Whole(outQ[c]), offset[c] + 1, Len(outQ[c]) * Size) = rest
    BY <1>2, <1>3, <1>6, <1>8
  <1> QED
    BY <1>15, <1>16

\* While the socket is whole, the three parts together are what was pushed.
LEMMA PartsAreWhole ==
  ASSUME Inv, NEW c \in Conns, Intact(c), sock[c] = "open"
  PROVE  got[c] \o tx[c] \o SubSeq(Whole(outQ[c]), offset[c] + 1, Len(outQ[c]) * Size)
            = Whole(pushed[c])
  <1>1. /\ got[c] \in Seq(Units) /\ tx[c] \in Seq(Units) /\ pushed[c] \in Seq(Nat)
        /\ Len(got[c]) \in Nat /\ Len(tx[c]) \in Nat /\ Len(pushed[c]) \in Nat
    BY Sizes
  <1>2. PICK rest : rest = SubSeq(Whole(outQ[c]), offset[c] + 1, Len(outQ[c]) * Size)
    OBVIOUS
  <1>3. /\ rest \in Seq(Units)
        /\ Handed(c) + Len(rest) = Len(pushed[c]) * Size
        /\ \A i \in 1..Len(rest) : rest[i] = Unit(pushed[c], Handed(c) + i)
    BY <1>2, RestUnits
  <1>4. PICK g \in Nat, t \in Nat, l \in Nat, h \in Nat :
           g = Len(got[c]) /\ t = Len(tx[c]) /\ l = Len(rest) /\ h = Handed(c)
    BY <1>1, <1>3, LenProperties, HandedPushed DEF Intact
  <1>5. /\ g + t = h
        /\ \A k \in 1..g : got[c][k] = Unit(pushed[c], k)
        /\ \A k \in 1..t : tx[c][k] = Unit(pushed[c], g + k)
    BY <1>4 DEF Intact, Passed
  <1>6. PICK s : s = got[c] \o tx[c]
    OBVIOUS
  <1>7. /\ s \in Seq(Units) /\ Len(s) = h
        /\ \A i \in 1..h : s[i] = IF i <= g THEN got[c][i] ELSE tx[c][i - g]
    <2>1. /\ s \in Seq(Units) /\ Len(s) = Len(got[c]) + Len(tx[c])
          /\ \A i \in 1..(Len(got[c]) + Len(tx[c])) :
                s[i] = IF i <= Len(got[c]) THEN got[c][i] ELSE tx[c][i - Len(got[c])]
      BY <1>1, <1>6, ConcatProperties
    <2> QED
      BY <2>1, <1>4, <1>5
  <1>8. \A i \in 1..h : s[i] = Unit(pushed[c], i)
    <2> SUFFICES ASSUME NEW i \in 1..h PROVE s[i] = Unit(pushed[c], i)
      OBVIOUS
    <2>1. CASE i <= g
      BY <2>1, <1>5, <1>7
    <2>2. CASE i > g
      <3>1. i - g \in 1..t /\ g + (i - g) = i
        BY <2>2, <1>5
      <3>2. tx[c][i - g] = Unit(pushed[c], g + (i - g))
        BY <3>1, <1>5
      <3> QED
        BY <2>2, <3>1, <3>2, <1>7
    <2> QED
      BY <2>1, <2>2
  <1>9. PICK z : z = s \o rest
    OBVIOUS
  <1>10. /\ z \in Seq(Units) /\ Len(z) = h + l
         /\ \A i \in 1..(h + l) : z[i] = IF i <= h THEN s[i] ELSE rest[i - h]
    <2>1. /\ z \in Seq(Units) /\ Len(z) = Len(s) + Len(rest)
          /\ \A i \in 1..(Len(s) + Len(rest)) :
                z[i] = IF i <= Len(s) THEN s[i] ELSE rest[i - Len(s)]
      BY <1>3, <1>7, <1>9, ConcatProperties
    <2> QED
      BY <2>1, <1>4, <1>7
  <1>11. \A i \in 1..(h + l) : z[i] = Unit(pushed[c], i)
    <2> SUFFICES ASSUME NEW i \in 1..(h + l) PROVE z[i] = Unit(pushed[c], i)
      OBVIOUS
    <2>1. CASE i <= h
      BY <2>1, <1>8, <1>10
    <2>2. CASE i > h
      <3>1. i - h \in 1..l /\ h + (i - h) = i
        BY <2>2
      <3>2. rest[i - h] = Unit(pushed[c], h + (i - h))
        BY <3>1, <1>3, <1>4
      <3> QED
        BY <2>2, <3>1, <3>2, <1>10
    <2> QED
      BY <2>1, <2>2
  <1>12. PICK w : w = Whole(pushed[c])
    OBVIOUS
  <1>13. w \in Seq(Units) /\ Len(w) = h + l /\ \A k \in 1..(h + l) : w[k] = Unit(pushed[c], k)
    BY <1>1, <1>3, <1>4, <1>12, WholeUnits
  <1>14. z = w
    BY <1>10, <1>11, <1>13, SeqEqual
  <1> QED
    BY <1>2, <1>6, <1>9, <1>12, <1>14

\* No unit of a broadcast is lost, doubled or out of place before a peer closes,
\* whatever write() takes at a time (conn.cpp:101-139).
THEOREM StreamsAreWhole == Spec => []StreamIntact
  <1>1. Inv /\ Streams => StreamIntact
    BY ReadIsPrefix, PartsAreWhole DEF Streams, Intact, StreamIntact
  <1> QED
    BY <1>1, InductiveInvariant, InductiveStreams, PTL

-----------------------------------------------------------------------------
(* The room.                                                               *)

\* A connection is pushed what is spoken after it was accepted, without a gap;
\* while a broadcast runs, those that are still to be sent to are one behind.
Numbered(c) ==
    /\ state[c] = "none" => pushed[c] = <<>>
    /\ c \in clients =>
         since[c] + Len(pushed[c]) + (IF c \in left THEN 1 ELSE 0) = Len(log)
    /\ \A i \in 1..Len(pushed[c]) : pushed[c][i] = since[c] + i

Speech == \A c \in Conns : Numbered(c)


LEMMA InitSpeech == Init => Speech
  <1> SUFFICES ASSUME Init, NEW c \in Conns PROVE Numbered(c)
    BY DEF Speech
  <1>1. state[c] = "none" /\ c \notin clients /\ pushed[c] = <<>> /\ Len(<<>>) = 0
    BY EmptySeq DEF Init
  <1> QED
    BY <1>1 DEF Numbered

\* The kinds of steps that the room tells apart.
Says(c) ==
    /\ c \in clients /\ left = {} /\ log' = Append(log, c) /\ left' = clients
    /\ UNCHANGED <<since, state, clients, pushed, got>>

Lets(c) ==
    /\ state[c] = "none"
    /\ state' = [state EXCEPT ![c] = "connected"] /\ since' = [since EXCEPT ![c] = Len(log)]
    /\ clients' = clients \cup {c} /\ UNCHANGED <<log, left, pushed, got>>

Sends(c) ==
    /\ c \in left /\ left' = left \ {c}
    /\ pushed' = [pushed EXCEPT ![c] = Append(@, Len(log))]
    /\ UNCHANGED <<log, since, state, clients, got>>

Takes(c) ==
    /\ peer[c] = "open" /\ tx[c] # <<>>
    /\ got' = [got EXCEPT ![c] = Append(@, Head(tx[c]))]
    /\ UNCHANGED <<log, since, left, state, clients, pushed>>

Rests ==
    /\ \A d \in Conns : state'[d] = "none" <=> state[d] = "none"
    /\ UNCHANGED <<log, since, left, clients, pushed, got>>

LEMMA RoomKinds ==
  ASSUME Inv, [Next]_vars
  PROVE  Rests \/ \E c \in Conns : Says(c) \/ Lets(c) \/ Sends(c) \/ Takes(c)
  <1>t. Tables /\ Control /\ Known
    BY TypeParts DEF Inv
  <1>u. UNCHANGED <<connVars, castVars, pushed, got>> => Rests
    BY DEF connVars, castVars, Rests
  <1>e. ASSUME NEW c \in clients, HandleError(c), UNCHANGED <<castVars, pushed, got>> PROVE Rests
    <2>1. state' = [state EXCEPT ![c] = "closed"] /\ UNCHANGED clients
      BY <1>e DEF HandleError
    <2>2. \A d \in Conns : state'[d] = "none" <=> state[d] = "none"
      BY <2>1, <1>t DEF Tables
    <2> QED
      BY <1>e, <2>1, <2>2 DEF Rests, castVars
  <1>1. CASE Poll \/ AcceptNone \/ UNCHANGED vars
    BY <1>1, <1>u DEF Poll, AcceptNone, vars, outVars, netVars
  <1>2. ASSUME NEW e \in batch, Skip(e) \/ Handle(e) PROVE Rests
    BY <1>2, <1>u DEF Skip, Handle, outVars, netVars
  <1>3. ASSUME NEW e \in batch, Failed(e) PROVE Rests
    <2>1. HandleError(e.fd) /\ interest[e.fd] # {} /\ e.fd \in Conns
      BY <1>3, <1>t DEF Failed, Control, Events
    <2>2. e.fd \in clients
      BY <2>1, <1>t DEF Tables
    <2> QED
      BY <1>3, <2>1, <2>2, <1>e DEF Failed, outVars, netVars
  <1>4. ASSUME NEW c \in Conns, ReadNone(c) \/ WriteSome(c) \/ WriteFull(c) \/ WriteKills(c)
                                 \/ Connect(c) \/ Say(c) \/ PeerCloses(c) \/ ResetArrives(c)
        PROVE  Rests
    BY <1>4, <1>u DEF ReadNone, EndRead, WriteSome, WriteFull, WriteKills, Connect, Say,
       PeerCloses, ResetArrives, loopSide, outVars, netVars
  <1>5. ASSUME NEW c \in Conns, WriteDone(c) PROVE Rests
    BY <1>5 DEF WriteDone, outVars, netVars, castVars, Rests
  <1>6. ASSUME NEW c \in Conns, ReadEnd(c) PROVE Rests
    <2>1. c \in clients
      BY <1>6, <1>t, Descriptors DEF ReadEnd, Reading, Known, Listen, None
    <2> QED
      BY <1>6, <2>1, <1>e DEF ReadEnd, EndRead, outVars, netVars
  <1>7. ASSUME NEW c \in Conns, WriteFails(c) PROVE Rests
    <2>1. c \in clients
      BY <1>7, <1>t, Descriptors DEF WriteFails, Writing, Known, None
    <2> QED
      BY <1>7, <2>1, <1>e DEF WriteFails, outVars, netVars
  <1>8. ASSUME NEW c \in Conns, ReadPacket(c) PROVE Rests \/ Says(c)
    <2>1. c \in clients /\ left = {}
      BY <1>8, <1>t, Descriptors DEF ReadPacket, Reading, Known, Listen, None
    <2>2. CASE Head(rx[c]) = "chat"
      BY <1>8, <2>1, <2>2 DEF ReadPacket, Says, connVars, outVars
    <2>3. CASE Head(rx[c]) # "chat"
      BY <1>8, <2>3, <1>u DEF ReadPacket, outVars
    <2> QED
      BY <2>2, <2>3
  <1>9. ASSUME NEW c \in Conns, Accept(c) PROVE Lets(c)
    BY <1>9 DEF Accept, Backlog, Lets, outVars, netVars
  <1>10. ASSUME NEW c \in Conns, Broadcast(c) PROVE Sends(c)
    BY <1>10 DEF Broadcast, Send, Sends, netVars
  <1>11. ASSUME NEW c \in Conns, PeerReads(c) PROVE Takes(c)
    BY <1>11 DEF PeerReads, Takes, loopSide, connVars, castVars, outVars
  <1> QED
    BY <1>1, <1>2, <1>3, <1>4, <1>5, <1>6, <1>7, <1>8, <1>9, <1>10, <1>11
    DEF Next, Loop, HandleWrite, Network

LEMMA SpeechStep == Inv /\ Speech /\ [Next]_vars => Speech'
  <1> SUFFICES ASSUME Inv, Speech, [Next]_vars, NEW d \in Conns PROVE Numbered(d)'
    BY DEF Speech
  <1>t. Tables /\ Control /\ Queues
    BY TypeParts DEF Inv
  <1>n. Numbered(d)
    BY DEF Speech
  <1>s. PICK s \in Nat, p \in Nat, n \in Nat :
           s = since[d] /\ p = Len(pushed[d]) /\ n = Len(log)
    <2>1. Len(log) \in Nat
      BY <1>t, LenProperties DEF Control
    <2> QED
      BY <2>1, <1>t, Sizes DEF Control
  <1>1. CASE Rests
    BY <1>1, <1>n DEF Rests, Numbered
  <1>2. ASSUME NEW c \in Conns, Takes(c) PROVE Numbered(d)'
    BY <1>2, <1>n DEF Takes, Numbered
  <1>3. ASSUME NEW c \in Conns, Says(c) PROVE Numbered(d)'
    <2>1. Len(log') = n + 1
      BY <1>3, <1>s, <1>t, AppendProperties DEF Says, Control
    <2>2. d \in clients => s + p + 0 = n
      BY <1>3, <1>n, <1>s DEF Says, Numbered
    <2>3. d \in clients => s + p + 1 = n + 1
      BY <2>2
    <2> QED
      BY <1>3, <1>n, <1>s, <2>1, <2>3 DEF Says, Numbered
  <1>4. ASSUME NEW c \in Conns, Lets(c) PROVE Numbered(d)'
    <2>1. CASE d = c
      <3>1. pushed'[d] = <<>> /\ d \notin left' /\ since'[d] = n /\ Len(<<>>) = 0 /\ Len(log') = n
        BY <1>4, <2>1, <1>n, <1>s, <1>t, EmptySeq DEF Lets, Numbered, Tables, Control
      <3>2. n + 0 + 0 = n /\ 1..0 = {}
        OBVIOUS
      <3> QED
        BY <3>1, <3>2 DEF Numbered
    <2>2. CASE d # c
      <3>1. /\ state'[d] = state[d] /\ since'[d] = since[d] /\ (d \in clients' <=> d \in clients)
            /\ UNCHANGED <<log, left, pushed>>
        BY <1>4, <2>2, <1>t DEF Lets, Tables, Control
      <3> QED
        BY <3>1, <1>n DEF Numbered
    <2> QED
      BY <2>1, <2>2
  <1>5. ASSUME NEW c \in Conns, Sends(c) PROVE Numbered(d)'
    <2>1. CASE d = c
      <3>1. d \in left /\ d \in clients /\ d \notin left' /\ state[d] # "none"
        BY <1>5, <2>1, <1>t DEF Sends, Tables, Control
      <3>2. s + p + 1 = n
        BY <3>1, <1>n, <1>s DEF Numbered
      <3>3. pushed[d] \in Seq(Nat) /\ pushed'[d] = Append(pushed[d], n)
        BY <1>5, <2>1, <1>s, <1>t DEF Sends, Queues
      <3>4. /\ Len(pushed'[d]) = p + 1 /\ pushed'[d][p + 1] = n
            /\ \A i \in 1..p : pushed'[d][i] = pushed[d][i]
        BY <3>3, <1>s, AppendProperties
      <3>5. \A i \in 1..(p + 1) : pushed'[d][i] = s + i
        <4>1. \A i \in 1..p : pushed[d][i] = s + i
          BY <1>n, <1>s DEF Numbered
        <4>2. s + (p + 1) = n /\ \A i \in 1..(p + 1) : i \in 1..p \/ i = p + 1
          BY <3>2
        <4> QED
          BY <3>4, <4>1, <4>2
      <3>6. s + (p + 1) + 0 = n
        BY <3>2
      <3> QED
        BY <1>5, <1>s, <3>1, <3>4, <3>5, <3>6 DEF Sends, Numbered
    <2>2. CASE d # c
      <3>1. pushed'[d] = pushed[d] /\ (d \in left' <=> d \in left)
            /\ UNCHANGED <<log, since, state, clients>>
        BY <1>5, <2>2, <1>t DEF Sends, Queues
      <3> QED
        BY <3>1, <1>n DEF Numbered
    <2> QED
      BY <2>1, <2>2
  <1> QED
    BY <1>1, <1>2, <1>3, <1>4, <1>5, RoomKinds

LEMMA InductiveSpeech == Spec => []Speech
  BY InitSpeech, SpeechStep, InductiveInvariant, PTL DEF Spec

\* The packets that are whole in what a peer has read, and what one unit more
\* makes of them.
HeardIn(s) == [i \in 1..(Len(s) \div Size) |-> s[i * Size][1]]

LEMMA HeardType ==
  ASSUME NEW s \in Seq(Units)
  PROVE  /\ HeardIn(s) \in Seq(Nat) /\ Len(HeardIn(s)) = Len(s) \div Size
         /\ \A i \in 1..(Len(s) \div Size) :
               i * Size \in 1..Len(s) /\ HeardIn(s)[i] = s[i * Size][1]
  <1>1. PICK n \in Nat : n = Len(s)
    BY LenProperties
  <1>2. PICK a \in Nat, r \in 0..(Size - 1) : a = n \div Size /\ n = a * Size + r
    BY PlaceOf
  <1>3. ASSUME NEW i \in 1..a PROVE i * Size \in 1..n /\ s[i * Size][1] \in Nat
    <2>1. PICK b \in Nat : a = i + b
      <3>1. a - i \in Nat /\ a = i + (a - i)
        OBVIOUS
      <3> QED
        BY <3>1
    <2>2. PICK j \in Nat : i = j + 1
      <3>1. i - 1 \in Nat /\ i = (i - 1) + 1
        OBVIOUS
      <3> QED
        BY <3>1
    <2>3. PICK x \in Nat, y \in Nat, z \in Nat : x = i * Size /\ y = b * Size /\ z = j * Size
      <3>1. i \in Nat
        OBVIOUS
      <3>2. i * Size \in Nat /\ b * Size \in Nat /\ j * Size \in Nat
        BY <3>1, Units1
      <3> QED
        BY <3>2
    <2>4. a * Size = x + y /\ x = z + Size
      BY <2>1, <2>2, <2>3, Units1
    <2>5. x \in 1..n
      BY <1>2, <2>4, SizesAssumption
    <2>6. s[x] \in Units
      BY <1>1, <2>5, ElementOfSeq
    <2> QED
      BY <2>3, <2>5, <2>6 DEF Units
  <1>4. HeardIn(s) = [i \in 1..a |-> s[i * Size][1]]
    BY <1>1, <1>2 DEF HeardIn
  <1>5. HeardIn(s) \in [1..a -> Nat]
    BY <1>3, <1>4
  <1>6. HeardIn(s) \in Seq(Nat)
    BY <1>5, SeqDef
  <1>7. Len(HeardIn(s)) = a
    <2>1. DOMAIN HeardIn(s) = 1..a
      BY <1>5
    <2> QED
      BY <1>6, <2>1, LenProperties
  <1> QED
    BY <1>1, <1>2, <1>3, <1>4, <1>6, <1>7

LEMMA HeardMore ==
  ASSUME NEW s \in Seq(Units), NEW x \in Units
  PROVE  LET a == Len(s) \div Size
         IN  \/ HeardIn(Append(s, x)) = HeardIn(s)
             \/ /\ Len(s) + 1 = (a + 1) * Size
                /\ HeardIn(Append(s, x)) = Append(HeardIn(s), x[1])
  <1>1. PICK n \in Nat : n = Len(s)
    BY LenProperties
  <1>2. PICK a \in Nat, r \in 0..(Size - 1) : a = n \div Size /\ n = a * Size + r
    BY PlaceOf
  <1>3. PICK t \in Seq(Units) : t = Append(s, x)
    BY AppendProperties
  <1>4. Len(t) = n + 1 /\ t[n + 1] = x /\ \A i \in 1..n : t[i] = s[i]
    BY <1>1, <1>3, AppendProperties
  <1>5. /\ HeardIn(s) \in Seq(Nat) /\ Len(HeardIn(s)) = a
        /\ \A i \in 1..a : i * Size \in 1..n /\ HeardIn(s)[i] = s[i * Size][1]
    BY <1>1, <1>2, HeardType
  <1>6. PICK b \in Nat : b = (n + 1) \div Size
    BY PlaceOf
  <1>7. /\ HeardIn(t) \in Seq(Nat) /\ Len(HeardIn(t)) = b
        /\ \A i \in 1..b : HeardIn(t)[i] = t[i * Size][1]
    BY <1>4, <1>6, HeardType
  <1>8. \A i \in 1..a : t[i * Size][1] = HeardIn(s)[i]
    BY <1>4, <1>5
  <1>u. PICK u \in Nat : u = a * Size
    BY Units1
  <1>9. CASE r < Size - 1
    <2>1. n + 1 = u + (r + 1) /\ r + 1 \in 0..(Size - 1)
      BY <1>2, <1>9, <1>u, SizesAssumption
    <2>2. b = a
      BY <2>1, <1>6, <1>u, Places
    <2>3. HeardIn(t) = HeardIn(s)
      BY <2>2, <1>5, <1>7, <1>8, SeqEqual
    <2> QED
      BY <2>3, <1>3
  <1>10. CASE r = Size - 1
    <2>1. PICK v \in Nat : v = (a + 1) * Size
      <3>1. a + 1 \in Nat
        OBVIOUS
      <3>2. (a + 1) * Size \in Nat
        BY <3>1, Units1
      <3> QED
        BY <3>2
    <2>2. v = u + Size
      BY <2>1, <1>u, Units1
    <2>3. n + 1 = v + 0 /\ 0 \in 0..(Size - 1)
      BY <2>2, <1>2, <1>10, <1>u, SizesAssumption
    <2>4. b = a + 1
      <3>1. a + 1 \in Nat
        OBVIOUS
      <3> QED
        BY <3>1, <2>1, <2>3, <1>6, Places
    <2>5. HeardIn(t)[a + 1] = x[1]
      BY <2>1, <2>3, <2>4, <1>4, <1>7
    <2>6. x[1] \in Nat
      BY DEF Units
    <2>7. /\ Append(HeardIn(s), x[1]) \in Seq(Nat) /\ Len(Append(HeardIn(s), x[1])) = a + 1
          /\ \A i \in 1..a : Append(HeardIn(s), x[1])[i] = HeardIn(s)[i]
          /\ Append(HeardIn(s), x[1])[a + 1] = x[1]
      BY <1>5, <2>6, AppendProperties
    <2>8. \A i \in 1..(a + 1) : HeardIn(t)[i] = Append(HeardIn(s), x[1])[i]
      <3>1. \A i \in 1..(a + 1) : i \in 1..a \/ i = a + 1
        OBVIOUS
      <3>2. \A i \in 1..a : i \in 1..b
        BY <2>4
      <3> QED
        BY <3>1, <3>2, <2>5, <2>7, <1>7, <1>8
    <2>9. HeardIn(t) = Append(HeardIn(s), x[1])
      BY <2>4, <2>7, <2>8, <1>7, SeqEqual
    <2>10. n + 1 = (a + 1) * Size
      BY <2>1, <2>3
    <2> QED
      BY <2>9, <2>10, <1>1, <1>2, <1>3
  <1> QED
    BY <1>9, <1>10, SizesAssumption

\* What the room shows.
Joined == [c \in Conns |-> IF state[c] = "none" THEN -1 ELSE since[c]]
Heard  == [c \in Conns |-> Seen(c)]

LEMMA SeenIsHeard == \A c \in Conns : Heard[c] = HeardIn(got[c])
  BY DEF Heard, Seen, HeardIn

\* A unit that completes a packet is the next message for its peer.
LEMMA TakeIsHear ==
  ASSUME Inv, Streams, Speech, NEW c \in Conns, Takes(c)
  PROVE  [Room!Hear(c)]_(Room!roomVars)
  <1>t. Tables /\ Control /\ Net
    BY TypeParts DEF Inv
  <1>s. /\ tx[c] \in Seq(Units) /\ got[c] \in Seq(Units) /\ pushed[c] \in Seq(Nat)
        /\ Intact(c) /\ Numbered(c) /\ sock[c] = "open"
    BY Sizes DEF Streams, Speech, Intact, Ends, Takes
  <1>1. /\ tx[c] # <<>> /\ got' = [got EXCEPT ![c] = Append(@, Head(tx[c]))]
        /\ UNCHANGED <<log, since, state>>
    BY DEF Takes
  <1>2. PICK x \in Units : x = Head(tx[c]) /\ x = tx[c][1]
    BY <1>1, <1>s, HeadTailProperties
  <1>3. /\ got'[c] = Append(got[c], x) /\ \A d \in Conns \ {c} : got'[d] = got[d]
    BY <1>1, <1>2, <1>t DEF Net
  <1>4. Heard' = [Heard EXCEPT ![c] = HeardIn(Append(got[c], x))]
    <2>1. \A d \in Conns : Heard'[d] = HeardIn(got'[d])
      BY DEF Heard, Seen, HeardIn
    <2>2. Heard' = [d \in Conns |-> Heard'[d]] /\ Heard = [d \in Conns |-> Heard[d]]
      BY DEF Heard
    <2>3. \A d \in Conns : Heard'[d] = [Heard EXCEPT ![c] = HeardIn(Append(got[c], x))][d]
      BY <2>1, <2>2, <1>3, SeenIsHeard
    <2> QED
      BY <2>2, <2>3
  <1>5. Joined' = Joined /\ log' = log
    BY <1>1 DEF Joined
  <1>6. PICK a \in Nat : a = Len(got[c]) \div Size
    BY <1>s, LenProperties, PlaceOf
  <1>7. CASE HeardIn(Append(got[c], x)) = HeardIn(got[c])
    <2>1. Heard' = Heard
      BY <1>4, <1>7, SeenIsHeard DEF Heard
    <2> QED
      BY <2>1, <1>5 DEF Room!roomVars, Joined, Heard
  <1>8. CASE /\ Len(got[c]) + 1 = (a + 1) * Size
             /\ HeardIn(Append(got[c], x)) = Append(HeardIn(got[c]), x[1])
    <2>1. PICK p \in Nat, s \in Nat, l \in Nat, g \in Nat :
             p = Len(pushed[c]) /\ s = since[c] /\ l = Len(log) /\ g = Len(got[c])
      BY <1>s, <1>t, LenProperties DEF Control
    <2>2. g + 1 \in 1..(p * Size) /\ x = Unit(pushed[c], g + 1)
      <3>1. PICK t \in Nat \ {0}, h \in Nat, n \in Nat :
               t = Len(tx[c]) /\ h = Handed(c) /\ n = p * Size /\ h <= n
        BY <1>1, <1>s, <2>1, EmptySeq, HandedPushed, Units1 DEF Intact
      <3>2. g + t = h /\ \A k \in 1..t : tx[c][k] = Unit(pushed[c], g + k)
        BY <1>s, <2>1, <3>1 DEF Intact, Passed
      <3>3. 1 \in 1..t /\ g + 1 <= n
        BY <3>1, <3>2
      <3> QED
        BY <3>1, <3>2, <3>3, <1>2
    <2>3. a + 1 \in 1..p /\ x[1] = pushed[c][a + 1]
      <3>1. (g + 1) - 1 = g /\ g \div Size = a
        BY <2>1, <1>6
      <3>2. ((g + 1) - 1) \div Size + 1 \in 1..p
        BY <2>2, Within
      <3> QED
        BY <2>2, <3>1, <3>2 DEF Unit
    <2>4. x[1] = s + (a + 1)
      BY <2>1, <2>3, <1>s DEF Numbered
    <2>5. state[c] # "none"
      <3>1. pushed[c] # <<>>
        BY <2>1, <2>3, EmptySeq
      <3> QED
        BY <3>1, <1>s DEF Numbered
    <2>6. s + (a + 1) <= l
      <3>1. PICK y \in {0, 1} : s + p + y = l
        BY <2>1, <2>5, <1>s, <1>t DEF Tables, Numbered
      <3> QED
        BY <2>3, <3>1
    <2>7. Len(HeardIn(got[c])) = a
      BY <1>s, <1>6, HeardType
    <2>8. Joined[c] = s /\ s # -1
      BY <2>1, <2>5 DEF Joined
    <2>9. Joined[c] + Len(Heard[c]) + 1 = x[1]
      <3>1. s + a + 1 = s + (a + 1)
        OBVIOUS
      <3> QED
        BY <2>4, <2>7, <2>8, <3>1, SeenIsHeard
    <2>10. Heard' = [Heard EXCEPT ![c] = Append(@, x[1])]
      BY <1>4, <1>8, SeenIsHeard DEF Heard
    <2> QED
      BY <2>1, <2>4, <2>6, <2>8, <2>9, <2>10, <1>5 DEF Room!Hear, Joined, Heard
  <1> QED
    BY <1>7, <1>8, <1>6, <1>s, HeardMore

\* The room is what the clients of the program see: every step of the reactor is
\* a Join, a Speak, a Hear or nothing (test_multi.cpp:54-73 over conn.cpp and
\* server.cpp).
THEOREM RoomImplemented == Spec => RoomSpec
  <1>1. Init => Room!Init
    <2> SUFFICES ASSUME Init PROVE Room!Init
      OBVIOUS
    <2>1. Joined = [c \in Conns |-> -1] /\ log = <<>>
      BY DEF Init, Joined
    <2>2. ASSUME NEW c \in Conns PROVE Heard[c] = <<>>
      <3>1. got[c] = <<>> /\ Len(got[c]) = 0 /\ got[c] \in Seq(Units)
        BY EmptySeq DEF Init
      <3>2. 0 \div Size = 0
        BY SizesAssumption
      <3>3. HeardIn(got[c]) \in Seq(Nat) /\ Len(HeardIn(got[c])) = 0
        BY <3>1, <3>2, HeardType
      <3>4. HeardIn(got[c]) = <<>>
        BY <3>3, EmptySeq
      <3> QED
        BY <3>4, SeenIsHeard
    <2>3. Heard = [c \in Conns |-> <<>>]
      BY <2>2 DEF Heard
    <2> QED
      BY <2>1, <2>3 DEF Room!Init, Joined, Heard
  <1>2. Inv /\ Streams /\ Speech /\ [Next]_vars => [Room!Next]_(Room!roomVars)
    <2> SUFFICES ASSUME Inv, Streams, Speech, [Next]_vars
                 PROVE  [Room!Next]_(Room!roomVars)
      OBVIOUS
    <2>t. Tables /\ Control
      BY TypeParts DEF Inv
    <2>1. CASE Rests
      <3>1. Joined' = Joined /\ log' = log /\ Heard' = Heard
        BY <2>1 DEF Rests, Joined, Heard, Seen
      <3> QED
        BY <3>1 DEF Room!roomVars, Joined, Heard
    <2>2. ASSUME NEW c \in Conns, Says(c) PROVE Room!Speak(c)
      <3>1. Joined' = Joined /\ Heard' = Heard /\ log' = Append(log, c)
        BY <2>2 DEF Says, Joined, Heard, Seen
      <3>2. Joined[c] \in Nat
        BY <2>2, <2>t DEF Says, Joined, Tables, Control
      <3>3. Joined[c] # -1
        BY <3>2
      <3> QED
        BY <3>1, <3>3 DEF Room!Speak, Joined, Heard
    <2>3. ASSUME NEW c \in Conns, Lets(c) PROVE Room!Join(c)
      <3>1. Joined[c] = -1 /\ Heard' = Heard /\ log' = log
        BY <2>3 DEF Lets, Joined, Heard, Seen
      <3>2. \A d \in Conns : Joined'[d] = [Joined EXCEPT ![c] = Len(log)][d]
        BY <2>3, <2>t DEF Lets, Joined, Tables, Control
      <3>3. Joined' = [Joined EXCEPT ![c] = Len(log)]
        BY <3>2 DEF Joined
      <3> QED
        BY <3>1, <3>3 DEF Room!Join, Joined, Heard
    <2>4. ASSUME NEW c \in Conns, Sends(c) PROVE UNCHANGED Room!roomVars
      <3>1. Joined' = Joined /\ Heard' = Heard /\ log' = log
        BY <2>4 DEF Sends, Joined, Heard, Seen
      <3> QED
        BY <3>1 DEF Room!roomVars, Joined, Heard
    <2>5. ASSUME NEW c \in Conns, Takes(c) PROVE [Room!Hear(c)]_(Room!roomVars)
      BY <2>5, TakeIsHear
    <2> QED
      BY <2>1, <2>2, <2>3, <2>4, <2>5, RoomKinds DEF Room!Next
  <1> QED
    BY <1>1, <1>2, InductiveInvariant, InductiveStreams, InductiveSpeech, PTL
    DEF Spec, RoomSpec, Room!Spec
=============================================================================
