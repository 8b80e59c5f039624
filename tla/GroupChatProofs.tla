--------------------------- MODULE GroupChatProofs ---------------------------
(***************************************************************************)
(* Who is told what is said in a group, for any number of users, groups,   *)
(* connections and messages.                                               *)
(*                                                                         *)
(* A message goes where the members' routes lead, so the invariant follows *)
(* a route to the client at its end: Peers says that the server takes a    *)
(* connection for the user whose client it is, and Heard that no packet    *)
(* outlives the connection it was sent on. Then comes the order in which   *)
(* clients hear messages, and last what their windows list.                *)
(***************************************************************************)
EXTENDS GroupChat, FiniteSetTheorems, SequenceTheorems, TLAPS

Peers ==
    /\ CM!TypeOK /\ CM!RouteSound
    /\ peer \in [Fds -> Users \cup {NoUser}] /\ alive \subseteq connections
    /\ \A f \in Fds : f \in connections <=> peer[f] # NoUser
    /\ \A f \in Fds : userOf[f] # NoUser => userOf[f] = peer[f]

Grps ==
    /\ created \in 0..MaxGroups
    /\ members \in [GroupIds -> SUBSET Users]
    /\ \A g \in GroupIds : g > created => members[g] = {}

Packets ==
    /\ up \in [Fds -> Seq(Request)] /\ down \in [Fds -> Seq(Reply)]
    /\ \A f \in Fds \ alive : down[f] = <<>>

Windows ==
    /\ userId \subseteq Users /\ late \subseteq Users
    /\ groupModel \in [Users -> Seq(GroupIds)]
    /\ accepted \in 0..MaxConnects

Heard ==
    /\ audience \in Seq(SUBSET Users)
    /\ \A f \in Fds : \A i \in DOMAIN down[f] :
         down[f][i].op = "chat" =>
            down[f][i].id \in DOMAIN audience /\ peer[f] \in audience[down[f][i].id]
    /\ got \in [Users -> Seq(DOMAIN audience)]
    /\ \A u \in Users : \A i \in DOMAIN got[u] : u \in audience[got[u][i]]

Inv == Peers /\ Grps /\ Packets /\ Windows /\ Heard

LEMMA NoUserIsNone == NoUser = 0 /\ NoConn = -1 /\ NoUser \notin Users /\ NoConn \notin Fds
  BY UsersBound, FdsBound DEF NoUser, NoConn, CM!NoUser, CM!NoConn

LEMMA InitInv == Init => Inv
  <1> SUFFICES ASSUME Init PROVE Inv
    OBVIOUS
  <1> USE DEF Init
  <1>e. Len(<<>>) = 0 /\ DOMAIN <<>> = {} /\ \A S : <<>> \in Seq(S)
    BY EmptySeq
  <1>1. Peers
    BY NoUserIsNone DEF Peers, CM!Init, CM!TypeOK, CM!RouteSound, NoUser, NoConn
  <1>2. Grps
    BY Bounds DEF Grps
  <1>3. Packets
    BY <1>e DEF Packets
  <1>4. Windows
    BY <1>e, Bounds DEF Windows
  <1>5. Heard
    BY <1>e DEF Heard
  <1> QED
    BY <1>1, <1>2, <1>3, <1>4, <1>5 DEF Inv

-----------------------------------------------------------------------------
(* Requests and packets.                                                   *)

LEMMA RequestFields ==
  ASSUME NEW r \in Request
  PROVE  /\ r.op \in {"join", "leave", "chat"} => r.group \in GroupIds
         /\ r.op \in {"login", "create", "list", "join", "leave", "chat"}
  BY DEF Request

LEMMA ReplyFields ==
  ASSUME NEW p \in Reply
  PROVE  /\ p.op \in {"created", "joined"} => p.group \in GroupIds
         /\ p.op = "groups" => p.groups \in Seq(GroupIds)
         /\ p.op = "chat" => p.group \in GroupIds /\ p.id \in Nat
  BY DEF Reply

\* The head of a queue that is served.
LEMMA Served ==
  ASSUME Packets, NEW f \in Fds, up[f] # <<>>, up' = [up EXCEPT ![f] = Tail(@)]
  PROVE  /\ up' \in [Fds -> Seq(Request)]
         /\ Head(up[f]) \in Request
  <1>1. up[f] \in Seq(Request)
    BY DEF Packets
  <1>2. Head(up[f]) \in Request /\ Tail(up[f]) \in Seq(Request)
    BY <1>1, HeadTailProperties
  <1> QED
    BY <1>2 DEF Packets

\* What Send does to a queue.
LEMMA Sent ==
  ASSUME Packets, NEW fs, NEW p \in Reply, Send(fs, p)
  PROVE  /\ down' \in [Fds -> Seq(Reply)]
         /\ \A f \in Fds \ alive : down'[f] = <<>>
         /\ \A f \in Fds : \A i \in DOMAIN down'[f] :
              \/ i \in DOMAIN down[f] /\ down'[f][i] = down[f][i]
              \/ f \in fs \cap alive /\ down'[f][i] = p /\ i = Len(down[f]) + 1
  <1>1. ASSUME NEW f \in Fds
        PROVE  /\ down'[f] = IF f \in fs \cap alive THEN Append(down[f], p) ELSE down[f]
               /\ Append(down[f], p) \in Seq(Reply)
               /\ \A i \in DOMAIN Append(down[f], p) :
                    \/ i \in DOMAIN down[f] /\ Append(down[f], p)[i] = down[f][i]
                    \/ Append(down[f], p)[i] = p /\ i = Len(down[f]) + 1
    <2>1. down[f] \in Seq(Reply)
      BY DEF Packets
    <2>2. /\ Append(down[f], p) \in Seq(Reply)
          /\ Len(Append(down[f], p)) = Len(down[f]) + 1
          /\ \A i \in 1..Len(down[f]) : Append(down[f], p)[i] = down[f][i]
          /\ Append(down[f], p)[Len(down[f]) + 1] = p
      BY <2>1, AppendProperties
    <2>3. /\ Len(down[f]) \in Nat /\ DOMAIN down[f] = 1..Len(down[f])
          /\ DOMAIN Append(down[f], p) = 1..(Len(down[f]) + 1)
      BY <2>1, <2>2, LenProperties
    <2>4. \A i \in 1..(Len(down[f]) + 1) : i \in 1..Len(down[f]) \/ i = Len(down[f]) + 1
      BY <2>3
    <2>5. down'[f] = IF f \in fs \cap alive THEN Append(down[f], p) ELSE down[f]
      BY DEF Send
    <2> QED
      BY <2>2, <2>3, <2>4, <2>5
  <1>2. down' \in [Fds -> Seq(Reply)]
    BY <1>1 DEF Send, Packets
  <1> QED
    BY <1>1, <1>2 DEF Packets

\* The head of a stream that a client reads.
LEMMA Taken ==
  ASSUME Packets, NEW f \in Fds, down[f] # <<>>, down' = [down EXCEPT ![f] = Tail(@)]
  PROVE  /\ down' \in [Fds -> Seq(Reply)]
         /\ Head(down[f]) \in Reply /\ 1 \in DOMAIN down[f] /\ Head(down[f]) = down[f][1]
         /\ \A g \in Fds : \A i \in DOMAIN down'[g] :
              \E j \in DOMAIN down[g] : down'[g][i] = down[g][j]
  <1>1. down[f] \in Seq(Reply)
    BY DEF Packets
  <1>2. /\ Head(down[f]) \in Reply /\ Tail(down[f]) \in Seq(Reply)
        /\ Len(Tail(down[f])) = Len(down[f]) - 1
        /\ \A i \in 1..Len(Tail(down[f])) : Tail(down[f])[i] = down[f][i + 1]
    BY <1>1, HeadTailProperties
  <1>3. /\ Len(down[f]) \in Nat \ {0} /\ DOMAIN down[f] = 1..Len(down[f])
        /\ DOMAIN Tail(down[f]) = 1..Len(Tail(down[f]))
    BY <1>1, <1>2, EmptySeq, LenProperties
  <1>4. \A i \in 1..Len(Tail(down[f])) : i + 1 \in 1..Len(down[f])
    BY <1>2, <1>3
  <1>5. 1 \in DOMAIN down[f] /\ Head(down[f]) = down[f][1]
    BY <1>1, <1>3
  <1>6. down' \in [Fds -> Seq(Reply)]
    BY <1>2 DEF Packets
  <1>7. down'[f] = Tail(down[f]) /\ \A g \in Fds \ {f} : down'[g] = down[g]
    BY DEF Packets
  <1> QED
    BY <1>2, <1>3, <1>4, <1>5, <1>6, <1>7

-----------------------------------------------------------------------------
(* Connections and the users the server takes them for.                    *)

LEMMA PeersStep == Inv /\ [Next]_vars => Peers'
  <1> SUFFICES ASSUME Inv, [Next]_vars PROVE Peers'
    OBVIOUS
  <1>n. NoUser = 0 /\ NoConn = -1 /\ NoUser \notin Users /\ NoConn \notin Fds
    BY NoUserIsNone
  <1>u. UNCHANGED <<cmVars, peer, alive>> => Peers'
    BY DEF Inv, Peers, cmVars, CM!TypeOK, CM!RouteSound
  <1>1. CASE Restart
    BY <1>1, <1>n DEF Restart, Peers, CM!Restart, CM!TypeOK, CM!RouteSound, CM!NoUser, CM!NoConn
  <1>2. ASSUME NEW f \in Fds, Login(f) PROVE Peers'
    <2>1. /\ f \in connections /\ UNCHANGED <<connections, peer, alive>>
          /\ userOf' = [userOf EXCEPT ![f] = peer[f]]
          /\ userToConn' = [userToConn EXCEPT ![peer[f]] = f]
      BY <1>2 DEF Login, Serving, CM!AuthenticateConnection
    <2>2. peer[f] \in Users
      BY <2>1 DEF Inv, Peers
    <2> QED
      BY <2>1, <2>2, <1>n DEF Inv, Peers, CM!TypeOK, CM!RouteSound, CM!NoUser, CM!NoConn,
         NoUser, NoConn
  <1>3. ASSUME NEW f \in Fds, CreateGroup(f) \/ JoinGroup(f) \/ LeaveGroup(f)
                                \/ ListGroups(f) \/ ChatGroup(f) \/ Refuse(f)
        PROVE  Peers'
    BY <1>3, <1>u DEF CreateGroup, JoinGroup, LeaveGroup, ListGroups, ChatGroup, Refuse,
       Serving
  <1>4. ASSUME NEW f \in Fds, Close(f) PROVE Peers'
    <2>1. /\ f \notin alive /\ UNCHANGED alive
          /\ peer' = [peer EXCEPT ![f] = NoUser]
          /\ CM!RemoveConnection(f)
      BY <1>4 DEF Close
    <2> QED
      BY <2>1, <1>n DEF Inv, Peers, CM!RemoveConnection, CM!ForgetRoute, CM!Authenticated,
         CM!TypeOK, CM!RouteSound, CM!NoUser, CM!NoConn, NoUser, NoConn
  <1>5. ASSUME NEW f \in Fds, LoggedIn(f) \/ Joined(f) \/ Created(f) \/ GroupsListReceived(f)
                                \/ GroupMessageReceived(f) \/ Notified(f)
        PROVE  Peers'
    BY <1>5, <1>u DEF LoggedIn, Joined, Created, GroupsListReceived, GroupMessageReceived,
       Notified, Arrives
  <1>6. ASSUME NEW f \in Fds, Disconnect(f) PROVE Peers'
    <2>1. alive' \subseteq alive /\ UNCHANGED <<cmVars, peer>>
      BY <1>6 DEF Disconnect
    <2> QED
      BY <2>1 DEF Inv, Peers, cmVars, CM!TypeOK, CM!RouteSound
  <1>7. ASSUME NEW f \in Fds, NEW u \in Users, Connect(u, f) PROVE Peers'
    <2>1. /\ f \notin connections /\ alive' = alive \cup {f}
          /\ peer' = [peer EXCEPT ![f] = u]
          /\ CM!AddConnection(f)
      BY <1>7 DEF Connect
    <2> QED
      BY <2>1, <1>n DEF Inv, Peers, CM!AddConnection, CM!TypeOK, CM!RouteSound, CM!NoUser,
         CM!NoConn, NoUser, NoConn
  <1>8. ASSUME NEW f \in Fds, NEW u \in Users, Ask(u, f) PROVE Peers'
    BY <1>8, <1>u DEF Ask
  <1>9. CASE UNCHANGED vars
    BY <1>9, <1>u DEF vars, netVars
  <1> QED
    BY <1>1, <1>2, <1>3, <1>4, <1>5, <1>6, <1>7, <1>8, <1>9 DEF Next, Server, Client

\* The user of a connection is the user of its client.
LEMMA MeIsPeer ==
  ASSUME Peers, NEW f \in Fds, Me(f) # NoUser
  PROVE  Me(f) \in Users /\ Me(f) = peer[f]
  BY NoUserIsNone DEF Peers, Me, CM!UserOn, CM!TypeOK, CM!NoUser, NoUser

\* A route of a member leads to that member's client.
LEMMA RoutesReachMembers ==
  ASSUME Peers, Grps, NEW g \in GroupIds, NEW f \in Routes(g)
  PROVE  f \in Fds /\ peer[f] \in members[g]
  <1>1. PICK u \in members[g] : f = userToConn[u] /\ f \in connections
    BY DEF Routes, CM!ConnectionOf
  <1>2. u \in Users /\ f \in Fds
    BY <1>1 DEF Grps, Peers, CM!TypeOK
  <1>3. userOf[f] = u
    BY <1>1, <1>2, NoUserIsNone DEF Peers, CM!RouteSound, NoConn
  <1> QED
    BY <1>1, <1>2, <1>3, NoUserIsNone DEF Peers

-----------------------------------------------------------------------------
(* Groups.                                                                 *)

LEMMA GrpsStep == Inv /\ [Next]_vars => Grps'
  <1> SUFFICES ASSUME Inv, [Next]_vars PROVE Grps'
    OBVIOUS
  <1>u. UNCHANGED groupVars => Grps'
    BY DEF Inv, Grps, groupVars
  <1>1. CASE Restart
    BY <1>1, Bounds DEF Restart, Grps
  <1>2. ASSUME NEW f \in Fds, Login(f) \/ ListGroups(f) \/ ChatGroup(f) \/ Refuse(f) \/ Close(f)
        PROVE  Grps'
    BY <1>2, <1>u DEF Login, ListGroups, ChatGroup, Refuse, Close
  <1>3. ASSUME NEW f \in Fds, CreateGroup(f) PROVE Grps'
    <2>1. /\ created < MaxGroups /\ created' = created + 1
          /\ members' = [members EXCEPT ![created + 1] = {Me(f)}]
          /\ Me(f) \in Users
      BY <1>3, MeIsPeer DEF CreateGroup, Inv
    <2> QED
      BY <2>1, Bounds DEF Inv, Grps, GroupIds
  <1>4. ASSUME NEW f \in Fds, JoinGroup(f) PROVE Grps'
    <2>1. /\ Group(f) <= created /\ UNCHANGED created
          /\ members' = [members EXCEPT ![Group(f)] = @ \cup {Me(f)}]
          /\ Me(f) \in Users
      BY <1>4, MeIsPeer DEF JoinGroup, Inv
    <2>2. Group(f) \in GroupIds
      BY <1>4, Served, RequestFields DEF JoinGroup, Serving, Group, Inv
    <2> QED
      BY <2>1, <2>2, Bounds DEF Inv, Grps, GroupIds
  <1>5. ASSUME NEW f \in Fds, LeaveGroup(f) PROVE Grps'
    <2>1. /\ UNCHANGED created
          /\ members' = [members EXCEPT ![Group(f)] = @ \ {Me(f)}]
      BY <1>5 DEF LeaveGroup
    <2> QED
      BY <2>1 DEF Inv, Grps
  <1>6. ASSUME NEW f \in Fds, Client(f) PROVE Grps'
    BY <1>6, <1>u DEF Client, LoggedIn, Joined, Created, GroupsListReceived,
       GroupMessageReceived, Notified, Arrives, Disconnect, Connect, Ask
  <1>7. CASE UNCHANGED vars
    BY <1>7, <1>u DEF vars
  <1> QED
    BY <1>1, <1>2, <1>3, <1>4, <1>5, <1>6, <1>7 DEF Next, Server

-----------------------------------------------------------------------------
(* The streams.                                                            *)

LEMMA InOrderType ==
  ASSUME NEW S \in SUBSET GroupIds, NEW s \in InOrder(S)
  PROVE  s \in Seq(GroupIds)
  <1>1. IsFiniteSet(GroupIds)
    BY Bounds, FS_Interval DEF GroupIds
  <1>2. Cardinality(S) \in Nat
    BY <1>1, FS_Subset, FS_CardinalityType
  <1>3. s \in [1..Cardinality(S) -> GroupIds]
    BY DEF InOrder
  <1> QED
    BY <1>2, <1>3, SeqDef

\* An answer of the server to the request it has taken.
LEMMA AnswerPackets ==
  ASSUME Packets, NEW f \in Fds, up[f] # <<>>, up' = [up EXCEPT ![f] = Tail(@)],
         UNCHANGED alive, NEW fs, NEW p \in Reply, Send(fs, p)
  PROVE  Packets'
  BY Served, Sent DEF Packets

LEMMA PacketsStep == Inv /\ [Next]_vars => Packets'
  <1> SUFFICES ASSUME Inv, [Next]_vars PROVE Packets'
    OBVIOUS
  <1>i. Packets /\ Windows /\ Peers
    BY DEF Inv
  <1>u. UNCHANGED <<up, down, alive>> => Packets'
    BY <1>i DEF Packets
  <1>e. \A S : <<>> \in Seq(S)
    BY EmptySeq
  <1>s. ASSUME NEW f \in Fds, NEW op, Serving(f, op), op \in {"join", "leave", "chat"}
        PROVE  Group(f) \in GroupIds
    BY <1>s, <1>i, Served, RequestFields DEF Serving, Group
  <1>1. CASE Restart
    BY <1>1, <1>e DEF Restart, Packets
  <1>2. ASSUME NEW f \in Fds, Login(f) \/ CreateGroup(f) \/ JoinGroup(f) \/ LeaveGroup(f)
                                \/ ListGroups(f) \/ ChatGroup(f) \/ Refuse(f)
        PROVE  Packets'
    <2>1. /\ up[f] # <<>> /\ up' = [up EXCEPT ![f] = Tail(@)] /\ UNCHANGED alive
      BY <1>2 DEF Login, CreateGroup, JoinGroup, LeaveGroup, ListGroups, ChatGroup, Refuse,
         Serving
    <2>2. \E p \in Reply : \E fs : Send(fs, p)
      <3>1. CASE Login(f) \/ LeaveGroup(f) \/ Refuse(f)
        <4>1. \A op \in {"login", "left", "error"} : [op |-> op] \in Reply
          BY DEF Reply
        <4> QED
          BY <3>1, <4>1 DEF Login, LeaveGroup, Refuse
      <3>2. CASE CreateGroup(f)
        <4>1. created + 1 \in GroupIds
          BY <3>2, Bounds DEF CreateGroup, Inv, Grps, GroupIds
        <4>2. [op |-> "created", group |-> created + 1] \in Reply
          BY <4>1 DEF Reply
        <4> QED
          BY <3>2, <4>2 DEF CreateGroup
      <3>3. CASE JoinGroup(f)
        <4>1. [op |-> "joined", group |-> Group(f)] \in Reply
          BY <3>3, <1>s DEF Reply, JoinGroup
        <4> QED
          BY <3>3, <4>1 DEF JoinGroup
      <3>4. CASE ListGroups(f)
        <4>1. PICK gs \in InOrder(GroupsOf(Me(f))) :
                 Send({f}, [op |-> "groups", groups |-> gs])
          BY <3>4 DEF ListGroups
        <4>2. gs \in Seq(GroupIds)
          BY <4>1, InOrderType DEF GroupsOf
        <4>3. [op |-> "groups", groups |-> gs] \in Reply
          BY <4>2 DEF Reply
        <4> QED
          BY <4>1, <4>3
      <3>5. CASE ChatGroup(f)
        <4>1. Len(audience) + 1 \in Nat
          BY LenProperties DEF Inv, Heard
        <4>2. [op |-> "chat", group |-> Group(f), id |-> Len(audience) + 1] \in Reply
          BY <3>5, <4>1, <1>s DEF Reply, ChatGroup
        <4> QED
          BY <3>5, <4>2 DEF ChatGroup
      <3> QED
        BY <1>2, <3>1, <3>2, <3>3, <3>4, <3>5
    <2> QED
      BY <2>1, <2>2, <1>i, AnswerPackets
  <1>3. ASSUME NEW f \in Fds, Close(f) PROVE Packets'
    BY <1>3, <1>e, <1>i DEF Close, Packets
  <1>4. ASSUME NEW f \in Fds, LoggedIn(f) \/ Joined(f) \/ Created(f) \/ GroupsListReceived(f)
                                \/ GroupMessageReceived(f) \/ Notified(f)
        PROVE  Packets'
    <2>1. /\ f \in alive /\ down[f] # <<>> /\ down' = [down EXCEPT ![f] = Tail(@)]
          /\ UNCHANGED alive
          /\ up' = up \/ up' = [up EXCEPT ![f] = Append(@, [op |-> "list"])]
      BY <1>4 DEF LoggedIn, Joined, Created, GroupsListReceived, GroupMessageReceived,
         Notified, Arrives
    <2>2. Append(up[f], [op |-> "list"]) \in Seq(Request)
      <3>1. [op |-> "list"] \in Request /\ up[f] \in Seq(Request)
        BY <1>i DEF Request, Packets
      <3> QED
        BY <3>1, AppendProperties
    <2>3. up' \in [Fds -> Seq(Request)]
      BY <2>1, <2>2, <1>i DEF Packets
    <2>4. down' \in [Fds -> Seq(Reply)]
      BY <2>1, <1>i, Taken
    <2> QED
      BY <2>1, <2>3, <2>4, <1>i DEF Packets
  <1>5. ASSUME NEW f \in Fds, Disconnect(f) PROVE Packets'
    BY <1>5, <1>e, <1>i DEF Disconnect, Packets
  <1>6. ASSUME NEW f \in Fds, NEW u \in Users, Connect(u, f) PROVE Packets'
    <2>1. /\ alive' = alive \cup {f} /\ UNCHANGED down
          /\ up' = [up EXCEPT ![f] = <<[op |-> "login"]>>]
      BY <1>6 DEF Connect
    <2>2. <<[op |-> "login"]>> \in Seq(Request)
      BY DEF Request
    <2> QED
      BY <2>1, <2>2, <1>i DEF Packets
  <1>7. ASSUME NEW f \in Fds, NEW u \in Users, Ask(u, f) PROVE Packets'
    <2>1. PICK r \in Wishes(u) : up' = [up EXCEPT ![f] = Append(@, r)]
      BY <1>7 DEF Ask
    <2>2. ToSet(groupModel[u]) \subseteq GroupIds
      BY <1>i DEF Windows, ToSet
    <2>3. r \in Request
      BY <2>1, <2>2 DEF Wishes, Request
    <2>4. Append(up[f], r) \in Seq(Request)
      BY <2>3, <1>i, AppendProperties DEF Packets
    <2> QED
      BY <1>7, <2>1, <2>4, <1>i DEF Ask, Packets
  <1>8. CASE UNCHANGED vars
    BY <1>8, <1>u DEF vars, netVars
  <1> QED
    BY <1>1, <1>2, <1>3, <1>4, <1>5, <1>6, <1>7, <1>8 DEF Next, Server, Client

-----------------------------------------------------------------------------
(* The windows, and the users whose groups changed late.                   *)

LEMMA WindowsStep == Inv /\ [Next]_vars => Windows'
  <1> SUFFICES ASSUME Inv, [Next]_vars PROVE Windows'
    OBVIOUS
  <1>i. Packets /\ Windows /\ Peers
    BY DEF Inv
  <1>u. UNCHANGED <<userId, groupModel, accepted, late>> => Windows'
    BY <1>i DEF Windows
  <1>c. ASSUME NEW f \in Fds, Me(f) \in Users, UNCHANGED <<userId, groupModel, accepted>>,
               Changed(f) \/ late' \subseteq late
        PROVE  Windows'
    BY <1>c, <1>i DEF Changed, Windows
  <1>1. CASE Restart
    BY <1>1, <1>i DEF Restart, Windows
  <1>2. ASSUME NEW f \in Fds, Login(f) \/ ChatGroup(f) \/ Refuse(f) \/ Close(f)
        PROVE  Windows'
    BY <1>2, <1>u DEF Login, ChatGroup, Refuse, Close, Serving, clientVars
  <1>3. ASSUME NEW f \in Fds, CreateGroup(f) \/ JoinGroup(f) \/ ListGroups(f)
        PROVE  Windows'
    <2>1. Me(f) \in Users
      BY <1>3, <1>i, MeIsPeer DEF CreateGroup, JoinGroup, ListGroups
    <2>2. UNCHANGED <<userId, groupModel, accepted>> /\ (Changed(f) \/ late' \subseteq late)
      BY <1>3 DEF CreateGroup, JoinGroup, ListGroups, Serving, clientVars
    <2> QED
      BY <2>1, <2>2, <1>c
  <1>4. ASSUME NEW f \in Fds, LeaveGroup(f) PROVE Windows'
    <2>1. Group(f) \in GroupIds
      BY <1>4, <1>i, Served, RequestFields DEF LeaveGroup, Serving, Group
    <2>2. Me(f) \in Users
      BY <1>4, <2>1 DEF LeaveGroup, Inv, Grps
    <2>3. UNCHANGED <<userId, groupModel, accepted>> /\ Changed(f)
      BY <1>4 DEF LeaveGroup, Serving, clientVars
    <2> QED
      BY <2>2, <2>3, <1>c
  <1>5. ASSUME NEW f \in Fds, LoggedIn(f) \/ Joined(f) \/ Created(f) \/ GroupsListReceived(f)
                                \/ GroupMessageReceived(f) \/ Notified(f)
        PROVE  Windows'
    <2>1. /\ f \in alive /\ down[f] # <<>> /\ down' = [down EXCEPT ![f] = Tail(@)]
          /\ UNCHANGED <<accepted, late>>
      BY <1>5 DEF LoggedIn, Joined, Created, GroupsListReceived, GroupMessageReceived,
         Notified, Arrives
    <2>2. peer[f] \in Users /\ Head(down[f]) \in Reply
      BY <2>1, <1>i, Taken, NoUserIsNone DEF Peers
    <2>3. CASE LoggedIn(f)
      BY <2>1, <2>2, <2>3, <1>i DEF LoggedIn, Windows
    <2>4. CASE Created(f)
      <3>1. Head(down[f]).group \in GroupIds /\ groupModel[peer[f]] \in Seq(GroupIds)
        BY <2>2, <2>4, <1>i, ReplyFields DEF Created, Arrives, Windows
      <3>2. Append(groupModel[peer[f]], Head(down[f]).group) \in Seq(GroupIds)
        BY <3>1, AppendProperties
      <3> QED
        BY <2>1, <2>4, <3>2, <1>i DEF Created, Windows
    <2>5. CASE GroupsListReceived(f)
      <3>1. Head(down[f]).groups \in Seq(GroupIds)
        BY <2>2, <2>5, ReplyFields DEF GroupsListReceived, Arrives
      <3> QED
        BY <2>1, <2>5, <3>1, <1>i DEF GroupsListReceived, Windows
    <2>6. CASE Joined(f) \/ GroupMessageReceived(f) \/ Notified(f)
      BY <2>1, <2>6, <1>u DEF Joined, GroupMessageReceived, Notified, clientVars
    <2> QED
      BY <1>5, <2>3, <2>4, <2>5, <2>6
  <1>6. ASSUME NEW f \in Fds, Disconnect(f) PROVE Windows'
    BY <1>6, <1>i DEF Disconnect, Windows
  <1>7. ASSUME NEW f \in Fds, NEW u \in Users, Connect(u, f) PROVE Windows'
    BY <1>7, <1>i, Bounds DEF Connect, Windows, clientVars
  <1>8. ASSUME NEW f \in Fds, NEW u \in Users, Ask(u, f) PROVE Windows'
    BY <1>8, <1>u DEF Ask, clientVars
  <1>9. CASE UNCHANGED vars
    BY <1>9, <1>u DEF vars, clientVars
  <1> QED
    BY <1>1, <1>2, <1>3, <1>4, <1>5, <1>6, <1>7, <1>8, <1>9 DEF Next, Server, Client

-----------------------------------------------------------------------------
(* Who is told.                                                            *)

\* Packets stay, go, or are no group messages; nobody joins a connection.
LEMMA QuietHeard ==
  ASSUME Heard, UNCHANGED <<audience, got>>,
         \A f \in Fds : \A i \in DOMAIN down'[f] :
            \/ peer'[f] = peer[f] /\ \E j \in DOMAIN down[f] : down'[f][i] = down[f][j]
            \/ down'[f][i].op # "chat"
  PROVE  Heard'
  BY DEF Heard

LEMMA HeardStep == Inv /\ [Next]_vars => Heard'
  <1> SUFFICES ASSUME Inv, [Next]_vars PROVE Heard'
    OBVIOUS
  <1>i. Packets /\ Heard /\ Peers /\ Grps
    BY DEF Inv
  <1>u. UNCHANGED <<audience, got, down, peer>> => Heard'
    BY <1>i DEF Heard
  <1>e. DOMAIN <<>> = {}
    BY EmptySeq
  <1>1. CASE Restart
    <2>1. UNCHANGED <<audience, got>> /\ \A f \in Fds : down'[f] = <<>>
      BY <1>1 DEF Restart
    <2> QED
      BY <2>1, <1>e, <1>i, QuietHeard
  <1>2. ASSUME NEW f \in Fds, NEW fs, NEW p \in Reply, p.op # "chat", Send(fs, p),
               UNCHANGED <<audience, got, peer>>
        PROVE  Heard'
    BY <1>2, <1>i, Sent, QuietHeard
  <1>3. ASSUME NEW f \in Fds, Login(f) \/ LeaveGroup(f) \/ Refuse(f) PROVE Heard'
    <2>1. \E op \in {"login", "left", "error"} : \E fs : Send(fs, [op |-> op])
      BY <1>3 DEF Login, LeaveGroup, Refuse
    <2>2. \A op \in {"login", "left", "error"} : [op |-> op] \in Reply /\ [op |-> op].op # "chat"
      BY DEF Reply
    <2>3. UNCHANGED <<audience, got, peer>>
      BY <1>3 DEF Login, LeaveGroup, Refuse, Serving, clientVars
    <2> QED
      BY <2>1, <2>2, <2>3, <1>2
  <1>4. ASSUME NEW f \in Fds, CreateGroup(f) PROVE Heard'
    <2>1. created + 1 \in GroupIds
      BY <1>4, <1>i, Bounds DEF CreateGroup, Grps, GroupIds
    <2>2. [op |-> "created", group |-> created + 1] \in Reply
      BY <2>1 DEF Reply
    <2>3. UNCHANGED <<audience, got, peer>>
      BY <1>4 DEF CreateGroup, Serving, clientVars
    <2>4. Send({f}, [op |-> "created", group |-> created + 1])
      BY <1>4 DEF CreateGroup
    <2> QED
      BY <2>2, <2>3, <2>4, <1>2
  <1>5. ASSUME NEW f \in Fds, JoinGroup(f) PROVE Heard'
    <2>1. Group(f) \in GroupIds
      BY <1>5, <1>i, Served, RequestFields DEF JoinGroup, Serving, Group
    <2>2. [op |-> "joined", group |-> Group(f)] \in Reply
      BY <2>1 DEF Reply
    <2>3. UNCHANGED <<audience, got, peer>>
      BY <1>5 DEF JoinGroup, Serving, clientVars
    <2>4. Send({f}, [op |-> "joined", group |-> Group(f)])
      BY <1>5 DEF JoinGroup
    <2> QED
      BY <2>2, <2>3, <2>4, <1>2
  <1>6. ASSUME NEW f \in Fds, ListGroups(f) PROVE Heard'
    <2>1. PICK gs \in InOrder(GroupsOf(Me(f))) : Send({f}, [op |-> "groups", groups |-> gs])
      BY <1>6 DEF ListGroups
    <2>2. gs \in Seq(GroupIds)
      BY <2>1, InOrderType DEF GroupsOf
    <2>3. [op |-> "groups", groups |-> gs] \in Reply
      BY <2>2 DEF Reply
    <2>4. UNCHANGED <<audience, got, peer>>
      BY <1>6 DEF ListGroups, Serving, clientVars
    <2> QED
      BY <2>1, <2>3, <2>4, <1>2
  <1>7. ASSUME NEW f \in Fds, ChatGroup(f) PROVE Heard'
    <2>1. Group(f) \in GroupIds
      BY <1>7, <1>i, Served, RequestFields DEF ChatGroup, Serving, Group
    <2>2. PICK n : n = Len(audience) + 1
      OBVIOUS
    <2>3. PICK A : A = members[Group(f)]
      OBVIOUS
    <2>4. A \subseteq Users
      BY <2>1, <2>3, <1>i DEF Grps
    <2>5. /\ audience' \in Seq(SUBSET Users)
          /\ n \in DOMAIN audience' /\ audience'[n] = A
          /\ \A m \in DOMAIN audience : m \in DOMAIN audience' /\ audience'[m] = audience[m]
      <3>1. audience \in Seq(SUBSET Users) /\ audience' = Append(audience, A)
        BY <1>7, <1>i, <2>3 DEF ChatGroup, Heard
      <3>2. /\ audience' \in Seq(SUBSET Users) /\ Len(audience') = Len(audience) + 1
            /\ \A m \in 1..Len(audience) : audience'[m] = audience[m]
            /\ audience'[Len(audience) + 1] = A
        BY <3>1, <2>4, AppendProperties
      <3>3. /\ Len(audience) \in Nat /\ DOMAIN audience = 1..Len(audience)
            /\ DOMAIN audience' = 1..(Len(audience) + 1)
        BY <3>1, <3>2, LenProperties
      <3> QED
        BY <3>2, <3>3, <2>2
    <2>6. n \in Nat
      BY <2>2, <1>i, LenProperties DEF Heard
    <2>7. PICK p : p = [op |-> "chat", group |-> Group(f), id |-> n]
      OBVIOUS
    <2>8. p \in Reply /\ p.id = n
      BY <2>1, <2>6, <2>7 DEF Reply
    <2>9. Send({f} \cup Routes(Group(f)), p) /\ UNCHANGED <<got, peer>>
      BY <1>7, <2>2, <2>7 DEF ChatGroup, Serving, clientVars
    <2>10. \A g \in {f} \cup Routes(Group(f)) : peer[g] \in A
      <3>1. peer[f] \in A
        <4>1. Me(f) \in A /\ Me(f) # NoUser
          BY <1>7, <2>3, <2>4, NoUserIsNone DEF ChatGroup
        <4> QED
          BY <4>1, <1>i, MeIsPeer
      <3>2. ASSUME NEW g \in Routes(Group(f)) PROVE peer[g] \in A
        BY <3>2, <2>1, <2>3, <1>i, RoutesReachMembers
      <3> QED
        BY <3>1, <3>2
    <2>11. ASSUME NEW g \in Fds, NEW i \in DOMAIN down'[g], down'[g][i].op = "chat"
           PROVE  down'[g][i].id \in DOMAIN audience' /\ peer'[g] \in audience'[down'[g][i].id]
      <3>1. CASE i \in DOMAIN down[g] /\ down'[g][i] = down[g][i]
        <4>1. down[g][i].id \in DOMAIN audience /\ peer[g] \in audience[down[g][i].id]
          BY <3>1, <2>11, <1>i DEF Heard
        <4> QED
          BY <3>1, <4>1, <2>5, <2>9
      <3>2. CASE g \in ({f} \cup Routes(Group(f))) \cap alive /\ down'[g][i] = p
        BY <3>2, <2>5, <2>8, <2>9, <2>10
      <3> QED
        BY <3>1, <3>2, <2>8, <2>9, <2>11, <1>i, Sent
    <2>12. got' \in [Users -> Seq(DOMAIN audience')]
      <3>1. ASSUME NEW u \in Users PROVE got[u] \in Seq(DOMAIN audience')
        <4>1. got[u] \in Seq(DOMAIN audience)
          BY <1>i DEF Heard
        <4>2. \A i \in 1..Len(got[u]) : got[u][i] \in DOMAIN audience'
          BY <4>1, <2>5, ElementOfSeq
        <4> QED
          BY <4>1, <4>2, LenProperties, SeqDef
      <3>2. got \in [Users -> Seq(DOMAIN audience)]
        BY <1>i DEF Heard
      <3> QED
        BY <3>1, <3>2, <2>9
    <2>13. ASSUME NEW u \in Users, NEW i \in DOMAIN got'[u] PROVE u \in audience'[got'[u][i]]
      <3>1. got[u] \in Seq(DOMAIN audience) /\ i \in DOMAIN got[u] /\ u \in audience[got[u][i]]
        BY <2>9, <1>i DEF Heard
      <3>2. got[u][i] \in DOMAIN audience
        BY <3>1, LenProperties, ElementOfSeq
      <3> QED
        BY <3>1, <3>2, <2>5, <2>9
    <2> QED
      BY <2>5, <2>11, <2>12, <2>13 DEF Heard
  <1>8. ASSUME NEW f \in Fds, Close(f) PROVE Heard'
    <2>1. UNCHANGED <<audience, got>> /\ down' = [down EXCEPT ![f] = <<>>]
          /\ peer' = [peer EXCEPT ![f] = NoUser]
      BY <1>8 DEF Close, clientVars
    <2>2. \A g \in Fds \ {f} : down'[g] = down[g] /\ peer'[g] = peer[g]
      BY <2>1, <1>i DEF Packets, Peers
    <2>3. DOMAIN down'[f] = {}
      BY <2>1, <1>e, <1>i DEF Packets
    <2> QED
      BY <2>1, <2>2, <2>3, <1>i, QuietHeard
  <1>9. ASSUME NEW f \in Fds, LoggedIn(f) \/ Joined(f) \/ Created(f) \/ GroupsListReceived(f)
                                \/ Notified(f)
        PROVE  Heard'
    <2>1. /\ down[f] # <<>> /\ down' = [down EXCEPT ![f] = Tail(@)]
          /\ UNCHANGED <<audience, got, peer>>
      BY <1>9 DEF LoggedIn, Joined, Created, GroupsListReceived, Notified, Arrives, clientVars
    <2> QED
      BY <2>1, <1>i, Taken, QuietHeard
  <1>10. ASSUME NEW f \in Fds, GroupMessageReceived(f) PROVE Heard'
    <2>1. /\ f \in alive /\ down[f] # <<>> /\ down' = [down EXCEPT ![f] = Tail(@)]
          /\ UNCHANGED <<audience, peer>> /\ Head(down[f]).op = "chat"
          /\ got' = [got EXCEPT ![peer[f]] = Append(@, Head(down[f]).id)]
      BY <1>10 DEF GroupMessageReceived, Arrives
    <2>2. PICK u : u = peer[f]
      OBVIOUS
    <2>3. PICK m : m = Head(down[f]).id
      OBVIOUS
    <2>4. u \in Users
      BY <2>1, <2>2, <1>i, NoUserIsNone DEF Peers
    <2>5. m \in DOMAIN audience /\ u \in audience[m]
      <3>1. 1 \in DOMAIN down[f] /\ Head(down[f]) = down[f][1]
        BY <2>1, <1>i, Taken
      <3> QED
        BY <3>1, <2>1, <2>2, <2>3, <1>i DEF Heard
    <2>6. got[u] \in Seq(DOMAIN audience)
      BY <2>4, <1>i DEF Heard
    <2>7. /\ Append(got[u], m) \in Seq(DOMAIN audience)
          /\ Len(Append(got[u], m)) = Len(got[u]) + 1
          /\ \A i \in 1..Len(got[u]) : Append(got[u], m)[i] = got[u][i]
          /\ Append(got[u], m)[Len(got[u]) + 1] = m
      BY <2>5, <2>6, AppendProperties
    <2>8. /\ DOMAIN got[u] = 1..Len(got[u]) /\ Len(got[u]) \in Nat
          /\ DOMAIN Append(got[u], m) = 1..(Len(got[u]) + 1)
      BY <2>6, <2>7, LenProperties
    <2>9. \A i \in 1..(Len(got[u]) + 1) : i \in 1..Len(got[u]) \/ i = Len(got[u]) + 1
      BY <2>8
    <2>10. \A i \in DOMAIN Append(got[u], m) : u \in audience[Append(got[u], m)[i]]
      BY <2>4, <2>5, <2>7, <2>8, <2>9, <1>i DEF Heard
    <2>11. got' = [got EXCEPT ![u] = Append(got[u], m)]
      BY <2>1, <2>2, <2>3
    <2>12. \A g \in Fds : \A i \in DOMAIN down'[g] :
             \E j \in DOMAIN down[g] : down'[g][i] = down[g][j]
      BY <2>1, <1>i, Taken
    <2>13. \A g \in Fds : \A i \in DOMAIN down'[g] : down'[g][i].op = "chat" =>
             down'[g][i].id \in DOMAIN audience' /\ peer'[g] \in audience'[down'[g][i].id]
      BY <2>1, <2>12, <1>i DEF Heard
    <2>14. /\ got' \in [Users -> Seq(DOMAIN audience)]
           /\ \A v \in Users : \A i \in DOMAIN got'[v] : v \in audience[got'[v][i]]
      BY <2>4, <2>7, <2>10, <2>11, <1>i DEF Heard
    <2> QED
      BY <2>1, <2>13, <2>14, <1>i DEF Heard
  <1>11. ASSUME NEW f \in Fds, Disconnect(f) PROVE Heard'
    <2>1. UNCHANGED <<audience, got, peer>> /\ down' = [down EXCEPT ![f] = <<>>]
      BY <1>11 DEF Disconnect
    <2>2. \A g \in Fds \ {f} : down'[g] = down[g]
      BY <2>1, <1>i DEF Packets
    <2>3. DOMAIN down'[f] = {}
      BY <2>1, <1>e, <1>i DEF Packets
    <2> QED
      BY <2>1, <2>2, <2>3, <1>i, QuietHeard
  <1>12. ASSUME NEW f \in Fds, NEW u \in Users, Connect(u, f) PROVE Heard'
    <2>1. /\ UNCHANGED <<audience, got, down>> /\ f \notin connections
          /\ peer' = [peer EXCEPT ![f] = u]
      BY <1>12 DEF Connect, clientVars
    <2>2. DOMAIN down'[f] = {}
      BY <2>1, <1>e, <1>i DEF Packets, Peers
    <2>3. \A g \in Fds \ {f} : peer'[g] = peer[g]
      BY <2>1, <1>i DEF Peers
    <2> QED
      BY <2>1, <2>2, <2>3, <1>i, QuietHeard
  <1>13. ASSUME NEW f \in Fds, NEW u \in Users, Ask(u, f) PROVE Heard'
    BY <1>13, <1>u DEF Ask, clientVars
  <1>14. CASE UNCHANGED vars
    BY <1>14, <1>u DEF vars, clientVars, netVars
  <1> QED
    BY <1>1, <1>3, <1>4, <1>5, <1>6, <1>7, <1>8, <1>9, <1>10, <1>11, <1>12, <1>13, <1>14
    DEF Next, Server, Client

-----------------------------------------------------------------------------
LEMMA InductiveInvariant == Spec => []Inv
  <1>1. Inv /\ [Next]_vars => Inv'
    BY PeersStep, GrpsStep, PacketsStep, WindowsStep, HeardStep DEF Inv
  <1> QED
    BY InitInv, <1>1, PTL DEF Spec

\* Groups, sessions, streams and windows keep their types; in particular a
\* group that was not created has no members (group_manager.cpp:7-46).
THEOREM TypeCorrect == Spec => []TypeOK
  <1>1. Inv => TypeOK
    BY DEF Inv, Peers, Grps, Packets, Windows, Heard, TypeOK
  <1> QED
    BY <1>1, InductiveInvariant, PTL

\* A group message reaches clients of users who were members when the server
\* accepted it, and nobody else, over any number of reconnects, connections of
\* one user that overlap, and restarts (message_handler.cpp:276-285).
THEOREM OnlyMembersHear == Spec => []MembersOnly
  <1>1. ASSUME Inv PROVE MembersOnly
    <2>1. ASSUME NEW f \in alive, NEW m \in OnTheWay(f) PROVE peer[f] \in audience[m]
      <3>1. f \in Fds
        BY <1>1 DEF Inv, Peers, CM!TypeOK
      <3>2. PICK i \in DOMAIN down[f] : down[f][i].op = "chat" /\ m = down[f][i].id
        BY DEF OnTheWay
      <3> QED
        BY <3>1, <3>2, <1>1 DEF Inv, Heard
    <2>2. ASSUME NEW u \in Users, NEW m \in ToSet(got[u]) PROVE u \in audience[m]
      BY <1>1 DEF Inv, Heard, ToSet
    <2> QED
      BY <2>1, <2>2 DEF MembersOnly
  <1> QED
    BY <1>1, InductiveInvariant, PTL

-----------------------------------------------------------------------------
(* In which order.                                                         *)
(*                                                                         *)
(* Message numbers rise along what a client has seen and what is on its    *)
(* way to it.  That this stays so over reconnects rests on Single: a       *)
(* client has one open connection, and what was on its way on another is   *)
(* lost and never comes later.                                             *)

Single == \A f, g \in alive : peer[f] = peer[g] => f = g

IsChat(f, i) == i \in DOMAIN down[f] /\ down[f][i].op = "chat"

RisingDown ==
    \A f \in Fds : \A i, j \in Nat :
        IsChat(f, i) /\ IsChat(f, j) /\ i < j => down[f][i].id < down[f][j].id
RisingGot ==
    \A u \in Users : \A i, j \in DOMAIN got[u] : i < j => got[u][i] < got[u][j]
RisingOn ==
    \A f \in alive : \A i \in DOMAIN got[peer[f]], j \in Nat :
        IsChat(f, j) => got[peer[f]][i] < down[f][j].id

Ordered == Single /\ RisingDown /\ RisingGot /\ RisingOn

LEMMA SingleStep == Inv /\ Single /\ [Next]_vars => Single'
  <1> SUFFICES ASSUME Inv, Single, [Next]_vars PROVE Single'
    OBVIOUS
  <1>i. Peers
    BY DEF Inv
  <1>u. UNCHANGED <<alive, peer>> => Single'
    BY DEF Single
  <1>1. CASE Restart
    BY <1>1 DEF Restart, Single
  <1>2. ASSUME NEW f \in Fds, Login(f) \/ CreateGroup(f) \/ JoinGroup(f) \/ LeaveGroup(f)
                                \/ ListGroups(f) \/ ChatGroup(f) \/ Refuse(f)
        PROVE  Single'
    BY <1>2, <1>u DEF Login, CreateGroup, JoinGroup, LeaveGroup, ListGroups, ChatGroup,
       Refuse, Serving
  <1>3. ASSUME NEW f \in Fds, Close(f) PROVE Single'
    <2>1. f \notin alive /\ alive' = alive /\ peer' = [peer EXCEPT ![f] = NoUser]
      BY <1>3 DEF Close
    <2>2. \A g \in alive : peer'[g] = peer[g]
      BY <2>1, <1>i DEF Peers
    <2> QED
      BY <2>1, <2>2 DEF Single
  <1>4. ASSUME NEW f \in Fds, LoggedIn(f) \/ Joined(f) \/ Created(f) \/ GroupsListReceived(f)
                                \/ GroupMessageReceived(f) \/ Notified(f)
        PROVE  Single'
    BY <1>4, <1>u DEF LoggedIn, Joined, Created, GroupsListReceived, GroupMessageReceived,
       Notified, Arrives
  <1>5. ASSUME NEW f \in Fds, Disconnect(f) PROVE Single'
    BY <1>5 DEF Disconnect, Single
  <1>6. ASSUME NEW f \in Fds, NEW u \in Users, Connect(u, f) PROVE Single'
    <2>1. /\ f \notin connections /\ alive' = alive \cup {f}
          /\ peer' = [peer EXCEPT ![f] = u] /\ \A g \in alive : peer[g] # u
      BY <1>6 DEF Connect
    <2>2. peer'[f] = u /\ \A g \in alive : g # f /\ peer'[g] = peer[g]
      BY <2>1, <1>i DEF Peers
    <2> QED
      BY <2>1, <2>2 DEF Single
  <1>7. ASSUME NEW f \in Fds, NEW u \in Users, Ask(u, f) PROVE Single'
    BY <1>7, <1>u DEF Ask
  <1>8. CASE UNCHANGED vars
    BY <1>8, <1>u DEF vars, netVars
  <1> QED
    BY <1>1, <1>2, <1>3, <1>4, <1>5, <1>6, <1>7, <1>8 DEF Next, Server, Client

\* The group messages on the way to f are some of those that were, d places on.
Kept(f, d) ==
    \A i \in Nat : IsChat(f, i)' => IsChat(f, i + d) /\ down'[f][i] = down[f][i + d]

\* Packets that are taken or lost leave the others in their order.
LEMMA KeptRising ==
  ASSUME RisingDown, \A f \in Fds : Kept(f, 0) \/ Kept(f, 1)
  PROVE  RisingDown'
  <1> SUFFICES ASSUME NEW f \in Fds, NEW i \in Nat, NEW j \in Nat,
                      IsChat(f, i)', IsChat(f, j)', i < j
               PROVE  down'[f][i].id < down'[f][j].id
    BY DEF RisingDown
  <1>1. PICK d \in {0, 1} : Kept(f, d)
    OBVIOUS
  <1>2. /\ IsChat(f, i + d) /\ down'[f][i] = down[f][i + d]
        /\ IsChat(f, j + d) /\ down'[f][j] = down[f][j + d]
    BY <1>1 DEF Kept
  <1>3. i + d \in Nat /\ j + d \in Nat /\ i + d < j + d
    OBVIOUS
  <1>4. down[f][i + d].id < down[f][j + d].id
    BY <1>2, <1>3 DEF RisingDown
  <1> QED
    BY <1>2, <1>4

\* Nothing new is on its way.
LEMMA QuietOrdered ==
  ASSUME Ordered, UNCHANGED got,
         \A f \in Fds : Kept(f, 0) \/ Kept(f, 1),
         alive' \subseteq Fds,
         \A f \in alive' : (f \in alive /\ peer'[f] = peer[f]) \/ down'[f] = <<>>
  PROVE  RisingDown' /\ RisingGot' /\ RisingOn'
  <1>1. RisingDown'
    BY KeptRising DEF Ordered
  <1>2. RisingGot'
    BY DEF Ordered, RisingGot
  <1>3. RisingOn'
    <2> SUFFICES ASSUME NEW f \in alive', NEW i \in DOMAIN got'[peer'[f]], NEW j \in Nat,
                        IsChat(f, j)'
                 PROVE  got'[peer'[f]][i] < down'[f][j].id
      BY DEF RisingOn
    <2>1. DOMAIN <<>> = {}
      BY EmptySeq
    <2>2. down'[f] # <<>>
      BY <2>1 DEF IsChat
    <2>3. f \in alive /\ peer'[f] = peer[f] /\ f \in Fds
      BY <2>2
    <2>4. PICK d \in {0, 1} : Kept(f, d)
      BY <2>3
    <2>5. IsChat(f, j + d) /\ down'[f][j] = down[f][j + d] /\ j + d \in Nat
      BY <2>4 DEF Kept
    <2>6. got[peer[f]][i] < down[f][j + d].id
      BY <2>3, <2>5 DEF Ordered, RisingOn
    <2> QED
      BY <2>3, <2>5, <2>6
  <1> QED
    BY <1>1, <1>2, <1>3

LEMMA OtherSent ==
  ASSUME Packets, NEW fs, NEW p \in Reply, p.op # "chat", Send(fs, p)
  PROVE  \A f \in Fds : Kept(f, 0)
  <1> SUFFICES ASSUME NEW f \in Fds, NEW i \in Nat, IsChat(f, i)'
               PROVE  IsChat(f, i) /\ down'[f][i] = down[f][i]
    BY DEF Kept
  <1>1. i \in DOMAIN down'[f] /\ down'[f][i].op = "chat"
    BY DEF IsChat
  <1>2. i \in DOMAIN down[f] /\ down'[f][i] = down[f][i]
    BY <1>1, Sent
  <1> QED
    BY <1>1, <1>2 DEF IsChat

LEMMA TakenOrder ==
  ASSUME Packets, NEW f \in Fds, down[f] # <<>>, down' = [down EXCEPT ![f] = Tail(@)]
  PROVE  /\ Kept(f, 1) /\ \A g \in Fds \ {f} : Kept(g, 0)
         /\ 0 \notin DOMAIN down'[f]
  <1>1. down[f] \in Seq(Reply)
    BY DEF Packets
  <1>2. /\ Tail(down[f]) \in Seq(Reply) /\ Len(Tail(down[f])) = Len(down[f]) - 1
        /\ \A i \in 1..Len(Tail(down[f])) : Tail(down[f])[i] = down[f][i + 1]
    BY <1>1, HeadTailProperties
  <1>3. /\ Len(down[f]) \in Nat /\ DOMAIN down[f] = 1..Len(down[f])
        /\ DOMAIN Tail(down[f]) = 1..Len(Tail(down[f]))
    BY <1>1, <1>2, LenProperties
  <1>4. down'[f] = Tail(down[f]) /\ \A g \in Fds \ {f} : down'[g] = down[g]
    BY DEF Packets
  <1>5. Kept(f, 1)
    <2> SUFFICES ASSUME NEW i \in Nat, IsChat(f, i)'
                 PROVE  IsChat(f, i + 1) /\ down'[f][i] = down[f][i + 1]
      BY DEF Kept
    <2>1. i \in 1..Len(Tail(down[f])) /\ down'[f][i].op = "chat"
      BY <1>3, <1>4 DEF IsChat
    <2>2. i + 1 \in 1..Len(down[f])
      BY <2>1, <1>2, <1>3
    <2>3. down'[f][i] = down[f][i + 1]
      BY <2>1, <1>2, <1>4
    <2> QED
      BY <2>1, <2>2, <2>3, <1>3 DEF IsChat
  <1>6. ASSUME NEW g \in Fds \ {f} PROVE Kept(g, 0)
    <2> SUFFICES ASSUME NEW i \in Nat, IsChat(g, i)'
                 PROVE  IsChat(g, i) /\ down'[g][i] = down[g][i]
      BY DEF Kept
    <2> QED
      BY <1>4 DEF IsChat
  <1>7. 0 \notin DOMAIN down'[f]
    BY <1>3, <1>4
  <1> QED
    BY <1>5, <1>6, <1>7

\* The server accepts a message: its number is above all that were given.
LEMMA ChatOrdered ==
  ASSUME Inv, Ordered, NEW f \in Fds, ChatGroup(f)
  PROVE  RisingDown' /\ RisingGot' /\ RisingOn'
  <1>i. Peers /\ Packets /\ Heard /\ Grps
    BY DEF Inv
  <1>1. PICK n : n = Len(audience) + 1
    OBVIOUS
  <1>2. n \in Nat /\ \A m \in DOMAIN audience : m \in Nat /\ m < n
    BY <1>1, <1>i, LenProperties DEF Heard
  <1>3. PICK p : p = [op |-> "chat", group |-> Group(f), id |-> n]
    OBVIOUS
  <1>4. p \in Reply /\ p.id = n
    <2>1. Group(f) \in GroupIds
      BY <1>i, Served, RequestFields DEF ChatGroup, Serving, Group
    <2> QED
      BY <2>1, <1>2, <1>3 DEF Reply
  <1>5. PICK fs : fs = {f} \cup Routes(Group(f))
    OBVIOUS
  <1>6. Send(fs, p) /\ UNCHANGED <<got, peer, alive>>
    BY <1>1, <1>3, <1>5 DEF ChatGroup, Serving, clientVars
  <1>7. ASSUME NEW g \in Fds, NEW i \in Nat, IsChat(g, i)'
        PROVE  \/ /\ IsChat(g, i) /\ down'[g][i] = down[g][i]
                  /\ i <= Len(down[g]) /\ down[g][i].id \in DOMAIN audience
               \/ i = Len(down[g]) + 1 /\ down'[g][i].id = n
    <2>1. i \in DOMAIN down'[g] /\ down'[g][i].op = "chat"
      BY <1>7 DEF IsChat
    <2>2. CASE i \in DOMAIN down[g] /\ down'[g][i] = down[g][i]
      <3>1. IsChat(g, i) /\ down[g][i].id \in DOMAIN audience
        BY <2>1, <2>2, <1>i DEF IsChat, Heard
      <3>2. down[g] \in Seq(Reply)
        BY <1>i DEF Packets
      <3>3. i <= Len(down[g])
        BY <2>2, <3>2, LenProperties
      <3> QED
        BY <2>2, <3>1, <3>3
    <2>3. CASE down'[g][i] = p /\ i = Len(down[g]) + 1
      BY <2>3, <1>4
    <2> QED
      BY <2>1, <2>2, <2>3, <1>i, <1>4, <1>6, Sent
  <1>8. \A g \in Fds : Len(down[g]) \in Nat
    BY <1>i, LenProperties DEF Packets
  <1>9. RisingDown'
    <2> SUFFICES ASSUME NEW g \in Fds, NEW i \in Nat, NEW j \in Nat,
                        IsChat(g, i)', IsChat(g, j)', i < j
                 PROVE  down'[g][i].id < down'[g][j].id
      BY DEF RisingDown
    <2>1. IsChat(g, i) /\ down'[g][i] = down[g][i] /\ down[g][i].id \in DOMAIN audience
      BY <1>7, <1>8
    <2>2. CASE IsChat(g, j) /\ down'[g][j] = down[g][j]
      BY <2>1, <2>2 DEF Ordered, RisingDown
    <2>3. CASE down'[g][j].id = n
      BY <2>1, <2>3, <1>2
    <2> QED
      BY <2>2, <2>3, <1>7
  <1>10. RisingGot'
    BY <1>6 DEF Ordered, RisingGot
  <1>11. RisingOn'
    <2> SUFFICES ASSUME NEW g \in alive, NEW i \in DOMAIN got[peer[g]], NEW j \in Nat,
                        IsChat(g, j)'
                 PROVE  got[peer[g]][i] < down'[g][j].id
      BY <1>6 DEF RisingOn
    <2>1. g \in Fds /\ peer[g] \in Users
      BY <1>i DEF Peers, CM!TypeOK
    <2>2. CASE IsChat(g, j) /\ down'[g][j] = down[g][j]
      BY <2>2 DEF Ordered, RisingOn
    <2>3. CASE down'[g][j].id = n
      <3>1. got[peer[g]] \in Seq(DOMAIN audience)
        BY <2>1, <1>i DEF Heard
      <3>2. got[peer[g]][i] \in DOMAIN audience
        BY <3>1, LenProperties, ElementOfSeq
      <3> QED
        BY <3>2, <2>3, <1>2
    <2> QED
      BY <2>1, <2>2, <2>3, <1>7
  <1> QED
    BY <1>9, <1>10, <1>11

\* A client reads a message: its number is above all that the client has seen
\* and below all that follow.
LEMMA ReceivedOrdered ==
  ASSUME Inv, Ordered, NEW f \in Fds, GroupMessageReceived(f)
  PROVE  RisingDown' /\ RisingGot' /\ RisingOn'
  <1>i. Peers /\ Packets /\ Heard
    BY DEF Inv
  <1>1. /\ f \in alive /\ down[f] # <<>> /\ down' = [down EXCEPT ![f] = Tail(@)]
        /\ UNCHANGED <<alive, peer>> /\ Head(down[f]).op = "chat"
        /\ got' = [got EXCEPT ![peer[f]] = Append(@, Head(down[f]).id)]
    BY DEF GroupMessageReceived, Arrives
  <1>2. PICK u : u = peer[f]
    OBVIOUS
  <1>3. PICK m : m = Head(down[f]).id
    OBVIOUS
  <1>4. u \in Users
    BY <1>1, <1>2, <1>i, NoUserIsNone DEF Peers
  <1>5. IsChat(f, 1) /\ m = down[f][1].id /\ m \in DOMAIN audience
    <2>1. 1 \in DOMAIN down[f] /\ Head(down[f]) = down[f][1]
      BY <1>1, <1>i, Taken
    <2> QED
      BY <2>1, <1>1, <1>3, <1>i DEF Heard, IsChat
  <1>6. Kept(f, 1) /\ (\A g \in Fds \ {f} : Kept(g, 0)) /\ 0 \notin DOMAIN down'[f]
    BY <1>1, <1>i, TakenOrder
  <1>7. got[u] \in Seq(DOMAIN audience)
    BY <1>4, <1>i DEF Heard
  <1>8. /\ \A i \in 1..Len(got[u]) : Append(got[u], m)[i] = got[u][i]
        /\ Append(got[u], m)[Len(got[u]) + 1] = m
        /\ Len(Append(got[u], m)) = Len(got[u]) + 1
        /\ Append(got[u], m) \in Seq(DOMAIN audience)
    BY <1>5, <1>7, AppendProperties
  <1>9. /\ DOMAIN got[u] = 1..Len(got[u]) /\ Len(got[u]) \in Nat
        /\ DOMAIN Append(got[u], m) = 1..(Len(got[u]) + 1)
    BY <1>7, <1>8, LenProperties
  <1>10. /\ got'[u] = Append(got[u], m)
         /\ \A v \in Users \ {u} : got'[v] = got[v]
    BY <1>1, <1>2, <1>3, <1>4, <1>i DEF Heard
  <1>11. \A i \in DOMAIN got'[u] :
            \/ i \in DOMAIN got[u] /\ got'[u][i] = got[u][i]
            \/ i = Len(got[u]) + 1 /\ got'[u][i] = m
    BY <1>8, <1>9, <1>10
  <1>12. \A i \in DOMAIN got[u] : got[u][i] < m
    BY <1>1, <1>2, <1>5 DEF Ordered, RisingOn
  <1>13. RisingDown'
    BY <1>6, KeptRising DEF Ordered
  <1>14. RisingGot'
    <2> SUFFICES ASSUME NEW v \in Users, NEW i \in DOMAIN got'[v], NEW j \in DOMAIN got'[v],
                        i < j
                 PROVE  got'[v][i] < got'[v][j]
      BY DEF RisingGot
    <2>1. CASE v # u
      BY <2>1, <1>10 DEF Ordered, RisingGot
    <2>2. CASE v = u
      <3>1. i \in DOMAIN got[u] /\ got'[u][i] = got[u][i]
        BY <2>2, <1>9, <1>10, <1>11
      <3>2. CASE j \in DOMAIN got[u] /\ got'[u][j] = got[u][j]
        BY <2>2, <3>1, <3>2, <1>4 DEF Ordered, RisingGot
      <3>3. CASE got'[u][j] = m
        BY <2>2, <3>1, <3>3, <1>12
      <3> QED
        BY <2>2, <3>2, <3>3, <1>11
    <2> QED
      BY <2>1, <2>2
  <1>15. RisingOn'
    <2> SUFFICES ASSUME NEW g \in alive, NEW i \in DOMAIN got'[peer[g]], NEW j \in Nat,
                        IsChat(g, j)'
                 PROVE  got'[peer[g]][i] < down'[g][j].id
      BY <1>1 DEF RisingOn
    <2>1. g \in Fds /\ peer[g] \in Users
      BY <1>i, NoUserIsNone DEF Peers, CM!TypeOK
    <2>2. CASE g # f
      <3>1. peer[g] # u
        BY <2>2, <1>1, <1>2 DEF Ordered, Single
      <3>2. got'[peer[g]] = got[peer[g]]
        BY <2>1, <3>1, <1>10
      <3>3. IsChat(g, j + 0) /\ down'[g][j] = down[g][j + 0]
        BY <2>1, <2>2, <1>6 DEF Kept
      <3>4. IsChat(g, j) /\ down'[g][j] = down[g][j]
        BY <3>3
      <3> QED
        BY <3>2, <3>4 DEF Ordered, RisingOn
    <2>3. CASE g = f
      <3>1. IsChat(f, j + 1) /\ down'[f][j] = down[f][j + 1]
        BY <2>3, <1>6 DEF Kept
      <3>2. j # 0
        BY <2>3, <1>6 DEF IsChat
      <3>3. j + 1 \in Nat /\ 1 < j + 1
        BY <3>2
      <3>4. m < down[f][j + 1].id
        BY <3>1, <3>3, <1>5 DEF Ordered, RisingDown
      <3>5. CASE i \in DOMAIN got[u] /\ got'[u][i] = got[u][i]
        BY <2>3, <3>1, <3>3, <3>5, <1>1, <1>2 DEF Ordered, RisingOn
      <3>6. CASE got'[u][i] = m
        BY <2>3, <3>1, <3>4, <3>6, <1>2
      <3> QED
        BY <2>3, <3>5, <3>6, <1>2, <1>11
    <2> QED
      BY <2>2, <2>3
  <1> QED
    BY <1>13, <1>14, <1>15

LEMMA OrderedStep == Inv /\ Ordered /\ [Next]_vars => Ordered'
  <1> SUFFICES ASSUME Inv, Ordered, [Next]_vars PROVE Ordered'
    OBVIOUS
  <1> DEFINE Rising == RisingDown /\ RisingGot /\ RisingOn
  <1>i. Peers /\ Packets /\ Grps
    BY DEF Inv
  <1>s. Single'
    BY SingleStep DEF Ordered
  <1>a. alive \subseteq Fds /\ alive' \subseteq Fds
    BY PeersStep DEF Inv, Peers, CM!TypeOK
  <1>e. DOMAIN <<>> = {}
    BY EmptySeq
  <1>1. CASE Restart
    <2>1. UNCHANGED got /\ alive' = {} /\ \A f \in Fds : DOMAIN down'[f] = {}
      BY <1>1, <1>e DEF Restart
    <2>2. \A f \in Fds : Kept(f, 0)
      BY <2>1 DEF Kept, IsChat
    <2>3. Rising'
      BY <2>1, <2>2, QuietOrdered
    <2> QED
      BY <2>3, <1>s DEF Ordered
  <1>2. ASSUME NEW f \in Fds, NEW fs, NEW p \in Reply, p.op # "chat", Send(fs, p),
               UNCHANGED <<got, peer, alive>>
        PROVE  Ordered'
    <2>1. \A g \in Fds : Kept(g, 0)
      BY <1>2, <1>i, OtherSent
    <2>2. Rising'
      BY <2>1, <1>2, <1>a, QuietOrdered
    <2> QED
      BY <2>2, <1>s DEF Ordered
  <1>3. ASSUME NEW f \in Fds,
               Login(f) \/ CreateGroup(f) \/ JoinGroup(f) \/ LeaveGroup(f) \/ Refuse(f)
        PROVE  Ordered'
    <2>1. UNCHANGED <<got, peer, alive>>
      BY <1>3 DEF Login, CreateGroup, JoinGroup, LeaveGroup, Refuse, Serving, clientVars
    <2>2. CASE Login(f) \/ LeaveGroup(f) \/ Refuse(f)
      <3>1. \A x \in {"login", "left", "error"} :
              [op |-> x] \in Reply /\ [op |-> x].op # "chat"
        BY DEF Reply
      <3>2. \E fs : \E x \in {"login", "left", "error"} : Send(fs, [op |-> x])
        BY <2>2 DEF Login, LeaveGroup, Refuse
      <3> QED
        BY <3>1, <3>2, <2>1, <1>2
    <2>3. CASE CreateGroup(f)
      <3>1. created + 1 \in GroupIds
        BY <2>3, <1>i, Bounds DEF CreateGroup, GroupIds, Grps
      <3>2. [op |-> "created", group |-> created + 1] \in Reply
        BY <3>1 DEF Reply
      <3> QED
        BY <3>2, <2>1, <2>3, <1>2 DEF CreateGroup
    <2>4. CASE JoinGroup(f)
      <3>1. Group(f) \in GroupIds
        BY <2>4, <1>i, Served, RequestFields DEF JoinGroup, Serving, Group
      <3>2. [op |-> "joined", group |-> Group(f)] \in Reply
        BY <3>1 DEF Reply
      <3> QED
        BY <3>2, <2>1, <2>4, <1>2 DEF JoinGroup
    <2> QED
      BY <2>2, <2>3, <2>4, <1>3
  <1>4. ASSUME NEW f \in Fds, ListGroups(f) PROVE Ordered'
    <2>1. PICK gs \in InOrder(GroupsOf(Me(f))) : Send({f}, [op |-> "groups", groups |-> gs])
      BY <1>4 DEF ListGroups
    <2>2. gs \in Seq(GroupIds)
      BY <2>1, InOrderType DEF GroupsOf
    <2>3. [op |-> "groups", groups |-> gs] \in Reply
      BY <2>2 DEF Reply
    <2>4. UNCHANGED <<got, peer, alive>>
      BY <1>4 DEF ListGroups, Serving, clientVars
    <2> QED
      BY <2>1, <2>3, <2>4, <1>2
  <1>5. ASSUME NEW f \in Fds, ChatGroup(f) PROVE Ordered'
    BY <1>5, <1>s, ChatOrdered DEF Ordered
  <1>6. ASSUME NEW f \in Fds, GroupMessageReceived(f) PROVE Ordered'
    BY <1>6, <1>s, ReceivedOrdered DEF Ordered
  <1>7. ASSUME NEW f \in Fds, Close(f) PROVE Ordered'
    <2>1. /\ UNCHANGED <<got, alive>> /\ down' = [down EXCEPT ![f] = <<>>] /\ f \notin alive
          /\ peer' = [peer EXCEPT ![f] = NoUser]
      BY <1>7 DEF Close, clientVars
    <2>2. \A g \in Fds \ {f} : down'[g] = down[g] /\ peer'[g] = peer[g]
      BY <2>1, <1>i DEF Packets, Peers
    <2>3. \A g \in Fds : Kept(g, 0)
      BY <2>1, <2>2, <1>e, <1>i DEF Packets, Kept, IsChat
    <2>4. \A g \in alive' : g \in alive /\ peer'[g] = peer[g]
      BY <2>1, <2>2, <1>a
    <2>5. Rising'
      BY <2>1, <2>3, <2>4, <1>a, QuietOrdered
    <2> QED
      BY <2>5, <1>s DEF Ordered
  <1>8. ASSUME NEW f \in Fds, LoggedIn(f) \/ Joined(f) \/ Created(f) \/ GroupsListReceived(f)
                                \/ Notified(f)
        PROVE  Ordered'
    <2>1. /\ down[f] # <<>> /\ down' = [down EXCEPT ![f] = Tail(@)]
          /\ UNCHANGED <<got, peer, alive>>
      BY <1>8 DEF LoggedIn, Joined, Created, GroupsListReceived, Notified, Arrives, clientVars
    <2>2. \A g \in Fds : Kept(g, 0) \/ Kept(g, 1)
      BY <2>1, <1>i, TakenOrder
    <2>3. Rising'
      BY <2>1, <2>2, <1>a, QuietOrdered
    <2> QED
      BY <2>3, <1>s DEF Ordered
  <1>9. ASSUME NEW f \in Fds, Disconnect(f) PROVE Ordered'
    <2>1. /\ UNCHANGED <<got, peer>> /\ alive' = alive \ {f}
          /\ down' = [down EXCEPT ![f] = <<>>]
      BY <1>9 DEF Disconnect
    <2>2. \A g \in Fds : Kept(g, 0)
      BY <2>1, <1>e, <1>i DEF Packets, Kept, IsChat
    <2>3. Rising'
      BY <2>1, <2>2, <1>a, QuietOrdered
    <2> QED
      BY <2>3, <1>s DEF Ordered
  <1>10. ASSUME NEW f \in Fds, NEW u \in Users, Connect(u, f) PROVE Ordered'
    <2>1. /\ UNCHANGED <<got, down>> /\ f \notin connections
          /\ peer' = [peer EXCEPT ![f] = u] /\ alive' = alive \cup {f}
      BY <1>10 DEF Connect, clientVars
    <2>2. down'[f] = <<>>
      BY <2>1, <1>i DEF Packets, Peers
    <2>3. \A g \in alive' : (g \in alive /\ peer'[g] = peer[g]) \/ down'[g] = <<>>
      BY <2>1, <2>2, <1>a, <1>i DEF Peers
    <2>4. \A g \in Fds : Kept(g, 0)
      BY <2>1 DEF Kept, IsChat
    <2>5. Rising'
      BY <2>1, <2>3, <2>4, <1>a, QuietOrdered
    <2> QED
      BY <2>5, <1>s DEF Ordered
  <1>11. ASSUME UNCHANGED <<got, down, peer, alive>> PROVE Ordered'
    <2>1. \A g \in Fds : Kept(g, 0)
      BY <1>11 DEF Kept, IsChat
    <2>2. Rising'
      BY <2>1, <1>11, <1>a, QuietOrdered
    <2> QED
      BY <2>2, <1>s DEF Ordered
  <1>12. ASSUME NEW f \in Fds, NEW u \in Users, Ask(u, f) PROVE Ordered'
    BY <1>11, <1>12 DEF Ask, clientVars
  <1>13. CASE UNCHANGED vars
    BY <1>11, <1>13 DEF vars, clientVars, netVars
  <1> QED
    BY <1>1, <1>3, <1>4, <1>5, <1>6, <1>7, <1>8, <1>9, <1>10, <1>12, <1>13
    DEF Next, Server, Client

\* A client sees a group message at most once, the sender's included who gets
\* it as an answer and is a member too, and all clients see messages in the
\* order in which the server accepted them, over reconnects and restarts
\* (message_handler.cpp:276-285, server_im.cpp:200-208).
THEOREM OneOrder == Spec => []SameOrder
  <1>1. Init => Ordered
    <2> SUFFICES ASSUME Init PROVE Ordered
      OBVIOUS
    <2>1. DOMAIN <<>> = {}
      BY EmptySeq
    <2>2. \A f \in Fds : \A i : ~IsChat(f, i)
      BY <2>1 DEF Init, IsChat
    <2>3. \A u \in Users : DOMAIN got[u] = {}
      BY <2>1 DEF Init
    <2>4. alive = {}
      BY DEF Init
    <2> QED
      BY <2>2, <2>3, <2>4 DEF Ordered, Single, RisingDown, RisingGot, RisingOn
  <1>2. ASSUME Inv, Ordered PROVE SameOrder
    <2> SUFFICES ASSUME NEW u \in Users, NEW v \in Users,
                        NEW m \in ToSet(got[u]), NEW n \in ToSet(got[u]),
                        Before(got[u], m, n), Before(got[v], n, m)
                 PROVE  FALSE
      BY DEF SameOrder
    <2>1. m < n
      BY <1>2 DEF Before, Ordered, RisingGot
    <2>2. n < m
      BY <1>2 DEF Before, Ordered, RisingGot
    <2>3. got[u] \in Seq(DOMAIN audience) /\ DOMAIN audience = 1..Len(audience)
      BY <1>2, LenProperties DEF Inv, Heard
    <2>4. m \in Int /\ n \in Int
      BY <2>3, LenProperties, ElementOfSeq DEF ToSet
    <2> QED
      BY <2>1, <2>2, <2>4
  <1> QED
    BY <1>1, <1>2, OrderedStep, InductiveInvariant, PTL DEF Spec

-----------------------------------------------------------------------------
(* What the window lists.                                                  *)
(*                                                                         *)
(* The list of a client is right at rest if it will be right once what is  *)
(* on its way has been handled: either the groups will be asked for and    *)
(* sent once more (Refreshes), or each group is named by the list or by a  *)
(* packet and no later list of groups leaves it out (Keeps).  No group is  *)
(* listed twice because a group is announced once, after every list sent   *)
(* before, and a client that can create groups has asked for the list of   *)
(* this process before (Announced, Current, Ahead).                        *)

\* the groups that packet p names, and what a list l becomes when p is handled
Named(p)    == IF p.op = "groups" THEN ToSet(p.groups)
               ELSE IF p.op = "created" THEN {p.group} ELSE {}
After(l, p) == IF p.op = "groups" THEN p.groups
               ELSE IF p.op = "created" THEN Append(l, p.group) ELSE l

\* op in the queue q
Holds(q, ops) == \E i \in DOMAIN q : q[i].op \in ops

Refreshes(q, d) == Holds(q, {"login", "list"}) \/ Holds(d, {"login", "joined"})

NoneDrops(d, n, g) == \A j \in DOMAIN d : j > n /\ d[j].op = "groups" => g \in Named(d[j])
Keeps(l, d, g) ==
    \/ g \in ToSet(l) /\ NoneDrops(d, 0, g)
    \/ \E i \in DOMAIN d : g \in Named(d[i]) /\ NoneDrops(d, i, g)

Announced(l, d, c) ==
    /\ \A i \in DOMAIN d : d[i].op = "groups" => IsInjective(d[i].groups)
    /\ \A i \in DOMAIN d : \A g \in Named(d[i]) : g <= c
    /\ \A i, j \in DOMAIN d : i < j /\ d[j].op = "created" =>
         \A g \in Named(d[i]) : g < d[j].group
    /\ \A j \in DOMAIN d : d[j].op = "created" =>
         \/ \E i \in DOMAIN d : i < j /\ d[i].op = "groups"
         \/ \A g \in ToSet(l) : g < d[j].group

Current(l, d, c) == Holds(d, {"groups"}) \/ \A g \in ToSet(l) : g <= c
Ahead(q) ==
    \E i \in DOMAIN q : q[i].op = "list" /\ \A j \in DOMAIN q : j < i => q[j].op # "create"

Listing(f) ==
    /\ Me(f) = NoUser => ~Holds(up[f], {"list"}) /\ ~Holds(down[f], {"login", "joined"})
    /\ peer[f] \notin userId => ~Holds(up[f], {"create"})
    /\ Announced(groupModel[peer[f]], down[f], created)
    /\ peer[f] \in userId => Current(groupModel[peer[f]], down[f], created) \/ Ahead(up[f])
    /\ peer[f] \notin late =>
         \A g \in GroupIds : peer[f] \in members[g] =>
            Refreshes(up[f], down[f]) \/ Keeps(groupModel[peer[f]], down[f], g)

Listings ==
    /\ \A u \in Users : IsInjective(groupModel[u])
    /\ userId \subseteq {peer[f] : f \in alive}
    /\ \A f \in alive : Listing(f)

LEMMA SingleAlways == Spec => []Single
  <1>1. Init => Single
    BY DEF Init, Single
  <1> QED
    BY <1>1, SingleStep, InductiveInvariant, PTL DEF Spec

-----------------------------------------------------------------------------
(* A queue that grows, and one that is read.                               *)

LEMMA Longer ==
  ASSUME NEW S, NEW s \in Seq(S), NEW e \in S
  PROVE  /\ Append(s, e) \in Seq(S)
         /\ Len(s) \in Nat /\ DOMAIN s \subseteq Int
         /\ DOMAIN Append(s, e) = DOMAIN s \cup {Len(s) + 1}
         /\ \A i \in DOMAIN s : i < Len(s) + 1 /\ 0 < i /\ Append(s, e)[i] = s[i]
         /\ Append(s, e)[Len(s) + 1] = e
  <1>1. /\ Append(s, e) \in Seq(S)
        /\ Len(Append(s, e)) = Len(s) + 1
        /\ \A i \in 1..Len(s) : Append(s, e)[i] = s[i]
        /\ Append(s, e)[Len(s) + 1] = e
    BY AppendProperties
  <1>2. /\ Len(s) \in Nat /\ DOMAIN s = 1..Len(s)
        /\ DOMAIN Append(s, e) = 1..(Len(s) + 1)
    BY <1>1, LenProperties
  <1>3. 1..(Len(s) + 1) = 1..Len(s) \cup {Len(s) + 1}
    BY <1>2
  <1>4. \A i \in 1..Len(s) : i < Len(s) + 1 /\ 0 < i /\ i \in Int
    BY <1>2
  <1> QED
    BY <1>1, <1>2, <1>3, <1>4

LEMMA Shorter ==
  ASSUME NEW S, NEW s \in Seq(S), s # <<>>
  PROVE  /\ Tail(s) \in Seq(S) /\ Head(s) \in S
         /\ 1 \in DOMAIN s /\ Head(s) = s[1] /\ DOMAIN s \subseteq Int
         /\ \A i \in DOMAIN Tail(s) : i \in Int /\ 0 < i /\ i + 1 \in DOMAIN s
                                         /\ Tail(s)[i] = s[i + 1]
         /\ \A j \in DOMAIN s : j = 1 \/ \E i \in DOMAIN Tail(s) : j = i + 1
  <1>1. /\ Head(s) \in S /\ Tail(s) \in Seq(S)
        /\ Len(Tail(s)) = Len(s) - 1
        /\ \A i \in 1..Len(Tail(s)) : Tail(s)[i] = s[i + 1]
    BY HeadTailProperties
  <1>2. /\ Len(s) \in Nat \ {0} /\ DOMAIN s = 1..Len(s)
        /\ DOMAIN Tail(s) = 1..Len(Tail(s))
    BY <1>1, EmptySeq, LenProperties
  <1>3. \A i \in 1..Len(Tail(s)) : i \in Int /\ 0 < i /\ i + 1 \in 1..Len(s)
    BY <1>1, <1>2
  <1>4. ASSUME NEW j \in 1..Len(s), j # 1 PROVE \E i \in 1..Len(Tail(s)) : j = i + 1
    <2>1. j - 1 \in 1..Len(Tail(s)) /\ j = (j - 1) + 1
      BY <1>1, <1>2, <1>4
    <2> QED
      BY <2>1
  <1>5. 1 \in 1..Len(s) /\ Head(s) = s[1] /\ 1..Len(s) \subseteq Int
    BY <1>1, <1>2
  <1> QED
    BY <1>1, <1>2, <1>3, <1>4, <1>5

LEMMA HoldsMore ==
  ASSUME NEW S, NEW s \in Seq(S), NEW e \in S, NEW ops
  PROVE  Holds(Append(s, e), ops) <=> Holds(s, ops) \/ e.op \in ops
  BY Longer DEF Holds

LEMMA HoldsLess ==
  ASSUME NEW S, NEW s \in Seq(S), s # <<>>, NEW ops
  PROVE  Holds(s, ops) <=> Holds(Tail(s), ops) \/ Head(s).op \in ops
  <1>1. ASSUME Holds(s, ops) PROVE Holds(Tail(s), ops) \/ Head(s).op \in ops
    BY <1>1, Shorter DEF Holds
  <1>2. ASSUME Holds(Tail(s), ops) PROVE Holds(s, ops)
    BY <1>2, Shorter DEF Holds
  <1>3. ASSUME Head(s).op \in ops PROVE Holds(s, ops)
    BY <1>3, Shorter DEF Holds
  <1> QED
    BY <1>1, <1>2, <1>3

LEMMA AheadMore ==
  ASSUME NEW S, NEW q \in Seq(S), NEW r \in S,
         Ahead(q) \/ (r.op = "list" /\ ~Holds(q, {"create"}))
  PROVE  Ahead(Append(q, r))
  <1> DEFINE t == Append(q, r)
             n == Len(q) + 1
  <1>1. /\ n \in DOMAIN t /\ t[n] = r /\ DOMAIN q \subseteq Int
        /\ \A i \in DOMAIN t : i \in DOMAIN q \/ i = n
        /\ \A i \in DOMAIN q : i \in DOMAIN t /\ i < n /\ t[i] = q[i]
        /\ n \in Int
    BY Longer
  <1> HIDE DEF t, n
  <1>2. CASE Ahead(q)
    <2>1. PICK i \in DOMAIN q : q[i].op = "list"
                                 /\ \A j \in DOMAIN q : j < i => q[j].op # "create"
      BY <1>2 DEF Ahead
    <2>2. \A j \in DOMAIN t : j < i => j \in DOMAIN q
      BY <1>1
    <2>3. Ahead(t)
      BY <1>1, <2>1, <2>2 DEF Ahead
    <2> QED
      BY <2>3 DEF t
  <1>3. CASE r.op = "list" /\ ~Holds(q, {"create"})
    <2>1. \A j \in DOMAIN t : j < n => j \in DOMAIN q
      BY <1>1
    <2>2. Ahead(t)
      BY <1>1, <1>3, <2>1 DEF Ahead, Holds
    <2> QED
      BY <2>2 DEF t
  <1> QED
    BY <1>2, <1>3

LEMMA AheadLess ==
  ASSUME NEW S, NEW q \in Seq(S), q # <<>>, Ahead(q), Head(q).op # "list"
  PROVE  Ahead(Tail(q)) /\ Head(q).op # "create"
  <1> DEFINE t == Tail(q)
  <1>1. /\ 1 \in DOMAIN q /\ Head(q) = q[1] /\ DOMAIN q \subseteq Int
        /\ \A i \in DOMAIN t : i \in Int /\ 0 < i /\ i + 1 \in DOMAIN q /\ t[i] = q[i + 1]
        /\ \A j \in DOMAIN q : j = 1 \/ \E i \in DOMAIN t : j = i + 1
    BY Shorter
  <1> HIDE DEF t
  <1>2. PICK i \in DOMAIN q : q[i].op = "list"
                               /\ \A j \in DOMAIN q : j < i => q[j].op # "create"
    BY DEF Ahead
  <1>3. PICK k \in DOMAIN t : i = k + 1
    BY <1>1, <1>2
  <1>4. Head(q).op # "create"
    BY <1>1, <1>2, <1>3
  <1>5. t[k].op = "list"
    BY <1>1, <1>2, <1>3
  <1>6. ASSUME NEW j \in DOMAIN t, j < k PROVE t[j].op # "create"
    <2>1. j + 1 \in DOMAIN q /\ j + 1 < i /\ t[j] = q[j + 1]
      BY <1>1, <1>3, <1>6
    <2> QED
      BY <2>1, <1>2
  <1>7. Ahead(t)
    BY <1>5, <1>6 DEF Ahead
  <1> QED
    BY <1>4, <1>7 DEF t

-----------------------------------------------------------------------------
(* What the list of a window becomes.                                      *)

LEMMA KeepsMore ==
  ASSUME NEW l, NEW d \in Seq(Reply), NEW p \in Reply, NEW g,
         g \in Named(p) \/ (p.op # "groups" /\ Keeps(l, d, g))
  PROVE  Keeps(l, Append(d, p), g)
  <1> DEFINE t == Append(d, p)
             n == Len(d) + 1
  <1>1. /\ n \in DOMAIN t /\ t[n] = p /\ DOMAIN d \subseteq Int
        /\ \A i \in DOMAIN t : i \in DOMAIN d \/ i = n
        /\ \A i \in DOMAIN d : i \in DOMAIN t /\ i < n /\ t[i] = d[i]
        /\ n \in Int
    BY Longer
  <1> HIDE DEF t, n
  <1>2. CASE g \in Named(p)
    <2>1. NoneDrops(t, n, g)
      BY <1>1 DEF NoneDrops
    <2>2. Keeps(l, t, g)
      BY <1>1, <1>2, <2>1 DEF Keeps
    <2> QED
      BY <2>2 DEF t
  <1>3. CASE p.op # "groups" /\ Keeps(l, d, g)
    <2>1. \A m \in Int : NoneDrops(d, m, g) => NoneDrops(t, m, g)
      BY <1>1, <1>3 DEF NoneDrops
    <2>2. Keeps(l, t, g)
      BY <1>1, <1>3, <2>1 DEF Keeps
    <2> QED
      BY <2>2 DEF t
  <1> QED
    BY <1>2, <1>3

\* The packet is handled.
LEMMA AfterType ==
  ASSUME NEW l \in Seq(GroupIds), NEW p \in Reply
  PROVE  /\ After(l, p) \in Seq(GroupIds)
         /\ p.op = "groups" => After(l, p) = p.groups
         /\ \A g \in Named(p) : g \in ToSet(After(l, p))
         /\ p.op # "groups" => ToSet(After(l, p)) = ToSet(l) \cup Named(p)
  <1>1. CASE p.op = "groups"
    BY <1>1, ReplyFields DEF After, Named
  <1>2. CASE p.op = "created"
    <2>1. p.group \in GroupIds
      BY <1>2, ReplyFields
    <2>2. /\ Append(l, p.group) \in Seq(GroupIds)
          /\ DOMAIN Append(l, p.group) = DOMAIN l \cup {Len(l) + 1}
          /\ \A i \in DOMAIN l : Append(l, p.group)[i] = l[i]
          /\ Append(l, p.group)[Len(l) + 1] = p.group
      BY <2>1, Longer
    <2>3. ToSet(Append(l, p.group)) = ToSet(l) \cup {p.group}
      BY <2>2 DEF ToSet
    <2> QED
      BY <1>2, <2>2, <2>3 DEF After, Named
  <1>3. CASE p.op \notin {"groups", "created"}
    BY <1>3 DEF After, Named
  <1> QED
    BY <1>1, <1>2, <1>3

LEMMA KeepsLess ==
  ASSUME NEW l \in Seq(GroupIds), NEW d \in Seq(Reply), d # <<>>, NEW g, Keeps(l, d, g)
  PROVE  Keeps(After(l, Head(d)), Tail(d), g)
  <1> DEFINE t == Tail(d)
             p == Head(d)
             m == After(l, p)
  <1>1. /\ 1 \in DOMAIN d /\ p = d[1] /\ DOMAIN d \subseteq Int /\ p \in Reply
        /\ \A i \in DOMAIN t : i \in Int /\ 0 < i /\ i + 1 \in DOMAIN d /\ t[i] = d[i + 1]
        /\ \A j \in DOMAIN d : j = 1 \/ \E i \in DOMAIN t : j = i + 1
    BY Shorter
  <1>2. /\ \A h \in Named(p) : h \in ToSet(m)
        /\ p.op # "groups" => ToSet(m) = ToSet(l) \cup Named(p)
    BY <1>1, AfterType
  <1> HIDE DEF t, p, m
  <1>3. \A n \in Int : NoneDrops(d, n + 1, g) => NoneDrops(t, n, g)
    BY <1>1 DEF NoneDrops
  <1>4. NoneDrops(d, 0, g) => NoneDrops(d, 1, g)
    BY <1>1 DEF NoneDrops
  <1>5. Keeps(m, t, g)
    <2>1. CASE g \in ToSet(l) /\ NoneDrops(d, 0, g)
      <3>1. NoneDrops(t, 0, g)
        BY <2>1, <1>3, <1>4
      <3>2. p.op = "groups" => g \in Named(p)
        BY <2>1, <1>1 DEF NoneDrops
      <3> QED
        BY <2>1, <3>1, <3>2, <1>2 DEF Keeps
    <2>2. CASE \E i \in DOMAIN d : g \in Named(d[i]) /\ NoneDrops(d, i, g)
      <3>1. PICK i \in DOMAIN d : g \in Named(d[i]) /\ NoneDrops(d, i, g)
        BY <2>2
      <3>2. CASE i = 1
        <4>1. NoneDrops(t, 0, g)
          BY <3>1, <3>2, <1>3
        <4> QED
          BY <3>1, <3>2, <4>1, <1>1, <1>2 DEF Keeps
      <3>3. CASE i # 1
        <4>1. PICK k \in DOMAIN t : i = k + 1
          BY <3>3, <1>1
        <4>2. NoneDrops(t, k, g) /\ g \in Named(t[k])
          BY <3>1, <4>1, <1>1, <1>3
        <4> QED
          BY <4>2 DEF Keeps
      <3> QED
        BY <3>2, <3>3
    <2> QED
      BY <2>1, <2>2 DEF Keeps
  <1> QED
    BY <1>5 DEF t, p, m

\* A list of groups in ascending order names each of them once.
LEMMA InOrderLists ==
  ASSUME NEW S \in SUBSET GroupIds, NEW s \in InOrder(S)
  PROVE  IsInjective(s) /\ ToSet(s) = S
  <1> DEFINE n == Cardinality(S)
  <1>1. IsFiniteSet(S) /\ n \in Nat
    <2>1. IsFiniteSet(GroupIds)
      BY Bounds, FS_Interval DEF GroupIds
    <2> QED
      BY <2>1, FS_Subset, FS_CardinalityType
  <1>2. s \in [1..n -> S] /\ \A i, j \in 1..n : i < j => s[i] < s[j]
    BY DEF InOrder
  <1>3. IsFiniteSet(1..n) /\ Cardinality(1..n) = n
    <2>1. 0 \in Int /\ 1 \in Int /\ n \in Int
      BY <1>1
    <2>2. IsFiniteSet(1..n) /\ Cardinality(1..n) = IF 1 > n THEN 0 ELSE n - 1 + 1
      BY <2>1, FS_Interval
    <2> QED
      BY <2>2, <1>1
  <1> HIDE DEF n
  <1>4. ASSUME NEW i \in 1..n, NEW j \in 1..n, s[i] = s[j] PROVE i = j
    <2>1. s[i] \in S /\ s[j] \in S
      BY <1>2
    <2>2. \A g \in GroupIds : g \in Int
      BY DEF GroupIds
    <2>3. s[i] \in Int /\ s[j] \in Int
      BY <2>1, <2>2
    <2> QED
      BY <2>3, <1>1, <1>2, <1>4
  <1>5. IsInjective(s)
    BY <1>2, <1>4 DEF IsInjective
  <1>6. s \in Injection(1..n, S)
    BY <1>2, <1>5 DEF Injection
  <1>7. s \in Surjection(1..n, S)
    BY <1>1, <1>3, <1>6, FS_Injection DEF n
  <1>8. \A x \in S : \E i \in 1..n : s[i] = x
    BY <1>7 DEF Surjection
  <1> QED
    BY <1>2, <1>5, <1>8 DEF ToSet

LEMMA ListedType ==
  ASSUME NEW l \in Seq(GroupIds)
  PROVE  ToSet(l) \subseteq GroupIds /\ \A g \in ToSet(l) : g \in Int
  <1>1. \A i \in DOMAIN l : l[i] \in GroupIds
    BY ElementOfSeq, LenProperties
  <1>2. \A g \in GroupIds : g \in Int
    BY DEF GroupIds
  <1>3. ToSet(l) \subseteq GroupIds
    BY <1>1 DEF ToSet
  <1> QED
    BY <1>2, <1>3

LEMMA NamedType ==
  ASSUME NEW p \in Reply
  PROVE  Named(p) \subseteq GroupIds
  BY ReplyFields, ElementOfSeq DEF Named, ToSet

\* A packet that names no group, a list of what there is, and a new group.
LEMMA AnnouncedMore ==
  ASSUME NEW l \in Seq(GroupIds), NEW d \in Seq(Reply), NEW p \in Reply, NEW c \in Nat, NEW b \in Nat,
         Announced(l, d, c), c <= b, \A g \in Named(p) : g <= b,
         p.op = "groups" => IsInjective(p.groups),
         p.op = "created" => p.group = c + 1 /\ Current(l, d, c)
  PROVE  Announced(l, Append(d, p), b)
  <1> DEFINE t == Append(d, p)
             n == Len(d) + 1
  <1>1. /\ n \in DOMAIN t /\ t[n] = p /\ DOMAIN d \subseteq Int
        /\ \A i \in DOMAIN t : i \in DOMAIN d \/ i = n
        /\ \A i \in DOMAIN d : i \in DOMAIN t /\ i < n /\ t[i] = d[i]
        /\ n \in Int
    BY Longer
  <1>2. \A i \in DOMAIN d : \A g \in Named(d[i]) : g \in Int /\ g <= c
    <2>1. \A i \in DOMAIN d : d[i] \in Reply
      BY ElementOfSeq, LenProperties
    <2>2. GroupIds \subseteq Int
      BY DEF GroupIds
    <2> QED
      BY <2>1, <2>2, NamedType DEF Announced
  <1> HIDE DEF t, n
  <1>3. \A i \in DOMAIN t : t[i].op = "groups" => IsInjective(t[i].groups)
    BY <1>1 DEF Announced
  <1>4. \A i \in DOMAIN t : \A g \in Named(t[i]) : g <= b
    BY <1>1, <1>2
  <1>5. ASSUME NEW i \in DOMAIN t, NEW j \in DOMAIN t, i < j, t[j].op = "created",
               NEW g \in Named(t[i])
        PROVE  g < t[j].group
    <2>1. i \in DOMAIN d /\ g \in Named(d[i])
      BY <1>1, <1>5
    <2>2. CASE j \in DOMAIN d
      <3>1. t[j] = d[j]
        BY <1>1, <2>2
      <3> QED
        BY <3>1, <2>1, <2>2, <1>5 DEF Announced
    <2>3. CASE j = n
      <3>1. t[j].group = c + 1
        BY <2>3, <1>1, <1>5
      <3> QED
        BY <3>1, <2>1, <1>2
    <2> QED
      BY <2>2, <2>3, <1>1
  <1>6. ASSUME NEW j \in DOMAIN t, t[j].op = "created"
        PROVE  \/ \E i \in DOMAIN t : i < j /\ t[i].op = "groups"
               \/ \A g \in ToSet(l) : g < t[j].group
    <2>1. CASE j \in DOMAIN d
      <3>1. t[j] = d[j]
        BY <1>1, <2>1
      <3>2. \/ \E i \in DOMAIN d : i < j /\ d[i].op = "groups"
            \/ \A g \in ToSet(l) : g < t[j].group
        BY <3>1, <2>1, <1>6 DEF Announced
      <3> QED
        BY <3>2, <1>1
    <2>2. CASE j = n
      <3>1. t[j].group = c + 1 /\ Current(l, d, c)
        BY <2>2, <1>1, <1>6
      <3>2. CASE Holds(d, {"groups"})
        BY <3>2, <2>2, <1>1 DEF Holds
      <3>3. CASE \A g \in ToSet(l) : g <= c
        BY <3>1, <3>3, ListedType
      <3> QED
        BY <3>1, <3>2, <3>3 DEF Current
    <2> QED
      BY <2>1, <2>2, <1>1
  <1>7. Announced(l, t, b)
    BY <1>3, <1>4, <1>5, <1>6 DEF Announced
  <1> QED
    BY <1>7 DEF t

LEMMA AnnouncedLess ==
  ASSUME NEW l \in Seq(GroupIds), NEW d \in Seq(Reply), d # <<>>, NEW c \in Nat,
         Announced(l, d, c), IsInjective(l)
  PROVE  /\ Announced(After(l, Head(d)), Tail(d), c)
         /\ IsInjective(After(l, Head(d)))
         /\ Current(l, d, c) => Current(After(l, Head(d)), Tail(d), c)
  <1> DEFINE t == Tail(d)
             p == Head(d)
             m == After(l, p)
  <1>1. /\ 1 \in DOMAIN d /\ p = d[1] /\ DOMAIN d \subseteq Int /\ p \in Reply
        /\ \A i \in DOMAIN t : i \in Int /\ 0 < i /\ i + 1 \in DOMAIN d /\ t[i] = d[i + 1]
        /\ \A j \in DOMAIN d : j = 1 \/ \E i \in DOMAIN t : j = i + 1
    BY Shorter
  <1>2. /\ m \in Seq(GroupIds)
        /\ p.op = "groups" => m = p.groups
        /\ p.op # "groups" => ToSet(m) = ToSet(l) \cup Named(p)
    BY <1>1, AfterType
  <1>3. /\ p.op = "groups" => Named(p) = ToSet(m)
        /\ p.op = "created" => m = Append(l, p.group) /\ p.group \in GroupIds
                               /\ Named(p) = {p.group}
        /\ p.op \notin {"groups", "created"} => m = l /\ Named(p) = {}
    BY <1>1, ReplyFields DEF After, Named
  <1>4. ~\E i \in DOMAIN d : i < 1 /\ d[i].op = "groups"
    BY <1>1
  <1>5. \A g \in ToSet(l) : g \in Int
    BY ListedType
  <1>6. p.op = "created" => \A g \in ToSet(l) : g < p.group
    BY <1>1, <1>4 DEF Announced
  <1>7. IsInjective(m)
    <2>1. CASE p.op = "groups"
      BY <2>1, <1>1, <1>2 DEF Announced
    <2>2. CASE p.op = "created"
      <3>1. /\ DOMAIN Append(l, p.group) = DOMAIN l \cup {Len(l) + 1}
            /\ \A i \in DOMAIN l : Append(l, p.group)[i] = l[i]
            /\ Append(l, p.group)[Len(l) + 1] = p.group
            /\ m = Append(l, p.group)
        BY <2>2, <1>3, Longer
      <3>2. \A g \in ToSet(l) : g # p.group
        BY <2>2, <1>5, <1>6
      <3>3. \A i \in DOMAIN l : l[i] # p.group
        BY <3>2 DEF ToSet
      <3> HIDE DEF m, p
      <3>4. ASSUME NEW i \in DOMAIN m, NEW j \in DOMAIN m, m[i] = m[j] PROVE i = j
        BY <3>1, <3>3, <3>4 DEF IsInjective
      <3> QED
        BY <3>4 DEF IsInjective
    <2>3. CASE p.op \notin {"groups", "created"}
      BY <2>3, <1>3
    <2> QED
      BY <2>1, <2>2, <2>3
  <1> HIDE DEF t, p, m
  <1>8. \A i, j \in DOMAIN t : i < j => i + 1 < j + 1
    BY <1>1
  <1>9. ASSUME NEW j \in DOMAIN t, t[j].op = "created"
        PROVE  \/ \E i \in DOMAIN t : i < j /\ t[i].op = "groups"
               \/ \A g \in ToSet(m) : g < t[j].group
    <2>1. j + 1 \in DOMAIN d /\ d[j + 1] = t[j] /\ 1 < j + 1
      BY <1>1
    <2>2. \A g \in Named(p) : g < t[j].group
      BY <2>1, <1>1, <1>9 DEF Announced
    <2>3. CASE p.op = "groups"
      BY <2>2, <2>3, <1>3
    <2>4. CASE p.op # "groups"
      <3>1. CASE \A g \in ToSet(l) : g < d[j + 1].group
        BY <3>1, <2>1, <2>2, <2>4, <1>2
      <3>2. CASE \E i \in DOMAIN d : i < j + 1 /\ d[i].op = "groups"
        <4>1. PICK i \in DOMAIN d : i < j + 1 /\ d[i].op = "groups"
          BY <3>2
        <4>2. PICK k \in DOMAIN t : i = k + 1
          BY <4>1, <2>4, <1>1
        <4>3. k < j /\ t[k].op = "groups"
          BY <4>1, <4>2, <1>1
        <4> QED
          BY <4>3
      <3> QED
        BY <3>1, <3>2, <2>1, <1>9 DEF Announced
    <2> QED
      BY <2>3, <2>4
  <1>10. Announced(m, t, c)
    <2>1. \A i \in DOMAIN t : /\ t[i].op = "groups" => IsInjective(t[i].groups)
                              /\ \A g \in Named(t[i]) : g <= c
      BY <1>1 DEF Announced
    <2>2. \A i, j \in DOMAIN t : i < j /\ t[j].op = "created" =>
            \A g \in Named(t[i]) : g < t[j].group
      BY <1>1, <1>8 DEF Announced
    <2> QED
      BY <2>1, <2>2, <1>9 DEF Announced
  <1>11. ASSUME Current(l, d, c) PROVE Current(m, t, c)
    <2>1. \A g \in Named(p) : g <= c
      BY <1>1 DEF Announced
    <2>2. CASE p.op = "groups"
      BY <2>1, <2>2, <1>3 DEF Current
    <2>3. CASE p.op # "groups"
      <3>1. Holds(d, {"groups"}) => Holds(t, {"groups"})
        BY <2>3, <1>1 DEF Holds
      <3> QED
        BY <3>1, <2>1, <2>3, <1>2, <1>11 DEF Current
    <2> QED
      BY <2>2, <2>3
  <1> QED
    BY <1>7, <1>10, <1>11 DEF t, p, m

-----------------------------------------------------------------------------
(* One connection, step by step.                                           *)

LEMMA OpenTypes ==
  ASSUME Inv, NEW f \in alive
  PROVE  /\ f \in Fds /\ f \in connections /\ peer[f] \in Users
         /\ up[f] \in Seq(Request) /\ down[f] \in Seq(Reply)
         /\ groupModel[peer[f]] \in Seq(GroupIds) /\ created \in Nat
  <1>1. f \in Fds /\ f \in connections
    BY DEF Inv, Peers, CM!TypeOK
  <1>2. peer[f] \in Users
    BY <1>1, NoUserIsNone DEF Inv, Peers
  <1> QED
    BY <1>1, <1>2, Bounds DEF Inv, Packets, Windows, Grps

LEMMA CurrentMore ==
  ASSUME NEW l \in Seq(GroupIds), NEW d \in Seq(Reply), NEW p \in Reply,
         NEW c \in Nat, NEW b \in Nat, c <= b, Current(l, d, c)
  PROVE  Current(l, Append(d, p), b)
  <1>1. CASE Holds(d, {"groups"})
    BY <1>1, HoldsMore DEF Current
  <1>2. CASE \A g \in ToSet(l) : g <= c
    BY <1>2, ListedType DEF Current
  <1> QED
    BY <1>1, <1>2 DEF Current

\* Nothing happens to it but that a request is dropped or a packet sent which
\* have no part in the list.
LEMMA ListingRests ==
  ASSUME Inv, Listings, NEW f \in alive,
         groupModel'[peer[f]] = groupModel[peer[f]], peer'[f] = peer[f], Me(f)' = Me(f),
         peer[f] \in userId' <=> peer[f] \in userId,
         created' \in Nat, created <= created',
         \/ up'[f] = up[f]
         \/ up[f] # <<>> /\ up'[f] = Tail(up[f]) /\ Head(up[f]).op \notin {"login", "list"},
         \/ down'[f] = down[f]
         \/ \E p \in Reply : p.op \in {"chat", "error", "left"} /\ down'[f] = Append(down[f], p),
         peer[f] \notin late' =>
            /\ peer[f] \notin late
            /\ \A g \in GroupIds : peer[f] \in members'[g] => peer[f] \in members[g]
  PROVE  Listing(f)'
  <1> DEFINE l == groupModel[peer[f]]
             q == up[f]
             d == down[f]
             r == up'[f]
             t == down'[f]
             c == created
             b == created'
  <1>1. /\ q \in Seq(Request) /\ d \in Seq(Reply) /\ l \in Seq(GroupIds)
        /\ c \in Nat /\ b \in Nat /\ c <= b
    BY OpenTypes
  <1>2. Listing(f)
    BY DEF Listings
  <1>3. /\ Me(f) = NoUser => ~Holds(q, {"list"}) /\ ~Holds(d, {"login", "joined"})
        /\ peer[f] \notin userId => ~Holds(q, {"create"})
        /\ Announced(l, d, c)
        /\ peer[f] \in userId => Current(l, d, c) \/ Ahead(q)
        /\ peer[f] \notin late =>
             \A g \in GroupIds : peer[f] \in members[g] => Refreshes(q, d) \/ Keeps(l, d, g)
    BY <1>2 DEF Listing
  <1>4. /\ \A op \in {"list", "create"} : Holds(r, {op}) => Holds(q, {op})
        /\ Holds(q, {"login", "list"}) => Holds(r, {"login", "list"})
        /\ Ahead(q) => Ahead(r)
    BY <1>1, HoldsLess, AheadLess
  <1>5. t = d \/ \E p \in Reply : p.op \in {"chat", "error", "left"} /\ t = Append(d, p)
    OBVIOUS
  <1> HIDE DEF l, q, d, r, t, c, b
  <1>6. ASSUME NEW p \in Reply, p.op \in {"chat", "error", "left"}
        PROVE  /\ Holds(Append(d, p), {"login", "joined"}) <=> Holds(d, {"login", "joined"})
               /\ Announced(l, Append(d, p), b)
               /\ Current(l, d, c) => Current(l, Append(d, p), b)
               /\ \A g : Keeps(l, d, g) => Keeps(l, Append(d, p), g)
    <2>1. Named(p) = {}
      BY <1>6 DEF Named
    <2>2. Announced(l, Append(d, p), b)
      BY <1>1, <1>3, <1>6, <2>1, AnnouncedMore
    <2> QED
      BY <1>1, <1>6, <2>2, HoldsMore, CurrentMore, KeepsMore
  <1>7. Announced(l, d, b) /\ (Current(l, d, c) => Current(l, d, b))
    <2>1. \A i \in DOMAIN d : \A g \in Named(d[i]) : g \in Int
      <3>1. \A i \in DOMAIN d : d[i] \in Reply
        BY <1>1, ElementOfSeq, LenProperties
      <3>2. \A g \in GroupIds : g \in Int
        BY DEF GroupIds
      <3> QED
        BY <3>1, <3>2, NamedType
    <2>2. Announced(l, d, b)
      BY <1>1, <1>3, <2>1 DEF Announced
    <2>3. Current(l, d, c) => Current(l, d, b)
      BY <1>1, ListedType DEF Current
    <2> QED
      BY <2>2, <2>3
  <1>8. /\ Holds(t, {"login", "joined"}) <=> Holds(d, {"login", "joined"})
        /\ Announced(l, t, b)
        /\ Current(l, d, c) => Current(l, t, b)
        /\ \A g : Keeps(l, d, g) => Keeps(l, t, g)
    BY <1>5, <1>6, <1>7
  <1>9. /\ Me(f)' = NoUser => ~Holds(r, {"list"}) /\ ~Holds(t, {"login", "joined"})
        /\ peer[f] \notin userId' => ~Holds(r, {"create"})
        /\ Announced(l, t, b)
        /\ peer[f] \in userId' => Current(l, t, b) \/ Ahead(r)
        /\ peer[f] \notin late' =>
             \A g \in GroupIds : peer[f] \in members'[g] => Refreshes(r, t) \/ Keeps(l, t, g)
    BY <1>3, <1>4, <1>8 DEF Refreshes
  <1> QED
    BY <1>9 DEF Listing, l, r, t, b

\* The server takes a request of it and answers with p.
LEMMA ListingServed ==
  ASSUME Inv, Listings, NEW f \in alive, NEW p \in Reply,
         groupModel'[peer[f]] = groupModel[peer[f]], peer'[f] = peer[f], Me(f)' # NoUser,
         peer[f] \in userId' <=> peer[f] \in userId,
         created' \in Nat, created <= created',
         up[f] # <<>>, up'[f] = Tail(up[f]), down'[f] = Append(down[f], p),
         \A g \in Named(p) : g <= created',
         p.op = "groups" => IsInjective(p.groups),
         p.op = "created" =>
            p.group = created + 1 /\ Current(groupModel[peer[f]], down[f], created),
         Head(up[f]).op = "list" => p.op = "groups",
         peer[f] \notin late' =>
            \A g \in GroupIds : peer[f] \in members'[g] =>
               \/ p.op \in {"login", "joined"} \/ g \in Named(p)
               \/ /\ peer[f] \notin late /\ peer[f] \in members[g]
                  /\ p.op # "groups" /\ Head(up[f]).op \notin {"login", "list"}
  PROVE  Listing(f)'
  <1> DEFINE l == groupModel[peer[f]]
             q == up[f]
             d == down[f]
             r == up'[f]
             t == down'[f]
             c == created
             b == created'
  <1>1. /\ q \in Seq(Request) /\ d \in Seq(Reply) /\ l \in Seq(GroupIds)
        /\ c \in Nat /\ b \in Nat /\ c <= b
    BY OpenTypes
  <1>2. Listing(f)
    BY DEF Listings
  <1>3. /\ peer[f] \notin userId => ~Holds(q, {"create"})
        /\ Announced(l, d, c)
        /\ peer[f] \in userId => Current(l, d, c) \/ Ahead(q)
        /\ peer[f] \notin late =>
             \A g \in GroupIds : peer[f] \in members[g] => Refreshes(q, d) \/ Keeps(l, d, g)
    BY <1>2 DEF Listing
  <1>4. /\ Holds(r, {"create"}) => Holds(q, {"create"})
        /\ Head(q).op \notin {"login", "list"} /\ Holds(q, {"login", "list"})
              => Holds(r, {"login", "list"})
        /\ Head(q).op # "list" /\ Ahead(q) => Ahead(r)
    BY <1>1, HoldsLess, AheadLess
  <1>5. Announced(l, t, b)
    BY <1>1, <1>3, AnnouncedMore
  <1>6. /\ Current(l, d, c) => Current(l, t, b)
        /\ \A g : g \in Named(p) \/ (p.op # "groups" /\ Keeps(l, d, g)) => Keeps(l, t, g)
        /\ \A ops : Holds(t, ops) <=> Holds(d, ops) \/ p.op \in ops
    BY <1>1, CurrentMore, KeepsMore, HoldsMore
  <1>7. p.op = "groups" => Current(l, t, b)
    BY <1>6 DEF Current
  <1>8. peer[f] \in userId => Current(l, t, b) \/ Ahead(r)
    <2>1. CASE Head(q).op = "list"
      BY <2>1, <1>7
    <2>2. CASE Head(q).op # "list"
      BY <2>2, <1>3, <1>4, <1>6
    <2> QED
      BY <2>1, <2>2
  <1>9. ASSUME NEW g \in GroupIds, peer[f] \notin late', peer[f] \in members'[g]
        PROVE  Refreshes(r, t) \/ Keeps(l, t, g)
    <2>1. CASE p.op \in {"login", "joined"}
      BY <2>1, <1>6 DEF Refreshes
    <2>2. CASE g \in Named(p)
      BY <2>2, <1>6
    <2>3. CASE /\ peer[f] \notin late /\ peer[f] \in members[g]
               /\ p.op # "groups" /\ Head(up[f]).op \notin {"login", "list"}
      <3>1. Refreshes(q, d) \/ Keeps(l, d, g)
        BY <2>3, <1>3
      <3>2. Refreshes(q, d) => Refreshes(r, t)
        BY <2>3, <1>4, <1>6 DEF Refreshes
      <3>3. Keeps(l, d, g) => Keeps(l, t, g)
        BY <2>3, <1>6
      <3> QED
        BY <3>1, <3>2, <3>3
    <2> QED
      BY <1>9, <2>1, <2>2, <2>3
  <1> HIDE DEF l, q, d, r, t, c, b
  <1>10. /\ peer[f] \notin userId' => ~Holds(r, {"create"})
         /\ Announced(l, t, b)
         /\ peer[f] \in userId' => Current(l, t, b) \/ Ahead(r)
         /\ peer[f] \notin late' =>
              \A g \in GroupIds : peer[f] \in members'[g] => Refreshes(r, t) \/ Keeps(l, t, g)
    BY <1>3, <1>4, <1>5, <1>8, <1>9
  <1> QED
    BY <1>10 DEF Listing, l, r, t, b

\* The client handles a packet.
LEMMA ListingRead ==
  ASSUME Inv, Listings, NEW f \in alive, down[f] # <<>>, down'[f] = Tail(down[f]),
         groupModel'[peer[f]] = After(groupModel[peer[f]], Head(down[f])),
         peer'[f] = peer[f], Me(f)' = Me(f), UNCHANGED <<groupVars, late>>,
         \/ /\ Head(down[f]).op \notin {"login", "joined"}
            /\ up'[f] = up[f] /\ userId' = userId
         \/ /\ Head(down[f]).op \in {"login", "joined"}
            /\ up'[f] = Append(up[f], [op |-> "list"])
            /\ peer[f] \in userId' <=> peer[f] \in userId \/ Head(down[f]).op = "login"
  PROVE  Listing(f)' /\ IsInjective(groupModel'[peer[f]])
  <1> DEFINE l == groupModel[peer[f]]
             q == up[f]
             d == down[f]
             r == up'[f]
             t == down'[f]
             m == groupModel'[peer[f]]
             c == created
             h == Head(down[f]).op
  <1>1. q \in Seq(Request) /\ d \in Seq(Reply) /\ l \in Seq(GroupIds) /\ c \in Nat
        /\ peer[f] \in Users
    BY OpenTypes
  <1>2. Listing(f) /\ IsInjective(l)
    BY <1>1 DEF Listings
  <1>3. /\ Me(f) = NoUser => ~Holds(q, {"list"}) /\ ~Holds(d, {"login", "joined"})
        /\ peer[f] \notin userId => ~Holds(q, {"create"})
        /\ Announced(l, d, c)
        /\ peer[f] \in userId => Current(l, d, c) \/ Ahead(q)
        /\ peer[f] \notin late =>
             \A g \in GroupIds : peer[f] \in members[g] => Refreshes(q, d) \/ Keeps(l, d, g)
    BY <1>2 DEF Listing
  <1>4. Announced(m, t, c) /\ IsInjective(m) /\ (Current(l, d, c) => Current(m, t, c))
    BY <1>1, <1>2, <1>3, AnnouncedLess
  <1>5. /\ \A g : Keeps(l, d, g) => Keeps(m, t, g)
        /\ \A ops : Holds(d, ops) <=> Holds(t, ops) \/ h \in ops
    BY <1>1, KeepsLess, HoldsLess
  <1>6. [op |-> "list"] \in Request
    BY DEF Request
  <1>7. /\ Ahead(q) => Ahead(Append(q, [op |-> "list"]))
        /\ ~Holds(q, {"create"}) => Ahead(Append(q, [op |-> "list"]))
        /\ \A ops : Holds(Append(q, [op |-> "list"]), ops) <=> Holds(q, ops) \/ "list" \in ops
    BY <1>1, <1>6, AheadMore, HoldsMore
  <1>8. \/ h \notin {"login", "joined"} /\ r = q /\ userId' = userId
        \/ /\ h \in {"login", "joined"} /\ r = Append(q, [op |-> "list"])
           /\ peer[f] \in userId' <=> peer[f] \in userId \/ h = "login"
    OBVIOUS
  <1> HIDE DEF l, q, d, r, t, m, c, h
  <1>9. /\ Me(f) = NoUser => ~Holds(r, {"list"}) /\ ~Holds(t, {"login", "joined"})
        /\ peer[f] \notin userId' => ~Holds(r, {"create"})
    BY <1>3, <1>5, <1>7, <1>8
  <1>10. peer[f] \in userId' => Current(m, t, c) \/ Ahead(r)
    BY <1>3, <1>4, <1>7, <1>8
  <1>11. ASSUME NEW g \in GroupIds, peer[f] \notin late, peer[f] \in members[g]
         PROVE  Refreshes(r, t) \/ Keeps(m, t, g)
    <2>1. Holds(q, {"login", "list"}) \/ h \in {"login", "joined"} => Holds(r, {"login", "list"})
      BY <1>7, <1>8
    <2>2. Holds(d, {"login", "joined"}) => Holds(t, {"login", "joined"}) \/ h \in {"login", "joined"}
      BY <1>5
    <2>3. Refreshes(q, d) => Refreshes(r, t)
      BY <2>1, <2>2 DEF Refreshes
    <2> QED
      BY <2>3, <1>3, <1>5, <1>11
  <1>12. Listing(f)'
    BY <1>4, <1>9, <1>10, <1>11 DEF Listing, groupVars, m, r, t, c
  <1> QED
    BY <1>12, <1>4 DEF m

\* The user asks for something.
LEMMA ListingAsked ==
  ASSUME Inv, Listings, NEW f \in alive, NEW r \in Request, r.op \notin {"login", "list"},
         peer[f] \in userId, up'[f] = Append(up[f], r),
         UNCHANGED <<cmVars, groupVars, peer, down, clientVars, late>>
  PROVE  Listing(f)'
  <1>1. up[f] \in Seq(Request)
    BY OpenTypes
  <1>2. Listing(f)
    BY DEF Listings
  <1>3. /\ \A ops : Holds(up'[f], ops) <=> Holds(up[f], ops) \/ r.op \in ops
        /\ Ahead(up[f]) => Ahead(up'[f])
    BY <1>1, HoldsMore, AheadMore
  <1>4. Me(f)' = Me(f)
    BY DEF cmVars, Me, CM!UserOn
  <1> QED
    BY <1>2, <1>3, <1>4 DEF Listing, Refreshes, groupVars, clientVars

-----------------------------------------------------------------------------
(* All connections, action by action.                                      *)

\* What is sent to one connection, or to several.
LEMMA SentOne ==
  ASSUME Inv, NEW fs, NEW p, Send(fs, p), NEW f \in alive
  PROVE  down'[f] = IF f \in fs THEN Append(down[f], p) ELSE down[f]
  BY OpenTypes DEF Send

LEMMA ServedOne ==
  ASSUME Inv, NEW e \in Fds, NEW op, Serving(e, op), NEW f \in alive
  PROVE  /\ f = e => up[f] # <<>> /\ up'[f] = Tail(up[f]) /\ Head(up[f]).op = op
         /\ f # e => up'[f] = up[f]
         /\ f \in alive' /\ peer' = peer /\ userId' = userId /\ groupModel' = groupModel
  BY OpenTypes DEF Serving, Inv, Packets, clientVars

LEMMA SameMe ==
  ASSUME UNCHANGED cmVars, NEW f
  PROVE  Me(f)' = Me(f)
  BY DEF cmVars, Me, CM!UserOn

\* The groups of a user change by a request on e; so that another connection of
\* that user may not know, the user is late.
LEMMA ChangedElsewhere ==
  ASSUME Inv, Single, NEW e \in Fds, NEW f \in alive, f # e, Me(e) # NoUser,
         Changed(e),
         \A g \in GroupIds : members'[g] \subseteq members[g] \cup {Me(e)}
  PROVE  peer[f] \notin late' =>
            /\ peer[f] \notin late
            /\ \A g \in GroupIds : peer[f] \in members'[g] => peer[f] \in members[g]
  <1>1. Me(e) = peer[e]
    BY MeIsPeer DEF Inv
  <1>2. e \in alive => peer[e] # peer[f]
    BY DEF Single
  <1> QED
    BY <1>1, <1>2 DEF Changed

\* Requests that have no part in the lists; a refused one is not for a list.
LEMMA ListingChats ==
  ASSUME Inv, Single, Listings, NEW e \in Fds,
         LeaveGroup(e) \/ ChatGroup(e) \/ Refuse(e), NEW f \in alive
  PROVE  f \in alive' /\ Listing(f)'
  <1>i. created \in Nat /\ f \in Fds /\ up[f] \in Seq(Request)
    BY OpenTypes
  <1>1. PICK op : Serving(e, op) /\ (f = e => op \notin {"login", "list"})
    <2>1. CASE LeaveGroup(e) \/ ChatGroup(e)
      BY <2>1 DEF LeaveGroup, ChatGroup
    <2>2. CASE Refuse(e)
      <3>1. Serving(e, Head(up[e]).op) /\ up[e] # <<>> /\ Refused(e)
        BY <2>2 DEF Refuse
      <3>2. ASSUME f = e, Head(up[e]).op \in {"login", "list"} PROVE FALSE
        <4>1. Me(f) = NoUser /\ Head(up[f]).op = "list"
          BY <3>1, <3>2 DEF Refused
        <4>2. Holds(up[f], {"list"})
          BY <4>1, <3>1, <3>2, <1>i, HoldsLess
        <4> QED
          BY <4>1, <4>2 DEF Listings, Listing
      <3> QED
        BY <3>1, <3>2
    <2> QED
      BY <2>1, <2>2
  <1>2. /\ f = e => up[f] # <<>> /\ up'[f] = Tail(up[f]) /\ Head(up[f]).op \notin {"login", "list"}
        /\ f # e => up'[f] = up[f]
        /\ f \in alive' /\ peer' = peer /\ userId' = userId /\ groupModel' = groupModel
    BY <1>1, ServedOne
  <1>3. /\ UNCHANGED cmVars /\ created' = created
        /\ \E fs : \E p \in Reply : p.op \in {"chat", "error", "left"} /\ Send(fs, p)
    <2>1. CASE LeaveGroup(e) \/ Refuse(e)
      <3>1. [op |-> "left"] \in Reply /\ [op |-> "error"] \in Reply
        BY DEF Reply
      <3> QED
        BY <2>1, <3>1 DEF LeaveGroup, Refuse, groupVars
    <2>2. CASE ChatGroup(e)
      <3>1. Group(e) \in GroupIds
        BY <2>2, Served, RequestFields DEF ChatGroup, Serving, Group, Inv
      <3>2. [op |-> "chat", group |-> Group(e), id |-> Len(audience) + 1] \in Reply
        BY <3>1, LenProperties DEF Inv, Heard, Reply
      <3> QED
        BY <2>2, <3>2 DEF ChatGroup, groupVars
    <2> QED
      BY <2>1, <2>2
  <1>4. \/ down'[f] = down[f]
        \/ \E p \in Reply : p.op \in {"chat", "error", "left"} /\ down'[f] = Append(down[f], p)
    BY <1>3, SentOne
  <1>5. peer[f] \notin late' =>
            /\ peer[f] \notin late
            /\ \A g \in GroupIds : peer[f] \in members'[g] => peer[f] \in members[g]
    <2>1. CASE ChatGroup(e) \/ Refuse(e)
      BY <2>1 DEF ChatGroup, Refuse, groupVars
    <2>2. CASE LeaveGroup(e)
      BY <2>2 DEF LeaveGroup, Changed, Inv, Grps
    <2> QED
      BY <2>1, <2>2
  <1>6. Me(f)' = Me(f)
    BY <1>3, SameMe
  <1> QED
    BY <1>i, <1>2, <1>3, <1>4, <1>5, <1>6, ListingRests

LEMMA ListingLogin ==
  ASSUME Inv, Listings, NEW e \in Fds, Login(e), NEW f \in alive
  PROVE  f \in alive' /\ Listing(f)'
  <1>i. /\ created \in Nat /\ f \in Fds /\ f \in connections /\ up[f] \in Seq(Request)
        /\ peer[f] \in Users
    BY OpenTypes
  <1>1. /\ f = e => up[f] # <<>> /\ up'[f] = Tail(up[f]) /\ Head(up[f]).op = "login"
        /\ f # e => up'[f] = up[f]
        /\ f \in alive' /\ peer' = peer /\ userId' = userId /\ groupModel' = groupModel
    BY ServedOne DEF Login
  <1>2. /\ down'[f] = IF f = e THEN Append(down[f], [op |-> "login"]) ELSE down[f]
        /\ UNCHANGED <<created, members, late>>
    <2>1. Send({e}, [op |-> "login"])
      BY DEF Login
    <2>2. down'[f] = IF f \in {e} THEN Append(down[f], [op |-> "login"]) ELSE down[f]
      BY <2>1, SentOne
    <2> QED
      BY <2>2 DEF Login, groupVars
  <1>3. connections' = connections /\ userOf' = [userOf EXCEPT ![e] = peer[e]]
    BY DEF Login, CM!AuthenticateConnection
  <1>4. userOf \in [Fds -> Users \cup {NoUser}]
    BY DEF Inv, Peers, CM!TypeOK, NoUser
  <1>5. CASE f = e
    <2>1. Me(f)' # NoUser
      BY <1>5, <1>i, <1>3, <1>4, NoUserIsNone DEF Me, CM!UserOn
    <2>2. PICK p \in Reply : p = [op |-> "login"]
      BY DEF Reply
    <2>3. Named(p) = {} /\ p.op = "login"
      BY <2>2 DEF Named
    <2> QED
      BY <1>5, <1>i, <1>1, <1>2, <2>1, <2>2, <2>3, ListingServed
  <1>6. CASE f # e
    <2>1. Me(f)' = Me(f)
      BY <1>6, <1>i, <1>3, <1>4 DEF Me, CM!UserOn
    <2> QED
      BY <1>6, <1>i, <1>1, <1>2, <2>1, ListingRests
  <1> QED
    BY <1>5, <1>6

\* A group more for the user of e.
LEMMA ListingCreate ==
  ASSUME Inv, Single, Listings, NEW e \in Fds, CreateGroup(e), NEW f \in alive
  PROVE  f \in alive' /\ Listing(f)'
  <1>i. /\ created \in Nat /\ f \in Fds /\ up[f] \in Seq(Request) /\ peer[f] \in Users
    BY OpenTypes
  <1> DEFINE x == [op |-> "created", group |-> created + 1]
  <1>1. /\ f = e => up[f] # <<>> /\ up'[f] = Tail(up[f]) /\ Head(up[f]).op = "create"
        /\ f # e => up'[f] = up[f]
        /\ f \in alive' /\ peer' = peer /\ userId' = userId /\ groupModel' = groupModel
    BY ServedOne DEF CreateGroup
  <1>2. /\ down'[f] = IF f = e THEN Append(down[f], x) ELSE down[f]
        /\ UNCHANGED cmVars /\ created' = created + 1 /\ Me(e) # NoUser /\ Changed(e)
        /\ created < MaxGroups /\ members' = [members EXCEPT ![created + 1] = {Me(e)}]
    <2>1. Send({e}, x)
      BY DEF CreateGroup
    <2>2. down'[f] = IF f \in {e} THEN Append(down[f], x) ELSE down[f]
      BY <2>1, SentOne
    <2> QED
      BY <2>2 DEF CreateGroup
  <1>3. Me(f)' = Me(f) /\ created' \in Nat /\ created <= created'
    BY <1>i, <1>2, SameMe
  <1>4. members \in [GroupIds -> SUBSET Users] /\ created + 1 \in GroupIds
    BY <1>i, <1>2, Bounds DEF Inv, Grps, GroupIds
  <1>5. CASE f = e
    <2>1. PICK p \in Reply : p = x
      BY <1>4 DEF Reply
    <2>2. Named(p) = {created + 1} /\ p.op = "created" /\ p.group = created + 1
      BY <2>1 DEF Named
    <2>3. Current(groupModel[peer[f]], down[f], created)
      <3>1. Holds(up[f], {"create"}) /\ ~Ahead(up[f])
        BY <1>5, <1>i, <1>1, HoldsLess, AheadLess
      <3> QED
        BY <3>1 DEF Listings, Listing
    <2>4. late' = late
      BY <1>2, <1>5 DEF Changed
    <2>5. \A g \in GroupIds : g # created + 1 => members'[g] = members[g]
      BY <1>2, <1>4
    <2>6. Me(f)' # NoUser /\ down'[f] = Append(down[f], p)
      BY <1>2, <1>3, <1>5, <2>1
    <2>7. /\ \A g \in Named(p) : g <= created'
          /\ \A g \in GroupIds : peer[f] \in members'[g] =>
               g \in Named(p) \/ peer[f] \in members[g]
      BY <1>i, <1>2, <2>2, <2>5
    <2> HIDE DEF x
    <2> QED
      BY <1>5, <1>1, <1>3, <2>2, <2>3, <2>4, <2>6, <2>7, ListingServed
  <1>6. CASE f # e
    <2>1. \A g \in GroupIds : members'[g] \subseteq members[g] \cup {Me(e)}
      BY <1>2, <1>4
    <2>2. peer[f] \notin late' =>
            /\ peer[f] \notin late
            /\ \A g \in GroupIds : peer[f] \in members'[g] => peer[f] \in members[g]
      BY <1>2, <1>6, <2>1, ChangedElsewhere
    <2> QED
      BY <1>6, <1>1, <1>2, <1>3, <2>2, ListingRests
  <1> QED
    BY <1>5, <1>6

LEMMA ListingJoin ==
  ASSUME Inv, Single, Listings, NEW e \in Fds, JoinGroup(e), NEW f \in alive
  PROVE  f \in alive' /\ Listing(f)'
  <1>i. /\ created \in Nat /\ f \in Fds /\ up[f] \in Seq(Request) /\ peer[f] \in Users
    BY OpenTypes
  <1> DEFINE x == [op |-> "joined", group |-> Group(e)]
  <1>1. /\ f = e => up[f] # <<>> /\ up'[f] = Tail(up[f]) /\ Head(up[f]).op = "join"
        /\ f # e => up'[f] = up[f]
        /\ f \in alive' /\ peer' = peer /\ userId' = userId /\ groupModel' = groupModel
    BY ServedOne DEF JoinGroup
  <1>2. /\ down'[f] = IF f = e THEN Append(down[f], x) ELSE down[f]
        /\ UNCHANGED cmVars /\ created' = created /\ Me(e) # NoUser /\ Changed(e)
        /\ members' = [members EXCEPT ![Group(e)] = @ \cup {Me(e)}]
    <2>1. Send({e}, x)
      BY DEF JoinGroup
    <2>2. down'[f] = IF f \in {e} THEN Append(down[f], x) ELSE down[f]
      BY <2>1, SentOne
    <2> QED
      BY <2>2 DEF JoinGroup
  <1>3. Me(f)' = Me(f) /\ created' \in Nat /\ created <= created'
    BY <1>i, <1>2, SameMe
  <1>4. members \in [GroupIds -> SUBSET Users] /\ Group(e) \in GroupIds
    BY Served, RequestFields DEF JoinGroup, Serving, Group, Inv, Grps
  <1>5. CASE f = e
    <2>1. PICK p \in Reply : p = x
      BY <1>4 DEF Reply
    <2>2. Named(p) = {} /\ p.op = "joined"
      BY <2>1 DEF Named
    <2>3. Me(f)' # NoUser /\ down'[f] = Append(down[f], p)
      BY <1>2, <1>3, <1>5, <2>1
    <2> HIDE DEF x
    <2> QED
      BY <1>5, <1>1, <1>3, <2>2, <2>3, ListingServed
  <1>6. CASE f # e
    <2>1. \A g \in GroupIds : members'[g] \subseteq members[g] \cup {Me(e)}
      BY <1>2, <1>4
    <2>2. peer[f] \notin late' =>
            /\ peer[f] \notin late
            /\ \A g \in GroupIds : peer[f] \in members'[g] => peer[f] \in members[g]
      BY <1>2, <1>6, <2>1, ChangedElsewhere
    <2> QED
      BY <1>6, <1>1, <1>2, <1>3, <2>2, ListingRests
  <1> QED
    BY <1>5, <1>6

\* The list that is sent names the groups of the user at this moment.
LEMMA ListingLists ==
  ASSUME Inv, Single, Listings, NEW e \in Fds, ListGroups(e), NEW f \in alive
  PROVE  f \in alive' /\ Listing(f)'
  <1>i. /\ created \in Nat /\ f \in Fds /\ up[f] \in Seq(Request) /\ peer[f] \in Users
    BY OpenTypes
  <1>1. /\ f = e => up[f] # <<>> /\ up'[f] = Tail(up[f]) /\ Head(up[f]).op = "list"
        /\ f # e => up'[f] = up[f]
        /\ f \in alive' /\ peer' = peer /\ userId' = userId /\ groupModel' = groupModel
    BY ServedOne DEF ListGroups
  <1>2. PICK gs \in InOrder(GroupsOf(Me(e))) : Send({e}, [op |-> "groups", groups |-> gs])
    BY DEF ListGroups
  <1>3. /\ UNCHANGED <<created, members>> /\ UNCHANGED cmVars /\ Me(e) # NoUser
        /\ late' = IF e \in alive THEN late \ {Me(e)} ELSE late
    BY DEF ListGroups, groupVars
  <1>4. Me(f)' = Me(f) /\ created' \in Nat /\ created <= created'
    BY <1>i, <1>3, SameMe
  <1>5. Me(e) = peer[e]
    BY <1>3, MeIsPeer DEF Inv
  <1>6. /\ gs \in Seq(GroupIds) /\ IsInjective(gs) /\ ToSet(gs) = GroupsOf(Me(e))
        /\ \A g \in ToSet(gs) : g <= created
    <2>1. GroupsOf(Me(e)) \in SUBSET GroupIds
      BY DEF GroupsOf
    <2>2. gs \in Seq(GroupIds) /\ IsInjective(gs) /\ ToSet(gs) = GroupsOf(Me(e))
      BY <1>2, <2>1, InOrderType, InOrderLists
    <2>3. ASSUME NEW g \in GroupsOf(Me(e)) PROVE g <= created
      <3>1. g \in GroupIds /\ ~(g > created)
        BY DEF GroupsOf, Inv, Grps
      <3> QED
        BY <3>1, <1>i DEF GroupIds
    <2> QED
      BY <2>2, <2>3
  <1>7. CASE f = e
    <2>1. PICK p \in Reply : p = [op |-> "groups", groups |-> gs]
      BY <1>6 DEF Reply
    <2>2. Named(p) = ToSet(gs) /\ p.op = "groups" /\ p.groups = gs
      BY <2>1 DEF Named
    <2>3. down'[f] = Append(down[f], p)
      BY <1>2, <1>7, <2>1, SentOne
    <2>4. \A g \in GroupIds : peer[f] \in members'[g] => g \in Named(p)
      BY <1>3, <1>5, <1>6, <1>7, <2>2 DEF GroupsOf
    <2>5. Me(f)' # NoUser
      BY <1>3, <1>4, <1>7
    <2> QED
      BY <1>7, <1>1, <1>3, <1>4, <1>6, <2>2, <2>3, <2>4, <2>5, ListingServed
  <1>8. CASE f # e
    <2>1. down'[f] = down[f]
      <3>1. f \notin {e}
        BY <1>8
      <3> QED
        BY <3>1, <1>2, SentOne
    <2>2. peer[f] \notin late' => peer[f] \notin late
      BY <1>3, <1>5, <1>8 DEF Single
    <2> QED
      BY <1>8, <1>1, <1>3, <1>4, <2>1, <2>2, ListingRests
  <1> QED
    BY <1>7, <1>8

LEMMA ListingClose ==
  ASSUME Inv, Listings, NEW e \in Fds, Close(e), NEW f \in alive
  PROVE  f \in alive' /\ peer'[f] = peer[f] /\ Listing(f)'
  <1>i. f \in Fds /\ f \in connections /\ created \in Nat /\ peer \in [Fds -> Users \cup {NoUser}]
    BY OpenTypes DEF Inv, Peers
  <1>1. /\ e \notin alive /\ alive' = alive /\ f # e
        /\ peer' = [peer EXCEPT ![e] = NoUser]
        /\ up' = [up EXCEPT ![e] = <<>>] /\ down' = [down EXCEPT ![e] = <<>>]
        /\ UNCHANGED <<created, members, userId, groupModel, late>>
    BY DEF Close, groupVars, clientVars
  <1>2. connections' = connections \ {e} /\ userOf' = [userOf EXCEPT ![e] = NoUser]
    BY DEF Close, CM!RemoveConnection, NoUser
  <1>3. Me(f)' = Me(f)
    BY <1>i, <1>1, <1>2 DEF Me, CM!UserOn, Inv, Peers, CM!TypeOK
  <1>4. peer'[f] = peer[f] /\ up'[f] = up[f] /\ down'[f] = down[f]
    BY <1>i, <1>1 DEF Inv, Packets
  <1> QED
    BY <1>i, <1>1, <1>3, <1>4, ListingRests

\* A client leaves e; its user id goes with it.
LEMMA ListingDisconnect ==
  ASSUME Inv, Single, Listings, NEW e \in Fds, Disconnect(e), NEW f \in alive'
  PROVE  f \in alive /\ peer'[f] = peer[f] /\ Listing(f)'
  <1>1. /\ e \in alive /\ alive' = alive \ {e} /\ f \in alive /\ f # e
        /\ down' = [down EXCEPT ![e] = <<>>] /\ userId' = userId \ {peer[e]}
        /\ UNCHANGED <<cmVars, peer, created, members, up, groupModel, late>>
    BY DEF Disconnect, groupVars
  <1>i. f \in Fds /\ created \in Nat
    BY <1>1, OpenTypes
  <1>2. peer[f] # peer[e]
    BY <1>1 DEF Single
  <1>3. Me(f)' = Me(f) /\ down'[f] = down[f]
    BY <1>1, <1>i, SameMe DEF Inv, Packets
  <1> QED
    BY <1>i, <1>1, <1>2, <1>3, ListingRests

\* A new connection: it will ask for the list once it is logged in.
LEMMA ListingConnect ==
  ASSUME Inv, Listings, NEW e \in Fds, NEW u \in Users, Connect(u, e), NEW f \in alive'
  PROVE  Listing(f)' /\ (f # e => f \in alive /\ peer'[f] = peer[f])
  <1>1. /\ alive' = alive \cup {e} /\ e \notin connections
        /\ \A g \in alive : peer[g] # u
        /\ peer' = [peer EXCEPT ![e] = u]
        /\ up' = [up EXCEPT ![e] = <<[op |-> "login"]>>]
        /\ connections' = connections \cup {e} /\ userOf' = [userOf EXCEPT ![e] = NoUser]
        /\ UNCHANGED <<created, members, down, userId, groupModel, late>>
    BY DEF Connect, CM!AddConnection, groupVars, clientVars, NoUser
  <1>2. CASE f # e
    <2>1. f \in alive /\ f \in Fds /\ f \in connections /\ created \in Nat
      BY <1>1, <1>2, OpenTypes
    <2>2. Me(f)' = Me(f)
      BY <1>1, <1>2, <2>1 DEF Me, CM!UserOn, Inv, Peers, CM!TypeOK
    <2>3. peer'[f] = peer[f] /\ up'[f] = up[f]
      BY <1>1, <1>2, <2>1 DEF Inv, Peers, Packets
    <2> QED
      BY <1>1, <2>1, <2>2, <2>3, ListingRests
  <1>3. CASE f = e
    <2>1. e \notin alive
      BY <1>1 DEF Inv, Peers
    <2>2. down'[f] = <<>> /\ DOMAIN <<>> = {}
      BY <1>1, <1>3, <2>1, EmptySeq DEF Inv, Packets
    <2>3. peer'[f] = u /\ up'[f] = <<[op |-> "login"]>>
      BY <1>1, <1>3 DEF Inv, Peers, Packets
    <2>4. u \notin userId
      BY <1>1 DEF Listings
    <2>5. \A ops : Holds(up'[f], ops) <=> "login" \in ops
      BY <2>3 DEF Holds
    <2>6. \A ops : ~Holds(down'[f], ops)
      BY <2>2 DEF Holds
    <2>7. \A l : Announced(l, down'[f], created)
      BY <2>2 DEF Announced
    <2> QED
      BY <1>1, <2>3, <2>4, <2>5, <2>6, <2>7 DEF Listing, Refreshes
  <1> QED
    BY <1>1, <1>2, <1>3

\* The window handles what has arrived on e.
LEMMA ListingArrives ==
  ASSUME Inv, Single, Listings, NEW e \in Fds,
         LoggedIn(e) \/ Joined(e) \/ Created(e) \/ GroupsListReceived(e)
           \/ GroupMessageReceived(e) \/ Notified(e)
  PROVE  /\ e \in alive /\ alive' = alive /\ peer' = peer
         /\ userId' \subseteq userId \cup {peer[e]}
         /\ \A f \in alive : Listing(f)'
         /\ \A u \in Users : IsInjective(groupModel'[u])
  <1> DEFINE p == Head(down[e])
             m == After(groupModel[peer[e]], p)
  <1>1. /\ e \in alive /\ down[e] # <<>> /\ down' = [down EXCEPT ![e] = Tail(@)]
        /\ UNCHANGED <<cmVars, groupVars, peer, alive, late>>
    BY DEF LoggedIn, Joined, Created, GroupsListReceived, GroupMessageReceived, Notified,
       Arrives
  <1>i. /\ up \in [Fds -> Seq(Request)] /\ down \in [Fds -> Seq(Reply)]
        /\ groupModel \in [Users -> Seq(GroupIds)] /\ peer[e] \in Users /\ created \in Nat
    BY <1>1, OpenTypes DEF Inv, Packets, Windows
  <1>2. /\ \/ p.op \notin {"login", "joined"} /\ up' = up /\ userId' = userId
           \/ /\ p.op \in {"login", "joined"}
              /\ up' = [up EXCEPT ![e] = Append(@, [op |-> "list"])]
              /\ userId' = IF p.op = "login" THEN userId \cup {peer[e]} ELSE userId
        /\ groupModel' = [groupModel EXCEPT ![peer[e]] = m]
    <2>1. CASE LoggedIn(e)
      BY <2>1, <1>i DEF LoggedIn, Arrives, After
    <2>2. CASE Joined(e)
      BY <2>2, <1>i DEF Joined, Arrives, After, clientVars
    <2>3. CASE Created(e)
      BY <2>3, <1>i DEF Created, Arrives, After
    <2>4. CASE GroupsListReceived(e)
      BY <2>4, <1>i DEF GroupsListReceived, Arrives, After
    <2>5. CASE GroupMessageReceived(e) \/ Notified(e)
      BY <2>5, <1>i DEF GroupMessageReceived, Notified, Arrives, After, clientVars
    <2> QED
      BY <2>1, <2>2, <2>3, <2>4, <2>5
  <1> HIDE DEF p, m
  <1>3. ASSUME NEW f PROVE Me(f)' = Me(f)
    BY <1>1, SameMe
  <1>4. Listing(e)' /\ IsInjective(groupModel'[peer[e]])
    <2>1. /\ down'[e] = Tail(down[e]) /\ groupModel'[peer[e]] = m /\ peer'[e] = peer[e]
          /\ UNCHANGED <<groupVars, late>>
      BY <1>i, <1>1, <1>2
    <2>2. \/ p.op \notin {"login", "joined"} /\ up'[e] = up[e] /\ userId' = userId
          \/ /\ p.op \in {"login", "joined"} /\ up'[e] = Append(up[e], [op |-> "list"])
             /\ peer[e] \in userId' <=> peer[e] \in userId \/ p.op = "login"
      BY <1>i, <1>2
    <2> QED
      BY <1>1, <1>3, <2>1, <2>2, ListingRead DEF p, m
  <1>5. ASSUME NEW f \in alive, f # e PROVE Listing(f)'
    <2>1. peer[f] # peer[e] /\ f \in Fds /\ peer[f] \in Users
      BY <1>1, <1>5, OpenTypes DEF Single
    <2>2. /\ up'[f] = up[f] /\ down'[f] = down[f] /\ peer'[f] = peer[f]
          /\ groupModel'[peer[f]] = groupModel[peer[f]]
          /\ peer[f] \in userId' <=> peer[f] \in userId
      BY <1>i, <1>1, <1>2, <2>1, <1>5
    <2>3. UNCHANGED <<created, members, late>> /\ created <= created
      BY <1>i, <1>1 DEF groupVars
    <2> QED
      BY <1>i, <1>3, <2>2, <2>3, ListingRests
  <1>6. ASSUME NEW u \in Users, u # peer[e] PROVE IsInjective(groupModel'[u])
    BY <1>6, <1>i, <1>2 DEF Listings
  <1> QED
    BY <1>1, <1>2, <1>4, <1>5, <1>6

LEMMA ListingAsks ==
  ASSUME Inv, Listings, NEW e \in Fds, NEW u \in Users, Ask(u, e), NEW f \in alive
  PROVE  Listing(f)'
  <1>1. /\ e \in alive /\ peer[e] = u /\ u \in userId
        /\ \E r \in Wishes(u) : up' = [up EXCEPT ![e] = Append(@, r)]
        /\ UNCHANGED <<cmVars, groupVars, peer, down, clientVars, late>>
    BY DEF Ask
  <1>i. /\ f \in Fds /\ created \in Nat /\ up \in [Fds -> Seq(Request)]
        /\ groupModel[u] \in Seq(GroupIds)
    BY OpenTypes DEF Inv, Packets, Windows
  <1>2. ToSet(groupModel[u]) \subseteq GroupIds
    BY <1>i, ListedType
  <1>3. PICK r \in Wishes(u) : up' = [up EXCEPT ![e] = Append(@, r)]
    BY <1>1
  <1>4. r \in Request /\ r.op \notin {"login", "list"}
    BY <1>2 DEF Wishes, Request
  <1>5. CASE f = e
    <2>1. up'[f] = Append(up[f], r)
      BY <1>3, <1>5, <1>i
    <2> QED
      BY <2>1, <1>1, <1>4, <1>5, ListingAsked
  <1>6. CASE f # e
    <2>1. up'[f] = up[f]
      BY <1>3, <1>6, <1>i
    <2>2. Me(f)' = Me(f)
      BY <1>1, SameMe
    <2> QED
      BY <1>1, <1>i, <2>1, <2>2, ListingRests DEF groupVars, clientVars
  <1> QED
    BY <1>5, <1>6

LEMMA ListingsStep == Inv /\ Single /\ Listings /\ [Next]_vars => Listings'
  <1> SUFFICES ASSUME Inv, Single, Listings, [Next]_vars PROVE Listings'
    OBVIOUS
  <1>s. ASSUME UNCHANGED <<userId, groupModel>>, \A f \in alive : f \in alive' /\ Listing(f)',
               \A f \in alive : peer'[f] = peer[f], alive' \subseteq alive
        PROVE  Listings'
    BY <1>s DEF Listings
  <1>1. CASE Restart
    <2>1. alive' = {} /\ userId' = {} /\ groupModel' = groupModel
      BY <1>1 DEF Restart
    <2> QED
      BY <2>1 DEF Listings
  <1>2. ASSUME NEW e \in Fds, Login(e) \/ CreateGroup(e) \/ JoinGroup(e) \/ LeaveGroup(e)
                                \/ ListGroups(e) \/ ChatGroup(e) \/ Refuse(e)
        PROVE  Listings'
    <2>1. UNCHANGED <<userId, groupModel, peer, alive>>
      BY <1>2 DEF Login, CreateGroup, JoinGroup, LeaveGroup, ListGroups, ChatGroup, Refuse,
         Serving, clientVars
    <2>2. \A f \in alive : f \in alive' /\ Listing(f)'
      BY <1>2, ListingLogin, ListingCreate, ListingJoin, ListingLists, ListingChats
    <2> QED
      BY <2>1, <2>2, <1>s
  <1>3. ASSUME NEW e \in Fds, Close(e) PROVE Listings'
    <2>1. UNCHANGED <<userId, groupModel, alive>>
      BY <1>3 DEF Close, clientVars
    <2>2. \A f \in alive : f \in alive' /\ peer'[f] = peer[f] /\ Listing(f)'
      BY <1>3, ListingClose
    <2> QED
      BY <2>1, <2>2, <1>s
  <1>4. ASSUME NEW e \in Fds,
               LoggedIn(e) \/ Joined(e) \/ Created(e) \/ GroupsListReceived(e)
                 \/ GroupMessageReceived(e) \/ Notified(e)
        PROVE  Listings'
    <2>1. /\ e \in alive /\ alive' = alive /\ peer' = peer
          /\ userId' \subseteq userId \cup {peer[e]}
          /\ \A f \in alive : Listing(f)'
          /\ \A u \in Users : IsInjective(groupModel'[u])
      BY <1>4, ListingArrives
    <2> QED
      BY <2>1 DEF Listings
  <1>5. ASSUME NEW e \in Fds, Disconnect(e) PROVE Listings'
    <2>1. /\ alive' = alive \ {e} /\ UNCHANGED <<peer, groupModel>>
          /\ userId' = userId \ {peer[e]}
      BY <1>5 DEF Disconnect
    <2>2. \A f \in alive' : Listing(f)'
      BY <1>5, ListingDisconnect
    <2>3. userId' \subseteq {peer[f] : f \in alive'}
      BY <2>1 DEF Listings
    <2> QED
      BY <2>1, <2>2, <2>3 DEF Listings
  <1>6. ASSUME NEW e \in Fds, NEW u \in Users, Connect(u, e) PROVE Listings'
    <2>1. /\ alive' = alive \cup {e} /\ e \notin connections
          /\ UNCHANGED <<userId, groupModel>>
      BY <1>6 DEF Connect, clientVars
    <2>2. e \notin alive
      BY <2>1 DEF Inv, Peers
    <2>3. \A f \in alive' : Listing(f)' /\ (f # e => peer'[f] = peer[f])
      BY <1>6, ListingConnect
    <2>4. userId' \subseteq {peer'[f] : f \in alive'}
      BY <2>1, <2>2, <2>3 DEF Listings
    <2> QED
      BY <2>1, <2>3, <2>4 DEF Listings
  <1>7. ASSUME NEW e \in Fds, NEW u \in Users, Ask(u, e) PROVE Listings'
    <2>1. UNCHANGED <<userId, groupModel, alive, peer>>
      BY <1>7 DEF Ask, clientVars
    <2>2. \A f \in alive : Listing(f)'
      BY <1>7, ListingAsks
    <2> QED
      BY <2>1, <2>2, <1>s
  <1>8. CASE UNCHANGED vars
    BY <1>8 DEF vars, cmVars, groupVars, netVars, clientVars, Listings, Listing, Me,
       CM!UserOn
  <1> QED
    BY <1>1, <1>2, <1>3, <1>4, <1>5, <1>6, <1>7, <1>8 DEF Next, Server, Client

\* At rest the list of a logged in client has no group twice and misses no group
\* of its user, over reconnects and restarts of the server, unless a request of
\* a former connection was handled late (main_window.cpp:642, 741-763, 939-955).
THEOREM ListsComplete == Spec => []GroupsShown
  <1>1. Init => Listings
    <2>1. ASSUME Init PROVE alive = {} /\ userId = {} /\ \A u \in Users : groupModel[u] = <<>>
      BY <2>1 DEF Init
    <2>2. IsInjective(<<>>)
      BY EmptySeq DEF IsInjective
    <2> QED
      BY <2>1, <2>2 DEF Listings
  <1>2. ASSUME Inv, Listings PROVE GroupsShown
    <2> SUFFICES ASSUME NEW f \in alive, peer[f] \in userId, Quiet(f)
                 PROVE  /\ IsInjective(groupModel[peer[f]])
                        /\ \/ peer[f] \in late
                           \/ \A g \in GroupIds : peer[f] \in members[g]
                                                    => g \in ToSet(groupModel[peer[f]])
      BY DEF GroupsShown
    <2>1. DOMAIN up[f] = {} /\ DOMAIN down[f] = {}
      BY EmptySeq DEF Quiet
    <2>2. ~Refreshes(up[f], down[f])
      BY <2>1 DEF Refreshes, Holds
    <2>3. ASSUME NEW g, Keeps(groupModel[peer[f]], down[f], g)
          PROVE  g \in ToSet(groupModel[peer[f]])
      BY <2>1, <2>3 DEF Keeps
    <2>4. IsInjective(groupModel[peer[f]])
      BY <1>2, OpenTypes DEF Listings
    <2> QED
      BY <1>2, <2>2, <2>3, <2>4 DEF Listings, Listing
  <1> QED
    BY <1>1, <1>2, ListingsStep, InductiveInvariant, SingleAlways, PTL DEF Spec
=============================================================================
