----------------------------- MODULE GroupChat -----------------------------
(***************************************************************************)
(* Group chat, from the window of the Qt client to the members' windows:   *)
(* the group manager, the group requests of the message handler, the       *)
(* connection manager they look routes up in, and the clients' lists of    *)
(* groups, with the stream in each direction between a client and the      *)
(* server.                                                                 *)
(*                                                                         *)
(* There is one client per user.  It logs in as soon as it is connected,   *)
(* once per connection.  When its end of a connection is closed it may     *)
(* connect again before the server has noticed: the server then has two    *)
(* connections of that user, and still reads what was sent on the old one. *)
(* One step of the server is one request handled (see ImServer for the     *)
(* loop around it); queue and socket are one FIFO here.                    *)
(***************************************************************************)
EXTENDS Integers, Sequences, FiniteSets, SequencesExt

CONSTANTS
    Fds,        \* descriptors that accept() can return
    Users,      \* registered users, each with one client
    MaxGroups,  \* bound: groups created by one process
    MaxMessages,\* bound: group messages accepted
    MaxFlight,  \* bound: packets in flight when a client sends a request
    MaxConnects \* bound: connections accepted

ASSUME FdsBound   == Fds \subseteq Nat \ {0}
ASSUME UsersBound == 0 \notin Users
ASSUME Bounds     == {MaxGroups, MaxMessages, MaxFlight, MaxConnects} \subseteq Nat

VARIABLES
    connections, userOf, userToConn,    \* ConnectionManager
    created,    \* groups in groups_: the ids 1..created (1000.. in the code)
    members,    \* groups_[g].members
    peer,       \* the client at the other end of a connection ...
    alive,      \* ... and the connections whose other end is open
    up, down,   \* requests to the server, packets to the client
    userId,     \* clients whose user_id_ is set: the main page is shown
    groupModel, \* the group list of a client
    audience,   \* history: the members when the m-th group message was accepted
    got,        \* history: group messages handled by a client
    accepted,   \* history: connections accepted (bounds the behaviour only)
    late        \* history: users whose groups changed by a request of a closed
                \* connection that was handled after their last LIST_GROUPS

cmVars     == <<connections, userOf, userToConn>>
groupVars  == <<created, members>>
netVars    == <<peer, alive, up, down>>
clientVars == <<userId, groupModel, got>>
vars == <<cmVars, groupVars, netVars, clientVars, audience, accepted, late>>

CM == INSTANCE ConnectionManager
NoConn == CM!NoConn
NoUser == CM!NoUser

GroupIds == 1..MaxGroups

Request == [op : {"login", "create", "list"}]
             \cup [op : {"join", "leave", "chat"}, group : GroupIds]
Reply   == [op : {"login", "error", "left"}]
             \cup [op : {"created", "joined"}, group : GroupIds]
             \cup [op : {"groups"}, groups : Seq(GroupIds)]
             \cup [op : {"chat"}, group : GroupIds, id : Nat]

TypeOK ==
    /\ CM!TypeOK
    /\ created \in 0..MaxGroups
    /\ members \in [GroupIds -> SUBSET Users]
    /\ \A g \in GroupIds : g > created => members[g] = {}
    /\ peer \in [Fds -> Users \cup {NoUser}]
    /\ alive \subseteq connections
    /\ up \in [Fds -> Seq(Request)]
    /\ down \in [Fds -> Seq(Reply)]
    /\ userId \subseteq Users
    /\ groupModel \in [Users -> Seq(GroupIds)]
    /\ audience \in Seq(SUBSET Users)
    /\ got \in [Users -> Seq(DOMAIN audience)]
    /\ accepted \in 0..MaxConnects
    /\ late \subseteq Users

Init ==
    /\ CM!Init
    /\ created = 0 /\ members = [g \in GroupIds |-> {}]
    /\ peer = [f \in Fds |-> NoUser] /\ alive = {}
    /\ up = [f \in Fds |-> <<>>] /\ down = [f \in Fds |-> <<>>]
    /\ userId = {} /\ groupModel = [u \in Users |-> <<>>]
    /\ got = [u \in Users |-> <<>>]
    /\ audience = <<>> /\ accepted = 0 /\ late = {}

InFlight ==
    FoldSet(LAMBDA f, n : n + Len(up[f]) + Len(down[f]), 0, Fds)

-----------------------------------------------------------------------------
(* The server.                                                             *)

\* get_user_groups: the groups are in a std::map, in ascending order
GroupsOf(u) == {g \in GroupIds : u \in members[g]}
InOrder(S) ==
    {s \in [1..Cardinality(S) -> S] : \A i, j \in DOMAIN s : i < j => s[i] < s[j]}

\* the next request on f
Serving(f, op) ==
    /\ f \in connections
    /\ up[f] # <<>> /\ Head(up[f]).op = op
    /\ up' = [up EXCEPT ![f] = Tail(@)]
    /\ UNCHANGED <<peer, alive, clientVars, accepted>>

\* what is sent to a closed end is lost
Send(fs, p) ==
    down' = [g \in Fds |-> IF g \in fs \cap alive THEN Append(down[g], p) ELSE down[g]]

Me(f)    == CM!UserOn(f)
Group(f) == Head(up[f]).group

\* f's user changes its groups, maybe on a connection its client has left
Changed(f) == late' = IF f \in alive THEN late ELSE late \cup {Me(f)}

Login(f) ==
    /\ Serving(f, "login")
    /\ CM!AuthenticateConnection(f, peer[f])
    /\ Send({f}, [op |-> "login"])
    /\ UNCHANGED <<groupVars, audience, late>>

\* handle_create_group: the creator is the first member
CreateGroup(f) ==
    /\ Serving(f, "create")
    /\ Me(f) # NoUser /\ created < MaxGroups
    /\ created' = created + 1
    /\ members' = [members EXCEPT ![created + 1] = {Me(f)}]
    /\ Send({f}, [op |-> "created", group |-> created + 1])
    /\ Changed(f)
    /\ UNCHANGED <<cmVars, audience>>

\* mutant of JoinGroup: the group need not exist
JoinGroup_Unchecked(f) ==
    /\ Serving(f, "join")
    /\ Me(f) # NoUser /\ Me(f) \notin members[Group(f)]
    /\ members' = [members EXCEPT ![Group(f)] = @ \cup {Me(f)}]
    /\ Send({f}, [op |-> "joined", group |-> Group(f)])
    /\ Changed(f)
    /\ UNCHANGED <<cmVars, created, audience>>

\* handle_join_group
JoinGroup(f) ==
    /\ Serving(f, "join")
    /\ Me(f) # NoUser /\ Group(f) <= created /\ Me(f) \notin members[Group(f)]
    /\ members' = [members EXCEPT ![Group(f)] = @ \cup {Me(f)}]
    /\ Send({f}, [op |-> "joined", group |-> Group(f)])
    /\ Changed(f)
    /\ UNCHANGED <<cmVars, created, audience>>

\* handle_leave_group: a group without members stays
LeaveGroup(f) ==
    /\ Serving(f, "leave")
    /\ Me(f) \in members[Group(f)]
    /\ members' = [members EXCEPT ![Group(f)] = @ \ {Me(f)}]
    /\ Send({f}, [op |-> "left"])
    /\ Changed(f)
    /\ UNCHANGED <<cmVars, created, audience>>

\* handle_list_groups
ListGroups(f) ==
    /\ Serving(f, "list")
    /\ Me(f) # NoUser
    /\ \E gs \in InOrder(GroupsOf(Me(f))) : Send({f}, [op |-> "groups", groups |-> gs])
    /\ late' = IF f \in alive THEN late \ {Me(f)} ELSE late
    /\ UNCHANGED <<cmVars, groupVars, audience>>

\* mutant of Routes: all connections of the server
Routes_All(g) == connections

\* notify_targets of CHAT_GROUP
Routes(g) == {CM!ConnectionOf(u) : u \in members[g]} \cap connections

\* mutant of ChatGroup: the sender is a target too
ChatGroup_Twice(f) ==
    /\ Serving(f, "chat")
    /\ Me(f) \in members[Group(f)]
    /\ Len(audience) < MaxMessages
    /\ audience' = Append(audience, members[Group(f)])
    /\ LET p == [op |-> "chat", group |-> Group(f), id |-> Len(audience) + 1]
           copies(g) == (IF g = f THEN <<p>> ELSE <<>>)
                          \o (IF g \in Routes(Group(f)) THEN <<p>> ELSE <<>>)
       IN  down' = [g \in Fds |-> IF g \in alive THEN down[g] \o copies(g) ELSE down[g]]
    /\ UNCHANGED <<cmVars, groupVars, late>>

\* handle_chat_group: the sender gets the packet as the answer to its request
\* and therefore not once more as a member
ChatGroup(f) ==
    /\ Serving(f, "chat")
    /\ Me(f) \in members[Group(f)]
    /\ Len(audience) < MaxMessages
    /\ audience' = Append(audience, members[Group(f)])
    /\ Send({f} \cup Routes(Group(f)),
            [op |-> "chat", group |-> Group(f), id |-> Len(audience) + 1])
    /\ UNCHANGED <<cmVars, groupVars, late>>

\* the requests that are answered with an error
Refused(f) ==
    \/ Me(f) = NoUser /\ Head(up[f]).op # "login"
    \/ /\ Head(up[f]).op = "join"
       /\ Group(f) > created \/ Me(f) \in members[Group(f)]
    \/ Head(up[f]).op \in {"leave", "chat"} /\ Me(f) \notin members[Group(f)]

\* the error of CHAT_GROUP goes to the members too
Refuse(f) ==
    /\ f \in connections /\ up[f] # <<>> /\ Refused(f)
    /\ Serving(f, Head(up[f]).op)
    /\ Send({f} \cup (IF Head(up[f]).op = "chat" THEN Routes(Group(f)) ELSE {}),
            [op |-> "error"])
    /\ UNCHANGED <<cmVars, groupVars, audience, late>>

\* The loop reads the end of a stream, or an error that hides what was left.
Close(f) ==
    /\ f \in connections \ alive
    /\ CM!RemoveConnection(f)
    /\ peer' = [peer EXCEPT ![f] = NoUser]
    /\ up' = [up EXCEPT ![f] = <<>>] /\ down' = [down EXCEPT ![f] = <<>>]
    /\ UNCHANGED <<groupVars, alive, clientVars, audience, accepted, late>>

\* The process ends and starts again: no connections and no groups.
Restart ==
    /\ CM!Restart
    /\ created' = 0 /\ members' = [g \in GroupIds |-> {}]
    /\ peer' = [f \in Fds |-> NoUser] /\ alive' = {}
    /\ up' = [f \in Fds |-> <<>>] /\ down' = [f \in Fds |-> <<>>]
    /\ userId' = {} /\ late' = {}
    /\ UNCHANGED <<groupModel, got, audience, accepted>>

-----------------------------------------------------------------------------
(* The client.                                                             *)

\* The user presses login: connect_to_server, and LOGIN once connected.
Connect(u, f) ==
    /\ \A g \in alive : peer[g] # u
    /\ f \in Fds \ connections /\ \A g \in Fds \ connections : f <= g
    /\ accepted < MaxConnects /\ accepted' = accepted + 1
    /\ CM!AddConnection(f)
    /\ peer' = [peer EXCEPT ![f] = u]
    /\ alive' = alive \cup {f}
    /\ up' = [up EXCEPT ![f] = <<[op |-> "login"]>>]
    /\ UNCHANGED <<groupVars, down, clientVars, audience, late>>

\* on_disconnected: the list of groups stays
Disconnect(f) ==
    /\ f \in alive
    /\ alive' = alive \ {f}
    /\ down' = [down EXCEPT ![f] = <<>>]
    /\ userId' = userId \ {peer[f]}
    /\ UNCHANGED <<cmVars, groupVars, peer, up, groupModel, got, audience,
                   accepted, late>>

\* What a client can ask for once it is logged in: the group to join is typed in,
\* the group to talk to is selected in the list. The window has no button for
\* LEAVE_GROUP, IMClientNetwork has the request.
Wishes(u) ==
    [op : {"create"}] \cup [op : {"join"}, group : GroupIds]
      \cup [op : {"leave", "chat"}, group : ToSet(groupModel[u])]

Ask(u, f) ==
    /\ f \in alive /\ peer[f] = u /\ u \in userId
    /\ InFlight < MaxFlight
    /\ \E r \in Wishes(u) :
         /\ r.op = "create" => created < MaxGroups
         /\ r.op = "chat" => Len(audience) < MaxMessages
         /\ up' = [up EXCEPT ![f] = Append(@, r)]
    /\ UNCHANGED <<cmVars, groupVars, peer, alive, down, clientVars, audience,
                   accepted, late>>

\* on_ready_read: the next packet
Arrives(f, ops) ==
    /\ f \in alive
    /\ down[f] # <<>> /\ Head(down[f]).op \in ops
    /\ down' = [down EXCEPT ![f] = Tail(@)]
    /\ UNCHANGED <<cmVars, groupVars, peer, alive, audience, accepted, late>>

\* mutant of LoggedIn: the list of groups is not asked for
LoggedIn_NoRefresh(f) ==
    /\ Arrives(f, {"login"})
    /\ userId' = userId \cup {peer[f]}
    /\ UNCHANGED <<up, groupModel, got>>

\* on_login_success: refresh_groups
LoggedIn(f) ==
    /\ Arrives(f, {"login"})
    /\ userId' = userId \cup {peer[f]}
    /\ up' = [up EXCEPT ![f] = Append(@, [op |-> "list"])]
    /\ UNCHANGED <<groupModel, got>>

\* on_group_joined: refresh_groups
Joined(f) ==
    /\ Arrives(f, {"joined"})
    /\ up' = [up EXCEPT ![f] = Append(@, [op |-> "list"])]
    /\ UNCHANGED clientVars

\* on_group_created
Created(f) ==
    /\ Arrives(f, {"created"})
    /\ groupModel' = [groupModel EXCEPT ![peer[f]] = Append(@, Head(down[f]).group)]
    /\ UNCHANGED <<up, userId, got>>

\* on_groups_list_received: clear_groups, then add_group for each
GroupsListReceived(f) ==
    /\ Arrives(f, {"groups"})
    /\ groupModel' = [groupModel EXCEPT ![peer[f]] = Head(down[f]).groups]
    /\ UNCHANGED <<up, userId, got>>

\* on_group_message_received
GroupMessageReceived(f) ==
    /\ Arrives(f, {"chat"})
    /\ got' = [got EXCEPT ![peer[f]] = Append(@, Head(down[f]).id)]
    /\ UNCHANGED <<up, userId, groupModel>>

\* on_notify: a box; the answer to LEAVE_GROUP is no more than that
Notified(f) == Arrives(f, {"error", "left"}) /\ UNCHANGED <<up, clientVars>>

-----------------------------------------------------------------------------
Server(f) ==
    \/ Login(f) \/ CreateGroup(f) \/ JoinGroup(f) \/ LeaveGroup(f)
    \/ ListGroups(f) \/ ChatGroup(f) \/ Refuse(f) \/ Close(f)

Client(f) ==
    \/ LoggedIn(f) \/ Joined(f) \/ Created(f) \/ GroupsListReceived(f)
    \/ GroupMessageReceived(f) \/ Notified(f) \/ Disconnect(f)
    \/ \E u \in Users : Connect(u, f) \/ Ask(u, f)

Next == Restart \/ \E f \in Fds : Server(f) \/ Client(f)

Spec == Init /\ [][Next]_vars

-----------------------------------------------------------------------------
\* MembersOnly: a group message is on its way to, or handled by, the clients of
\* users who were members when the server accepted it, and of nobody else,
\* whatever happened to routes and descriptors (message_handler.cpp:276-285).
OnTheWay(f) == {down[f][i].id : i \in {j \in DOMAIN down[f] : down[f][j].op = "chat"}}

MembersOnly ==
    /\ \A f \in alive : \A m \in OnTheWay(f) : peer[f] \in audience[m]
    /\ \A u \in Users : \A m \in ToSet(got[u]) : u \in audience[m]

\* SameOrder: a client sees a group message at most once, the sender's included
\* who gets it as an answer and is a member too, and two clients that see the
\* same two messages see them in the same order.
Before(s, m, n) == \E i, j \in DOMAIN s : i < j /\ s[i] = m /\ s[j] = n

SameOrder ==
    \A u, v \in Users : \A m, n \in ToSet(got[u]) :
        Before(got[u], m, n) => ~Before(got[v], n, m)

\* GroupsShown: when nothing is in flight, the list of a client that is logged
\* in has no group twice and misses no group of its user, over reconnects and
\* restarts of the server; unless a request of a former connection was handled
\* late (main_window.cpp:642, 741-763, 939-955).
Quiet(f) == up[f] = <<>> /\ down[f] = <<>>

GroupsShown ==
    \A f \in alive :
        peer[f] \in userId /\ Quiet(f) =>
            /\ IsInjective(groupModel[peer[f]])
            /\ \/ peer[f] \in late
               \/ \A g \in GroupIds : peer[f] \in members[g] => g \in ToSet(groupModel[peer[f]])
=============================================================================
