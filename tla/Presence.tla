------------------------------- MODULE Presence -------------------------------
(***************************************************************************)
(* Who is there: the connection manager together with the two clocks of    *)
(* the server, the connection monitor (connection_monitor.cpp, 300 s) and  *)
(* the online table of the user manager (user_manager.cpp, 60 s), both     *)
(* looked at every 30 s by the loop of server_im.cpp; and clients whose    *)
(* network goes away without a word and who connect again.                 *)
(*                                                                         *)
(* Time passes in ticks.  The loop turns at least once a second (the time- *)
(* out of its select), which is short against a tick: a clean-up that is   *)
(* due, the end of a stream that has arrived and the heartbeat of a client *)
(* come before the next tick.                                              *)
(***************************************************************************)
EXTENDS ConnectionManager

CONSTANTS
    QtUsers,    \* users of the Qt client, which sends heartbeats by itself
    Beat,       \* ticks between two heartbeats of the Qt client (30 s)
    Period,     \* ticks between two clean-ups (30 s)
    UserTimeout,\* cleanup_timeout_users (60 s)
    ConnTimeout \* ConnectionMonitor (300 s)

ASSUME QtAssumption    == QtUsers \subseteq Users
ASSUME ClockAssumption ==
    /\ {Beat, Period, UserTimeout, ConnTimeout} \subseteq Nat \ {0}
    /\ Beat <= UserTimeout /\ Beat < ConnTimeout

Gone == -1      \* no entry in a table of times

VARIABLES
    activities, \* activities_: ticks since last_activity, Gone if no entry
    online,     \* online_users_: ticks since last_active, Gone if not there
    sinceClean, \* ticks since last_cleanup
    owner,      \* the user at the other end of a connection
    link,       \* "up", "lost" (nothing gets through), "leaving" (a LOGOUT and
                \* the end of the stream arrive), "ended" (the end), "none"
    beat,       \* ticks since the last heartbeat of a Qt client
    doubled     \* history: users who logged in while another connection of
                \* theirs was logged in, until they next log in alone

clocks == <<activities, online, sinceClean, beat>>
ends   == <<owner, link>>
vars   == <<cmVars, clocks, ends, doubled>>

Oldest == ConnTimeout + Period - 1      \* a silent connection
Stale  == UserTimeout + Period          \* a silent user

PresenceTypeOK ==
    /\ TypeOK
    /\ activities \in [Fds -> Nat \cup {Gone}]
    /\ \A f \in Fds : f \in connections <=> activities[f] # Gone
    /\ online \in [Users -> Nat \cup {Gone}]
    /\ sinceClean \in 0..Period
    /\ owner \in [Fds -> Users \cup {NoUser}]
    /\ link \in [Fds -> {"none", "up", "lost", "leaving", "ended"}]
    /\ \A f \in Fds : f \in connections <=> link[f] # "none"
    /\ \A f \in Fds : f \in connections <=> owner[f] # NoUser
    /\ beat \in [Fds -> 0..Beat]
    /\ doubled \subseteq Users

PresenceInit ==
    /\ Init
    /\ activities = [f \in Fds |-> Gone] /\ online = [u \in Users |-> Gone]
    /\ sinceClean = 0
    /\ owner = [f \in Fds |-> NoUser] /\ link = [f \in Fds |-> "none"]
    /\ beat = [f \in Fds |-> 0] /\ doubled = {}

-----------------------------------------------------------------------------
(* What the loop does with a connection.                                   *)

\* update_activity, for every packet that was decoded
Active(f) == activities' = [activities EXCEPT ![f] = 0]

Accept(f, u) ==
    /\ f \in Fds \ connections /\ \A g \in Fds \ connections : f <= g
    /\ u \in QtUsers => \A g \in Fds : owner[g] = u => link[g] # "up"
    /\ AddConnection(f)
    /\ Active(f)
    /\ owner' = [owner EXCEPT ![f] = u] /\ link' = [link EXCEPT ![f] = "up"]
    /\ UNCHANGED <<online, sinceClean, beat, doubled>>

\* LOGIN, on a connection that is not logged in (see OnceLogin)
Login(f) ==
    /\ f \in connections /\ link[f] = "up"
    /\ OnceLogin(f, owner[f])
    /\ Active(f)
    /\ online' = [online EXCEPT ![owner[f]] = 0]
    /\ beat' = [beat EXCEPT ![f] = 0]
    /\ doubled' = IF \E g \in connections : userOf[g] = owner[f]
                  THEN doubled \cup {owner[f]} ELSE doubled \ {owner[f]}
    /\ UNCHANGED <<sinceClean, ends>>

\* mutant of Heartbeat: the user manager does not hear it
Heartbeat_ConnOnly(f) ==
    /\ link[f] = "up" /\ UserOn(f) # NoUser
    /\ Active(f)
    /\ beat' = [beat EXCEPT ![f] = 0]
    /\ UNCHANGED <<cmVars, online, sinceClean, ends, doubled>>

\* HEARTBEAT: update_last_active does not put a user back into the online table
Heartbeat(f) ==
    /\ link[f] = "up" /\ UserOn(f) # NoUser
    /\ Active(f)
    /\ online' = [online EXCEPT ![UserOn(f)] = IF @ = Gone THEN Gone ELSE 0]
    /\ beat' = [beat EXCEPT ![f] = 0]
    /\ UNCHANGED <<cmVars, sinceClean, ends, doubled>>

\* any other packet: the connection is alive, the user manager hears nothing
Talk(f) ==
    /\ link[f] = "up"
    /\ Active(f)
    /\ UNCHANGED <<cmVars, online, sinceClean, beat, ends, doubled>>

\* LOGOUT, also the one that is read when its sender has left long ago
Logout(f) ==
    /\ link[f] \in {"up", "leaving"} /\ UserOn(f) # NoUser
    /\ online' = [online EXCEPT ![UserOn(f)] = Gone]
    /\ DeauthenticateConnection(f)
    /\ Active(f)
    /\ link' = [link EXCEPT ![f] = IF @ = "leaving" THEN "ended" ELSE @]
    /\ UNCHANGED <<sinceClean, beat, owner, doubled>>

\* the end of the stream: close, and both managers are told; the user is not
\* logged out
Close(f) ==
    /\ \/ link[f] = "ended"
       \/ /\ link[f] = "leaving"
          /\ UserOn(f) = NoUser
    /\ RemoveConnection(f)
    /\ activities' = [activities EXCEPT ![f] = Gone]
    /\ owner' = [owner EXCEPT ![f] = NoUser] /\ link' = [link EXCEPT ![f] = "none"]
    /\ UNCHANGED <<online, sinceClean, beat, doubled>>

-----------------------------------------------------------------------------
(* The clean-up.                                                           *)

\* check_timeout
TimedOut == {f \in Fds : activities[f] >= ConnTimeout}

\* mutant of Silent: nobody
Silent_None == {}

\* cleanup_timeout_users: strictly older
Silent == {u \in Users : online[u] > UserTimeout}

CleanUp ==
    /\ sinceClean = Period
    /\ connections' = connections \ TimedOut
    /\ userToConn' = [u \in Users |-> IF \E f \in TimedOut : UserOn(f) = u
                                      THEN NoConn ELSE userToConn[u]]
    /\ userOf' = [f \in Fds |-> IF f \in TimedOut THEN NoUser ELSE userOf[f]]
    /\ activities' = [f \in Fds |-> IF f \in TimedOut THEN Gone ELSE activities[f]]
    /\ owner' = [f \in Fds |-> IF f \in TimedOut THEN NoUser ELSE owner[f]]
    /\ link' = [f \in Fds |-> IF f \in TimedOut THEN "none" ELSE link[f]]
    /\ online' = [u \in Users |-> IF u \in Silent THEN Gone ELSE online[u]]
    /\ sinceClean' = 0
    /\ UNCHANGED <<beat, doubled>>

-----------------------------------------------------------------------------
(* Clients, the network and time.                                          *)

Beating(f) == link[f] = "up" /\ UserOn(f) \in QtUsers

\* A client ends its connection: closeEvent sends LOGOUT first, a client that is
\* killed sends nothing.
Leaves(f) ==
    /\ link[f] = "up"
    /\ \E how \in {"leaving", "ended"} : link' = [link EXCEPT ![f] = how]
    /\ UNCHANGED <<cmVars, clocks, owner, doubled>>

\* The network loses the client: no end of stream, the connection is half open.
LinkLost(f) ==
    /\ link[f] = "up"
    /\ link' = [link EXCEPT ![f] = "lost"]
    /\ UNCHANGED <<cmVars, clocks, owner, doubled>>

\* What the client sent in the meantime comes through after all.
LinkBack(f) ==
    /\ link[f] = "lost"
    /\ \E how \in {"leaving", "ended"} : link' = [link EXCEPT ![f] = how]
    /\ UNCHANGED <<cmVars, clocks, owner, doubled>>

Older(age) == IF age = Gone THEN Gone ELSE age + 1

Tick ==
    /\ sinceClean < Period
    /\ \A f \in Fds : link[f] \notin {"leaving", "ended"}
    /\ \A f \in Fds : Beating(f) => beat[f] < Beat
    /\ activities' = [f \in Fds |-> Older(activities[f])]
    /\ online' = [u \in Users |-> Older(online[u])]
    /\ sinceClean' = sinceClean + 1
    /\ beat' = [f \in Fds |-> IF Beating(f) THEN beat[f] + 1 ELSE 0]
    /\ UNCHANGED <<cmVars, ends, doubled>>

PresenceNext ==
    \/ \E f \in Fds :
          \/ \E u \in Users : Accept(f, u)
          \/ Login(f) \/ Heartbeat(f) \/ Talk(f) \/ Logout(f) \/ Close(f)
          \/ Leaves(f) \/ LinkLost(f) \/ LinkBack(f)
    \/ CleanUp \/ Tick

PresenceSpec == PresenceInit /\ [][PresenceNext]_vars

-----------------------------------------------------------------------------
(* Properties.                                                             *)

\* SilentGone: a connection from which nothing is heard is closed before it has
\* been silent for the time-out and one clean-up more, so a half-open one does
\* not stay (server_im.cpp:255-268); and a user who sends no heartbeat does not
\* stay in the online table longer than 60 s and one clean-up.
SilentGone ==
    /\ \A f \in connections : activities[f] <= Oldest
    /\ \A u \in Users : online[u] <= Stale

\* BeatersStay: the clean-up never takes the connection of a Qt client that is
\* logged in and reachable over the network, nor its user out of the online
\* table, however heartbeats, clean-ups and other connections fall together.
\* A user with two connections can be taken out by the other one's LOGOUT.
BeatersStay ==
    [][\A f \in Fds : Beating(f) =>
          /\ f \in connections'
          /\ \/ userOf'[f] # userOf[f]
             \/ online[userOf[f]] = Gone
             \/ online'[userOf[f]] # Gone
             \/ userOf[f] \in doubled]_vars

\* SoleUsersRouted: a user who logged in while no other connection was logged in
\* as that user has exactly the route to that connection, until it ends, over
\* time-outs, late packets of dead connections and descriptors used again.
SoleUsersRouted ==
    \A u \in Users \ doubled, f \in Fds : UserOn(f) = u <=> ConnectionOf(u) = f

\* Reachable: a Qt client that is logged in has a route, so what is sent to its
\* user is not put away for later.  Such a user has one client at a time and
\* the server "keeps the mapping fd <-> user_id" (connection_manager.hpp:19).
Reachable ==
    \A f \in Fds : Beating(f) => ConnectionOf(UserOn(f)) # NoConn
=============================================================================
