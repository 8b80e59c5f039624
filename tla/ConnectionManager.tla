-------------------------- MODULE ConnectionManager --------------------------
(***************************************************************************)
(* The connection manager of the chat server (connection_manager.hpp and   *)
(* connection_manager.cpp): two maps that are kept side by side,           *)
(*                                                                         *)
(*    connections_   fd -> (user_id, is_authenticated)                     *)
(*    user_to_conn_  user_id -> fd     (the routing table of CHAT_TO)      *)
(*                                                                         *)
(* user_id and is_authenticated are always written together, so one        *)
(* function userOf stands for both: userOf[f] = NoUser is the pair         *)
(* (0, false).  A key that is absent from a map has the value NoConn (what *)
(* get_connection_by_user answers for it) or NoUser.                       *)
(*                                                                         *)
(* The code guards none of the calls against an unusual order, so the      *)
(* module has one next-state relation per discipline of its callers, and   *)
(* the properties say which discipline they need.                          *)
(***************************************************************************)
EXTENDS Integers, FiniteSets

CONSTANTS
    Fds,        \* descriptors that accept() can return
    Users       \* registered user ids

NoConn == -1    \* get_connection_by_user: nobody
NoUser == 0     \* get_user_by_connection: nobody

\* A descriptor that carries a client is positive, which is also what
\* message_handler.cpp relies on when it tests target_fd > 0; user ids start
\* at 1 (user_manager.hpp:58).
ASSUME FdsAssumption   == Fds \subseteq Nat \ {0}
ASSUME UsersAssumption == NoUser \notin Users

VARIABLES
    connections,    \* keys of connections_
    userOf,         \* connections_[fd]->user_id, NoUser if not authenticated
    userToConn      \* user_to_conn_

cmVars == <<connections, userOf, userToConn>>

TypeOK ==
    /\ connections \subseteq Fds
    /\ userOf \in [Fds -> Users \cup {NoUser}]
    /\ userToConn \in [Users -> Fds \cup {NoConn}]

Init ==
    /\ connections = {}
    /\ userOf = [f \in Fds |-> NoUser]
    /\ userToConn = [u \in Users |-> NoConn]

-----------------------------------------------------------------------------
(* Queries.                                                                *)

\* get_connection_by_user
ConnectionOf(u) == userToConn[u]

\* get_user_by_connection
UserOn(f) == IF f \in connections THEN userOf[f] ELSE NoUser

\* get_authenticated_connections
Authenticated == {f \in connections : userOf[f] # NoUser}

-----------------------------------------------------------------------------
(* Operations.                                                             *)

\* add_connection
AddConnection(f) ==
    /\ connections' = connections \cup {f}
    /\ userOf' = [userOf EXCEPT ![f] = NoUser]
    /\ UNCHANGED userToConn

\* user_to_conn_.erase(conn->user_id), when conn is authenticated
ForgetRoute(f) ==
    userToConn' = [u \in Users |->
                     IF f \in Authenticated /\ u = userOf[f]
                     THEN NoConn ELSE userToConn[u]]

\* mutant of RemoveConnection: the route is not erased
RemoveConnection_KeepsRoute(f) ==
    /\ UNCHANGED userToConn
    /\ connections' = connections \ {f}
    /\ userOf' = [userOf EXCEPT ![f] = NoUser]

\* remove_connection: the route of the connection's user goes, whichever
\* connection that route points to
RemoveConnection(f) ==
    /\ ForgetRoute(f)
    /\ connections' = connections \ {f}
    /\ userOf' = [userOf EXCEPT ![f] = NoUser]

\* authenticate_connection: a connection that is authenticated already only
\* changes its user; the route of the former user stays
AuthenticateConnection(f, u) ==
    /\ f \in connections
    /\ userOf' = [userOf EXCEPT ![f] = u]
    /\ userToConn' = [userToConn EXCEPT ![u] = f]
    /\ UNCHANGED connections

\* mutant of DeauthenticateConnection: the record gets the answer of the other query
DeauthenticateConnection_WrongNobody(f) ==
    /\ f \in Authenticated
    /\ ForgetRoute(f)
    /\ userOf' = [userOf EXCEPT ![f] = NoConn]
    /\ UNCHANGED connections

\* deauthenticate_connection
DeauthenticateConnection(f) ==
    /\ f \in Authenticated
    /\ ForgetRoute(f)
    /\ userOf' = [userOf EXCEPT ![f] = NoUser]
    /\ UNCHANGED connections

\* The process ends; the next one constructs an empty manager.
Restart ==
    /\ connections' = {}
    /\ userOf' = [f \in Fds |-> NoUser]
    /\ userToConn' = [u \in Users |-> NoConn]

-----------------------------------------------------------------------------
(* Disciplines of the callers.  accept() returns a descriptor that is not  *)
(* in use, and the server removes every descriptor that it closes, so a    *)
(* descriptor is added only when it is not tracked.                        *)

AnyLogin(f, u)  == AuthenticateConnection(f, u)

\* LOGIN is sent at most once on a connection, or again after LOGOUT: what
\* every client of the repository does
OnceLogin(f, u) == userOf[f] = NoUser /\ AuthenticateConnection(f, u)

\* and the user has no other authenticated connection
SoleLogin(f, u) ==
    /\ \A g \in connections : userOf[g] # u
    /\ OnceLogin(f, u)

Housekeeping ==
    \/ \E f \in Fds \ connections : AddConnection(f)
    \/ \E f \in connections : RemoveConnection(f)
    \/ \E f \in connections : DeauthenticateConnection(f)
    \/ Restart

AnyNext  == Housekeeping \/ \E f \in connections, u \in Users : AnyLogin(f, u)
OnceNext == Housekeeping \/ \E f \in connections, u \in Users : OnceLogin(f, u)
SoleNext == Housekeeping \/ \E f \in connections, u \in Users : SoleLogin(f, u)

AnySpec  == Init /\ [][AnyNext]_cmVars
OnceSpec == Init /\ [][OnceNext]_cmVars
SoleSpec == Init /\ [][SoleNext]_cmVars

-----------------------------------------------------------------------------
(* Properties.                                                             *)

\* RouteSound: a route leads to a live connection that is authenticated as
\* that very user; CHAT_TO (message_handler.cpp:239-242) sends to it blindly.
\* Needs the discipline OnceSpec: authenticate_connection does not drop the
\* route of the user the connection had before.
RouteSound ==
    \A u \in Users :
        userToConn[u] # NoConn =>
            /\ userToConn[u] \in connections
            /\ userOf[userToConn[u]] = u

\* RouteComplete: the user of an authenticated connection has a route, so the
\* messages for a user who is logged in are not stored as offline messages.
\* Needs the discipline SoleSpec: removing one of two connections of a user
\* erases the route to the other.
RouteComplete ==
    \A f \in Authenticated : userToConn[userOf[f]] # NoConn

\* OneToOne: under SoleSpec the two maps are inverse to each other, which is
\* what the class says it keeps (connection_manager.hpp:19).
OneToOne ==
    \A f \in Fds, u \in Users : UserOn(f) = u <=> ConnectionOf(u) = f
=============================================================================
