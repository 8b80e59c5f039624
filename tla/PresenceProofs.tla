---------------------------- MODULE PresenceProofs ----------------------------
(***************************************************************************)
(* The connection manager by itself, for every set of descriptors and of   *)
(* users: TypeOK holds under any use; RouteSound and OneToOne are inductive *)
(* (with TypeOK) under the discipline of the callers that they need.       *)
(*                                                                         *)
(* Then the clocks and the routes of Presence, for any numbers of          *)
(* connections and users and any periods that satisfy ClockAssumption.     *)
(* A silent connection or user is never much older than the last clean-up: *)
(* Ages counts the ticks since then.  BeatAges ties the two clocks of the  *)
(* server to the timer of the client that beats.  Routed and SoleUsersRouted *)
(* are the connection manager's part.                                      *)
(***************************************************************************)
EXTENDS Presence, TLAPS

-----------------------------------------------------------------------------
(* The maps of the connection manager.                                     *)

\* The two discipline relations only restrict AnyNext.
LEMMA DisciplinesRefine == SoleNext => OnceNext
  BY DEF SoleNext, OnceNext, SoleLogin

LEMMA OnceRefinesAny == OnceNext => AnyNext
  BY DEF OnceNext, AnyNext, OnceLogin, AnyLogin

LEMMA MapsTypeInit == Init => TypeOK
  BY DEF Init, TypeOK

\* Whatever the callers do, the maps keep their types.
LEMMA MapsTypeStep == TypeOK /\ [AnyNext]_cmVars => TypeOK'
  <1> SUFFICES ASSUME TypeOK, [AnyNext]_cmVars PROVE TypeOK'
    OBVIOUS
  <1> USE DEF TypeOK
  <1>1. CASE \E f \in Fds \ connections : AddConnection(f)
    BY <1>1 DEF AddConnection
  <1>2. CASE \E f \in connections : RemoveConnection(f)
    BY <1>2 DEF RemoveConnection, ForgetRoute
  <1>3. CASE \E f \in connections : DeauthenticateConnection(f)
    BY <1>3 DEF DeauthenticateConnection, ForgetRoute
  <1>4. CASE Restart
    BY <1>4 DEF Restart
  <1>5. CASE \E f \in connections, u \in Users : AnyLogin(f, u)
    BY <1>5 DEF AnyLogin, AuthenticateConnection
  <1>6. CASE UNCHANGED cmVars
    BY <1>6 DEF cmVars
  <1> QED
    BY <1>1, <1>2, <1>3, <1>4, <1>5, <1>6 DEF AnyNext, Housekeeping

\* The type invariant of connection_manager.cpp under any order of calls.
THEOREM MapsAreTyped == AnySpec => []TypeOK
  BY MapsTypeInit, MapsTypeStep, PTL DEF AnySpec

-----------------------------------------------------------------------------
(* Sound routes, when LOGIN is not repeated on a connection.               *)

RouteInv == TypeOK /\ RouteSound

LEMMA RouteInit == Init => RouteInv
  BY MapsTypeInit DEF Init, RouteInv, RouteSound

LEMMA RouteStep == RouteInv /\ [OnceNext]_cmVars => RouteInv'
  <1> SUFFICES ASSUME RouteInv, [OnceNext]_cmVars PROVE RouteInv'
    OBVIOUS
  <1>t. TypeOK /\ TypeOK'
    BY MapsTypeStep, OnceRefinesAny DEF RouteInv
  <1> USE FdsAssumption, UsersAssumption
      DEF RouteInv, RouteSound, TypeOK, NoConn, NoUser
  <1>1. CASE \E f \in Fds \ connections : AddConnection(f)
    BY <1>1, <1>t DEF AddConnection
  <1>2. CASE \E f \in connections : RemoveConnection(f)
    BY <1>2, <1>t DEF RemoveConnection, ForgetRoute, Authenticated
  <1>3. CASE \E f \in connections : DeauthenticateConnection(f)
    BY <1>3, <1>t DEF DeauthenticateConnection, ForgetRoute, Authenticated
  <1>4. CASE Restart
    BY <1>4, <1>t DEF Restart
  <1>5. CASE \E f \in connections, u \in Users : OnceLogin(f, u)
    BY <1>5, <1>t DEF OnceLogin, AuthenticateConnection
  <1>6. CASE UNCHANGED cmVars
    BY <1>6, <1>t DEF cmVars
  <1> QED
    BY <1>1, <1>2, <1>3, <1>4, <1>5, <1>6 DEF OnceNext, Housekeeping

\* Where a LOGIN never meets a connection that is logged in, a route always
\* leads to a live connection of that user.
THEOREM RoutesAreSound == OnceSpec => []RouteSound
  <1>1. RouteInv => RouteSound
    BY DEF RouteInv
  <1> QED
    BY RouteInit, RouteStep, <1>1, PTL DEF OnceSpec

-----------------------------------------------------------------------------
(* Inverse maps, when in addition a user has one connection at a time.     *)

OneInv == TypeOK /\ OneToOne

LEMMA OneInit == Init => OneInv
  BY MapsTypeInit, FdsAssumption, UsersAssumption
  DEF Init, OneInv, OneToOne, UserOn, ConnectionOf, NoConn, NoUser

LEMMA OneStep == OneInv /\ [SoleNext]_cmVars => OneInv'
  <1> SUFFICES ASSUME OneInv, [SoleNext]_cmVars PROVE OneInv'
    OBVIOUS
  <1>t. TypeOK /\ TypeOK'
    BY MapsTypeStep, OnceRefinesAny, DisciplinesRefine DEF OneInv
  <1> USE FdsAssumption, UsersAssumption
      DEF OneInv, OneToOne, UserOn, ConnectionOf, TypeOK, NoConn, NoUser
  <1>1. CASE \E f \in Fds \ connections : AddConnection(f)
    BY <1>1, <1>t DEF AddConnection
  <1>2. CASE \E f \in connections : RemoveConnection(f)
    BY <1>2, <1>t DEF RemoveConnection, ForgetRoute, Authenticated
  <1>3. CASE \E f \in connections : DeauthenticateConnection(f)
    BY <1>3, <1>t DEF DeauthenticateConnection, ForgetRoute, Authenticated
  <1>4. CASE Restart
    BY <1>4, <1>t DEF Restart
  <1>5. CASE \E f \in connections, u \in Users : SoleLogin(f, u)
    BY <1>5, <1>t DEF SoleLogin, OnceLogin, AuthenticateConnection
  <1>6. CASE UNCHANGED cmVars
    BY <1>6, <1>t DEF cmVars
  <1> QED
    BY <1>1, <1>2, <1>3, <1>4, <1>5, <1>6 DEF SoleNext, Housekeeping

\* Where a user has one connection at a time, "fd <-> user_id" is a bijection.
THEOREM MapsAreInverse == SoleSpec => []OneToOne
  <1>1. OneInv => OneToOne
    BY DEF OneInv
  <1> QED
    BY OneInit, OneStep, <1>1, PTL DEF SoleSpec

-----------------------------------------------------------------------------
(* Presence.                                                               *)

Routed ==
    /\ \A f \in Fds \ connections : userOf[f] = NoUser
    /\ RouteSound

Ages ==
    /\ \A f \in Fds : activities[f] <= ConnTimeout - 1 + sinceClean
    /\ \A u \in Users : online[u] <= UserTimeout + sinceClean

BeatAges ==
    \A f \in Fds : Beating(f) =>
        activities[f] <= beat[f] /\ online[userOf[f]] <= beat[f]

Inv == PresenceTypeOK /\ Routed /\ SoleUsersRouted /\ Ages /\ BeatAges

USE FdsAssumption, UsersAssumption, QtAssumption, ClockAssumption

LEMMA InitInv == PresenceInit => Inv
  BY DEF PresenceInit, Init, Inv, PresenceTypeOK, TypeOK, Routed, RouteSound,
         SoleUsersRouted, Ages, BeatAges, Beating, UserOn, ConnectionOf, Gone, NoUser,
         NoConn

-----------------------------------------------------------------------------
(* One lemma per part of the invariant.                                    *)

LEMMA TypeStep == Inv /\ [PresenceNext]_vars => PresenceTypeOK'
  <1> SUFFICES ASSUME Inv, [PresenceNext]_vars PROVE PresenceTypeOK'
    OBVIOUS
  <1> USE DEF Inv, PresenceTypeOK, TypeOK, Gone, NoUser, NoConn
  <1>1. ASSUME NEW f \in Fds, NEW u \in Users, Accept(f, u) PROVE PresenceTypeOK'
    BY <1>1 DEF Accept, AddConnection, Active
  <1>2. ASSUME NEW f \in Fds, Login(f) PROVE PresenceTypeOK'
    <2>1. f \in connections /\ owner[f] \in Users
      BY <1>2 DEF Login
    <2>2. TypeOK'
      BY <1>2, <2>1 DEF Login, OnceLogin, AuthenticateConnection
    <2>3. doubled' \subseteq Users
      BY <1>2, <2>1 DEF Login
    <2>4. UNCHANGED <<connections, sinceClean, owner, link>>
      BY <1>2 DEF Login, OnceLogin, AuthenticateConnection, ends
    <2>5. /\ activities' = [activities EXCEPT ![f] = 0]
          /\ online' = [online EXCEPT ![owner[f]] = 0]
          /\ beat' = [beat EXCEPT ![f] = 0]
      BY <1>2 DEF Login, Active
    <2> QED BY <2>1, <2>2, <2>3, <2>4, <2>5
  <1>3. ASSUME NEW f \in Fds, Heartbeat(f) PROVE PresenceTypeOK'
    <2>1. f \in connections /\ UserOn(f) \in Users
      BY <1>3 DEF Heartbeat, UserOn
    <2>2. UNCHANGED <<connections, userOf, userToConn, sinceClean, owner, link, doubled>>
      BY <1>3 DEF Heartbeat, cmVars, ends
    <2>3. /\ activities' = [activities EXCEPT ![f] = 0]
          /\ online' = [online EXCEPT ![UserOn(f)] = IF @ = Gone THEN Gone ELSE 0]
          /\ beat' = [beat EXCEPT ![f] = 0]
      BY <1>3 DEF Heartbeat, Active
    <2> QED BY <2>1, <2>2, <2>3
  <1>4. ASSUME NEW f \in Fds, Talk(f) PROVE PresenceTypeOK'
    BY <1>4 DEF Talk, Active, cmVars, ends
  <1>5. ASSUME NEW f \in Fds, Logout(f) PROVE PresenceTypeOK'
    BY <1>5 DEF Logout, DeauthenticateConnection, ForgetRoute, Authenticated, Active, UserOn
  <1>6. ASSUME NEW f \in Fds, Close(f) PROVE PresenceTypeOK'
    BY <1>6 DEF Close, RemoveConnection, ForgetRoute, Authenticated
  <1>7. ASSUME NEW f \in Fds, Leaves(f) \/ LinkLost(f) \/ LinkBack(f) PROVE PresenceTypeOK'
    BY <1>7 DEF Leaves, LinkLost, LinkBack, cmVars, clocks
  <1>8. CASE CleanUp
    <2>1. connections' = {f \in connections : f \notin TimedOut}
      BY <1>8 DEF CleanUp
    <2>2. \A f \in TimedOut : activities[f] # Gone
      BY DEF TimedOut
    <2>3. TypeOK'
      BY <1>8, <2>1 DEF CleanUp
    <2>4. /\ activities' \in [Fds -> Nat \cup {Gone}]
          /\ online' \in [Users -> Nat \cup {Gone}]
          /\ sinceClean' \in 0..Period
      BY <1>8 DEF CleanUp
    <2>5. /\ owner' \in [Fds -> Users \cup {NoUser}]
          /\ link' \in [Fds -> {"none", "up", "lost", "leaving", "ended"}]
          /\ beat' \in [Fds -> 0..Beat] /\ doubled' \subseteq Users
      BY <1>8 DEF CleanUp
    <2>6. ASSUME NEW f \in Fds
          PROVE /\ f \in connections' <=> activities'[f] # Gone
                /\ f \in connections' <=> link'[f] # "none"
                /\ f \in connections' <=> owner'[f] # NoUser
      <3>1. CASE f \in TimedOut
        BY <1>8, <2>1, <3>1 DEF CleanUp
      <3>2. CASE f \notin TimedOut
        BY <1>8, <2>1, <3>2 DEF CleanUp
      <3> QED BY <3>1, <3>2
    <2> QED BY <2>3, <2>4, <2>5, <2>6
  <1>9. CASE Tick
    BY <1>9 DEF Tick, Older, Beating, cmVars, ends
  <1>10. CASE UNCHANGED vars
    BY <1>10 DEF vars, cmVars, clocks, ends
  <1> QED BY <1>1, <1>2, <1>3, <1>4, <1>5, <1>6, <1>7, <1>8, <1>9, <1>10 DEF PresenceNext

LEMMA RoutedStep == Inv /\ [PresenceNext]_vars => Routed' /\ SoleUsersRouted'
  <1> SUFFICES ASSUME Inv, [PresenceNext]_vars PROVE Routed' /\ SoleUsersRouted'
    OBVIOUS
  <1> USE DEF Inv, PresenceTypeOK, TypeOK, Routed, RouteSound, SoleUsersRouted, UserOn,
              ConnectionOf, NoUser, NoConn
  <1>1. ASSUME NEW f \in Fds, NEW u \in Users, Accept(f, u)
        PROVE Routed' /\ SoleUsersRouted'
    BY <1>1 DEF Accept, AddConnection
  <1>2. ASSUME NEW f \in Fds, Login(f) PROVE Routed' /\ SoleUsersRouted'
    <2>1. Routed'
      BY <1>2 DEF Login, OnceLogin, AuthenticateConnection
    <2>2. ASSUME NEW u \in Users \ doubled', NEW g \in Fds
          PROVE (UserOn(g) = u <=> ConnectionOf(u) = g)'
      <3>1. CASE u = owner[f]
        <4>1. \A h \in connections : userOf[h] # owner[f]
          BY <1>2, <2>2, <3>1 DEF Login
        <4> QED BY <1>2, <3>1, <4>1 DEF Login, OnceLogin, AuthenticateConnection
      <3>2. CASE u # owner[f]
        <4>1. u \notin doubled
          BY <1>2, <2>2, <3>2 DEF Login
        <4> QED BY <1>2, <3>2, <4>1 DEF Login, OnceLogin, AuthenticateConnection
      <3> QED BY <3>1, <3>2
    <2> QED BY <2>1, <2>2
  <1>3. ASSUME NEW f \in Fds, Logout(f) PROVE Routed' /\ SoleUsersRouted'
    BY <1>3 DEF Logout, DeauthenticateConnection, ForgetRoute, Authenticated
  <1>4. ASSUME NEW f \in Fds, Close(f) PROVE Routed' /\ SoleUsersRouted'
    BY <1>4 DEF Close, RemoveConnection, ForgetRoute, Authenticated
  <1>5. CASE CleanUp
    <2> DEFINE Cut(u) == \E f \in TimedOut : UserOn(f) = u
    <2>1. /\ connections' = connections \ TimedOut /\ TimedOut \subseteq Fds
          /\ userToConn' = [u \in Users |-> IF Cut(u) THEN NoConn ELSE userToConn[u]]
          /\ userOf' = [f \in Fds |-> IF f \in TimedOut THEN NoUser ELSE userOf[f]]
          /\ doubled' = doubled
      BY <1>5 DEF CleanUp, TimedOut
    <2>2. Routed'
      <3>1. ASSUME NEW u \in Users, userToConn'[u] # NoConn
            PROVE userToConn'[u] \in connections' /\ userOf'[userToConn'[u]] = u
        <4>1. ~Cut(u) /\ userToConn'[u] = userToConn[u]
          BY <2>1, <3>1
        <4>2. userToConn[u] \in connections /\ userOf[userToConn[u]] = u
          BY <3>1, <4>1
        <4>3. userToConn[u] \notin TimedOut
          BY <4>1, <4>2
        <4> QED BY <2>1, <4>1, <4>2, <4>3
      <3>2. \A f \in Fds \ connections' : userOf'[f] = NoUser
        BY <2>1
      <3> QED BY <3>1, <3>2
    <2>3. ASSUME NEW u \in Users \ doubled, NEW f \in Fds
          PROVE (UserOn(f) = u <=> ConnectionOf(u) = f)'
      <3>1. UserOn(f) = u <=> ConnectionOf(u) = f
        BY <2>3
      <3>2. CASE f \in TimedOut
        BY <2>1, <3>1, <3>2
      <3>3. CASE f \notin TimedOut
        <4>1. userOf[f] = u /\ f \in connections => ~Cut(u)
          BY <2>1, <2>3, <3>3
        <4> QED BY <2>1, <3>1, <3>3, <4>1
      <3> QED BY <3>2, <3>3
    <2> QED BY <2>1, <2>2, <2>3
  <1>6. ASSUME UNCHANGED <<cmVars, doubled>> PROVE Routed' /\ SoleUsersRouted'
    BY <1>6 DEF cmVars
  <1>7. ASSUME NEW f \in Fds, Heartbeat(f) \/ Talk(f) \/ Leaves(f) \/ LinkLost(f) \/ LinkBack(f)
        PROVE UNCHANGED <<cmVars, doubled>>
    BY <1>7 DEF Heartbeat, Talk, Leaves, LinkLost, LinkBack
  <1>8. Tick \/ UNCHANGED vars => UNCHANGED <<cmVars, doubled>>
    BY DEF Tick, vars
  <1> QED BY <1>1, <1>2, <1>3, <1>4, <1>5, <1>6, <1>7, <1>8 DEF PresenceNext

LEMMA AgesStep == Inv /\ [PresenceNext]_vars => Ages'
  <1> SUFFICES ASSUME Inv, [PresenceNext]_vars PROVE Ages'
    OBVIOUS
  <1> USE DEF Inv, PresenceTypeOK, TypeOK, Ages, Gone, NoUser
  <1>1. ASSUME NEW f \in Fds, NEW u \in Users, Accept(f, u) PROVE Ages'
    BY <1>1 DEF Accept, Active
  <1>2. ASSUME NEW f \in Fds, Login(f) PROVE Ages'
    BY <1>2 DEF Login, Active
  <1>3. ASSUME NEW f \in Fds, Heartbeat(f) PROVE Ages'
    BY <1>3 DEF Heartbeat, Active
  <1>4. ASSUME NEW f \in Fds, Talk(f) PROVE Ages'
    BY <1>4 DEF Talk, Active
  <1>5. ASSUME NEW f \in Fds, Logout(f) PROVE Ages'
    BY <1>5 DEF Logout, Active
  <1>6. ASSUME NEW f \in Fds, Close(f) PROVE Ages'
    BY <1>6 DEF Close
  <1>7. CASE CleanUp
    BY <1>7 DEF CleanUp, TimedOut, Silent
  <1>8. CASE Tick
    BY <1>8 DEF Tick, Older
  <1>9. ASSUME UNCHANGED clocks PROVE Ages'
    BY <1>9 DEF clocks
  <1>10. ASSUME NEW f \in Fds, Leaves(f) \/ LinkLost(f) \/ LinkBack(f) PROVE UNCHANGED clocks
    BY <1>10 DEF Leaves, LinkLost, LinkBack
  <1>11. UNCHANGED vars => UNCHANGED clocks
    BY DEF vars
  <1> QED BY <1>1, <1>2, <1>3, <1>4, <1>5, <1>6, <1>7, <1>8, <1>9, <1>10, <1>11
          DEF PresenceNext

LEMMA BeatAgesStep == Inv /\ [PresenceNext]_vars => BeatAges'
  <1> SUFFICES ASSUME Inv, [PresenceNext]_vars PROVE BeatAges'
    OBVIOUS
  <1> USE DEF Inv, PresenceTypeOK, TypeOK, BeatAges, Beating, UserOn, Gone, NoUser
  <1>1. ASSUME NEW f \in Fds, NEW u \in Users, Accept(f, u) PROVE BeatAges'
    BY <1>1 DEF Accept, AddConnection, Active
  <1>2. ASSUME NEW f \in Fds, Login(f) PROVE BeatAges'
    BY <1>2 DEF Login, OnceLogin, AuthenticateConnection, Active, ends
  <1>3. ASSUME NEW f \in Fds, Heartbeat(f) PROVE BeatAges'
    BY <1>3 DEF Heartbeat, Active, cmVars, ends
  <1>4. ASSUME NEW f \in Fds, Talk(f) PROVE BeatAges'
    BY <1>4 DEF Talk, Active, cmVars, ends
  <1>5. ASSUME NEW f \in Fds, Logout(f) PROVE BeatAges'
    BY <1>5 DEF Logout, DeauthenticateConnection, Authenticated, Active
  <1>6. ASSUME NEW f \in Fds, Close(f) PROVE BeatAges'
    BY <1>6 DEF Close, RemoveConnection
  <1>7. ASSUME NEW f \in Fds, Leaves(f) \/ LinkLost(f) \/ LinkBack(f) PROVE BeatAges'
    BY <1>7 DEF Leaves, LinkLost, LinkBack, cmVars, clocks
  <1>8. CASE CleanUp
    BY <1>8 DEF CleanUp
  <1>9. CASE Tick
    BY <1>9 DEF Tick, Older, cmVars, ends
  <1>10. CASE UNCHANGED vars
    BY <1>10 DEF vars, cmVars, clocks, ends
  <1> QED BY <1>1, <1>2, <1>3, <1>4, <1>5, <1>6, <1>7, <1>8, <1>9, <1>10 DEF PresenceNext

THEOREM Invariance == PresenceSpec => []Inv
  <1>1. Inv /\ [PresenceNext]_vars => Inv'
    BY TypeStep, RoutedStep, AgesStep, BeatAgesStep DEF Inv
  <1> QED BY InitInv, <1>1, PTL DEF PresenceSpec

-----------------------------------------------------------------------------
\* The tables of the connection manager, the monitor and the user manager keep
\* their types, and a descriptor is in all tables of connections or in none.
THEOREM TypeCorrect == PresenceSpec => []PresenceTypeOK
  <1>1. Inv => PresenceTypeOK
    BY DEF Inv
  <1> QED BY Invariance, <1>1, PTL

\* A user who logged in alone has exactly the route to that connection, however
\* time-outs, late packets and reused descriptors fall together.
THEOREM SoleUsersAreRouted == PresenceSpec => []SoleUsersRouted
  <1>1. Inv => SoleUsersRouted
    BY DEF Inv
  <1> QED BY Invariance, <1>1, PTL

\* No connection is silent for longer than its time-out and one clean-up more,
\* and no user stays in the online table longer than that without a heartbeat.
THEOREM TheSilentGo == PresenceSpec => []SilentGone
  <1>1. Inv => SilentGone
    BY DEF Inv, Ages, SilentGone, Oldest, Stale, PresenceTypeOK, TypeOK, Gone
  <1> QED BY Invariance, <1>1, PTL

\* The clean-up takes neither the connection of a client that beats nor its user.
THEOREM TheBeatingStay == PresenceSpec => BeatersStay
  <1> DEFINE Stays(f) ==
        /\ f \in connections'
        /\ \/ userOf'[f] # userOf[f]
           \/ online[userOf[f]] = Gone
           \/ online'[userOf[f]] # Gone
           \/ userOf[f] \in doubled
  <1>1. ASSUME Inv, PresenceNext, NEW f \in Fds, Beating(f) PROVE Stays(f)
    <2> USE DEF Inv, PresenceTypeOK, TypeOK, Beating, UserOn, Gone, NoUser
    <2>0. f \in connections /\ userOf[f] \in Users /\ link[f] = "up"
      BY <1>1
    <2>1. ASSUME NEW g \in Fds, NEW u \in Users, Accept(g, u) PROVE Stays(f)
      BY <1>1, <2>0, <2>1 DEF Accept, AddConnection
    <2>2. ASSUME NEW g \in Fds, Login(g) PROVE Stays(f)
      BY <1>1, <2>0, <2>2 DEF Login, OnceLogin, AuthenticateConnection
    <2>3. ASSUME NEW g \in Fds, Heartbeat(g) PROVE Stays(f)
      BY <1>1, <2>0, <2>3 DEF Heartbeat, cmVars
    <2>4. ASSUME NEW g \in Fds, Logout(g) PROVE Stays(f)
      <3>1. CASE userOf[g] # userOf[f]
        BY <1>1, <2>0, <2>4, <3>1 DEF Logout, DeauthenticateConnection, Authenticated
      <3>2. CASE userOf[g] = userOf[f] /\ g # f
        <4>1. g \in connections
          BY <2>4 DEF Logout
        <4>2. userOf[f] \in doubled
          BY <1>1, <2>0, <3>2, <4>1 DEF SoleUsersRouted
        <4> QED BY <1>1, <2>0, <2>4, <4>2 DEF Logout, DeauthenticateConnection
      <3>3. CASE g = f
        BY <1>1, <2>0, <2>4, <3>3 DEF Logout, DeauthenticateConnection, Authenticated
      <3> QED BY <3>1, <3>2, <3>3
    <2>5. ASSUME NEW g \in Fds, Close(g) PROVE Stays(f)
      BY <1>1, <2>0, <2>5 DEF Close, RemoveConnection
    <2>6. CASE CleanUp
      <3>1. activities[f] <= Beat /\ online[userOf[f]] <= Beat
        BY <1>1, <2>0 DEF BeatAges
      <3>2. f \notin TimedOut
        BY <1>1, <2>0, <3>1 DEF TimedOut
      <3>3. userOf[f] \notin Silent
        BY <1>1, <2>0, <3>1 DEF Silent
      <3> QED BY <1>1, <2>0, <2>6, <3>2, <3>3 DEF CleanUp
    <2>7. CASE Tick
      <3>1. online'[userOf[f]] = Older(online[userOf[f]]) /\ connections' = connections
        BY <1>1, <2>0, <2>7 DEF Tick, cmVars
      <3>2. online[userOf[f]] \in Nat \cup {-1}
        BY <1>1, <2>0
      <3> QED BY <1>1, <2>0, <3>1, <3>2 DEF Older
    <2>8. ASSUME NEW g \in Fds, Talk(g) \/ Leaves(g) \/ LinkLost(g) \/ LinkBack(g)
          PROVE Stays(f)
      BY <1>1, <2>0, <2>8 DEF Talk, Leaves, LinkLost, LinkBack, cmVars, clocks
    <2> QED BY <1>1, <2>1, <2>2, <2>3, <2>4, <2>5, <2>6, <2>7, <2>8 DEF PresenceNext
  <1>2. Inv /\ [PresenceNext]_vars => [\A f \in Fds : Beating(f) => Stays(f)]_vars
    BY <1>1
  <1> QED BY Invariance, <1>2, PTL DEF PresenceSpec, BeatersStay
=============================================================================
