------------------------------ MODULE ImServer ------------------------------
(***************************************************************************)
(* The chat server: the select() loop of server_im.cpp with the message    *)
(* handler, the connection manager, the connection monitor, the user       *)
(* manager's online table and the offline message file it works on.        *)
(*                                                                         *)
(* One iteration of the loop goes through the phases                       *)
(*                                                                         *)
(*    select -> read -> write -> close [-> expire] -> select               *)
(*                                                                         *)
(* and visits the descriptors of a phase in ascending order (std::map).    *)
(* One step of the model is one packet handled, one buffer written, one    *)
(* connection closed: everything the program does between two system calls *)
(* that another party can observe.  The clients choose what they send and  *)
(* when; the kernel chooses which sockets are ready; a wall clock is not   *)
(* modelled, so the 30 s, 60 s and 300 s checks may fire at any time.      *)
(***************************************************************************)
EXTENDS Integers, Sequences, FiniteSets

CONSTANTS
    Fds,        \* descriptors that accept() can return
    Users,      \* registered users
    ReLogin,    \* may a client send LOGIN on a connection that is logged in?
    Broadcasts, \* do clients send CHAT?
    Timeouts,   \* does the periodic clean-up run?
    Restarts,   \* does the process end and start again?
    MaxId,      \* bound: private messages accepted
    MaxQueue,   \* bound: length of an output queue before a packet is handled
    MaxBurst    \* bound: packets decoded from one read()

ASSUME FdsBound   == Fds \subseteq Nat \ {0}
ASSUME UsersBound == 0 \notin Users
ASSUME Switches   == {ReLogin, Broadcasts, Timeouts, Restarts} \subseteq BOOLEAN
ASSUME Bounds     == MaxId \in Nat /\ MaxQueue \in Nat /\ MaxBurst \in Nat

VARIABLES
    \* ConnectionManager
    connections, userOf, userToConn,
    \* UserManager, ConnectionMonitor
    online,     \* keys of online_users_
    activities, \* keys of activities_
    \* MessageStorage: the unread lines of the message file.  A line is the
    \* message's identity; the file is in the order of the identities.  Lines
    \* marked as read stay in the file but are never looked at again.
    store,
    \* main(): local variables of the loop
    conns,      \* keys of conns
    out,        \* conns[fd].out_queue
    phase,      \* where the loop is
    todo,       \* descriptors the current phase has not visited yet
    writable,   \* descriptors in writefds
    toClose,    \* to_close
    burst,      \* packets decoded from the current read()
    \* history
    sent,       \* sent[m]: the addressee of the m-th private message accepted
    written     \* private messages handed to a socket

cmVars   == <<connections, userOf, userToConn>>
loopVars == <<phase, todo, writable, toClose, burst>>
history  == <<sent, written>>
vars == <<cmVars, online, activities, store, conns, out, loopVars, history>>

CM == INSTANCE ConnectionManager
NoConn == CM!NoConn
NoUser == CM!NoUser

-----------------------------------------------------------------------------
(* Queues.                                                                 *)

\* What a queued buffer is: the answer to the connection's own request, an
\* error packet or a broadcast pushed by another connection, or the private
\* message id.
Kind  == {"reply", "error", "chat", "to"}
Entry == [kind : Kind, id : Nat]

Plain(k)   == [kind |-> k, id |-> 0]
Private(m) == [kind |-> "to", id |-> m]

\* the private messages in the queue of f
Queued(f) == {out[f][i].id : i \in {j \in DOMAIN out[f] : out[f][j].kind = "to"}}

Push(fs, e) == out' = [g \in Fds |-> IF g \in fs THEN Append(out[g], e) ELSE out[g]]

Room(fs) == \A g \in fs : Len(out[g]) < MaxQueue

\* get_offline_messages(u): the unread lines of u ...
Unread(u) == {m \in store : sent[m] = u}

\* mutant of Ascending: newest first
Ascending_Reversed(S) ==
    {s \in [1..Cardinality(S) -> S] :
        /\ \A i, j \in DOMAIN s : i < j => s[i] > s[j]
        /\ \A m \in S : \E i \in DOMAIN s : s[i] = m}

\* ... in file order
Ascending(S) ==
    {s \in [1..Cardinality(S) -> S] :
        /\ \A i, j \in DOMAIN s : i < j => s[i] < s[j]
        /\ \A m \in S : \E i \in DOMAIN s : s[i] = m}

-----------------------------------------------------------------------------
TypeOK ==
    /\ CM!TypeOK
    /\ online \subseteq Users
    /\ activities \subseteq Fds
    /\ sent \in Seq(Users)
    /\ store \subseteq DOMAIN sent
    /\ written \subseteq DOMAIN sent
    /\ conns \subseteq Fds
    /\ out \in [Fds -> Seq(Entry)]
    /\ phase \in {"select", "read", "write", "close", "expire"}
    /\ todo \subseteq Fds /\ writable \subseteq Fds /\ toClose \subseteq Fds
    /\ burst \in Nat

Empty ==
    /\ online = {} /\ activities = {} /\ conns = {}
    /\ out = [f \in Fds |-> <<>>]
    /\ phase = "select"
    /\ todo = {} /\ writable = {} /\ toClose = {} /\ burst = 0

Init ==
    /\ CM!Init
    /\ Empty
    /\ store = {} /\ sent = <<>> /\ written = {}

-----------------------------------------------------------------------------
(* select() and accept().                                                  *)

\* f is next in the ascending walk over todo
Turn(f) == f \in todo /\ \A g \in todo : f <= g

Lowest(f) == f \in Fds \ conns /\ \A g \in Fds \ conns : f <= g

\* accept() returns the lowest descriptor that is free
Accept(f) ==
    /\ Lowest(f)
    /\ CM!AddConnection(f)
    /\ conns' = conns \cup {f}
    /\ activities' = activities \cup {f}

\* The sets given to select() are built before accept(): a connection that is
\* accepted in this iteration is read from in the next one.
Select ==
    /\ phase = "select"
    /\ phase' = "read"
    /\ todo' = conns
    /\ writable' = {f \in conns : out[f] # <<>>}
    /\ \/ \E f \in Fds : Accept(f)
       \/ UNCHANGED <<cmVars, conns, activities>>
    /\ UNCHANGED <<online, store, out, toClose, burst, history>>

-----------------------------------------------------------------------------
(* The read phase: read() once per ready descriptor, then handle_message   *)
(* for every packet that the buffer holds.                                 *)

Reading(f) == phase = "read" /\ Turn(f)

\* one more packet of f is decoded; its handling ends with update_activity
Packet(f) ==
    /\ Reading(f)
    /\ burst < MaxBurst
    /\ burst' = burst + 1
    /\ activities' = activities \cup {f}
    /\ UNCHANGED <<conns, phase, todo, writable, toClose>>

\* the descriptors among fs that a packet of f is pushed to
Targets(f, fs) == (fs \cap conns) \ {f}

\* requests that are answered and change nothing else here: HEARTBEAT,
\* LOGOUT when not logged in, an unknown type
Answer(f) ==
    /\ Packet(f)
    /\ Room({f})
    /\ Push({f}, Plain("reply"))
    /\ UNCHANGED <<cmVars, online, store, history>>

\* mutants of MarkRead: no line is marked, or every line is
MarkRead_None(u) == UNCHANGED store

MarkRead_All(u) == store' = {}

\* get_offline_messages marks what it returns and saves the file
MarkRead(u) == store' = store \ Unread(u)

\* The answer to LOGIN, then the offline messages of the connection's user.
AnswerAndDrain(f, u) ==
    /\ \E s \in Ascending(Unread(u)) :
         out' = [out EXCEPT ![f] = Append(@, Plain("reply"))
                                     \o [i \in DOMAIN s |-> Private(s[i])]]
    /\ MarkRead(u)

\* mutant of Login: the drain looks the user up before the connection is
\* authenticated
Login_DrainsFirst(f, u) ==
    /\ Packet(f)
    /\ Room({f})
    /\ ReLogin \/ CM!UserOn(f) = NoUser
    /\ CM!AuthenticateConnection(f, u)
    /\ online' = online \cup {u}
    /\ AnswerAndDrain(f, CM!UserOn(f))
    /\ UNCHANGED history

Login(f, u) ==
    /\ Packet(f)
    /\ Room({f})
    /\ ReLogin \/ CM!UserOn(f) = NoUser
    /\ CM!AuthenticateConnection(f, u)
    /\ online' = online \cup {u}
    /\ AnswerAndDrain(f, u)
    /\ UNCHANGED history

\* wrong password: a connection that is logged in stays so and is drained too
LoginRefused(f) ==
    /\ Packet(f)
    /\ Room({f})
    /\ ReLogin \/ CM!UserOn(f) = NoUser
    /\ AnswerAndDrain(f, CM!UserOn(f))
    /\ UNCHANGED <<cmVars, online, history>>

Logout(f) ==
    /\ Packet(f)
    /\ Room({f})
    /\ CM!UserOn(f) # NoUser
    /\ online' = online \ {CM!UserOn(f)}
    /\ CM!DeauthenticateConnection(f)
    /\ Push({f}, Plain("reply"))
    /\ UNCHANGED <<store, history>>

\* CHAT: what handle_chat returns, a broadcast or an error, goes to every
\* authenticated connection but the sender's; the sender gets no answer.
Chat(f) ==
    LET fs == Targets(f, CM!Authenticated)
        e  == Plain(IF CM!UserOn(f) = NoUser THEN "error" ELSE "chat")
    IN  /\ Broadcasts
        /\ Packet(f)
        /\ Room(fs)
        /\ Push(fs, e)
        /\ UNCHANGED <<cmVars, online, store, history>>

\* CHAT_TO u from a connection that is logged in, u has no route: the message
\* goes to the file and the sender is told that u is offline.
ChatToStored(f, u) ==
    /\ Packet(f)
    /\ CM!UserOn(f) # NoUser
    /\ CM!ConnectionOf(u) = NoConn
    /\ Len(sent) < MaxId /\ Room({f})
    /\ sent' = Append(sent, u)
    /\ store' = store \cup {Len(sent) + 1}
    /\ Push({f}, Plain("reply"))
    /\ UNCHANGED <<cmVars, online, written>>

\* u has a route: the message is queued there.  A route to the sender's own
\* connection, or to one that is gone, drops the message without an answer.
ChatToRouted(f, u) ==
    LET fs == Targets(f, {CM!ConnectionOf(u)})
    IN  /\ Packet(f)
        /\ CM!UserOn(f) # NoUser
        /\ CM!ConnectionOf(u) # NoConn
        /\ Len(sent) < MaxId /\ Room(fs)
        /\ sent' = Append(sent, u)
        /\ Push(fs, Private(Len(sent) + 1))
        /\ UNCHANGED <<cmVars, online, store, written>>

\* CHAT_TO u from a connection that is not logged in: the error packet goes
\* where the message would have gone, to the sender only if u has no route.
ChatToRefused(f, u) ==
    LET fs == Targets(f, {CM!ConnectionOf(u)})
    IN  /\ Packet(f)
        /\ CM!UserOn(f) = NoUser
        /\ IF CM!ConnectionOf(u) = NoConn
           THEN Room({f}) /\ Push({f}, Plain("reply"))
           ELSE Room(fs) /\ Push(fs, Plain("error"))
        /\ UNCHANGED <<cmVars, online, store, history>>

\* nothing to read, EAGAIN, or no complete packet left in the buffer
EndRead(f) ==
    /\ Reading(f)
    /\ todo' = todo \ {f}
    /\ burst' = 0
    /\ UNCHANGED <<cmVars, online, activities, store, conns, out, phase, writable,
                   toClose, history>>

\* read() returns 0 or fails
ReadEnds(f) ==
    /\ Reading(f)
    /\ burst = 0
    /\ todo' = todo \ {f}
    /\ toClose' = toClose \cup {f}
    /\ UNCHANGED <<cmVars, online, activities, store, conns, out, phase, writable,
                   burst, history>>

-----------------------------------------------------------------------------
(* The write phase, for the descriptors that had output at select().       *)

StartWriting ==
    /\ phase = "read" /\ todo = {}
    /\ phase' = "write"
    /\ todo' = writable
    /\ writable' = {}
    /\ UNCHANGED <<cmVars, online, activities, store, conns, out, toClose, burst,
                   history>>

Writing(f) == phase = "write" /\ Turn(f)

\* mutant of WriteFront: every buffer is taken for a private message
WriteFront_AnyKind(f) ==
    /\ Writing(f)
    /\ out[f] # <<>>
    /\ out' = [out EXCEPT ![f] = Tail(@)]
    /\ written' = written \cup {Head(out[f]).id}
    /\ UNCHANGED <<cmVars, online, activities, store, conns, loopVars, sent>>

\* the last byte of the front buffer is written
WriteFront(f) ==
    /\ Writing(f)
    /\ out[f] # <<>>
    /\ out' = [out EXCEPT ![f] = Tail(@)]
    /\ written' = IF Head(out[f]).kind = "to"
                  THEN written \cup {Head(out[f]).id} ELSE written
    /\ UNCHANGED <<cmVars, online, activities, store, conns, loopVars, sent>>

\* not writable, EAGAIN, or the queue is empty
EndWrite(f) ==
    /\ Writing(f)
    /\ todo' = todo \ {f}
    /\ UNCHANGED <<cmVars, online, activities, store, conns, out, phase, writable,
                   toClose, burst, history>>

WriteFails(f) ==
    /\ Writing(f)
    /\ out[f] # <<>>
    /\ todo' = todo \ {f}
    /\ toClose' = toClose \cup {f}
    /\ UNCHANGED <<cmVars, online, activities, store, conns, out, phase, writable,
                   burst, history>>

-----------------------------------------------------------------------------
(* The close loop and the periodic clean-up.                               *)

StartClosing ==
    /\ phase = "write" /\ todo = {}
    /\ phase' = "close"
    /\ UNCHANGED <<cmVars, online, activities, store, conns, out, todo, writable,
                   toClose, burst, history>>

\* mutant of Drop: remove_connection is forgotten
Drop_KeepsSession(f) ==
    /\ UNCHANGED cmVars
    /\ conns' = conns \ {f}
    /\ out' = [out EXCEPT ![f] = <<>>]

\* close(fd), remove_connection(fd), conns.erase(fd)
Drop(f) ==
    /\ CM!RemoveConnection(f)
    /\ conns' = conns \ {f}
    /\ out' = [out EXCEPT ![f] = <<>>]

\* mutant of Close: the monitor is not told
Close_KeepsActivity(f) ==
    /\ phase = "close" /\ f \in toClose
    /\ Drop(f)
    /\ toClose' = toClose \ {f}
    /\ UNCHANGED <<online, activities, store, phase, todo, writable, burst, history>>

Close(f) ==
    /\ phase = "close" /\ f \in toClose
    /\ Drop(f)
    /\ activities' = activities \ {f}
    /\ toClose' = toClose \ {f}
    /\ UNCHANGED <<online, store, phase, todo, writable, burst, history>>

\* less than 30 s since the last clean-up
EndIteration ==
    /\ phase = "close" /\ toClose = {}
    /\ phase' = "select"
    /\ UNCHANGED <<cmVars, online, activities, store, conns, out, todo, writable,
                   toClose, burst, history>>

\* check_timeout(): any set of connections may have been silent for 300 s
CheckTimeout ==
    /\ Timeouts
    /\ phase = "close" /\ toClose = {}
    /\ phase' = "expire"
    /\ \E silent \in SUBSET activities :
        /\ todo' = silent
        /\ activities' = activities \ silent
    /\ UNCHANGED <<cmVars, online, store, conns, out, writable, toClose, burst,
                   history>>

Expire(f) ==
    /\ phase = "expire" /\ f \in todo
    /\ todo' = todo \ {f}
    /\ IF f \in conns THEN Drop(f) ELSE UNCHANGED <<cmVars, conns, out>>
    /\ UNCHANGED <<online, activities, store, phase, writable, toClose, burst, history>>

\* cleanup_timeout_users(60): any set of online users may have sent no
\* HEARTBEAT for more than 60 s
CleanupUsers ==
    /\ phase = "expire" /\ todo = {}
    /\ phase' = "select"
    /\ \E idle \in SUBSET online : online' = online \ idle
    /\ UNCHANGED <<cmVars, activities, store, conns, out, todo, writable, toClose,
                   burst, history>>

-----------------------------------------------------------------------------
(* The process ends and is started again.  Only the message file survives. *)

Reset ==
    /\ Restarts
    /\ CM!Restart
    /\ online' = {} /\ activities' = {} /\ conns' = {}
    /\ out' = [f \in Fds |-> <<>>]
    /\ phase' = "select"
    /\ todo' = {} /\ writable' = {} /\ toClose' = {} /\ burst' = 0
    /\ UNCHANGED history

Crash == Reset /\ UNCHANGED store

\* save_all_messages truncates the file and writes it from the start: a
\* process that ends in it leaves some first lines of what it was writing, the
\* old lines of ChatToStored or the marked lines of Login.
CrashInSave ==
    /\ Reset
    /\ \E f \in Fds, u \in Users, m \in 0..MaxId :
        /\ Reading(f)
        /\ burst < MaxBurst
        /\ \/ /\ CM!UserOn(f) # NoUser /\ CM!ConnectionOf(u) = NoConn
              /\ store' = {n \in store : n <= m}
           \/ /\ Unread(u) # {}
              /\ store' = {n \in store \ Unread(u) : n <= m}

-----------------------------------------------------------------------------
Handle(f) ==
    \/ Answer(f) \/ LoginRefused(f) \/ Logout(f) \/ Chat(f)
    \/ \E u \in Users :
        \/ Login(f, u)
        \/ ChatToStored(f, u) \/ ChatToRouted(f, u) \/ ChatToRefused(f, u)

Loop ==
    \/ Select \/ StartWriting \/ StartClosing \/ EndIteration
    \/ CheckTimeout \/ CleanupUsers
    \/ \E f \in Fds :
        \/ EndRead(f) \/ ReadEnds(f)
        \/ WriteFront(f) \/ EndWrite(f) \/ WriteFails(f)
        \/ Close(f) \/ Expire(f)

Next ==
    \/ \E f \in Fds : Handle(f)
    \/ Loop
    \/ Crash
    \/ CrashInSave

Spec == Init /\ [][Next]_vars

-----------------------------------------------------------------------------
(* Safety.                                                                 *)

\* TablesAgree: the four places that know a connection agree at every step of
\* the loop: the loop's own table, the connection manager's, the monitor's
\* (less those it has just reported as silent) and the output queues.  The
\* close loop (server_im.cpp:245-251), the clean-up (259-266) and accept
\* (141-143) each maintain them by hand.
Expiring == IF phase = "expire" THEN todo ELSE {}

TablesAgree ==
    /\ connections = conns
    /\ activities = conns \ Expiring
    /\ todo \cup toClose \cup writable \subseteq conns
    /\ \A f \in Fds \ conns : out[f] = <<>> /\ userOf[f] = NoUser

\* RouteSound: see ConnectionManager; here the manager is driven by the real
\* handlers and by the close and time-out paths of the loop.
RouteSound == CM!RouteSound

\* ReachableDrained: while a user has a route, no unread message waits for
\* them in the file.  Messages are stored only without a route and a route
\* appears only in LOGIN, which drains (message_handler.cpp:184-190,
\* server_im.cpp:178-196); otherwise a user who is logged in would wait for a
\* message until the next LOGIN.
ReachableDrained ==
    \A u \in Users : userToConn[u] # NoConn => Unread(u) = {}

\* OneCopy: a private message is in at most one place: unread in the file, at
\* one position of one queue, or written.  It is never delivered twice, not
\* even when its addressee logs in on two connections or the process restarts.
PrivateAt(f, i) == i \in DOMAIN out[f] /\ out[f][i].kind = "to"

OneCopy ==
    /\ store \cap written = {}
    /\ \A f \in Fds : \A i \in DOMAIN out[f] :
         PrivateAt(f, i) => out[f][i].id \notin store \cup written
    /\ \A f, g \in Fds : \A i \in DOMAIN out[f], j \in DOMAIN out[g] :
         PrivateAt(f, i) /\ PrivateAt(g, j) /\ out[f][i].id = out[g][j].id
         => f = g /\ i = j

\* QueueOrder: the messages for one user leave a queue in the order in which
\* the server accepted them, the ones that come out of the file included.
QueueOrder ==
    \A f \in Fds : \A i, j \in DOMAIN out[f] :
        /\ i < j /\ PrivateAt(f, i) /\ PrivateAt(f, j)
        /\ sent[out[f][i].id] = sent[out[f][j].id]
        => out[f][i].id < out[f][j].id

\* StoredNewest: what waits in the file for a user is newer than everything
\* that is queued for or was written to that user.  With QueueOrder: storing
\* messages never reorders them.
StoredNewest ==
    \A m \in store :
        \A n \in written \cup UNION {Queued(f) : f \in Fds} :
            sent[n] = sent[m] => n < m

-----------------------------------------------------------------------------
(* Action properties.                                                      *)

Live(m) == m \in store \/ \E f \in Fds : m \in Queued(f)

\* LossExplained: a private message that is stored or queued is only lost with
\* the connection whose queue held it, or with the process.
LossExplained ==
    [][\A m \in DOMAIN sent :
          Live(m) /\ ~Live(m)' /\ m \notin written' =>
              \/ \E f \in conns \ conns' : m \in Queued(f)
              \/ CrashInSave]_vars

\* OnlyToAddressee: a private message is queued only on a connection that is
\* authenticated as its addressee at that moment.
OnlyToAddressee ==
    [][\A f \in Fds : \A m \in Queued(f)' \ Queued(f) : userOf'[f] = sent'[m]]_vars

\* NoSilentDrop: an accepted private message is stored or queued, unless its
\* addressee's route leads back to the connection it came from.
NoSilentDrop ==
    [][sent' # sent =>
          \/ Live(Len(sent))'
          \/ Turn(userToConn[sent'[Len(sent')]])]_vars

-----------------------------------------------------------------------------
(* The connection manager is used with the discipline that its properties  *)
(* need, and private messages follow the life cycle of Mailbox.            *)

CMOnce == CM!OnceSpec

Places(m) ==
    {p \in {"stored", "queued", "written"} :
        \/ p = "stored"  /\ m \in store
        \/ p = "queued"  /\ \E f \in Fds : m \in Queued(f)
        \/ p = "written" /\ m \in written}

MessageState(m) ==
    CASE m \notin DOMAIN sent         -> "new"
      [] Places(m) = {"stored"}      -> "stored"
      [] Places(m) = {"queued"}      -> "queued"
      [] Places(m) = {"written"}     -> "written"
      [] m \in DOMAIN sent /\ Places(m) = {} -> "lost"
      [] OTHER                       -> "in two places"

Promise == INSTANCE Mailbox WITH
              Ids <- 1..MaxId,
              box <- [m \in 1..MaxId |-> MessageState(m)]

MailboxSpec == Promise!Spec
=============================================================================
