------------------------------ MODULE ChatWindow ------------------------------
(***************************************************************************)
(* The window of the Qt client (main_window.cpp, chat_model.cpp) with its  *)
(* network object (im_client_network.cpp): the three pages, one connection *)
(* after another, and the chat histories, which outlive every connection,  *)
(* every account that logs in and every process of the server.             *)
(*                                                                         *)
(* The server is external: the connection's session, one FIFO in each      *)
(* direction, and the groups of the process that runs.  GroupChat models   *)
(* who is in a group, UserManager who can log in, StreamDecoder how a      *)
(* server decodes what arrives in pieces.                                  *)
(***************************************************************************)
EXTENDS Integers, Sequences, FiniteSets, SequencesExt

CONSTANTS
    Accounts,   \* accounts that log in at this window
    Contacts,   \* the user ids of the contacts that every login adds: 1, 2, 3
    Peers,      \* users with other clients who write
    GroupBase,  \* 1000000: the key of group g in chat_histories_ is GroupBase + g
    MaxGroups,  \* bound: groups one process of the server creates
    MaxMessages,\* bound: messages
    MaxConnects,\* bound: clicks that connect
    MaxLife     \* bound: processes of the server

ASSUME IdsAssumption   == Accounts \cup Contacts \cup Peers \subseteq 1..(GroupBase - 1)
ASSUME BoundAssumption ==
    GroupBase \in Nat /\ {MaxGroups, MaxMessages, MaxConnects, MaxLife} \subseteq Nat

NoUser == 0
Closed == -1        \* session: the server has closed the connection
Nothing == [what |-> "nothing", user |-> NoUser]

VARIABLES
    \* MainWindow
    page,       \* the page on top: "login", "register", "main"
    pending,    \* is_registering_ and pending_login_username_
    beating,    \* heartbeat_timer_ runs
    contacts,   \* user ids in user_model_
    groups,     \* group ids in group_model_
    chat,       \* key of the chat that is shown, 0 for none
    shown,      \* current_chat_model_
    histories,  \* chat_histories_, an absent one is empty
    \* IMClientNetwork
    me,         \* user_id_
    link,       \* state of socket_: "off", "connecting", "on"
    stale,      \* recv_buffer_ starts with a piece of a former connection
    \* external: the server and the network
    session, up, down,
    owners,     \* owners[g]: the account that created group g
    life,       \* number of the server's process
    \* history
    log,        \* messages: chat key, written here?, process of the server
    clicks,     \* bounds the behaviour
    told,       \* the last click has been answered
    spliced,    \* this connection met a stale piece in recv_buffer_
    renewed     \* the history of the shown group was replaced

windowVars == <<page, pending, beating, contacts, groups, chat, shown, histories>>
netVars    == <<me, link, stale>>
serverVars == <<session, up, down, owners, life>>
historyVars == <<log, clicks, told, spliced, renewed>>
vars == <<windowVars, netVars, serverVars, historyVars>>

KeyOf(g)  == GroupBase + g
ChatKeys  == {0} \cup Accounts \cup Contacts \cup Peers
                 \cup {KeyOf(g) : g \in 0..MaxGroups}
IsGroup(k) == k >= GroupBase

\* A message without sender and text, see Swallowed.
Blank == [id |-> 0, mine |-> FALSE]

WindowTypeOK ==
    /\ page \in {"login", "register", "main"}
    /\ pending \in {Nothing} \cup [what : {"login", "register"}, user : Accounts]
    /\ link = "on" => pending = Nothing
    /\ beating \in BOOLEAN
    /\ contacts \subseteq Contacts /\ groups \subseteq 1..MaxGroups
    /\ chat \in ChatKeys
    /\ histories \in [ChatKeys -> Seq([id : 0..Len(log), mine : BOOLEAN])]
    /\ shown \in Seq([id : 0..Len(log), mine : BOOLEAN])
    /\ me \in Accounts \cup {NoUser}
    /\ link \in {"off", "connecting", "on"} /\ stale \in BOOLEAN
    /\ session \in Accounts \cup {NoUser, Closed}
    /\ owners \in Seq(Accounts) /\ Len(owners) <= MaxGroups
    /\ \A i \in DOMAIN log : log[i] \in [key : ChatKeys, mine : BOOLEAN, life : 1..life]

Init ==
    /\ page = "login" /\ pending = Nothing /\ beating = FALSE
    /\ contacts = {} /\ groups = {} /\ chat = 0 /\ shown = <<>>
    /\ histories = [k \in ChatKeys |-> <<>>]
    /\ me = NoUser /\ link = "off" /\ stale = FALSE
    /\ session = NoUser /\ up = <<>> /\ down = <<>> /\ owners = <<>> /\ life = 1
    /\ log = <<>> /\ clicks = 0 /\ told = TRUE /\ spliced = FALSE /\ renewed = FALSE

-----------------------------------------------------------------------------
(* Pages and connections.                                                  *)

SwitchPage ==
    /\ page # "main"
    /\ page' = IF page = "login" THEN "register" ELSE "login"
    /\ UNCHANGED <<pending, beating, contacts, groups, chat, shown, histories,
                   netVars, serverVars, historyVars>>

\* mutant of OnDisconnected: the timer runs on
OnDisconnected_KeepsTimer ==
    /\ me' = NoUser
    /\ page' = "login"
    /\ UNCHANGED beating

\* both on_disconnected: recv_buffer_, the chats and the contacts stay
OnDisconnected ==
    /\ me' = NoUser
    /\ page' = "login"
    /\ beating' = FALSE

\* connect_to_server: a connection that is open is closed first, which signals
\* disconnected at once.  (A click while the socket still connects is left out:
\* what Qt makes of it is not this program's.)  recv_buffer_ may hold the first
\* bytes of a packet.
ConnectToServer(what, u) ==
    /\ link # "connecting"
    /\ clicks < MaxConnects /\ clicks' = clicks + 1
    /\ pending' = [what |-> what, user |-> u]
    /\ IF link = "on" THEN OnDisconnected ELSE UNCHANGED <<me, page, beating>>
    /\ stale' \in {stale, stale \/ down # <<>>}
    /\ link' = "connecting"
    /\ session' = NoUser /\ up' = <<>> /\ down' = <<>>
    /\ told' = FALSE
    /\ UNCHANGED <<contacts, groups, chat, shown, histories, owners, life, log,
                   spliced, renewed>>

LoginClicked(u)    == page = "login" /\ ConnectToServer("login", u)
RegisterClicked(u) == page = "register" /\ ConnectToServer("register", u)

\* mutant of Connected: the pending request is kept
Connected_KeepsPending ==
    /\ link = "connecting" /\ link' = "on"
    /\ up' = <<[op |-> pending.what, user |-> pending.user]>>
    /\ spliced' = stale
    /\ UNCHANGED <<windowVars, me, stale, session, down, owners, life, log,
                   clicks, told, renewed>>

\* mutant of Connected: the pending request is cleared before it is sent
Connected_ClearsFirst ==
    /\ link = "connecting" /\ link' = "on"
    /\ pending' = Nothing
    /\ spliced' = stale
    /\ UNCHANGED <<page, beating, contacts, groups, chat, shown, histories, me,
                   stale, session, up, down, owners, life, log, clicks, told, renewed>>

\* on_connected
Connected ==
    /\ link = "connecting" /\ link' = "on"
    /\ up' = <<[op |-> pending.what, user |-> pending.user]>>
    /\ pending' = Nothing
    /\ spliced' = stale
    /\ UNCHANGED <<page, beating, contacts, groups, chat, shown, histories, me,
                   stale, session, down, owners, life, log, clicks, told, renewed>>

\* on_connection_error: a label is written; what was pending stays
ConnectFails ==
    /\ link = "connecting" /\ link' = "off"
    /\ UNCHANGED <<windowVars, me, stale, serverVars, historyVars>>

\* The server has closed the connection, or the network has: what was on its way
\* is lost, except perhaps the first bytes of a packet.
Disconnected ==
    /\ link = "on" /\ link' = "off"
    /\ OnDisconnected
    /\ stale' \in {stale, stale \/ down # <<>>}
    /\ session' = NoUser /\ up' = <<>> /\ down' = <<>>
    /\ UNCHANGED <<pending, contacts, groups, chat, shown, histories, owners, life,
                   historyVars>>

-----------------------------------------------------------------------------
(* on_ready_read, one packet at a time.                                    *)

Arrives(op) ==
    /\ link = "on" /\ ~stale
    /\ down # <<>> /\ Head(down).op = op
    /\ down' = Tail(down)
    /\ UNCHANGED <<pending, link, stale, session, owners, life, log, clicks, spliced>>

\* on_login_success; the contacts of former logins stay
LoginSuccess ==
    /\ Arrives("login")
    /\ me' = Head(down).user
    /\ page' = "main" /\ beating' = TRUE /\ told' = TRUE
    /\ contacts' = contacts \cup (Contacts \ {Head(down).user})
    /\ up' = Append(up, [op |-> "list"])
    /\ UNCHANGED <<groups, chat, shown, histories, renewed>>

\* register_success: back to the login page, still connected
RegisterSuccess ==
    /\ Arrives("registered")
    /\ page' = "login" /\ told' = TRUE
    /\ UNCHANGED <<beating, contacts, groups, chat, shown, histories, me, up, renewed>>

\* on_login_failed, register_failed
Refused ==
    /\ Arrives("refused")
    /\ told' = TRUE
    /\ UNCHANGED <<page, beating, contacts, groups, chat, shown, histories, me, up,
                   renewed>>

\* on_notify: a box
Notify ==
    /\ Arrives("notify")
    /\ UNCHANGED <<page, beating, contacts, groups, chat, shown, histories, me, up,
                   told, renewed>>

\* on_groups_list_received
GroupsListReceived ==
    /\ Arrives("groups")
    /\ groups' = Head(down).groups
    /\ UNCHANGED <<page, beating, contacts, chat, shown, histories, me, up, told, renewed>>

\* on_group_created: an empty history, whatever there was under its key; the
\* chat that is shown keeps its own copy
GroupCreated ==
    /\ Arrives("created")
    /\ groups' = groups \cup {Head(down).group}
    /\ histories' = [histories EXCEPT ![KeyOf(Head(down).group)] = <<>>]
    /\ renewed' = (renewed \/ chat = KeyOf(Head(down).group))
    /\ UNCHANGED <<page, beating, contacts, chat, shown, me, up, told>>

\* add_message to the history of k, and to the chat that is shown if it is k's
File(k, m) ==
    /\ histories' = [histories EXCEPT ![k] = Append(@, m)]
    /\ shown' = IF chat = k THEN Append(shown, m) ELSE shown

\* mutant of MessageReceived: shown whatever chat is open
MessageReceived_Shown ==
    /\ Arrives("chat")
    /\ LET m == [id |-> Head(down).id, mine |-> FALSE]
       IN  /\ histories' = [histories EXCEPT ![Head(down).key] = Append(@, m)]
           /\ shown' = Append(shown, m)
    /\ UNCHANGED <<page, beating, contacts, groups, chat, me, up, told, renewed>>

\* mutant of MessageReceived: filed in the chat that is open
MessageReceived_Open ==
    /\ Arrives("chat")
    /\ File(chat, [id |-> Head(down).id, mine |-> FALSE])
    /\ UNCHANGED <<page, beating, contacts, groups, chat, me, up, told, renewed>>

\* on_message_received, on_group_message_received
MessageReceived ==
    /\ Arrives("chat")
    /\ File(Head(down).key, [id |-> Head(down).id, mine |-> FALSE])
    /\ UNCHANGED <<page, beating, contacts, groups, chat, me, up, told, renewed>>

\* The piece of a former connection is taken for the start of what arrives now.
\* Either the packet goes into it and the buffer still waits for more, or the
\* piece is complete, what follows it has no magic, and the buffer is cleared.
\* The packet made of two has no JSON in its body: it does nothing, or it is a
\* private message or a group message without sender and text, or an empty list.
Swallowed ==
    /\ link = "on" /\ stale
    /\ down # <<>> /\ down' = Tail(down)
    /\ \/ UNCHANGED <<stale, groups, shown, histories>>
       \/ /\ stale' = FALSE
          /\ \/ UNCHANGED <<groups, shown, histories>>
             \/ groups' = {} /\ UNCHANGED <<shown, histories>>
             \/ File(0, Blank) /\ UNCHANGED groups
             \/ File(KeyOf(0), Blank) /\ UNCHANGED groups
    /\ UNCHANGED <<page, pending, beating, contacts, chat, me, link, session, up,
                   owners, life, historyVars>>

-----------------------------------------------------------------------------
(* The main page.                                                          *)

\* mutant of Select: an empty history, although there is one
Select_Fresh(k) ==
    /\ page = "main"
    /\ chat' = k
    /\ histories' = [histories EXCEPT ![k] = <<>>]
    /\ shown' = <<>>
    /\ renewed' = FALSE
    /\ UNCHANGED <<page, pending, beating, contacts, groups, netVars, serverVars,
                   log, clicks, told, spliced>>

\* switch_to_user, switch_to_group: a copy of the history
Select(k) ==
    /\ page = "main"
    /\ chat' = k
    /\ shown' = histories[k]
    /\ renewed' = FALSE
    /\ UNCHANGED <<page, pending, beating, contacts, groups, histories, netVars,
                   serverVars, log, clicks, told, spliced>>

SelectUser(u)  == u \in contacts /\ Select(u)
SelectGroup(g) == g \in groups /\ Select(KeyOf(g))

\* send_packet does nothing without a connection
SendPacket(r) == up' = IF link = "on" THEN Append(up, r) ELSE up

\* on_send_clicked: sent, and filed whatever the server will say
SendClicked ==
    /\ page = "main" /\ chat # 0
    /\ Len(log) < MaxMessages
    /\ log' = Append(log, [key |-> chat, mine |-> TRUE, life |-> life])
    /\ SendPacket([op |-> "chat", key |-> chat, id |-> Len(log) + 1])
    /\ File(chat, [id |-> Len(log) + 1, mine |-> TRUE])
    /\ UNCHANGED <<page, pending, beating, contacts, groups, chat, netVars, session,
                   down, owners, life, clicks, told, spliced, renewed>>

CreateGroupClicked ==
    /\ page = "main"
    /\ Len(owners) + Cardinality({i \in DOMAIN up : up[i].op = "create"}) < MaxGroups
    /\ SendPacket([op |-> "create"])
    /\ UNCHANGED <<windowVars, netVars, session, down, owners, life, historyVars>>

-----------------------------------------------------------------------------
(* External: the server.  It answers the requests of the connection in     *)
(* order, and other clients write to the account that is logged in.        *)

Owned(u) == {g \in DOMAIN owners : owners[g] = u}

Serves(op) ==
    /\ session \in Accounts \cup {NoUser}
    /\ up # <<>> /\ Head(up).op = op
    /\ up' = Tail(up)
    /\ UNCHANGED <<windowVars, netVars, life, historyVars>>

Answers(p) == down' = Append(down, p)

ServeLogin ==
    /\ Serves("login")
    /\ \/ session' = Head(up).user /\ Answers([op |-> "login", user |-> Head(up).user])
       \/ Answers([op |-> "refused"]) /\ UNCHANGED session
    /\ UNCHANGED owners

ServeRegister ==
    /\ Serves("register")
    /\ \E op \in {"registered", "refused"} : Answers([op |-> op])
    /\ UNCHANGED <<session, owners>>

ServeList ==
    /\ Serves("list")
    /\ Answers([op |-> "groups", groups |-> Owned(session)])
    /\ UNCHANGED <<session, owners>>

ServeCreate ==
    /\ Serves("create")
    /\ owners' = Append(owners, session)
    /\ Answers([op |-> "created", group |-> Len(owners) + 1, life |-> life])
    /\ UNCHANGED session

\* CHAT_TO has no answer, or the notice that the user is offline; CHAT_GROUP
\* comes back to its sender, or is refused.
ServeChat ==
    /\ Serves("chat")
    /\ IF IsGroup(Head(up).key)
       THEN IF Head(up).key \in {KeyOf(g) : g \in Owned(session)}
            THEN Answers(Head(up))
            ELSE Answers([op |-> "notify"])
       ELSE Answers([op |-> "notify"]) \/ UNCHANGED down
    /\ UNCHANGED <<session, owners>>

PeerWrites(k) ==
    /\ session \in Accounts
    /\ k \in (Peers \ {session}) \cup {KeyOf(g) : g \in Owned(session)}
    /\ Len(log) < MaxMessages
    /\ log' = Append(log, [key |-> k, mine |-> FALSE, life |-> life])
    /\ Answers([op |-> "chat", key |-> k, id |-> Len(log) + 1])
    /\ UNCHANGED <<windowVars, netVars, session, up, owners, life, clicks, told,
                   spliced, renewed>>

\* The connection is closed by the server; what it has sent still arrives.
ServerCloses ==
    /\ link = "on" /\ session # Closed
    /\ session' = Closed /\ up' = <<>>
    /\ UNCHANGED <<windowVars, netVars, down, owners, life, historyVars>>

\* Another process, without groups.
ServerRestarts ==
    /\ life < MaxLife /\ life' = life + 1
    /\ owners' = <<>>
    /\ session' = IF link = "on" THEN Closed ELSE session
    /\ up' = <<>>
    /\ UNCHANGED <<windowVars, netVars, down, historyVars>>

-----------------------------------------------------------------------------
Server ==
    \/ ServeLogin \/ ServeRegister \/ ServeList \/ ServeCreate \/ ServeChat

ReadyRead ==
    \/ LoginSuccess \/ RegisterSuccess \/ Refused \/ Notify
    \/ GroupsListReceived \/ GroupCreated \/ MessageReceived \/ Swallowed

User ==
    \/ SwitchPage \/ SendClicked \/ CreateGroupClicked
    \/ \E u \in Accounts : LoginClicked(u) \/ RegisterClicked(u)
    \/ \E u \in Contacts : SelectUser(u)
    \/ \E g \in 1..MaxGroups : SelectGroup(g)

Network == Connected \/ ConnectFails \/ Disconnected

Next ==
    \/ User \/ Network \/ ReadyRead \/ Server \/ ServerCloses \/ ServerRestarts
    \/ \E k \in ChatKeys : PeerWrites(k)

\* An attempt to connect ends, the server answers, what it sent arrives, and so
\* does the end of the stream.
Fairness ==
    /\ WF_vars(Connected \/ ConnectFails)
    /\ WF_vars(Server)
    /\ WF_vars(ReadyRead)
    /\ WF_vars(session = Closed /\ Disconnected)

Spec == Init /\ [][Next]_vars /\ Fairness

-----------------------------------------------------------------------------
(* Properties.                                                             *)

\* LoginReflected: the main page is shown, and the heartbeat timer runs, exactly
\* while there is a user id, which is the one the server has logged in on the
\* present connection (main_window.cpp:601-644, im_client_network.cpp:263-268);
\* and once everything the server sent has been handled the window is logged in
\* if the server thinks so, unless a piece of a former connection was in the way.
LoginReflected ==
    /\ page = "main" <=> me # NoUser
    /\ beating <=> me # NoUser
    /\ me # NoUser => link = "on" /\ session \in {me, Closed}
    /\ link = "on" /\ session \in Accounts /\ down = <<>> /\ ~spliced => me = session

\* ShownIsHistory: the chat that is shown, which is kept beside its history,
\* agrees with it, over changes of chat, account and connection; when the history
\* was replaced behind it, the history is the end of what is shown.
ShownIsHistory ==
    /\ IsSuffix(histories[chat], shown)
    /\ ~renewed => shown = histories[chat]

\* FiledOnce: a message is filed in the chat it belongs to and nowhere else, at
\* most once as received and at most once as written here; only what was written
\* here to a group is both, because the server sends it back.
FiledOnce ==
    \A k \in ChatKeys : LET h == histories[k] IN
      \A i, j \in DOMAIN h : h[i].id # 0 =>
        /\ log[h[i].id].key = k
        /\ i # j /\ h[i].id = h[j].id => h[i].mine # h[j].mine
        /\ h[i].mine \/ ~log[h[i].id].mine \/ IsGroup(k)

\* NothingVanishes: histories only grow.  When a group is created that has the
\* number of a group of a former process of the server, what that process sent
\* goes, and what was written here to the former number, but nothing received
\* from the present process.
NothingVanishes ==
    [][\A k \in ChatKeys :
          \/ IsPrefix(histories[k], histories'[k])
          \/ \A i \in DOMAIN histories[k] :
                LET m == histories[k][i] IN
                  IsGroup(k) /\ (m.mine \/ log[m.id].life < Head(down).life)]_vars

\* ClickAnswered: a click on login or register is answered, or the connection
\* ends, unless a piece of a former connection swallows the answer.
ClickAnswered == link = "connecting" ~> told \/ link = "off" \/ spliced
=============================================================================
