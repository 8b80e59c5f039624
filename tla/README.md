# linux_chat_system in TLA+

A verification development for the chat server of this repository: TLA+ modules
translated from the C++ sources, TLC configurations that check them on small
instances, and proofs, checked by TLAPS, of the results that matter most.

    tlc -workers 2 -config MCImServerQueues.cfg MCImServer     # one of the runs
    tlapm ImServerProofs.tla                                   # the proofs

Every run and every theorem is listed in `PROJECT.json`, with the lines of the
source each definition stands for (`map`), the hazards of the code and the
properties that look at them (`hazards`), and the places where the code does
something else than the repository says (`findings`).

## 1. The system

`server_im` is one process with one thread. Its `main` (server_im.cpp) owns the
sockets; everything else is a library that it calls. Clients are processes of
their own, connected by TCP.

| Part | Source | State | Operations |
|---|---|---|---|
| Server loop | server_im.cpp | `conns` (descriptor -> input buffer, queue of output buffers), `to_close`, `last_cleanup` | select, accept, read and decode, push replies, offline messages and notifications, write, close, 30 s clean-up |
| Message handler | message_handler.* | none of its own | `handle_message` and one handler per request: LOGIN, LOGOUT, REGISTER, HEARTBEAT, CHAT, CHAT_TO, and six group requests |
| Connection manager | connection_manager.* | `connections_` (fd -> user, flag), `user_to_conn_` (user -> fd) | add, remove, authenticate, deauthenticate; three look-ups |
| User manager | user_manager.* | accounts, names, `next_user_id_`, `online_users_`, users_db.txt | register, login, logout, `update_last_active`, `cleanup_timeout_users`, load, save |
| Connection monitor | connection_monitor.* | `activities_` (fd -> last activity) | `update_activity`, `check_timeout` (300 s), `remove_connection` |
| Message storage | message_storage.* | messages.db, `total_messages_` | save, get and mark, mark, clear; load and save of the whole file inside each |
| Group manager | group_manager.* | groups and members in memory, `next_group_id_` | create, delete, add and remove member, look-ups |
| Wire protocol | im_protocol.* | `ByteBuffer` per connection | `encode`, `try_decode` |
| Reactor | event_loop.*, conn.*, server.*, test_multi.cpp | handlers by descriptor; per connection a state, an output queue and `write_offset_`; the program's map `clients` | epoll loop, accept, send, handle_read, handle_write, handle_error; used by test_multi only |
| Qt client | qt_client/ | page, pending request, heartbeat timer, receive buffer, contacts, groups, shown chat, histories | login, registration, chats, groups; answers decoded in `on_ready_read` |
| Command line client, senders | im_client.cpp, client_send.cpp, test_client.cpp | a receive thread that prints | send requests |
| Logger, small servers, scraps | logger.*, server_simple.cpp, server_min.cpp, protatic.cpp, event_loop_epoll.hpp | | not part of the behaviour of the server |

How they interact. A packet is read and decoded in the loop and given to
`handle_message(fd, pkt)`, which changes the managers and returns a packet, a flag
"reply to the sender" and a list of descriptors to notify. The loop encodes the
packet, pushes it to the sender's queue if the flag is set, then, after LOGIN, the
stored messages of the connection's user, then to the queues of the targets that
are in `conns` and are not the sender. Queues are written in the next iterations.
CHAT_TO (a private message) is routed if `user_to_conn_` knows the addressee and
stored in messages.db otherwise; LOGIN creates the route and drains the file.

What is hard in it, and what makes it correct:

* **Four tables know a connection** (`conns`, the manager, the monitor, the
  queues) and three paths, accept, the close loop and the time-out path, keep them
  by hand. They have to agree, because descriptors are given out again.
* **Two conditions decide about a private message**: "no route" stores, LOGIN
  fetches. If they ever drift apart a message waits in the file of a user who is
  online; if they overlap it is delivered twice or out of order.
* **A message crosses three places** (file, queue, socket) and every one of them can
  end: a peer closes, a connection is silent for 300 s, a write fails, the process
  dies, possibly inside `save_all_messages`. At most one copy, in order, and losses
  only where one of these explains it.
* **Phases**: what `select` reported is used until the end of the iteration, while
  handlers change queues and peers close.
* **TCP** cuts the stream anywhere; `try_decode` must not care.
* **One text file** holds all stored messages of all users and is read and written
  as a whole at every operation.
* **Sessions**: nothing keeps a client from logging in twice on a connection, or a
  user from logging in on two; a client that connects again often has two connections
  for a while, as the server has not noticed the end of the first.
* **Time**: the 300 s and 60 s limits concern different tables and are fed by
  different events.
* **Accounts and ids**: users_db.txt is truncated and written again at each REGISTER,
  the next id is rebuilt from it at a start, and messages are stored under ids.
* **Write events** (reactor): asking for EPOLLOUT and having something to write are two
  pieces of state that are changed in four places; if they drift apart nothing is
  written any more, or the loop spins.
* **What outlives a connection** (Qt client): histories, contacts, groups and a piece of a
  packet in the receive buffer meet another account or another process of the server.

## 2. Modules

| Module | What it is |
|---|---|
| `ConnectionManager` | The two maps and all operations of connection_manager.cpp, under three disciplines of the callers |
| `ImServer`, `ImServerProofs` | The loop composed with the message handler, the connection manager (by INSTANCE), the monitor, the online table and the message file |
| `Mailbox` | Abstract: the life of a private message, at most once |
| `Presence`, `PresenceProofs` | The connection manager (by EXTENDS) with the clocks of the monitor and of the online table, heartbeats, half-open connections; the proofs are those of `ConnectionManager` too |
| `UserManager`, `UserManagerProofs` | Accounts, REGISTER and LOGIN, users_db.txt over restarts, messages kept for an id |
| `StreamDecoder`, `StreamDecoderProofs` | `encode`, `try_decode` and the read loop over a byte stream |
| `PacketOrder` | Abstract: packets come out once and in order |
| `MessageStorage`, `MessageStorageProofs` | messages.db: line format, all operations, failed opens and writes, processes that end |
| `Inbox` | Abstract: messages wait in order and are fetched once, and what a fault may do to that |
| `Selection` | `SelectSeq` by positions, for `MessageStorage` and `Inbox` |
| `GroupChat`, `GroupChatProofs` | Groups from the Qt client's window to the members' windows, over the connection manager (by INSTANCE) |
| `Reactor`, `ReactorProofs` | epoll loop, connections and server as test_multi drives them, a step per system call |
| `ChatRoom` | Abstract: a room in which everybody hears the same |
| `ChatWindow`, `ChatWindowProofs` | One window of the Qt client over connections, accounts and processes of the server |
| `MC*` | Instances for TLC |

Beside some definitions there is a second one, marked "mutant of", that changes it
the way a slip in the code would. No specification uses them. They are there to see
that a property notices: with the mutant in place of the definition TLC reports the
property violated.

### ConnectionManager

`connections`, `userOf` and `userToConn` are the keys of `connections_`, the user in
each record and `user_to_conn_`. `user_id` and `is_authenticated` are always written
together, so `userOf[f] = NoUser` (0) stands for "not authenticated". One operator
per method. The methods check almost nothing, and what holds depends on the order of
the calls, so the module has three next-state relations: `AnyNext` (LOGIN at any
time), `OnceNext` (LOGIN only on a connection that is not logged in) and `SoleNext`
(and only if the user is logged in nowhere else).

`OneToOne`, "the two maps are inverse", holds under `SoleSpec`; `RouteSound`, "a route
leads to a live connection of that user", under `OnceSpec`; nothing but the types
under `AnySpec`. These are theorems; no run is spent on the module alone, because
`server_sessions`, `server_refines` and `presence` check the same in its callers.

### ImServer

State: the manager's three variables; `online` and `activities` (key sets of
`online_users_` and `activities_`); `store` (the unread lines of messages.db); `conns`,
`out`, `writable`, `toClose` (the variables of `main`); `phase` and `todo` (where the
loop is and which descriptors it still has to visit); `burst` (packets handled since
the last `read`); and two history variables, `sent` (the addressee of every private
message accepted; a message's identity is its index) and `written`.

One step is one packet handled, one buffer written, one connection closed. A phase
walks the descriptors in ascending order, as the `std::map` does, and `Accept` takes
the lowest free descriptor, as the kernel does.

| Action | Code |
|---|---|
| `Select` (with `Accept`) | server_im.cpp:102-149 |
| `Answer`, `Login`, `LoginRefused`, `Logout`, `Chat`, `ChatToStored`, `ChatToRouted`, `ChatToRefused` | handle_message and its handlers, then server_im.cpp:164-208: reply, drain after LOGIN, push to the targets, `update_activity` |
| `EndRead`, `ReadEnds` | no (more) complete packet or EAGAIN; end of file or an error |
| `StartWriting`, `WriteFront`, `EndWrite`, `WriteFails` | server_im.cpp:221-242 |
| `StartClosing`, `Close`, `EndIteration` | server_im.cpp:244-255 |
| `CheckTimeout`, `Expire`, `CleanupUsers` | server_im.cpp:255-276, `check_timeout`, `cleanup_timeout_users` |
| `Crash`, `CrashInSave` | the process ends anywhere, or inside `save_all_messages` (a prefix of the new file is left), and starts again |

Abstractions, and why they are sound for the properties:

* *Wall clock.* Any set of connections may have been silent for 300 s and any set of
  users for 60 s whenever the clean-up may run. This allows more than the code does;
  `Presence` has the clocks.
* *Texts.* A message is its number. Texts with a `|` or a line break are left out here,
  because `MessageStorage` shows what they do to the file: it cannot be read again.
* *messages.db can be opened.* `MessageStorage` has a file that cannot. Here a stored message
  would be lost, or one that was returned be delivered again at the next LOGIN, and `OneCopy`,
  `LossExplained` and `MailboxSpec` hold only as long as that does not happen.
* *Read lines.* A line marked as read stays in the file for ever but no operation of
  the server looks at it again, so `store` has the unread ones only.
* *Partial writes.* A buffer is written in one step. What a partial write leaves is
  the front of the same queue, and no other code touches the front. (`Reactor` has
  partial writes, for the other server.)
* *Descriptors in `to_close` twice.* A connection whose read and write both fail is
  closed twice in a row by the same loop, before any descriptor can be given out
  again; the model closes it once.
* *Malformed requests* and REGISTER are not sent. Users are the registered ones.
* *Switches.* `ReLogin`, `Broadcasts`, `Timeouts` and `Restarts` say which behaviour
  the environment shows. The theorems hold for every setting unless they say so.

### Mailbox

The promise about one private message: new, stored, queued, written, or lost, and
only forward. `ImServer` implements it (`MailboxSpec`) with the mapping `MessageState`: a
message is what the one place says where it is; in none it is lost; in two it is "in
two places", which `Mailbox` does not know. The promise is "at most once" on purpose:
the code marks a stored message as read when it queues it, not when it is written.

### Presence

Time is counted in ticks of 30 s; `activities` and `online` are the ages of
`last_activity` and `last_active`, `Gone` for a key that is not there, and `sinceClean` is
the age of `last_cleanup`. The loop turns at least once a second (its `select` has a
time-out), which is short against a tick: a clean-up that is due, an end of stream that
has arrived and a Qt client's heartbeat come before the next `Tick`. `Login`, `Logout`,
`Heartbeat` and `Talk` (any other packet) are what the loop and the handlers do to the
tables, `Close` and `CleanUp` the two ways a connection ends. `CleanUp` compares as the
code does: `>=` 300 s in `check_timeout`, `>` 60 s in `cleanup_timeout_users`, and a
heartbeat does not bring a user back who was taken out.

The environment: a client's network may be lost without a word (`LinkLost`: the
connection is half open) and what the client sent may come through later (`LinkBack`,
with a LOGOUT or without), while the client has already connected again. A user of the
Qt client has one live client; a user of the command line client may have several.

### UserManager

`db` is `users_`, `username_to_id_` and `next_user_id_`; `file` the lines of users_db.txt,
a set, because `users_` is a map and is written in the order of the ids;
`mail` the messages kept for an id. `Started` is what `main` does: load the file, then
register the three test users that are missing. `Loaded` is `load_from_file` with its
effect on names that contain a blank (the line is read back by blanks: the second word
becomes the hash). `Register` answers "ok" whether the file could be written
(`RegisterUnsaved`) or not; `KilledInSave` leaves any number of the first lines, the last
one perhaps with a hash cut short. `confirmed`, `lost`, `written` and `read` are history.
A password stands for its hash.

### StreamDecoder

`wire` is what TCP has not delivered, `buf` the readable part of `ByteBuffer`. `Read`
takes any number of bytes up to the size of the read buffer; then `try_decode` runs
until it returns false: `Deliver`, `NeedMore`, `Slide` (wrong magic) and `SkipMagic` (the
length is above the limit) are its four returns. Server, reactor and command line
client share this code. The header is scaled to two bytes of magic and one each of
type and length, and 2 MB to four bytes. What the scaling keeps: the header can be
cut anywhere, a body can contain the magic and a whole packet, and the length field
can say more than the limit. `sent` is the history of what the receiver has to hand over,
`excess` and `garbage` count what it has not: packets above the limit and stray bytes.

`InOrder` is refinement of `PacketOrder`: with garbage and with packets that are too long
between the packets, the handlers see what was sent, once and in order. On a clean
stream everything is handled (`EventuallyHandled`).

### MessageStorage

An entry of `file` is what was written of one message: the sequence of its fields. A
content is the sequence of what stands between its `|`, so that the writer's concatenation
and the reader's "first five fields" are the real ones. Words that `stoul` rejects are
negative numbers, and `Broken` is two of them with a line break between: `getline` ends the
line there, and the next one begins with a word where a number is looked for. Neither the
writer nor the server escapes either. The repository's clients send no raw line break (the
command line client reads lines, the Qt client's QJsonDocument escapes it); a `|` they send.

An operation begins with `Loaded(shut)`, nothing if the file is `shut` to reading, and ends
with `SaveAll`: all lines are written; or the file cannot be opened and stays as it is
(message_storage.cpp:153), or the writing stops after some line and nobody looks (157-165).
The counter is changed all the same. Where a line cannot be read the load throws, nothing
catches it and the process ends, as does the constructor of the next one: such a file is a
dead end until it cannot be opened. `Ended` is that, a kill between two operations, and a kill
in `save_all_messages`. `Started` is the constructor, which empties a file that it cannot open.
`fault` remembers whether the last operation met any of this. The loops that pick messages are
`Those` of `Selection`: `SelectSeq` without its recursion, which no prover here can look
through.

`InboxSpec`: the file is an `Inbox`. Without a fault each message is returned once, unchanged
and in order, unless it was marked or cleared. `Inbox!Fault` is what a fault may do, and no
more: what is returned although the change is not written is returned again; what should wait
now is cut after some message, or, when the file was taken for an empty one, is gone but for
what was to be saved. `TotalCounts`: a step without a fault leaves the counter, which is
kept beside the file, right if it was right, and a start puts it right.

### GroupChat

`created` and `members` are `groups_` with its ids, `peer`, `alive`, `up` and `down` the
connections (who is at the other end, whether that end is open, and what is on its
way), `userId` and `groupModel` two fields of each Qt client: logged in, and the list of
groups in its window. Queue and socket are one FIFO here, and a step of the server is a
whole request, as `ImServer` shows the loop around it.

`Login`, `CreateGroup`, `JoinGroup`, `LeaveGroup`, `ListGroups` and `ChatGroup` are the
handlers with their push to the routes of the members; `Refuse` is their error returns;
`Close` and `Restart` are the server's. `Connect`, `Disconnect`, `Ask`, `LoggedIn`, `Joined`,
`Created`, `GroupsListReceived`, `GroupMessageReceived`, `Notified` are the slots of the
client. A client whose connection ended may connect again before the server has noticed:
then the server has two connections of that user and still reads the requests of the
older one. `late` remembers the users to whom this happened; for them, and only for
them, a group can be missing from the window (`GroupsShown`). The list may show groups
that the user has left: nothing in the client reacts to the answer to LEAVE_GROUP.

### Reactor

One thread: `Poll` takes the events of all descriptors into `batch`; `Skip`, `Failed` and
`Handle` are what `EventLoop::run` does with one of them; `Accept`, `ReadPacket`, `ReadNone`,
`ReadEnd` are the system calls of the two `handle_read`, `WriteSome`, `WriteFull`,
`WriteFails`, `WriteDone` those of `handle_write`; `Broadcast` is one `send` of the message
callback of test_multi, which includes the `handle_write` that `send` starts when the queue
was empty. Peers connect, send, read and close between any two of these steps, and the
events of a batch are used after their connection has been closed.

A packet is `Size` units and a socket takes `Cap` that its peer has not read, so every
write can be partial. `sock` is what the kernel says at the server's end: open, end of
file, a reset that is reported once, and broken. Details that the model keeps because
the properties would be different without them:

* `Server::set_close_callback` stores a callback that nothing calls. `clients` therefore
  keeps every connection that ever was, with its descriptor open, and CHAT goes to those
  too: `send` fills the queue of a closed connection and starts `handle_write`.
* Such a write on a connection that the peer has reset raises SIGPIPE (`WriteKills`);
  SO_NOSIGPIPE is set on macOS only (conn.cpp:17).
* `handle_read` goes on when a `send` of the broadcast has closed its own connection.
* A peer that never stops sending keeps the loop of `handle_read`; `MaxSay` bounds what
  is sent, so `EventuallyHeard` speaks of peers that pause.

`RoomSpec` maps the program to `ChatRoom`: joined at `accept`, spoken when the callback runs,
heard when the last unit of a packet was read.

### ChatWindow

The window's variables have the names of main_window.hpp without the trailing
underscore where they are short: `chat` is the key of the chat that is shown, `shown`
`current_chat_model_`, `histories` `chat_histories_`, `pending` the request that waits for the
socket, `beating` the heartbeat timer, `me` and `stale` are `user_id_` and `recv_buffer_` of the
network object. `link` is the socket. The server is external: a session, one FIFO each
way, the groups of the running process.

The slots are the actions: `LoginClicked`, `RegisterClicked`, `SwitchPage`, `SendClicked`,
`CreateGroupClicked`, `SelectUser`, `SelectGroup`; `Connected`, `ConnectFails`,
`Disconnected`; `LoginSuccess`, `RegisterSuccess`, `Refused`, `Notify`, `GroupsListReceived`,
`GroupCreated`, `MessageReceived`. `Swallowed` is `on_ready_read` when the buffer begins with
a piece of a former connection: what arrives is taken for its rest, until the piece is
complete and the buffer is thrown away because no magic follows.

What the model showed of the client, and what the properties therefore say:

* an answer can be swallowed by a piece of a former connection; `ClickAnswered` and
  `LoginReflected` name this (`spliced`) as the only exception;
* a group message written here is filed twice, once by `on_send_clicked` and once when the
  server sends it back (`FiledOnce`: never more than that);
* group ids start again with the server, so `on_group_created` can replace the history of a
  group of a former process while the window still shows it (`NothingVanishes`,
  `ShownIsHistory`);
* histories and contacts survive logouts: the next account at the same window sees them,
  and its own id among the contacts;
* a message from a user who is not one of the three contacts is filed but can never be
  selected.

A click while the socket still connects is left out: what becomes of the old attempt
is up to Qt.

## 3. Runs

| Run | Instance | Shows |
|---|---|---|
| `server_queues` | 2 descriptors, 2 users, 2 messages, queues up to 2, time-outs, restarts | `OneCopy`, `QueueOrder`, `StoredNewest` |
| `server_sessions` | 3 descriptors, 2 users, 1 message, time-outs | `TablesAgree`, `RouteSound`, `ReachableDrained`, `OnlyToAddressee`, `NoSilentDrop` |
| `server_refines` | 2 descriptors, 1 message, 2 packets per read, CHAT, time-outs, restarts | `LossExplained`; the server implements the manager's `OnceSpec` and `Mailbox` |
| `presence` | 2 descriptors, a Qt and a command line user, 30 : 30 : 60 : 300 s as 1 : 1 : 2 : 10 ticks | `SilentGone`, `SoleUsersRouted`, `BeatersStay` |
| `users` | 3 names, one of them two words, 1 test user, 3 ids, 3 confirmed accounts, 1 kept message | `AccountsKept`, `MailToMeant` |
| `decoder` | 3 packets of 5 kinds, 2 bytes of garbage, pieces of 1 to 9 bytes | `InOrder`, `EventuallyHandled` |
| `storage` | 2 users, 1 text, 3 messages in the file, failed opens and writes, kills | `TotalCounts`, `InboxSpec` |
| `group_chat` | 2 users, 2 descriptors, 3 connections, 1 group, 2 group messages, 2 packets in flight at a request | `MembersOnly`, `SameOrder`, `GroupsShown` |
| `reactor` | 2 connections, packets of 2 units, sockets of 1, 2 packets sent | `StreamIntact`, `InterestFollowsQueue`, `RoomSpec`, `EventuallyHeard` |
| `window` | 2 accounts, 3 contacts, 1 group per process, 2 processes, 2 messages, 2 clicks that connect | `LoginReflected`, `ShownIsHistory`, `FiledOnce`, `NothingVanishes`, `ClickAnswered` |

Each module's type invariant is checked with one of its runs. Two more runs,
`half_open` and `storage_pipe`, end in a counterexample, section 5.

Why these bounds.

*Messages*: order and "one copy" speak of pairs, so two messages are needed and enough
for a pair to meet in the file, in one queue, in two queues, or on both sides of a
restart; the theorems carry this to any number. *Descriptors*: two allow a sender and an
addressee and the reuse of a descriptor by somebody else; the third gives a user a
second connection besides the sender's. *Queues*: a queue may be up to `MaxQueue` long
before a packet is handled, so a drain and a notification may still meet in it. *Burst*:
two packets per read let a LOGIN and a CHAT_TO of one client be handled without a write
in between.

*Presence*: ten ticks until a connection expires are the true ratio, not a scaled one;
two descriptors give one user a dead and a new connection, or two users one each. The
theorems carry it to any number and any clocks with `Beat <= UserTimeout` and
`Beat < ConnTimeout`. *Accounts*: three ids are one test user, one that is registered and
lost, and one that gets the id or the name of the lost one; the name of two words begins
with the test user's name, the case in which a line takes over another account.

*Storage*: three messages are two of one user around one of the other, for selections that
leave out the first, the last or the middle one; they are told apart by sender and addressee,
and the theorems have any texts.

*Group chat*: three connections give one client a second one, beside its former one or on
a reused descriptor; one group is enough as no handler looks at two; two packets in
flight let the two clients' requests, or a request and the answer to an earlier one,
cross (answers that follow are not bounded). *Reactor*: two packets to two connections
fill a queue while the first packet is half written, and let a broadcast meet a
connection that is full, reset or already closed. *Window*: two connections are a former
and a present one, also of two accounts and of two processes of the server; two messages
are one in the shown chat and one in another, or the same text twice.

Deadlock is checked in all runs of the server loop, the storage, the groups and
`presence`: they never stop. `CHECK_DEADLOCK FALSE` stands where the bounded environment
runs dry or the process may really end: `decoder` (everything sent and handled),
`users` (no id left and nobody to write to), `reactor` (all peers have said what they may,
or SIGPIPE), `window` (no click and no message left), `storage_pipe` (the file cannot be
loaded any more). Users are model values and permuted (symmetry) where no definition
orders them; no run with a liveness property uses symmetry. Descriptors are ordered and
not permuted.

Fairness, where a liveness property is checked:

* `StreamDecoder`: `WF_vars(Receive)`. `select` reports a descriptor as long as bytes can be
  read, each iteration reads every reported descriptor once and the inner loop runs to
  its end (server_im.cpp:153-166). Nothing is assumed of the sender.
* `Reactor`: `WF_vars(Loop)`, the thread goes on while there is something to do, and
  `WF_vars(PeerReads(c))`, a peer that is there reads. Without the second a full socket
  would stay full, and rightly so. Nobody has to send, connect or close.
* `ChatWindow`: an attempt to connect ends one way or the other; the server answers what
  it has read; Qt's event loop runs `on_ready_read` while data is there and `disconnected`
  when the server has closed. The user has to do nothing.

## 4. Theorems

All for arbitrary sets of descriptors, users and connections and arbitrary bounds.
Assumptions on constants: descriptors are positive (`FdsBound`, `FdsAssumption`,
`ConnsAssumption`), 0 is no user (`UsersBound`, `UsersAssumption`; ids start at 1,
user_manager.hpp), the switches are Boolean, bounds and sizes natural numbers, bytes are
0..255 and a length fits into its field, a content has at least one part, and for the
clocks `ClockAssumption`: a client beats at least as often as a silent user is taken out
and more often than a silent connection is closed (30 s, 60 s, 300 s).

*ConnectionManager* (in `PresenceProofs`). `MapsAreTyped` under `AnySpec`; `RoutesAreSound`
under `OnceSpec`, with `RouteSound` strengthened by "what is not tracked has no user";
`MapsAreInverse` under `SoleSpec`.

*ImServer.* The invariants that TLC checks are not inductive one by one. A message that
is drained is appended behind what is queued already; that the order stays right
depends on the stored ones being newer than the queued ones, which in turn depends on
nothing being stored for a user with a route and on the route being where the loop
believes it is. So one invariant carries them together:

    Inv == TypeOK /\ Swept /\ TablesAgree /\ ReachableDrained
                  /\ Known /\ OneCopy /\ QueueOrder /\ NewestAt

`Swept` says what `toClose`, `writable`, `todo` and `burst` may be in each phase; `Known`
that queues hold accepted messages only; `NewestAt` is `StoredNewest` by positions.
What a step does to a message is one of six things: nothing is pushed but plain
packets, one is stored, one is routed, a file is drained, the front is written,
messages are lost. `StepKinds` sorts the actions into these, and each part of the
invariant is proved once per kind instead of once per action (`QuietStep`, `StoreStep`,
`RouteStep`, `DrainStep`, `WriteStep`). The theorems `TypeCorrect`, `ConnectionTablesAgree`,
`RoutedUsersHaveNothingStored`, `AtMostOneCopy`, `QueuesAreInOrder` and `FileIsNewest` are its
parts; they hold for every setting of the switches, also when clients log in twice.

Under `ASSUME ~ReLogin`: `ServerUsesManagerWell` (the server implements `CM!OnceSpec`: a
step refinement, one lemma for all actions), hence `RoutesLeadToTheUser`, and
`QueuedForTheAddressee`, an action property from both invariants.

*Delivery* (in `ImServerProofs`). `LossesAreExplained`: a message is lost only with the connection whose queue
held it or inside `save_all_messages`; `MailboxImplemented`: `ImServer` implements `Mailbox`,
for every setting of the switches. Both come from `StepKinds` again: for each kind of step
a lemma says what it does to the state of one message (`PlainBox`, `StoreBox`, `RouteBox`,
`DrainBox`, `WriteBox`, `LoseBox`), and `OneCopy` makes that state unique. Under
`~ReLogin`, `NothingDroppedSilently`: an accepted message is in the file or in a queue,
but for one to oneself.

*Presence.* One invariant, `PresenceTypeOK /\ Routed /\ SoleUsersRouted /\ Ages /\ BeatAges`.
`Ages` relates the two tables of ages to the age of the last clean-up (a connection is
at most `ConnTimeout - 1 + sinceClean` old), which gives `TheSilentGo`; `BeatAges` relates
them to the age of the last heartbeat, which with `ClockAssumption` gives `TheBeatingStay`.
`SoleUsersAreRouted` needs `Routed`: routes lead to connections of their user.

*GroupChat.* `TypeCorrect`, `OnlyMembersHear`, `OneOrder` and `ListsComplete`. A message goes where the members' routes
lead, so the invariant has to follow a route to the client at its end:
`Peers /\ Grps /\ Packets /\ Windows /\ Heard`. `Peers` says that the server takes a connection
for the user whose client it is (with `CM!RouteSound`), `Packets` that nothing is on its way
to a closed end, `Heard` that what is on its way and what was handled was meant for
that client's user. `OneOrder` needs `Ordered` on top of it: message numbers rise along
what a client has seen, along what is on its way to it, and from the one to the other
(`RisingGot`, `RisingDown`, `RisingOn`), which survives a reconnect because a client has one
open connection (`Single`). Two clients cannot then disagree about an order, and none
sees a number twice.

`ListsComplete` says `GroupsShown` of the moment when nothing is on its way; `Listings` says of
every other moment why it will come true. A group of which the user is a member is going
to be asked for and sent again (`Refreshes`), or the list or a packet on its way names it
and no later list leaves it out (`Keeps`). For a group to be shown once only, a new group
is announced with a number above those in every list sent before it (`Announced`); numbers
begin again with the server, so a list of a former process may be ahead of them, but only
while the list of this one is on its way or has been asked for before any CREATE_GROUP
(`Current`, `Ahead`). As in the property, a user whose groups were changed by a request of a
closed connection, handled late, is exempt until he has the list again (`late`).

*UserManager.* `TypeCorrect`, `AccountsWork` and `MailReachesTheMeant`. A start knows
nothing but the file, so the invariant says the same of the lines of the file and of the
lines of the tables: `Sound` (ids without a gap, the test users first, a name twice only if
the file has blurred it). `CutIsSound`: what a killed process leaves is sound;
`LoadedTables`: what `load_from_file` makes of sound lines is; `RegisteredTables`: a new
account keeps it so. `StartedTables` puts them together for `main`, by induction over the
test users (`UpTo`, from `Least`: every set of numbers has a least one; `MaxOf` is the largest
id of the file). On top of that an account, confirmed or meant by a message, keeps id, name
and password, or is gone (`Stays`), and who keeps them can log in (`WorksIf`). Assumed:
the first word of a first word is itself, no name is empty (user_manager.cpp:55), and the
test users have different names of one word (server_im.cpp:62-64).

*Reactor.* `TypeCorrect`, `InterestIsRight`, `StreamsAreWhole` and `RoomImplemented`.
`InterestFollowsQueue` says nothing about the
connection inside `handle_write`, so it is not inductive: `Asked` (something queued on an
open connection implies EPOLLOUT, always) and `Needed` (the other direction, but for the
one that is being written) are, with `Known` (handlers run only for what was accepted) and
`Fresh` (what was never accepted has no queue). The streams are proved connection by
connection: `StreamKinds` says that a step pushes a packet, writes some units, lets the
peer take one, or leaves the stream alone, and `Intact` (`Backed`: the queue is the end of
what was pushed; `Passed`: unit k of what was handed to the socket is unit k of the
packets) survives each of the four. Positions are quotients and remainders by `Size`
(`Places`, `PlaceOf`, `Within`); `PartsAreWhole` puts the concatenation of `StreamIntact`
together from them. For the room, `Speech` numbers what was pushed: since the accept
without a gap, one behind for those a broadcast has still to reach. `RoomKinds` sorts the
steps, and `HeardMore` says when one unit more is one packet more.

*ChatWindow.* `WindowFollowsServer` and `ScreenFollowsHistory`, from
`Streams /\ Session /\ Pages /\ Chats` (`Invariance`). `LoginReflected` speaks of the moment when
all answers are handled; `Session` carries it there: the request that opens a session is
alone on its way, so is its answer, and while the server has a session that the window
has not, that answer is the next packet, or was swallowed. `Pages` ties page and timer to
the user id, `Chats` the chat on the screen to its history. The assumptions are
`IdsAssumption` (accounts, contacts and peers have ids below those of groups) and
`BoundAssumption`.

`TypeCorrect` needs to know that there are never more than `MaxGroups` groups: `Quota` counts
a group from the click on, as a CREATE_GROUP on its way or as an entry of `owners`.
`GroupsKnown` then bounds the ids in the answers and in the window's list, `Controls` says
what page, timer and pending request may be, `Logged` that what is shown is in the log.

`MessagesFiledOnce` and `ReceivedStays` follow messages from the log into the histories;
`MessageKinds` sorts the steps by what they do to one (write it, hear it, return it,
receive it, found or renew a group, or leave it alone). `FiledOnce` is not inductive by
itself: a second copy on its way would be filed later. `Filing` adds that a message has
one copy that may still be filed as received: on its way up, on its way down, or in a
history. `ReceivedStays` needs `Lives`: what the present process sent to a group is for a
group that it has, and what was sent to the number of a group by a former process comes
before the news that the number was given away again.

*StreamDecoder.* `TypeCorrect`, `CleanStreamInOrder` and `MarkedStreamInOrder`. The invariant,
`Framing`, says of `buf \o wire` where the packets that are still to be handed over stand in
it: one behind the other, with nothing between them but what will be dropped (`Framed`, with
a function from packets to positions), and that what was handled are those before them
(`Handed`). A packet that arrives in pieces does not move, as reading
takes a prefix of `wire` to the end of `buf`; `Slide` and `SkipMagic` drop bytes in front of the
first, `Deliver` takes exactly the first. On a clean stream there is nothing in front, and
no assumption on bodies is needed: the decoder never looks for a magic inside a packet.
With garbage or a packet above the limit it does look, and finds the next packet only if
what it drops cannot be taken for one. `Marked` is the condition: the first byte of the magic
is no other byte of the magic, of the garbage, or of a packet above the limit. The run's
constants satisfy it, and the real magic, "IM01" (im_protocol.hpp:9), has four different
bytes. Without it `InOrder` is false, and the code makes no promise either.

*MessageStorage.* All four theorems have the faults in them: a file that cannot be opened,
writes that stop, ends of the process anywhere. `TotalIsRight` (`TotalCounts`) holds for all
contents as long as what is written can be read back: what is written of a message has five
fields at least (`Written`), and an operation writes as many messages as it counts. The others
assume `Plain`, that no content contains a separator or a line break: `TypeCorrect`,
`PlainFieldsReadBack` (what stands in the file can always be read) and `InboxImplemented`.
`storage_pipe` shows that the half about the separator is needed. `Tidy` says that what is in the
file was written of messages (`LineReadBack`: it is read back as it was written), `StepKinds`
what a step does to the messages, with a fault and without, `Pend` which of them wait. What a
step does to `Pend` (`PendAdded`, `PendMarked`,
`PendCleared`, `PendCut`) are statements about selections, and these rest on four facts, proved
with bijections between finite sets instead of induction: what stands at a position of a
selection (`SelectedIs`), when a sequence is one (`IsSelected`), a selection of a selection
(`SelectedTwice`) and of a first part (`SelectedCut`).

Only model-checked: what is temporal under fairness (`EventuallyHandled`,
`EventuallyHeard`, `ClickAnswered`), which is out of the prover's reach. The two findings of
section 5 are counterexamples of TLC.

## 5. Where the code does something else than the repository says

1. `half_open`: `remove_connection` and `deauthenticate_connection` erase the route of the
   connection's user even if it leads to another connection (connection_manager.cpp:23,
   42). A Qt client that lost its network and logged in again on a new connection has no
   route any more once the server closes the old one: it is logged in, and its messages
   are stored as for somebody offline until the next LOGIN.
2. `storage_pipe`: a `|` in a stored text makes the file unreadable, for the running
   server and for every start after it. (A raw line break would, too; no client of the
   repository sends one.)

Met on the way, visible in the models, and not a disagreement with anything written:

* A second LOGIN on one connection, as another user, leaves the route of the first
  (connection_manager.cpp:32). A message for the first user goes to the second, and after
  a close to whoever gets the descriptor. No client of the repository does it;
  `RouteSound`, `OnlyToAddressee` and `NoSilentDrop` fail with `ReLogin = TRUE`.
* The error answer to CHAT, CHAT_TO or CHAT_GROUP is sent to the targets, not only to the
  one who asked (message_handler.cpp:221-274, server_im.cpp:170-208): the error of CHAT from a connection that is
  not logged in goes to everybody else and the sender hears nothing.
* After a wrong byte `try_decode` drops it and returns false, which ends the loop of the
  caller (im_protocol.cpp:71): a complete packet behind n wrong bytes waits for n more
  reads that return data.
* A private message to oneself is dropped without an answer (`NoSilentDrop` names it as
  the one exception).
* What is queued on a connection that ends is lost although it could have been stored
  (`LossExplained` names it).
* REGISTER answers "ok" although the account could not be saved (message_handler.cpp:605);
  after a restart it is gone (`AccountsKept`).
* The command line client's `send <user_id> <message>` looks for the blank twice and drops
  the first word of the text (im_client.cpp:202-212). Its receive thread ignores the end of
  the stream, and when the input ends it is joined without being told to stop.

## 6. Not modelled

* *Command line client.* What it sends is part of the environment of `ImServer` and
  `Presence`, how it decodes is `StreamDecoder`. Its second thread only prints; its state is
  a descriptor and a flag.
* *Logger*: output behind one mutex, read by nothing. *Small servers and scraps*
  (server_simple, server_min, protatic, event_loop_epoll.hpp): demonstrators and
  leftovers without shared code.
* *Widgets and layout* of the Qt client, timestamps, the list of group members
  (GROUP_MEMBERS reads only).
* *Operations that nothing calls*: `delete_group`, `clear_all`, `Server::stop`,
  `EventLoop::stop`, `Conn::close_internal`, `get_last_activity`.
* *Malformed bodies*: `stoul` throws and nothing catches it; for the rest of the system this
  is `Crash`.
* *A messages.db whose last line is torn*: it takes a file larger than the stream's 8 KB
  buffer and leaves fields uninitialised. *A line break followed by digits in a text*: it
  becomes two messages with fields that nothing initialised. `MessageStorage` cuts files
  between messages, and behind its line breaks stands a word.
* *Partial writes of server_im*, see section 2.
* *The statistics of test_multi*: the main thread reads `clients.size()` once a second while
  the loop's thread changes the map; the value is only printed.
* Password hashing, addresses and options of sockets.
