--------------------------- MODULE ChatWindowProofs ---------------------------
(***************************************************************************)
(* What the window shows, for any number of accounts, connections, groups  *)
(* and messages: that it is logged in when the server says so, that the    *)
(* chat on the screen agrees with its history, that every message is filed *)
(* once, and that nothing goes that the present server sent.               *)
(*                                                                         *)
(* A session begins with one request on a fresh connection and the answer  *)
(* to it.  Session says that both are alone on their way, so that nothing  *)
(* can come between LOGIN, its answer and what the window makes of it.     *)
(* Types come last: what bounds the groups is how a group is asked for.    *)
(***************************************************************************)
EXTENDS ChatWindow, FiniteSetTheorems, SequenceTheorems, TLAPS

Requests ==
    [op : {"login", "register"}, user : Accounts] \cup [op : {"list", "create"}]
      \cup [op : {"chat"}, key : ChatKeys, id : Nat]
Replies ==
    [op : {"login"}, user : Accounts] \cup [op : {"refused", "registered", "notify"}]
      \cup [op : {"groups"}, groups : SUBSET Nat]
      \cup [op : {"created"}, group : Nat, life : Nat]
      \cup [op : {"chat"}, key : ChatKeys, id : Nat]
Messages == [id : Nat, mine : BOOLEAN]

\* What is on its way; nothing is while there is no connection.
Streams ==
    /\ up \in Seq(Requests) /\ down \in Seq(Replies)
    /\ link \in {"off", "connecting", "on"}
    /\ link # "on" => up = <<>> /\ down = <<>>
    /\ owners \in Seq(Int) /\ life \in Nat
    /\ log \in Seq([key : ChatKeys, mine : BOOLEAN, life : Nat])
    /\ link = "connecting" => pending \in [what : {"login", "register"}, user : Accounts]

Entering(r) == r.op \in {"login", "register"}
Entered(p)  == p.op \in {"login", "registered"}

\* From the click to the main page.
Session ==
    /\ me \in Accounts \cup {NoUser} /\ session \in Accounts \cup {NoUser, Closed}
    /\ link # "on" => session = NoUser
    /\ me # NoUser => link = "on" /\ session \in {me, Closed}
    /\ link = "on" /\ stale => spliced
    /\ \A i \in DOMAIN up : Entering(up[i]) =>
         Len(up) = 1 /\ down = <<>> /\ session = NoUser /\ me = NoUser
    /\ \A i \in DOMAIN down : Entered(down[i]) =>
         /\ i = 1 /\ me = NoUser
         /\ down[i].op = "login" => session \in {down[i].user, Closed}
    /\ session \in Accounts /\ ~spliced =>
         me = session \/ (down # <<>> /\ Head(down).op = "login")

Pages == (page = "main" <=> me # NoUser) /\ (beating <=> me # NoUser)

\* The chat on the screen and the histories.
Chats ==
    /\ chat \in ChatKeys /\ shown \in Seq(Messages)
    /\ histories \in [ChatKeys -> Seq(Messages)]
    /\ IsSuffix(histories[chat], shown)
    /\ ~renewed => shown = histories[chat]

Inv == Streams /\ Session /\ Pages /\ Chats

LEMMA NoAccount == NoUser \notin Accounts /\ Closed \notin Accounts /\ NoUser # Closed
  BY IdsAssumption DEF NoUser, Closed

-----------------------------------------------------------------------------
(* Sequences.                                                              *)

LEMMA Appended ==
  ASSUME NEW S, NEW s \in Seq(S), NEW e \in S
  PROVE  /\ Append(s, e) \in Seq(S) /\ Append(s, e) # <<>>
         /\ Len(Append(s, e)) = Len(s) + 1 /\ Len(s) \in Nat
         /\ \A i \in DOMAIN Append(s, e) :
              \/ i \in DOMAIN s /\ Append(s, e)[i] = s[i]
              \/ i = Len(s) + 1 /\ Append(s, e)[i] = e
         /\ s # <<>> => Head(Append(s, e)) = Head(s)
         /\ s = <<>> => Head(Append(s, e)) = e
  <1>1. /\ Append(s, e) \in Seq(S)
        /\ Len(Append(s, e)) = Len(s) + 1
        /\ \A i \in 1..Len(s) : Append(s, e)[i] = s[i]
        /\ Append(s, e)[Len(s) + 1] = e
    BY AppendProperties
  <1>2. /\ Len(s) \in Nat /\ DOMAIN s = 1..Len(s)
        /\ DOMAIN Append(s, e) = 1..(Len(s) + 1)
    BY <1>1, LenProperties
  <1>3. Append(s, e) # <<>>
    BY <1>1, <1>2, EmptySeq
  <1>4. Head(Append(s, e)) = Append(s, e)[1] /\ (s # <<>> => Head(s) = s[1])
    BY <1>1, <1>3, HeadTailProperties
  <1>5. s # <<>> => 1 \in 1..Len(s)
    BY <1>2, EmptySeq
  <1>6. s = <<>> => Len(s) + 1 = 1
    BY EmptySeq
  <1>7. \A i \in 1..(Len(s) + 1) : i \in 1..Len(s) \/ i = Len(s) + 1
    BY <1>2
  <1> QED
    BY <1>1, <1>2, <1>3, <1>4, <1>5, <1>6, <1>7

LEMMA Taken ==
  ASSUME NEW S, NEW s \in Seq(S), s # <<>>
  PROVE  /\ Tail(s) \in Seq(S) /\ Head(s) \in S
         /\ 1 \in DOMAIN s /\ Head(s) = s[1]
         /\ Len(Tail(s)) = Len(s) - 1 /\ Len(s) \in Nat
         /\ \A i \in DOMAIN Tail(s) : i + 1 \in DOMAIN s /\ i + 1 # 1 /\ Tail(s)[i] = s[i + 1]
  <1>1. /\ Head(s) \in S /\ Tail(s) \in Seq(S)
        /\ Len(Tail(s)) = Len(s) - 1
        /\ \A i \in 1..Len(Tail(s)) : Tail(s)[i] = s[i + 1]
    BY HeadTailProperties
  <1>2. /\ Len(s) \in Nat \ {0} /\ DOMAIN s = 1..Len(s)
        /\ DOMAIN Tail(s) = 1..Len(Tail(s))
    BY <1>1, EmptySeq, LenProperties
  <1>3. \A i \in 1..Len(Tail(s)) : i + 1 \in 1..Len(s) /\ i + 1 # 1
    BY <1>1, <1>2
  <1>4. 1 \in DOMAIN s /\ Head(s) = s[1]
    BY <1>2
  <1> QED
    BY <1>1, <1>2, <1>3, <1>4

LEMMA None == /\ \A S : <<>> \in Seq(S)
              /\ DOMAIN <<>> = {} /\ Len(<<>>) = 0
  BY EmptySeq

\* The suffixes of s, position by position.
LEMMA SuffixAt ==
  ASSUME NEW S, NEW s \in Seq(S), NEW t \in Seq(S)
  PROVE  IsSuffix(s, t) <=>
           /\ Len(s) <= Len(t)
           /\ \A i \in 1..Len(s) : s[(Len(s) - i) + 1] = t[(Len(t) - i) + 1]
  <1> DEFINE r == Reverse(s)
             q == Reverse(t)
  <1>1. Len(s) \in Nat /\ Len(t) \in Nat
    BY LenProperties
  <1>2. /\ r = [i \in 1..Len(s) |-> s[(Len(s) - i) + 1]]
        /\ q = [i \in 1..Len(t) |-> t[(Len(t) - i) + 1]]
    BY DEF Reverse
  <1>3. /\ \A i \in 1..Len(s) : (Len(s) - i) + 1 \in 1..Len(s)
        /\ \A i \in 1..Len(t) : (Len(t) - i) + 1 \in 1..Len(t)
    BY <1>1
  <1>4. r \in Seq(S) /\ q \in Seq(S) /\ Len(r) = Len(s) /\ Len(q) = Len(t)
    <2>1. /\ \A i \in 1..Len(s) : s[i] \in S
          /\ \A i \in 1..Len(t) : t[i] \in S
      BY ElementOfSeq
    <2>2. r \in [1..Len(s) -> S] /\ q \in [1..Len(t) -> S]
      BY <1>2, <1>3, <2>1
    <2> HIDE DEF r, q
    <2>3. \A n \in Nat : \A f \in [1..n -> S] : f \in Seq(S)
      BY SeqDef
    <2>4. r \in Seq(S) /\ q \in Seq(S)
      BY <2>2, <1>1, <2>3
    <2> QED
      BY <2>2, <2>4, <1>1, LenProperties
  <1>5. CASE Len(s) <= Len(t)
    <2>1. /\ SubSeq(r, 1, Len(s)) = [i \in 1..Len(s) |-> r[i]]
          /\ SubSeq(q, 1, Len(s)) = [i \in 1..Len(s) |-> q[i]]
      <3> HIDE DEF r, q
      <3>1. SubSeq(r, 1, Len(s)) = [i \in 1..Len(s) |-> r[i]]
        BY <1>1, <1>4
      <3>2. SubSeq(q, 1, Len(s)) = [i \in 1..Len(s) |-> q[i]]
        BY <1>1, <1>4
      <3> QED
        BY <3>1, <3>2
    <2>2. IsPrefix(r, q) <=> \A i \in 1..Len(s) : r[i] = q[i]
      <3> HIDE DEF r, q
      <3> QED
        BY <1>4, <1>5, <2>1 DEF IsPrefix
    <2>3. \A i \in 1..Len(s) : i \in 1..Len(t)
      BY <1>1, <1>5
    <2> QED
      BY <1>2, <1>5, <2>2, <2>3 DEF IsSuffix
  <1>6. CASE ~(Len(s) <= Len(t))
    <2> HIDE DEF r, q
    <2>1. ~IsPrefix(r, q)
      BY <1>4, <1>6 DEF IsPrefix
    <2> QED
      BY <1>6, <2>1 DEF IsSuffix, r, q
  <1> QED
    BY <1>5, <1>6

LEMMA SuffixSelf ==
  ASSUME NEW S, NEW s \in Seq(S)
  PROVE  IsSuffix(s, s) /\ IsSuffix(<<>>, s)
  <1>1. Len(s) \in Nat
    BY LenProperties
  <1>2. IsSuffix(s, s)
    BY <1>1, SuffixAt
  <1>3. <<>> \in Seq(S) /\ Len(<<>>) = 0
    BY None
  <1>4. IsSuffix(<<>>, s)
    <2> DEFINE z == <<>>
    <2>1. z \in Seq(S) /\ Len(z) = 0
      BY <1>3
    <2> HIDE DEF z
    <2>2. /\ Len(z) <= Len(s)
          /\ \A i \in 1..Len(z) : z[(Len(z) - i) + 1] = s[(Len(s) - i) + 1]
      BY <2>1, <1>1
    <2>3. IsSuffix(z, s)
      BY <2>1, <2>2, SuffixAt
    <2> QED
      BY <2>3 DEF z
  <1> QED
    BY <1>2, <1>4

\* A suffix stays one when both sequences grow by the same element.
LEMMA SuffixGrows ==
  ASSUME NEW S, NEW s \in Seq(S), NEW t \in Seq(S), NEW e \in S, IsSuffix(s, t)
  PROVE  IsSuffix(Append(s, e), Append(t, e))
  <1>1. /\ Len(s) \in Nat /\ Len(t) \in Nat
        /\ Len(s) <= Len(t)
        /\ \A i \in 1..Len(s) : s[(Len(s) - i) + 1] = t[(Len(t) - i) + 1]
    BY SuffixAt, LenProperties
  <1>2. /\ Append(s, e) \in Seq(S) /\ Append(t, e) \in Seq(S)
        /\ Len(Append(s, e)) = Len(s) + 1 /\ Len(Append(t, e)) = Len(t) + 1
        /\ \A i \in 1..Len(s) : Append(s, e)[i] = s[i]
        /\ \A i \in 1..Len(t) : Append(t, e)[i] = t[i]
        /\ Append(s, e)[Len(s) + 1] = e /\ Append(t, e)[Len(t) + 1] = e
    BY AppendProperties
  <1>3. ASSUME NEW i \in 1..(Len(s) + 1)
        PROVE  Append(s, e)[((Len(s) + 1) - i) + 1] = Append(t, e)[((Len(t) + 1) - i) + 1]
    <2>1. CASE i = 1
      BY <1>1, <1>2, <2>1
    <2>2. CASE i # 1
      <3>1. PICK j \in 1..Len(s) : i = j + 1
        BY <1>1, <2>2
      <3>2. /\ ((Len(s) + 1) - i) + 1 = (Len(s) - j) + 1
            /\ ((Len(t) + 1) - i) + 1 = (Len(t) - j) + 1
            /\ (Len(s) - j) + 1 \in 1..Len(s) /\ (Len(t) - j) + 1 \in 1..Len(t)
        BY <1>1, <3>1
      <3>3. s[(Len(s) - j) + 1] = t[(Len(t) - j) + 1]
        BY <1>1
      <3>4. /\ Append(s, e)[(Len(s) - j) + 1] = s[(Len(s) - j) + 1]
            /\ Append(t, e)[(Len(t) - j) + 1] = t[(Len(t) - j) + 1]
        BY <1>2, <3>2
      <3> QED
        BY <3>2, <3>3, <3>4
    <2> QED
      BY <2>1, <2>2
  <1>4. /\ Len(Append(s, e)) <= Len(Append(t, e))
        /\ \A i \in 1..Len(Append(s, e)) :
             Append(s, e)[(Len(Append(s, e)) - i) + 1]
               = Append(t, e)[(Len(Append(t, e)) - i) + 1]
    BY <1>1, <1>2, <1>3
  <1> DEFINE a == Append(s, e)
             b == Append(t, e)
  <1>5. a \in Seq(S) /\ b \in Seq(S)
    BY <1>2
  <1> HIDE DEF a, b
  <1>6. IsSuffix(a, b)
    BY <1>4, <1>5, SuffixAt DEF a, b
  <1> QED
    BY <1>6 DEF a, b

-----------------------------------------------------------------------------
LEMMA InitInv == Init => Inv
  <1> SUFFICES ASSUME Init PROVE Inv
    OBVIOUS
  <1> USE DEF Init
  <1>1. Streams
    BY None DEF Streams
  <1>2. Session
    BY None, NoAccount DEF Session
  <1>3. Pages
    BY DEF Pages
  <1>4. Chats
    <2>1. 0 \in ChatKeys
      BY DEF ChatKeys
    <2>2. histories[chat] = shown /\ shown \in Seq(Messages)
      BY <2>1, None
    <2>3. IsSuffix(shown, shown)
      BY <2>2, SuffixSelf
    <2> QED
      BY <2>1, <2>2, <2>3, None DEF Chats
  <1> QED
    BY <1>1, <1>2, <1>3, <1>4 DEF Inv

LEMMA ReplyFields ==
  ASSUME NEW p \in Replies
  PROVE  /\ p.op = "login" => p.user \in Accounts
         /\ p.op = "chat" => p.key \in ChatKeys /\ p.id \in Nat
  BY DEF Replies

LEMMA RequestFields ==
  ASSUME NEW r \in Requests
  PROVE  /\ Entering(r) => r.user \in Accounts
         /\ r.op = "chat" => r.key \in ChatKeys /\ r.id \in Nat
  BY DEF Requests, Entering

-----------------------------------------------------------------------------
(* What is on its way.                                                     *)

\* A packet is handled; what is sent for it goes to the end of up.
LEMMA StreamsRead ==
  ASSUME Streams, link = "on", down # <<>>, down' = Tail(down),
         UNCHANGED <<link, owners, life, log>>,
         up' = up \/ (\E r \in Requests : up' = Append(up, r))
  PROVE  Streams'
  <1>1. down' \in Seq(Replies)
    BY Taken DEF Streams
  <1>2. up' \in Seq(Requests)
    <2>1. up \in Seq(Requests)
      BY DEF Streams
    <2>2. \A r \in Requests : Append(up, r) \in Seq(Requests)
      BY <2>1, AppendProperties
    <2> QED
      BY <2>1, <2>2
  <1> QED
    BY <1>1, <1>2 DEF Streams

\* The server takes a request and answers, or does not.
LEMMA StreamsServed ==
  ASSUME Streams, up # <<>>, up' = Tail(up), UNCHANGED <<link, life, log>>,
         owners' \in Seq(Int),
         down' = down \/ (\E p \in Replies : down' = Append(down, p))
  PROVE  Streams'
  <1>1. up' \in Seq(Requests)
    BY Taken DEF Streams
  <1>2. down' \in Seq(Replies)
    <2>1. down \in Seq(Replies)
      BY DEF Streams
    <2>2. \A p \in Replies : Append(down, p) \in Seq(Replies)
      BY <2>1, AppendProperties
    <2> QED
      BY <2>1, <2>2
  <1> QED
    BY <1>1, <1>2 DEF Streams

LEMMA StreamsStep == Inv /\ [Next]_vars => Streams'
  <1> SUFFICES ASSUME Inv, [Next]_vars PROVE Streams'
    OBVIOUS
  <1>i. Streams /\ Session /\ Chats
    BY DEF Inv
  <1>u. UNCHANGED <<up, down, link, owners, life, log, pending>> => Streams'
    BY <1>i DEF Streams
  <1>s. session \in Int
    BY <1>i, IdsAssumption DEF Session, NoUser, Closed
  <1>1. ASSUME NEW k, Select(k) \/ SwitchPage PROVE Streams'
    BY <1>1, <1>u DEF Select, SwitchPage, netVars, serverVars, historyVars
  <1>2. ASSUME NEW u \in Accounts, LoginClicked(u) \/ RegisterClicked(u) PROVE Streams'
    <2>1. PICK what \in {"login", "register"} : ConnectToServer(what, u)
      BY <1>2 DEF LoginClicked, RegisterClicked
    <2>2. /\ up' = <<>> /\ down' = <<>> /\ link' = "connecting"
          /\ pending' = [what |-> what, user |-> u]
          /\ UNCHANGED <<owners, life, log>>
      BY <2>1 DEF ConnectToServer
    <2> QED
      BY <2>2, <1>i, None DEF Streams
  <1>3. CASE Connected
    <2>1. /\ link = "connecting" /\ link' = "on"
          /\ up' = <<[op |-> pending.what, user |-> pending.user]>>
          /\ UNCHANGED <<down, owners, life, log>>
      BY <1>3 DEF Connected
    <2>2. [op |-> pending.what, user |-> pending.user] \in Requests
      BY <2>1, <1>i DEF Streams, Requests
    <2>3. up' \in Seq(Requests)
      BY <2>1, <2>2
    <2> QED
      BY <2>1, <2>3, <1>i DEF Streams
  <1>4. CASE ConnectFails
    <2>1. link = "connecting" /\ link' = "off" /\ UNCHANGED <<up, down, owners, life, log>>
      BY <1>4 DEF ConnectFails, serverVars, historyVars
    <2> QED
      BY <2>1, <1>i DEF Streams
  <1>5. CASE Disconnected
    <2>1. link' = "off" /\ up' = <<>> /\ down' = <<>> /\ UNCHANGED <<owners, life, log>>
      BY <1>5 DEF Disconnected, historyVars
    <2> QED
      BY <2>1, <1>i, None DEF Streams
  <1>6. CASE ReadyRead
    <2>1. link = "on" /\ down # <<>> /\ down' = Tail(down)
          /\ UNCHANGED <<link, owners, life, log>>
      BY <1>6 DEF ReadyRead, LoginSuccess, RegisterSuccess, Refused, Notify,
         GroupsListReceived, GroupCreated, MessageReceived, Swallowed, Arrives, historyVars
    <2>2. up' = up \/ up' = Append(up, [op |-> "list"])
      BY <1>6 DEF ReadyRead, LoginSuccess, RegisterSuccess, Refused, Notify,
         GroupsListReceived, GroupCreated, MessageReceived, Swallowed
    <2>3. [op |-> "list"] \in Requests
      BY DEF Requests
    <2> QED
      BY <2>1, <2>2, <2>3, <1>i, StreamsRead
  <1>7. CASE SendClicked
    <2> DEFINE r == [op |-> "chat", key |-> chat, id |-> Len(log) + 1]
               m == [key |-> chat, mine |-> TRUE, life |-> life]
    <2>1. Len(log) \in Nat /\ chat \in ChatKeys /\ life \in Nat
      BY <1>i, LenProperties DEF Streams, Chats
    <2>2. r \in Requests /\ m \in [key : ChatKeys, mine : BOOLEAN, life : Nat]
      BY <2>1 DEF Requests
    <2>3. /\ up' = IF link = "on" THEN Append(up, r) ELSE up
          /\ log' = Append(log, m)
          /\ UNCHANGED <<down, link, owners, life, pending>>
      BY <1>7 DEF SendClicked, SendPacket, netVars
    <2> HIDE DEF r, m
    <2>4. /\ log' \in Seq([key : ChatKeys, mine : BOOLEAN, life : Nat])
          /\ Append(up, r) \in Seq(Requests)
      BY <2>2, <2>3, <1>i, Appended DEF Streams
    <2> QED
      BY <2>3, <2>4, <1>i DEF Streams
  <1>8. CASE CreateGroupClicked
    <2>1. /\ up' = IF link = "on" THEN Append(up, [op |-> "create"]) ELSE up
          /\ UNCHANGED <<down, link, owners, life, log, pending>>
      BY <1>8 DEF CreateGroupClicked, SendPacket, netVars, windowVars, historyVars
    <2>2. [op |-> "create"] \in Requests
      BY DEF Requests
    <2>3. Append(up, [op |-> "create"]) \in Seq(Requests)
      BY <2>2, <1>i, Appended DEF Streams
    <2> QED
      BY <2>1, <2>3, <1>i DEF Streams
  <1>9. CASE Server
    <2>1. /\ up # <<>> /\ up' = Tail(up) /\ UNCHANGED <<link, life, log, pending>>
      BY <1>9 DEF Server, ServeLogin, ServeRegister, ServeList, ServeCreate, ServeChat,
         Serves, windowVars, netVars, historyVars
    <2>2. Head(up) \in Requests
      BY <2>1, <1>i, Taken DEF Streams
    <2>3. Len(owners) \in Nat /\ life \in Nat
      BY <1>i, LenProperties DEF Streams
    <2>4. /\ owners' \in Seq(Int)
          /\ down' = down \/ (\E p \in Replies : down' = Append(down, p))
      <3>1. CASE ServeLogin
        <4>1. Head(up).op = "login" /\ UNCHANGED owners
          BY <3>1 DEF ServeLogin, Serves
        <4>2. /\ [op |-> "login", user |-> Head(up).user] \in Replies
              /\ [op |-> "refused"] \in Replies
          BY <4>1, <2>2, RequestFields DEF Entering, Replies
        <4> QED
          BY <3>1, <4>1, <4>2, <1>i DEF ServeLogin, Answers, Streams
      <3>2. CASE ServeRegister
        BY <3>2, <1>i DEF ServeRegister, Answers, Replies, Streams
      <3>3. CASE ServeList
        <4>1. Owned(session) \subseteq Nat
          BY <1>i, LenProperties DEF Owned, Streams
        <4>2. [op |-> "groups", groups |-> Owned(session)] \in Replies
          BY <4>1 DEF Replies
        <4> QED
          BY <3>3, <4>2, <1>i DEF ServeList, Answers, Streams
      <3>4. CASE ServeCreate
        <4>1. [op |-> "created", group |-> Len(owners) + 1, life |-> life] \in Replies
          BY <2>3 DEF Replies
        <4>2. owners' = Append(owners, session)
          BY <3>4 DEF ServeCreate
        <4>3. owners' \in Seq(Int)
          BY <4>2, <1>s, <1>i, Appended DEF Streams
        <4> QED
          BY <3>4, <4>1, <4>3 DEF ServeCreate, Answers
      <3>5. CASE ServeChat
        <4>1. /\ Head(up).op = "chat" /\ UNCHANGED owners
              /\ \/ down' = Append(down, Head(up)) \/ down' = Append(down, [op |-> "notify"])
                 \/ down' = down
          BY <3>5 DEF ServeChat, Serves, Answers
        <4>2. Head(up) \in Replies /\ [op |-> "notify"] \in Replies
          BY <4>1, <2>2 DEF Requests, Replies
        <4> QED
          BY <4>1, <4>2, <1>i DEF Streams
      <3> QED
        BY <1>9, <3>1, <3>2, <3>3, <3>4, <3>5 DEF Server
    <2> QED
      BY <2>1, <2>4, <1>i, StreamsServed
  <1>10. ASSUME NEW k \in ChatKeys, PeerWrites(k) PROVE Streams'
    <2> DEFINE p == [op |-> "chat", key |-> k, id |-> Len(log) + 1]
               m == [key |-> k, mine |-> FALSE, life |-> life]
    <2>1. Len(log) \in Nat /\ life \in Nat
      BY <1>i, LenProperties DEF Streams
    <2>2. p \in Replies /\ m \in [key : ChatKeys, mine : BOOLEAN, life : Nat]
      BY <2>1 DEF Replies
    <2>3. /\ session \in Accounts /\ down' = Append(down, p) /\ log' = Append(log, m)
          /\ UNCHANGED <<up, link, owners, life, pending>>
      BY <1>10 DEF PeerWrites, Answers, netVars, windowVars
    <2>4. link = "on"
      BY <2>3, <1>i, NoAccount DEF Session, Streams
    <2> HIDE DEF p, m
    <2>5. /\ log' \in Seq([key : ChatKeys, mine : BOOLEAN, life : Nat])
          /\ down' \in Seq(Replies)
      BY <2>2, <2>3, <1>i, Appended DEF Streams
    <2> QED
      BY <2>3, <2>4, <2>5, <1>i DEF Streams
  <1>11. CASE ServerCloses
    <2>1. up' = <<>> /\ UNCHANGED <<down, link, owners, life, log, pending>>
      BY <1>11 DEF ServerCloses, windowVars, netVars, historyVars
    <2> QED
      BY <2>1, <1>i, None DEF Streams
  <1>12. CASE ServerRestarts
    <2>1. /\ up' = <<>> /\ owners' = <<>> /\ life' = life + 1
          /\ UNCHANGED <<down, link, log, pending>>
      BY <1>12 DEF ServerRestarts, windowVars, netVars, historyVars
    <2> QED
      BY <2>1, <1>i, None DEF Streams
  <1>13. CASE UNCHANGED vars
    BY <1>13, <1>u DEF vars, windowVars, netVars, serverVars, historyVars
  <1> QED
    BY <1>1, <1>2, <1>3, <1>4, <1>5, <1>6, <1>7, <1>8, <1>9, <1>10, <1>11, <1>12, <1>13
       DEF Next, User, Network, SelectUser, SelectGroup

-----------------------------------------------------------------------------
(* From the click to the main page.                                        *)

\* A packet is handled that is not the answer to LOGIN, or is swallowed.
LEMMA SessionRead ==
  ASSUME Streams, Session, link = "on", down # <<>>, down' = Tail(down),
         Head(down).op # "login" \/ spliced,
         UNCHANGED <<link, session, me, spliced>>, stale' => stale,
         up' = up \/ (\E r \in Requests : ~Entering(r) /\ up' = Append(up, r))
  PROVE  Session'
  <1>1. up \in Seq(Requests) /\ down \in Seq(Replies)
    BY DEF Streams
  <1>2. \A i \in DOMAIN up : ~Entering(up[i])
    BY DEF Session
  <1>3. \A i \in DOMAIN up' : ~Entering(up'[i])
    <2>1. CASE up' = up
      BY <1>2, <2>1
    <2>2. CASE up' # up
      <3>1. PICK r \in Requests : ~Entering(r) /\ up' = Append(up, r)
        BY <2>2
      <3>2. \A i \in DOMAIN Append(up, r) :
              (i \in DOMAIN up /\ Append(up, r)[i] = up[i]) \/ Append(up, r)[i] = r
        BY <1>1, Appended
      <3> QED
        BY <1>2, <3>1, <3>2
    <2> QED
      BY <2>1, <2>2
  <1>4. \A i \in DOMAIN down' : ~Entered(down'[i])
    <2>1. \A i \in DOMAIN Tail(down) :
            i + 1 \in DOMAIN down /\ i + 1 # 1 /\ Tail(down)[i] = down[i + 1]
      BY <1>1, Taken
    <2> QED
      BY <2>1 DEF Session
  <1>5. session \in Accounts /\ ~spliced => me = session
    BY DEF Session
  <1> QED
    BY <1>3, <1>4, <1>5 DEF Session

\* A request is sent or taken, or a packet is sent, and none of them is about
\* LOGIN or REGISTER.
LEMMA SessionGoesOn ==
  ASSUME Streams, Session, UNCHANGED <<link, session, me, spliced, stale>>,
         \A i \in DOMAIN up' : ~Entering(up'[i]),
         down' = down \/ (\E p \in Replies : ~Entered(p) /\ down' = Append(down, p))
  PROVE  Session'
  <1>1. down \in Seq(Replies)
    BY DEF Streams
  <1>2. CASE down' = down
    BY <1>2 DEF Session
  <1>3. CASE down' # down
    <2>1. PICK p \in Replies : ~Entered(p) /\ down' = Append(down, p)
      BY <1>3
    <2>2. /\ \A i \in DOMAIN Append(down, p) :
               (i \in DOMAIN down /\ Append(down, p)[i] = down[i]) \/ Append(down, p)[i] = p
          /\ Append(down, p) # <<>>
          /\ down # <<>> => Head(Append(down, p)) = Head(down)
      BY <1>1, Appended
    <2>3. \A i \in DOMAIN down' : Entered(down'[i]) =>
            i \in DOMAIN down /\ down'[i] = down[i]
      BY <2>1, <2>2
    <2>4. down # <<>> /\ Head(down).op = "login" => down' # <<>> /\ Head(down').op = "login"
      BY <2>1, <2>2
    <2> QED
      BY <2>3, <2>4 DEF Session
  <1> QED
    BY <1>2, <1>3

\* The answer to LOGIN or REGISTER is the only thing on its way.
LEMMA SessionAnswered ==
  ASSUME Streams, Session, UNCHANGED <<link, me, spliced, stale>>,
         up # <<>>, Entering(Head(up)), up' = Tail(up),
         NEW p \in Replies, down' = Append(down, p),
         \/ session' = session /\ p.op # "login"
         \/ session' = p.user /\ p.op = "login"
  PROVE  Session'
  <1>1. up \in Seq(Requests) /\ down \in Seq(Replies)
    BY DEF Streams
  <1>2. 1 \in DOMAIN up /\ Head(up) = up[1] /\ Tail(up) \in Seq(Requests)
    BY <1>1, Taken
  <1>3. Len(up) = 1 /\ down = <<>> /\ session = NoUser /\ me = NoUser
    BY <1>2 DEF Session
  <1>4. link = "on"
    BY DEF Streams
  <1>5. DOMAIN up' = {}
    <2>1. Len(Tail(up)) = 0
      BY <1>1, <1>3, Taken
    <2> QED
      BY <2>1, <1>2, EmptySeq
  <1>6. /\ \A i \in DOMAIN down' : i = 1 /\ down'[i] = p
        /\ down' # <<>> /\ Head(down') = p
    <2>1. /\ \A i \in DOMAIN Append(down, p) :
                (i \in DOMAIN down /\ Append(down, p)[i] = down[i])
                  \/ (i = Len(down) + 1 /\ Append(down, p)[i] = p)
          /\ Append(down, p) # <<>> /\ Head(Append(down, p)) = p
      BY <1>1, <1>3, Appended
    <2>2. DOMAIN down = {} /\ Len(down) + 1 = 1
      BY <1>3, None
    <2> QED
      BY <2>1, <2>2
  <1>7. p.op = "login" => p.user \in Accounts
    BY ReplyFields
  <1> QED
    BY <1>3, <1>4, <1>5, <1>6, <1>7, NoAccount DEF Session

LEMMA SessionStep == Inv /\ [Next]_vars => Session'
  <1> SUFFICES ASSUME Inv, [Next]_vars PROVE Session'
    OBVIOUS
  <1>i. Streams /\ Session /\ Pages
    BY DEF Inv
  <1>u. UNCHANGED <<up, down, link, session, me, stale, spliced>> => Session'
    BY <1>i DEF Session
  <1>q. up \in Seq(Requests) /\ down \in Seq(Replies)
    BY <1>i DEF Streams
  <1>m. page = "main" => \A i \in DOMAIN up : ~Entering(up[i])
    BY <1>i DEF Session, Pages
  <1>1. ASSUME NEW k, Select(k) \/ SwitchPage PROVE Session'
    BY <1>1, <1>u DEF Select, SwitchPage, netVars, serverVars, historyVars
  <1>2. ASSUME NEW u \in Accounts, LoginClicked(u) \/ RegisterClicked(u) PROVE Session'
    <2>1. PICK what : ConnectToServer(what, u)
      BY <1>2 DEF LoginClicked, RegisterClicked
    <2>2. /\ up' = <<>> /\ down' = <<>> /\ link' = "connecting" /\ session' = NoUser
          /\ me' = IF link = "on" THEN NoUser ELSE me
      BY <2>1 DEF ConnectToServer, OnDisconnected
    <2>3. me' = NoUser
      BY <2>2, <1>i DEF Session
    <2> QED
      BY <2>2, <2>3, None, NoAccount DEF Session
  <1>3. CASE Connected
    <2> DEFINE r == [op |-> pending.what, user |-> pending.user]
    <2>1. /\ link = "connecting" /\ link' = "on" /\ up' = <<r>> /\ spliced' = stale
          /\ UNCHANGED <<down, session, me, stale>>
      BY <1>3 DEF Connected
    <2>2. down = <<>> /\ session = NoUser /\ me = NoUser
      BY <2>1, <1>i DEF Session, Streams
    <2>3. Len(up') = 1
      BY <2>1
    <2> HIDE DEF r
    <2> QED
      BY <2>1, <2>2, <2>3, None, NoAccount DEF Session
  <1>4. CASE ConnectFails
    <2>1. /\ link = "connecting" /\ link' = "off"
          /\ UNCHANGED <<up, down, session, me, spliced>>
      BY <1>4 DEF ConnectFails, serverVars, historyVars
    <2>2. up = <<>> /\ down = <<>> /\ session = NoUser /\ me = NoUser
      BY <2>1, <1>i DEF Session, Streams
    <2> QED
      BY <2>1, <2>2, None, NoAccount DEF Session
  <1>5. CASE Disconnected
    <2>1. link' = "off" /\ up' = <<>> /\ down' = <<>> /\ session' = NoUser /\ me' = NoUser
      BY <1>5 DEF Disconnected, OnDisconnected
    <2> QED
      BY <2>1, None, NoAccount DEF Session
  <1>6. CASE LoginSuccess
    <2>1. /\ link = "on" /\ ~stale /\ down # <<>> /\ Head(down).op = "login"
          /\ down' = Tail(down) /\ me' = Head(down).user
          /\ up' = Append(up, [op |-> "list"])
          /\ UNCHANGED <<link, stale, session, spliced>>
      BY <1>6 DEF LoginSuccess, Arrives
    <2>2. /\ 1 \in DOMAIN down /\ Head(down) = down[1] /\ Head(down) \in Replies
          /\ \A i \in DOMAIN Tail(down) :
               i + 1 \in DOMAIN down /\ i + 1 # 1 /\ Tail(down)[i] = down[i + 1]
      BY <2>1, <1>q, Taken
    <2>3. session \in {Head(down).user, Closed} /\ Head(down).user \in Accounts
      BY <2>1, <2>2, <1>i, ReplyFields DEF Session, Entered
    <2>4. \A i \in DOMAIN down' : ~Entered(down'[i])
      BY <2>1, <2>2, <1>i DEF Session
    <2>5. \A i \in DOMAIN up' : ~Entering(up'[i])
      <3> DEFINE r == [op |-> "list"]
      <3>1. r \in Requests /\ ~Entering(r)
        BY DEF Requests, Entering
      <3>2. \A i \in DOMAIN up : ~Entering(up[i])
        BY <2>1, <1>i DEF Session
      <3>3. up' = Append(up, r)
        BY <2>1
      <3> HIDE DEF r
      <3>4. \A i \in DOMAIN Append(up, r) :
              (i \in DOMAIN up /\ Append(up, r)[i] = up[i]) \/ Append(up, r)[i] = r
        BY <3>1, <1>q, Appended
      <3> QED
        BY <3>1, <3>2, <3>3, <3>4
    <2> QED
      BY <2>1, <2>3, <2>4, <2>5, <1>i, NoAccount DEF Session
  <1>7. CASE RegisterSuccess \/ Refused \/ Notify \/ GroupsListReceived \/ GroupCreated
               \/ MessageReceived
    <2>1. /\ link = "on" /\ down # <<>> /\ Head(down).op # "login" /\ down' = Tail(down)
          /\ UNCHANGED <<up, me, link, stale, session, spliced>>
      BY <1>7 DEF RegisterSuccess, Refused, Notify, GroupsListReceived, GroupCreated,
         MessageReceived, Arrives
    <2> QED
      BY <2>1, <1>i, SessionRead
  <1>8. CASE Swallowed
    <2>1. /\ link = "on" /\ stale /\ down # <<>> /\ down' = Tail(down)
          /\ UNCHANGED <<up, me, link, session, spliced>>
      BY <1>8 DEF Swallowed, historyVars
    <2>2. spliced
      BY <2>1, <1>i DEF Session
    <2> QED
      BY <2>1, <2>2, <1>i, SessionRead
  <1>9. CASE SendClicked \/ CreateGroupClicked
    <2>1. /\ page = "main"
          /\ UNCHANGED <<down, me, link, stale, session, spliced>>
          /\ \/ up' = up
             \/ \E r \in Requests : ~Entering(r) /\ up' = Append(up, r)
      <3>1. Len(log) + 1 \in Nat /\ chat \in ChatKeys
        BY <1>i, LenProperties DEF Streams, Inv, Chats
      <3>2. /\ [op |-> "chat", key |-> chat, id |-> Len(log) + 1] \in Requests
            /\ ~Entering([op |-> "chat", key |-> chat, id |-> Len(log) + 1])
            /\ [op |-> "create"] \in Requests /\ ~Entering([op |-> "create"])
        BY <3>1 DEF Requests, Entering
      <3>3. CASE SendClicked
        BY <3>2, <3>3 DEF SendClicked, SendPacket, netVars
      <3>4. CASE CreateGroupClicked
        BY <3>2, <3>4 DEF CreateGroupClicked, SendPacket, netVars, historyVars
      <3> QED
        BY <1>9, <3>3, <3>4
    <2>2. \A i \in DOMAIN up' : ~Entering(up'[i])
      <3>1. CASE up' = up
        BY <3>1, <2>1, <1>m
      <3>2. CASE up' # up
        <4>1. PICK r \in Requests : ~Entering(r) /\ up' = Append(up, r)
          BY <2>1, <3>2
        <4>2. \A i \in DOMAIN Append(up, r) :
                (i \in DOMAIN up /\ Append(up, r)[i] = up[i]) \/ Append(up, r)[i] = r
          BY <1>q, Appended
        <4> QED
          BY <4>1, <4>2, <2>1, <1>m
      <3> QED
        BY <3>1, <3>2
    <2> QED
      BY <2>1, <2>2, <1>i, SessionGoesOn
  <1>10. CASE ServeLogin \/ ServeRegister
    <2>1. /\ up # <<>> /\ Entering(Head(up)) /\ up' = Tail(up)
          /\ UNCHANGED <<me, link, stale, spliced>>
      BY <1>10 DEF ServeLogin, ServeRegister, Serves, Entering, netVars, historyVars
    <2>2. Head(up).user \in Accounts
      BY <2>1, <1>q, Taken, RequestFields
    <2>3. \E p \in Replies :
            /\ down' = Append(down, p)
            /\ \/ session' = session /\ p.op # "login"
               \/ session' = p.user /\ p.op = "login"
      <3>1. /\ [op |-> "login", user |-> Head(up).user] \in Replies
            /\ [op |-> "refused"] \in Replies /\ [op |-> "registered"] \in Replies
        BY <2>2 DEF Replies
      <3>2. CASE ServeLogin
        BY <3>1, <3>2 DEF ServeLogin, Answers
      <3>3. CASE ServeRegister
        BY <3>1, <3>3 DEF ServeRegister, Answers
      <3> QED
        BY <1>10, <3>2, <3>3
    <2>4. PICK p \in Replies :
            /\ down' = Append(down, p)
            /\ \/ session' = session /\ p.op # "login"
               \/ session' = p.user /\ p.op = "login"
      BY <2>3
    <2> QED
      BY <2>1, <2>4, <1>i, SessionAnswered
  <1>11. CASE ServeList \/ ServeCreate \/ ServeChat
    <2>1. /\ up # <<>> /\ Head(up).op \in {"list", "create", "chat"} /\ up' = Tail(up)
          /\ UNCHANGED <<me, link, stale, session, spliced>>
      BY <1>11 DEF ServeList, ServeCreate, ServeChat, Serves, netVars, historyVars
    <2>2. \A i \in DOMAIN up' : ~Entering(up'[i])
      <3>1. SUFFICES ASSUME NEW i \in DOMAIN Tail(up), Entering(Tail(up)[i]) PROVE FALSE
        BY <2>1
      <3>2. i + 1 \in DOMAIN up /\ i + 1 # 1 /\ Tail(up)[i] = up[i + 1]
        BY <2>1, <1>q, Taken
      <3>3. Len(up) = 1
        BY <3>1, <3>2, <1>i DEF Session
      <3>4. DOMAIN up = 1..Len(up)
        BY <1>q, LenProperties
      <3> QED
        BY <3>2, <3>3, <3>4
    <2>3. down' = down \/ (\E p \in Replies : ~Entered(p) /\ down' = Append(down, p))
      <3>1. CASE ServeList
        <4>1. [op |-> "groups", groups |-> Owned(session)] \in Replies
          BY <1>i, LenProperties DEF Replies, Owned, Streams
        <4> QED
          BY <3>1, <4>1 DEF ServeList, Answers, Entered
      <3>2. CASE ServeCreate
        <4>1. [op |-> "created", group |-> Len(owners) + 1, life |-> life] \in Replies
          BY <1>i, LenProperties DEF Replies, Streams
        <4> QED
          BY <3>2, <4>1 DEF ServeCreate, Answers, Entered
      <3>3. CASE ServeChat
        <4>1. /\ Head(up).op = "chat" /\ Head(up) \in Requests
              /\ \/ down' = Append(down, Head(up)) \/ down' = Append(down, [op |-> "notify"])
                 \/ down' = down
          BY <3>3, <2>1, <1>q, Taken DEF ServeChat, Serves, Answers
        <4>2. Head(up) \in Replies /\ [op |-> "notify"] \in Replies
          BY <4>1 DEF Requests, Replies
        <4>3. ~Entered(Head(up)) /\ ~Entered([op |-> "notify"])
          BY <4>1 DEF Entered
        <4> QED
          BY <4>1, <4>2, <4>3
      <3> QED
        BY <1>11, <3>1, <3>2, <3>3
    <2> QED
      BY <2>1, <2>2, <2>3, <1>i, SessionGoesOn
  <1>12. ASSUME NEW k \in ChatKeys, PeerWrites(k) PROVE Session'
    <2> DEFINE p == [op |-> "chat", key |-> k, id |-> Len(log) + 1]
    <2>1. p \in Replies /\ ~Entered(p)
      BY <1>i, LenProperties DEF Replies, Entered, Streams
    <2>2. /\ session \in Accounts /\ down' = Append(down, p)
          /\ UNCHANGED <<up, me, link, stale, session, spliced>>
      BY <1>12 DEF PeerWrites, Answers, netVars
    <2>3. \A i \in DOMAIN up : ~Entering(up[i])
      BY <2>2, <1>i, NoAccount DEF Session
    <2> HIDE DEF p
    <2> QED
      BY <2>1, <2>2, <2>3, <1>i, SessionGoesOn
  <1>13. CASE ServerCloses \/ ServerRestarts
    <2>1. /\ up' = <<>> /\ UNCHANGED <<down, me, link, stale, spliced>>
          /\ session' = IF link = "on" THEN Closed ELSE session
      BY <1>13 DEF ServerCloses, ServerRestarts, netVars, historyVars
    <2>2. \A i \in DOMAIN up' : ~Entering(up'[i])
      BY <2>1, None
    <2> QED
      BY <2>1, <2>2, <1>i, NoAccount DEF Session
  <1>14. CASE UNCHANGED vars
    BY <1>14, <1>u DEF vars, netVars, serverVars, historyVars
  <1> QED
    BY <1>1, <1>2, <1>3, <1>4, <1>5, <1>6, <1>7, <1>8, <1>9, <1>10, <1>11, <1>12, <1>13, <1>14
       DEF Next, User, Network, ReadyRead, Server, SelectUser, SelectGroup

-----------------------------------------------------------------------------
(* Pages.                                                                  *)

LEMMA PagesStep == Inv /\ [Next]_vars => Pages'
  <1> SUFFICES ASSUME Inv, [Next]_vars PROVE Pages'
    OBVIOUS
  <1>i. Streams /\ Session /\ Pages
    BY DEF Inv
  <1>u. UNCHANGED <<page, beating, me>> => Pages'
    BY <1>i DEF Pages
  <1>1. CASE SwitchPage
    <2>1. page # "main" /\ page' \in {"login", "register"} /\ UNCHANGED <<beating, me>>
      BY <1>1 DEF SwitchPage, netVars
    <2> QED
      BY <2>1, <1>i DEF Pages
  <1>2. ASSUME NEW u \in Accounts, LoginClicked(u) \/ RegisterClicked(u) PROVE Pages'
    <2>1. PICK what : ConnectToServer(what, u)
      BY <1>2 DEF LoginClicked, RegisterClicked
    <2>2. \/ UNCHANGED <<page, beating, me>>
          \/ me' = NoUser /\ page' = "login" /\ beating' = FALSE
      BY <2>1 DEF ConnectToServer, OnDisconnected
    <2> QED
      BY <2>2, <1>u DEF Pages
  <1>3. CASE Disconnected
    BY <1>3 DEF Disconnected, OnDisconnected, Pages
  <1>4. CASE LoginSuccess
    <2>1. /\ down # <<>> /\ Head(down).op = "login" /\ me' = Head(down).user
          /\ page' = "main" /\ beating' = TRUE
      BY <1>4 DEF LoginSuccess, Arrives
    <2>2. Head(down) \in Replies
      BY <2>1, <1>i, Taken DEF Streams
    <2>3. me' # NoUser
      BY <2>1, <2>2, ReplyFields, NoAccount
    <2> QED
      BY <2>1, <2>3 DEF Pages
  <1>5. CASE RegisterSuccess
    <2>1. /\ down # <<>> /\ Head(down).op = "registered"
          /\ page' = "login" /\ UNCHANGED <<beating, me>>
      BY <1>5 DEF RegisterSuccess, Arrives
    <2>2. 1 \in DOMAIN down /\ Head(down) = down[1]
      BY <2>1, <1>i, Taken DEF Streams
    <2>3. me = NoUser
      BY <2>1, <2>2, <1>i DEF Session, Entered
    <2> QED
      BY <2>1, <2>3, <1>i DEF Pages
  <1>6. CASE Refused \/ Notify \/ GroupsListReceived \/ GroupCreated \/ MessageReceived
               \/ Swallowed
    BY <1>6, <1>u DEF Refused, Notify, GroupsListReceived, GroupCreated, MessageReceived,
       Swallowed
  <1>7. ASSUME NEW k, Select(k) PROVE Pages'
    BY <1>7, <1>u DEF Select, netVars
  <1>8. CASE Connected \/ ConnectFails \/ SendClicked \/ CreateGroupClicked
    BY <1>8, <1>u DEF Connected, ConnectFails, SendClicked, CreateGroupClicked, windowVars,
       netVars
  <1>9. ASSUME NEW k, Server \/ ServerCloses \/ ServerRestarts \/ PeerWrites(k) PROVE Pages'
    BY <1>9, <1>u DEF Server, ServeLogin, ServeRegister, ServeList, ServeCreate, ServeChat,
       Serves, ServerCloses, ServerRestarts, PeerWrites, windowVars, netVars
  <1>10. CASE UNCHANGED vars
    BY <1>10, <1>u DEF vars, windowVars, netVars
  <1> QED
    BY <1>1, <1>2, <1>3, <1>4, <1>5, <1>6, <1>7, <1>8, <1>9, <1>10
       DEF Next, User, Network, ReadyRead, SelectUser, SelectGroup

-----------------------------------------------------------------------------
(* Chats.                                                                  *)

\* A message that is filed goes to its history and, if that is the one that is
\* shown, to the screen.
LEMMA ChatsFiled ==
  ASSUME Chats, NEW k \in ChatKeys, NEW m \in Messages, File(k, m),
         UNCHANGED <<chat, renewed>>
  PROVE  Chats'
  <1>1. /\ histories' = [histories EXCEPT ![k] = Append(@, m)]
        /\ shown' = IF chat = k THEN Append(shown, m) ELSE shown
    BY DEF File
  <1>2. /\ histories[k] \in Seq(Messages) /\ histories[chat] \in Seq(Messages)
        /\ shown \in Seq(Messages)
    BY DEF Chats
  <1>3. Append(histories[k], m) \in Seq(Messages) /\ Append(shown, m) \in Seq(Messages)
    BY <1>2, AppendProperties
  <1>4. histories' \in [ChatKeys -> Seq(Messages)] /\ shown' \in Seq(Messages)
    BY <1>1, <1>2, <1>3 DEF Chats
  <1>5. CASE chat = k
    <2>1. histories'[chat'] = Append(histories[chat], m) /\ shown' = Append(shown, m)
      BY <1>1, <1>5 DEF Chats
    <2>2. IsSuffix(Append(histories[chat], m), Append(shown, m))
      BY <1>2, SuffixGrows DEF Chats
    <2> QED
      BY <1>4, <2>1, <2>2 DEF Chats
  <1>6. CASE chat # k
    <2>1. histories'[chat'] = histories[chat] /\ shown' = shown
      BY <1>1, <1>6 DEF Chats
    <2> QED
      BY <1>4, <2>1 DEF Chats
  <1> QED
    BY <1>5, <1>6

LEMMA ChatsStep == Inv /\ [Next]_vars => Chats'
  <1> SUFFICES ASSUME Inv, [Next]_vars PROVE Chats'
    OBVIOUS
  <1>i. Streams /\ Chats
    BY DEF Inv
  <1>u. UNCHANGED <<chat, shown, histories, renewed>> => Chats'
    BY <1>i DEF Chats
  <1>1. ASSUME NEW k \in ChatKeys, Select(k) PROVE Chats'
    <2>1. /\ chat' = k /\ shown' = histories[k] /\ renewed' = FALSE
          /\ histories' = histories
      BY <1>1 DEF Select
    <2>2. histories[k] \in Seq(Messages)
      BY <1>i DEF Chats
    <2>3. IsSuffix(histories[k], histories[k])
      BY <2>2, SuffixSelf
    <2> QED
      BY <2>1, <2>2, <2>3, <1>i DEF Chats
  <1>2. ASSUME NEW u \in Contacts, SelectUser(u) PROVE Chats'
    <2>1. u \in ChatKeys
      BY DEF ChatKeys
    <2> QED
      BY <1>1, <1>2, <2>1 DEF SelectUser
  <1>3. ASSUME NEW g \in 1..MaxGroups, SelectGroup(g) PROVE Chats'
    <2>1. KeyOf(g) \in ChatKeys
      BY BoundAssumption DEF ChatKeys
    <2> QED
      BY <1>1, <1>3, <2>1 DEF SelectGroup
  <1>4. CASE SendClicked
    <2>1. [id |-> Len(log) + 1, mine |-> TRUE] \in Messages /\ chat \in ChatKeys
      BY <1>i, LenProperties DEF Messages, Streams, Chats
    <2>2. /\ File(chat, [id |-> Len(log) + 1, mine |-> TRUE])
          /\ UNCHANGED <<chat, renewed>>
      BY <1>4 DEF SendClicked
    <2> QED
      BY <2>1, <2>2, <1>i, ChatsFiled
  <1>5. CASE MessageReceived
    <2>1. /\ down # <<>> /\ Head(down).op = "chat"
          /\ File(Head(down).key, [id |-> Head(down).id, mine |-> FALSE])
          /\ UNCHANGED <<chat, renewed>>
      BY <1>5 DEF MessageReceived, Arrives
    <2>2. Head(down) \in Replies
      BY <2>1, <1>i, Taken DEF Streams
    <2>3. /\ Head(down).key \in ChatKeys
          /\ [id |-> Head(down).id, mine |-> FALSE] \in Messages
      BY <2>1, <2>2, ReplyFields DEF Messages
    <2> QED
      BY <2>1, <2>3, <1>i, ChatsFiled
  <1>6. CASE GroupCreated
    <2> DEFINE k == KeyOf(Head(down).group)
    <2>1. /\ histories' = [histories EXCEPT ![k] = <<>>]
          /\ renewed' = (renewed \/ chat = k)
          /\ UNCHANGED <<chat, shown>>
      BY <1>6 DEF GroupCreated
    <2> HIDE DEF k
    <2>2. histories' \in [ChatKeys -> Seq(Messages)]
      BY <2>1, <1>i, None DEF Chats
    <2>3. CASE chat = k
      <3>1. histories'[chat'] = <<>> /\ renewed'
        BY <2>1, <2>3, <1>i DEF Chats
      <3>2. IsSuffix(<<>>, shown)
        BY <1>i, SuffixSelf DEF Chats
      <3> QED
        BY <2>1, <2>2, <3>1, <3>2, <1>i DEF Chats
    <2>4. CASE chat # k
      <3>1. histories'[chat'] = histories[chat]
        BY <2>1, <2>4, <1>i DEF Chats
      <3>2. ~renewed' => ~renewed
        BY <2>1
      <3> QED
        BY <2>1, <2>2, <3>1, <3>2, <1>i DEF Chats
    <2> QED
      BY <2>3, <2>4
  <1>7. CASE Swallowed
    <2>1. /\ UNCHANGED <<chat, renewed>>
          /\ \/ UNCHANGED <<shown, histories>>
             \/ File(0, Blank) \/ File(KeyOf(0), Blank)
      BY <1>7 DEF Swallowed, historyVars
    <2>2. Blank \in Messages /\ 0 \in ChatKeys /\ KeyOf(0) \in ChatKeys
      BY BoundAssumption DEF Blank, Messages, ChatKeys
    <2> QED
      BY <2>1, <2>2, <1>i, <1>u, ChatsFiled
  <1>8. CASE SwitchPage \/ CreateGroupClicked
    BY <1>8, <1>u DEF SwitchPage, CreateGroupClicked, windowVars, historyVars
  <1>9. ASSUME NEW u \in Accounts, LoginClicked(u) \/ RegisterClicked(u) PROVE Chats'
    BY <1>9, <1>u DEF LoginClicked, RegisterClicked, ConnectToServer
  <1>10. CASE Connected \/ ConnectFails \/ Disconnected
    BY <1>10, <1>u DEF Connected, ConnectFails, Disconnected, windowVars, historyVars
  <1>11. CASE LoginSuccess \/ RegisterSuccess \/ Refused \/ Notify \/ GroupsListReceived
    BY <1>11, <1>u DEF LoginSuccess, RegisterSuccess, Refused, Notify, GroupsListReceived
  <1>12. ASSUME NEW k, Server \/ ServerCloses \/ ServerRestarts \/ PeerWrites(k) PROVE Chats'
    BY <1>12, <1>u DEF Server, ServeLogin, ServeRegister, ServeList, ServeCreate, ServeChat,
       Serves, ServerCloses, ServerRestarts, PeerWrites, windowVars, historyVars
  <1>13. CASE UNCHANGED vars
    BY <1>13, <1>u DEF vars, windowVars, historyVars
  <1> QED
    BY <1>2, <1>3, <1>4, <1>5, <1>6, <1>7, <1>8, <1>9, <1>10, <1>11, <1>12, <1>13
       DEF Next, User, Network, ReadyRead

-----------------------------------------------------------------------------
\* The invariant of the window.
THEOREM Invariance == Spec => []Inv
  <1>1. Inv /\ [Next]_vars => Inv'
    BY StreamsStep, SessionStep, PagesStep, ChatsStep DEF Inv
  <1> QED
    BY InitInv, <1>1, PTL DEF Spec

\* The main page and the heartbeat timer belong to the user the server has logged
\* in on this connection, and once all answers were handled the window is logged
\* in if the server thinks so (main_window.cpp:601-644).
THEOREM WindowFollowsServer == Spec => []LoginReflected
  <1>1. Inv => LoginReflected
    BY DEF Inv, Session, Pages, LoginReflected
  <1> QED
    BY Invariance, <1>1, PTL

\* The chat on the screen agrees with its history, or ends with it after the
\* history was replaced behind it (main_window.cpp:668-747, 990-1019).
THEOREM ScreenFollowsHistory == Spec => []ShownIsHistory
  <1>1. Inv => ShownIsHistory
    BY DEF Inv, Chats, ShownIsHistory
  <1> QED
    BY Invariance, <1>1, PTL

-----------------------------------------------------------------------------
(* Messages from the log to the histories.                                 *)
(*                                                                         *)
(* A message has one copy that may still be filed as received: on its way  *)
(* up, on its way down, or in a history.                                   *)

\* Message n is on its way in s.
Carries(s, n) == \E i \in DOMAIN s : s[i].op = "chat" /\ s[i].id = n

\* What is carried is in the log, under its chat, and is carried once.
Carried(s, l) ==
    /\ \A i \in DOMAIN s : s[i].op = "chat" =>
          s[i].id \in DOMAIN l /\ l[s[i].id].key = s[i].key
    /\ \A i, j \in DOMAIN s :
          s[i].op = "chat" /\ s[j].op = "chat" /\ s[i].id = s[j].id => i = j

\* Message n was filed as received.
Kept(n) == \E k \in ChatKeys : \E i \in DOMAIN histories[k] :
              histories[k][i].id = n /\ ~histories[k][i].mine

\* The history h of chat k: FiledOnce, and where the blank messages are.
Filed(h, k, l) ==
    /\ \A i \in DOMAIN h :
          /\ h[i].id = 0 => k \in {0, KeyOf(0)}
          /\ h[i].id # 0 =>
               /\ h[i].id \in DOMAIN l /\ l[h[i].id].key = k
               /\ h[i].mine \/ ~l[h[i].id].mine \/ IsGroup(k)
    /\ \A i, j \in DOMAIN h :
          h[i].id = h[j].id /\ h[i].id # 0 /\ h[i].mine = h[j].mine => i = j

Filing ==
    /\ Carried(up, log) /\ Carried(down, log)
    /\ \A i \in DOMAIN down :
          down[i].op = "chat" => ~log[down[i].id].mine \/ IsGroup(down[i].key)
    /\ \A k \in ChatKeys : Filed(histories[k], k, log)
    /\ \A n \in DOMAIN log : /\ ~(Carries(up, n) /\ Carries(down, n))
                             /\ Kept(n) => ~Carries(up, n) /\ ~Carries(down, n)

\* A message of the present process to a group is one to a group that there is,
\* and what was sent to the group's number before the group was created comes
\* before the news of it.
Lives ==
    /\ \A i \in DOMAIN log : log[i].life <= life
    /\ \A k \in ChatKeys : \A i \in DOMAIN histories[k] :
         LET m == histories[k][i]
         IN  m.id # 0 /\ ~m.mine /\ log[m.id].life = life => k <= KeyOf(Len(owners))
    /\ \A i \in DOMAIN down : down[i].op = "chat" /\ log[down[i].id].life = life
         => down[i].key <= KeyOf(Len(owners))
    /\ \A j \in DOMAIN down : down[j].op = "created" =>
         /\ down[j].group # 0
         /\ \A k \in ChatKeys : k = KeyOf(down[j].group) =>
              \A i \in DOMAIN histories[k] :
                ~histories[k][i].mine => log[histories[k][i].id].life < down[j].life
         /\ \A i \in DOMAIN down : i < j /\ down[i].op = "chat"
                                        /\ down[i].key = KeyOf(down[j].group)
                => log[down[i].id].life < down[j].life

-----------------------------------------------------------------------------
(* What a step does to the messages.                                       *)

\* The messages of t, and the news of groups, are the last ones of s.
Thins(s, t) ==
    \E d \in Nat : \A i \in DOMAIN t : t[i].op \in {"chat", "created"} =>
        i + d \in DOMAIN s /\ t[i] = s[i + d]

FiledAs(k, m) == histories' = [histories EXCEPT ![k] = Append(@, m)]

Rests ==
    /\ UNCHANGED log /\ Thins(up, up') /\ Thins(down, down')
    /\ UNCHANGED <<owners, life>> \/ (owners' = <<>> /\ life' = life + 1)
    /\ \/ UNCHANGED histories
       \/ FiledAs(0, Blank) \/ FiledAs(KeyOf(0), Blank)

Renews ==
    /\ down # <<>> /\ Head(down).op = "created" /\ down' = Tail(down)
    /\ histories' = [histories EXCEPT ![KeyOf(Head(down).group)] = <<>>]
    /\ UNCHANGED <<log, up, owners, life>>

Founds ==
    /\ Thins(up, up') /\ \E x \in Int : owners' = Append(owners, x)
    /\ down' = Append(down, [op |-> "created", group |-> Len(owners) + 1, life |-> life])
    /\ UNCHANGED <<log, histories, life>>

Writes(k) ==
    /\ log' = Append(log, [key |-> k, mine |-> TRUE, life |-> life])
    /\ up' = up \/ up' = Append(up, [op |-> "chat", key |-> k, id |-> Len(log) + 1])
    /\ FiledAs(k, [id |-> Len(log) + 1, mine |-> TRUE])
    /\ UNCHANGED <<down, owners, life>>

Hears(k) ==
    /\ k <= KeyOf(Len(owners))
    /\ log' = Append(log, [key |-> k, mine |-> FALSE, life |-> life])
    /\ down' = Append(down, [op |-> "chat", key |-> k, id |-> Len(log) + 1])
    /\ UNCHANGED <<up, histories, owners, life>>

Returns ==
    /\ up # <<>> /\ Head(up).op = "chat" /\ up' = Tail(up)
    /\ down' = Append(down, Head(up))
    /\ IsGroup(Head(up).key) /\ Head(up).key <= KeyOf(Len(owners))
    /\ UNCHANGED <<log, histories, owners, life>>

Receives ==
    /\ down # <<>> /\ Head(down).op = "chat" /\ down' = Tail(down)
    /\ FiledAs(Head(down).key, [id |-> Head(down).id, mine |-> FALSE])
    /\ UNCHANGED <<log, up, owners, life>>

LEMMA Thinned ==
  ASSUME NEW S, NEW s \in Seq(S)
  PROVE  /\ Thins(s, s) /\ Thins(s, <<>>) /\ (s # <<>> => Thins(s, Tail(s)))
         /\ \A r \in S : r.op \notin {"chat", "created"} =>
              Thins(s, Append(s, r)) /\ Thins(<<>>, <<r>>)
  <1>1. Thins(s, s)
    <2>1. \A i \in DOMAIN s : i + 0 = i
      BY LenProperties
    <2> QED
      BY <2>1 DEF Thins
  <1>2. Thins(s, <<>>)
    BY None DEF Thins
  <1>3. s # <<>> => Thins(s, Tail(s))
    BY Taken DEF Thins
  <1>4. ASSUME NEW r \in S, r.op \notin {"chat", "created"}
        PROVE  Thins(s, Append(s, r)) /\ Thins(<<>>, <<r>>)
    <2>1. \A i \in DOMAIN Append(s, r) :
             (i \in DOMAIN s /\ Append(s, r)[i] = s[i]) \/ Append(s, r)[i] = r
      BY Appended
    <2>2. \A i \in DOMAIN s : i + 0 = i
      BY LenProperties
    <2>3. Thins(s, Append(s, r))
      BY <2>1, <2>2, <1>4 DEF Thins
    <2>4. \A i \in DOMAIN <<r>> : <<r>>[i] = r
      OBVIOUS
    <2>5. Thins(<<>>, <<r>>)
      BY <2>4, <1>4 DEF Thins
    <2> QED
      BY <2>3, <2>5
  <1> QED
    BY <1>1, <1>2, <1>3, <1>4

LEMMA MessageKinds ==
  ASSUME Inv, [Next]_vars
  PROVE  \/ Rests \/ Renews \/ Founds \/ Returns \/ Receives
         \/ \E k \in ChatKeys : Writes(k) \/ Hears(k)
  <1>i. Streams /\ Session /\ Pages /\ Chats
    BY DEF Inv
  <1>q. up \in Seq(Requests) /\ down \in Seq(Replies)
    BY <1>i DEF Streams
  <1>s. Thins(up, up) /\ Thins(up, <<>>) /\ Thins(down, down) /\ Thins(down, <<>>)
    BY <1>q, Thinned
  <1>u. UNCHANGED <<log, up, down, owners, life, histories>> => Rests
    BY <1>s DEF Rests
  <1>1. ASSUME NEW k, Select(k) \/ SwitchPage PROVE Rests
    BY <1>1, <1>u DEF Select, SwitchPage, serverVars, historyVars
  <1>2. ASSUME NEW u \in Accounts, LoginClicked(u) \/ RegisterClicked(u) PROVE Rests
    BY <1>2, <1>s DEF LoginClicked, RegisterClicked, ConnectToServer, Rests
  <1>3. CASE Connected
    <2> DEFINE r == [op |-> pending.what, user |-> pending.user]
    <2>1. /\ link = "connecting" /\ up' = <<r>>
          /\ UNCHANGED <<down, log, owners, life, histories>>
      BY <1>3 DEF Connected
    <2>2. up = <<>> /\ r \in Requests /\ r.op \notin {"chat", "created"}
      BY <2>1, <1>i DEF Streams, Requests
    <2> HIDE DEF r
    <2>3. Thins(up, up')
      BY <2>1, <2>2, <1>q, Thinned
    <2> QED
      BY <2>1, <2>3, <1>s DEF Rests
  <1>4. CASE ConnectFails \/ Disconnected
    BY <1>4, <1>s DEF ConnectFails, Disconnected, Rests, serverVars, historyVars, windowVars
  <1>5. CASE LoginSuccess \/ RegisterSuccess \/ Refused \/ Notify \/ GroupsListReceived
    <2>1. /\ down # <<>> /\ down' = Tail(down)
          /\ up' = up \/ up' = Append(up, [op |-> "list"])
          /\ UNCHANGED <<log, owners, life, histories>>
      BY <1>5 DEF LoginSuccess, RegisterSuccess, Refused, Notify, GroupsListReceived, Arrives
    <2>2. [op |-> "list"] \in Requests
      BY DEF Requests
    <2>3. Thins(up, up') /\ Thins(down, down')
      BY <2>1, <2>2, <1>q, Thinned
    <2> QED
      BY <2>1, <2>3 DEF Rests
  <1>6. CASE GroupCreated
    BY <1>6 DEF GroupCreated, Arrives, Renews
  <1>7. CASE MessageReceived
    BY <1>7 DEF MessageReceived, Arrives, File, FiledAs, Receives
  <1>8. CASE Swallowed
    <2>1. /\ down # <<>> /\ down' = Tail(down) /\ UNCHANGED <<log, up, owners, life>>
          /\ \/ UNCHANGED histories \/ FiledAs(0, Blank) \/ FiledAs(KeyOf(0), Blank)
      BY <1>8 DEF Swallowed, historyVars, File, FiledAs
    <2>2. Thins(down, down')
      BY <2>1, <1>q, Thinned
    <2> QED
      BY <2>1, <2>2, <1>s DEF Rests
  <1>9. CASE SendClicked
    BY <1>9, <1>i DEF SendClicked, SendPacket, File, FiledAs, Writes, Chats
  <1>10. CASE CreateGroupClicked
    <2>1. /\ up' = up \/ up' = Append(up, [op |-> "create"])
          /\ UNCHANGED <<down, log, owners, life, histories>>
      BY <1>10 DEF CreateGroupClicked, SendPacket, windowVars, historyVars
    <2>2. [op |-> "create"] \in Requests
      BY DEF Requests
    <2>3. Thins(up, up')
      BY <2>1, <2>2, <1>q, Thinned
    <2> QED
      BY <2>1, <2>3, <1>s DEF Rests
  <1>11. CASE ServeLogin \/ ServeRegister \/ ServeList
    <2>1. /\ up # <<>> /\ up' = Tail(up) /\ UNCHANGED <<log, owners, life, histories>>
          /\ Head(up).op \in {"login", "register", "list"}
      BY <1>11 DEF ServeLogin, ServeRegister, ServeList, Serves, windowVars, historyVars
    <2>2. Head(up) \in Requests
      BY <2>1, <1>q, Taken
    <2>3. \E p \in Replies : p.op \notin {"chat", "created"} /\ down' = Append(down, p)
      <3>1. CASE ServeLogin
        <4>1. Head(up).op = "login"
          BY <3>1 DEF ServeLogin, Serves
        <4>2. /\ [op |-> "login", user |-> Head(up).user] \in Replies
              /\ [op |-> "refused"] \in Replies
          BY <4>1, <2>2, RequestFields DEF Entering, Replies
        <4> QED
          BY <3>1, <4>2 DEF ServeLogin, Answers
      <3>2. CASE ServeRegister
        BY <3>2 DEF ServeRegister, Answers, Replies
      <3>3. CASE ServeList
        <4>1. [op |-> "groups", groups |-> Owned(session)] \in Replies
          BY <1>i, LenProperties DEF Replies, Owned, Streams
        <4> QED
          BY <3>3, <4>1 DEF ServeList, Answers
      <3> QED
        BY <1>11, <3>1, <3>2, <3>3
    <2>4. Thins(up, up') /\ Thins(down, down')
      BY <2>1, <2>3, <1>q, Thinned
    <2> QED
      BY <2>1, <2>4 DEF Rests
  <1>12. CASE ServeCreate
    <2>1. /\ up # <<>> /\ up' = Tail(up) /\ session \in Int
          /\ owners' = Append(owners, session)
      BY <1>12, <1>i, IdsAssumption, BoundAssumption
         DEF ServeCreate, Serves, Session, NoUser, Closed
    <2>2. Thins(up, up')
      BY <2>1, <1>q, Thinned
    <2> QED
      BY <1>12, <2>1, <2>2 DEF ServeCreate, Serves, Answers, Founds, windowVars, historyVars
  <1>13. CASE ServeChat
    <2>1. /\ up # <<>> /\ Head(up).op = "chat" /\ up' = Tail(up)
          /\ UNCHANGED <<log, owners, life, histories>>
      BY <1>13 DEF ServeChat, Serves, windowVars, historyVars
    <2>2. Thins(up, up')
      BY <2>1, <1>q, Thinned
    <2>3. CASE down' = down \/ down' = Append(down, [op |-> "notify"])
      <3>1. [op |-> "notify"] \in Replies
        BY DEF Replies
      <3>2. Thins(down, down')
        BY <2>3, <3>1, <1>q, Thinned
      <3> QED
        BY <2>1, <2>2, <3>2 DEF Rests
    <2>4. CASE /\ IsGroup(Head(up).key) /\ down' = Append(down, Head(up))
               /\ Head(up).key \in {KeyOf(g) : g \in Owned(session)}
      <3>1. PICK g \in DOMAIN owners : Head(up).key = KeyOf(g)
        BY <2>4 DEF Owned
      <3>2. g \in Nat /\ Len(owners) \in Nat /\ g <= Len(owners)
        BY <1>i, LenProperties DEF Streams
      <3>3. KeyOf(g) <= KeyOf(Len(owners))
        BY <3>2, BoundAssumption DEF KeyOf
      <3> QED
        BY <2>1, <2>4, <3>1, <3>3 DEF Returns
    <2> QED
      BY <1>13, <2>3, <2>4 DEF ServeChat, Answers
  <1>14. ASSUME NEW k \in ChatKeys, PeerWrites(k) PROVE Hears(k)
    <2>1. k \in Peers \/ k \in {KeyOf(g) : g \in Owned(session)}
      BY <1>14 DEF PeerWrites
    <2>2. Len(owners) \in Nat /\ DOMAIN owners = 1..Len(owners)
      BY <1>i, LenProperties DEF Streams
    <2>3. ASSUME k \in Peers PROVE k <= KeyOf(Len(owners))
      <3>1. k \in 1..(GroupBase - 1)
        BY <2>3, IdsAssumption
      <3> QED
        BY <2>2, <3>1, BoundAssumption DEF KeyOf
    <2>4. ASSUME NEW g \in 1..Len(owners), k = KeyOf(g) PROVE k <= KeyOf(Len(owners))
      BY <2>2, <2>4, BoundAssumption DEF KeyOf
    <2>5. k <= KeyOf(Len(owners))
      BY <2>1, <2>2, <2>3, <2>4 DEF Owned
    <2> QED
      BY <1>14, <2>5 DEF PeerWrites, Answers, Hears, windowVars
  <1>15. CASE ServerCloses \/ ServerRestarts
    BY <1>15, <1>s DEF ServerCloses, ServerRestarts, Rests, windowVars, historyVars
  <1>16. CASE UNCHANGED vars
    BY <1>16, <1>u DEF vars, windowVars, serverVars, historyVars
  <1> QED
    BY <1>1, <1>2, <1>3, <1>4, <1>5, <1>6, <1>7, <1>8, <1>9, <1>10, <1>11, <1>12, <1>13,
       <1>14, <1>15, <1>16
       DEF Next, User, Network, ReadyRead, Server, SelectUser, SelectGroup

-----------------------------------------------------------------------------
(* Each kind keeps every message in its chat, and once.                    *)

LEMMA ThinCarried ==
  ASSUME NEW S, NEW s \in Seq(S), NEW t \in Seq(S), NEW l, Thins(s, t)
  PROVE  /\ Carried(s, l) => Carried(t, l)
         /\ \A n : Carries(t, n) => Carries(s, n)
         /\ \A i \in DOMAIN t : t[i].op = "chat" => \E j \in DOMAIN s : s[j] = t[i]
  <1>1. PICK d \in Nat : \A i \in DOMAIN t : t[i].op \in {"chat", "created"} =>
                            i + d \in DOMAIN s /\ t[i] = s[i + d]
    BY DEF Thins
  <1>2. \A i, j \in DOMAIN t : i + d = j + d => i = j
    BY LenProperties
  <1> QED
    BY <1>1, <1>2 DEF Carried, Carries

LEMMA MoreCarried ==
  ASSUME NEW S, NEW s \in Seq(S), NEW p \in S, NEW l, p.op = "chat",
         Carried(s, l), p.id \in DOMAIN l, l[p.id].key = p.key, ~Carries(s, p.id)
  PROVE  /\ Carried(Append(s, p), l)
         /\ \A n : Carries(Append(s, p), n) => Carries(s, n) \/ n = p.id
  <1>1. \A i \in DOMAIN Append(s, p) :
          \/ i \in DOMAIN s /\ Append(s, p)[i] = s[i]
          \/ i = Len(s) + 1 /\ Append(s, p)[i] = p
    BY Appended
  <1> QED
    BY <1>1 DEF Carried, Carries

\* The log grows: nothing that it says changes.
LEMMA LogGrows ==
  ASSUME NEW S, NEW l \in Seq(S), NEW e \in S
  PROVE  /\ Append(l, e)[Len(l) + 1] = e /\ Len(l) + 1 \in DOMAIN Append(l, e)
         /\ Len(l) + 1 \notin DOMAIN l /\ Len(l) + 1 \in Nat /\ Len(l) + 1 # 0
         /\ \A n \in DOMAIN l : n \in DOMAIN Append(l, e) /\ Append(l, e)[n] = l[n]
         /\ \A n \in DOMAIN Append(l, e) : n \in DOMAIN l \/ n = Len(l) + 1
         /\ \A s : Carried(s, l) => Carried(s, Append(l, e))
         /\ \A h, k : Filed(h, k, l) => Filed(h, k, Append(l, e))
  <1>1. /\ Len(l) \in Nat /\ DOMAIN l = 1..Len(l)
        /\ DOMAIN Append(l, e) = 1..(Len(l) + 1)
        /\ Append(l, e)[Len(l) + 1] = e
        /\ \A n \in 1..Len(l) : Append(l, e)[n] = l[n]
    BY AppendProperties, LenProperties
  <1>2. /\ Append(l, e)[Len(l) + 1] = e /\ Len(l) + 1 \in DOMAIN Append(l, e)
        /\ Len(l) + 1 \notin DOMAIN l /\ Len(l) + 1 \in Nat /\ Len(l) + 1 # 0
        /\ \A n \in DOMAIN l : n \in DOMAIN Append(l, e) /\ Append(l, e)[n] = l[n]
        /\ \A n \in DOMAIN Append(l, e) : n \in DOMAIN l \/ n = Len(l) + 1
    BY <1>1
  <1>3. \A s : Carried(s, l) => Carried(s, Append(l, e))
    BY <1>2 DEF Carried
  <1>4. \A h, k : Filed(h, k, l) => Filed(h, k, Append(l, e))
    BY <1>2 DEF Filed
  <1> QED
    BY <1>2, <1>3, <1>4

\* Where message m of chat k goes.
LEMMA HistoryGrows ==
  ASSUME Chats, NEW k \in ChatKeys, NEW m \in Messages, FiledAs(k, m)
  PROVE  /\ histories'[k] = Append(histories[k], m)
         /\ \A c \in ChatKeys \ {k} : histories'[c] = histories[c]
         /\ \A c \in ChatKeys : \A i \in DOMAIN histories'[c] :
              \/ i \in DOMAIN histories[c] /\ histories'[c][i] = histories[c][i]
              \/ c = k /\ i = Len(histories[k]) + 1 /\ histories'[c][i] = m
         /\ \A n : Kept(n)' => Kept(n) \/ (~m.mine /\ n = m.id)
  <1>1. histories \in [ChatKeys -> Seq(Messages)]
    BY DEF Chats
  <1>2. /\ histories'[k] = Append(histories[k], m)
        /\ \A c \in ChatKeys \ {k} : histories'[c] = histories[c]
    BY <1>1 DEF FiledAs
  <1>3. \A i \in DOMAIN Append(histories[k], m) :
          \/ i \in DOMAIN histories[k] /\ Append(histories[k], m)[i] = histories[k][i]
          \/ i = Len(histories[k]) + 1 /\ Append(histories[k], m)[i] = m
    BY <1>1, Appended
  <1>4. \A c \in ChatKeys : \A i \in DOMAIN histories'[c] :
          \/ i \in DOMAIN histories[c] /\ histories'[c][i] = histories[c][i]
          \/ c = k /\ i = Len(histories[k]) + 1 /\ histories'[c][i] = m
    BY <1>2, <1>3
  <1>5. \A n : Kept(n)' => Kept(n) \/ (~m.mine /\ n = m.id)
    BY <1>4 DEF Kept
  <1> QED
    BY <1>2, <1>4, <1>5

\* A message that is not in the history as it is filed now.
LEMMA FiledGrows ==
  ASSUME NEW k, NEW h \in Seq(Messages), NEW l, Filed(h, k, l), NEW m \in Messages,
         m.id \in DOMAIN l, l[m.id].key = k, m.mine \/ ~l[m.id].mine \/ IsGroup(k),
         m.id # 0, \A i \in DOMAIN h : h[i].id = m.id => h[i].mine # m.mine
  PROVE  Filed(Append(h, m), k, l)
  <1>1. \A i \in DOMAIN Append(h, m) :
          \/ i \in DOMAIN h /\ Append(h, m)[i] = h[i]
          \/ i = Len(h) + 1 /\ Append(h, m)[i] = m
    BY Appended
  <1> QED
    BY <1>1 DEF Filed

LEMMA BlankFiled ==
  ASSUME NEW k \in {0, KeyOf(0)}, NEW h \in Seq(Messages), NEW l, Filed(h, k, l)
  PROVE  Filed(Append(h, Blank), k, l)
  <1>1. Blank \in Messages /\ Blank.id = 0
    BY DEF Blank, Messages
  <1>2. \A i \in DOMAIN Append(h, Blank) :
          \/ i \in DOMAIN h /\ Append(h, Blank)[i] = h[i]
          \/ i = Len(h) + 1 /\ Append(h, Blank)[i] = Blank
    BY <1>1, Appended
  <1> QED
    BY <1>1, <1>2 DEF Filed

\* The head of what is carried is not behind it as well.
LEMMA HeadGone ==
  ASSUME NEW S, NEW s \in Seq(S), s # <<>>, Head(s).op = "chat", NEW l, Carried(s, l)
  PROVE  /\ Carries(s, Head(s).id) /\ ~Carries(Tail(s), Head(s).id)
         /\ Head(s).id \in DOMAIN l /\ l[Head(s).id].key = Head(s).key
  <1>1. /\ 1 \in DOMAIN s /\ Head(s) = s[1]
        /\ \A i \in DOMAIN Tail(s) : i + 1 \in DOMAIN s /\ i + 1 # 1 /\ Tail(s)[i] = s[i + 1]
    BY Taken
  <1> QED
    BY <1>1 DEF Carried, Carries

LEMMA FilingRests == Inv /\ Filing /\ Rests /\ Streams' => Filing'
  <1> SUFFICES ASSUME Inv, Filing, Rests, Streams' PROVE Filing'
    OBVIOUS
  <1>i. Streams /\ Chats
    BY DEF Inv
  <1>1. /\ up \in Seq(Requests) /\ up' \in Seq(Requests)
        /\ down \in Seq(Replies) /\ down' \in Seq(Replies)
    BY <1>i DEF Streams
  <1>2. /\ log' = log /\ Thins(up, up') /\ Thins(down, down')
        /\ \/ UNCHANGED histories
           \/ \E k \in {0, KeyOf(0)} : FiledAs(k, Blank)
    BY DEF Rests
  <1>3. /\ Carried(up', log) /\ \A n : Carries(up', n) => Carries(up, n)
    BY <1>1, <1>2, ThinCarried DEF Filing
  <1>4. /\ Carried(down', log) /\ \A n : Carries(down', n) => Carries(down, n)
        /\ \A i \in DOMAIN down' : down'[i].op = "chat" => \E j \in DOMAIN down : down[j] = down'[i]
    BY <1>1, <1>2, ThinCarried DEF Filing
  <1>5. /\ \A k \in ChatKeys : Filed(histories'[k], k, log)
        /\ \A n \in DOMAIN log : Kept(n)' => Kept(n)
    <2>1. CASE UNCHANGED histories
      BY <2>1 DEF Filing, Kept
    <2>2. ASSUME NEW k \in {0, KeyOf(0)}, FiledAs(k, Blank)
          PROVE  /\ \A c \in ChatKeys : Filed(histories'[c], c, log)
                 /\ \A n \in DOMAIN log : Kept(n)' => Kept(n)
      <3>1. k \in ChatKeys /\ Blank \in Messages /\ Blank.id = 0
        BY BoundAssumption DEF ChatKeys, Blank, Messages
      <3>2. /\ histories'[k] = Append(histories[k], Blank)
            /\ \A c \in ChatKeys \ {k} : histories'[c] = histories[c]
            /\ \A n : Kept(n)' => Kept(n) \/ n = 0
        BY <3>1, <2>2, <1>i, HistoryGrows
      <3>3. Filed(Append(histories[k], Blank), k, log)
        <4>1. histories[k] \in Seq(Messages) /\ Filed(histories[k], k, log)
          BY <3>1, <1>i DEF Chats, Filing
        <4> QED
          BY <4>1, BlankFiled
      <3>4. 0 \notin DOMAIN log
        BY <1>i, LenProperties DEF Streams
      <3> QED
        BY <3>2, <3>3, <3>4 DEF Filing
    <2> QED
      BY <1>2, <2>1, <2>2
  <1> QED
    BY <1>2, <1>3, <1>4, <1>5 DEF Filing

LEMMA FilingRenews == Inv /\ Filing /\ Renews => Filing'
  <1> SUFFICES ASSUME Inv, Filing, Renews PROVE Filing'
    OBVIOUS
  <1>i. down \in Seq(Replies) /\ histories \in [ChatKeys -> Seq(Messages)]
    BY DEF Inv, Streams, Chats
  <1>1. /\ down # <<>> /\ down' = Tail(down) /\ log' = log /\ up' = up
        /\ \E k : histories' = [histories EXCEPT ![k] = <<>>]
    BY DEF Renews
  <1>2. Thins(down, down') /\ down' \in Seq(Replies)
    BY <1>i, <1>1, Thinned, Taken
  <1>3. /\ Carried(down', log) /\ \A n : Carries(down', n) => Carries(down, n)
        /\ \A i \in DOMAIN down' : down'[i].op = "chat" => \E j \in DOMAIN down : down[j] = down'[i]
    BY <1>i, <1>2, ThinCarried DEF Filing
  <1>4. \A k \in ChatKeys : histories'[k] = histories[k] \/ histories'[k] = <<>>
    BY <1>i, <1>1
  <1>5. \A k : Filed(<<>>, k, log)
    BY None DEF Filed
  <1>6. \A n : Kept(n)' => Kept(n)
    BY <1>4, None DEF Kept
  <1> QED
    BY <1>1, <1>3, <1>4, <1>5, <1>6 DEF Filing

LEMMA FilingFounds == Inv /\ Filing /\ Founds /\ Streams' => Filing'
  <1> SUFFICES ASSUME Inv, Filing, Founds, Streams' PROVE Filing'
    OBVIOUS
  <1>1. /\ up \in Seq(Requests) /\ up' \in Seq(Requests)
        /\ down \in Seq(Replies) /\ Len(owners) \in Nat /\ life \in Nat
    BY LenProperties DEF Inv, Streams
  <1>2. /\ Thins(up, up') /\ log' = log /\ histories' = histories
        /\ down' = Append(down, [op |-> "created", group |-> Len(owners) + 1, life |-> life])
    BY DEF Founds
  <1>3. /\ Carried(up', log) /\ \A n : Carries(up', n) => Carries(up, n)
    BY <1>1, <1>2, ThinCarried DEF Filing
  <1>4. \A i \in DOMAIN down' : down'[i].op = "chat" => i \in DOMAIN down /\ down'[i] = down[i]
    <2> DEFINE p == [op |-> "created", group |-> Len(owners) + 1, life |-> life]
    <2>1. p \in Replies /\ p.op # "chat" /\ down' = Append(down, p)
      BY <1>1, <1>2 DEF Replies
    <2> HIDE DEF p
    <2> QED
      BY <1>1, <2>1, Appended
  <1>5. Carried(down', log) /\ \A n : Carries(down', n) => Carries(down, n)
    BY <1>4 DEF Filing, Carried, Carries
  <1>6. \A n : Kept(n)' <=> Kept(n)
    BY <1>2 DEF Kept
  <1> QED
    BY <1>2, <1>3, <1>4, <1>5, <1>6 DEF Filing

LEMMA FilingWrites ==
  ASSUME Inv, Filing, NEW k \in ChatKeys, Writes(k)
  PROVE  Filing'
  <1>i. Streams /\ Chats
    BY DEF Inv
  <1> DEFINE S == [key : ChatKeys, mine : BOOLEAN, life : Nat]
             e == [key |-> k, mine |-> TRUE, life |-> life]
  <1>1. log \in Seq(S) /\ e \in S /\ up \in Seq(Requests) /\ down \in Seq(Replies)
    BY <1>i DEF Streams
  <1>2. e.key = k /\ e.mine = TRUE /\ log' = Append(log, e)
    BY DEF Writes
  <1>3. PICK n : n = Len(log) + 1
    OBVIOUS
  <1> HIDE DEF S, e
  <1>4. /\ log'[n] = e /\ n \in DOMAIN log' /\ n \notin DOMAIN log /\ n \in Nat /\ n # 0
        /\ \A j \in DOMAIN log : j \in DOMAIN log' /\ log'[j] = log[j]
        /\ \A j \in DOMAIN log' : j \in DOMAIN log \/ j = n
        /\ \A s : Carried(s, log) => Carried(s, log')
        /\ \A h, c : Filed(h, c, log) => Filed(h, c, log')
    BY <1>1, <1>2, <1>3, LogGrows
  <1>5. ~Carries(up, n) /\ ~Carries(down, n) /\ ~Kept(n)
    BY <1>4 DEF Filing, Carried, Carries, Filed, Kept
  <1> DEFINE p == [op |-> "chat", key |-> k, id |-> n]
             m == [id |-> n, mine |-> TRUE]
  <1>6. p \in Requests /\ p.op = "chat" /\ p.id = n /\ p.key = k
    BY <1>4 DEF Requests
  <1>7. m \in Messages /\ m.id = n /\ m.mine = TRUE
    BY <1>4 DEF Messages
  <1>8. /\ up' = up \/ up' = Append(up, p)
        /\ FiledAs(k, m) /\ down' = down
    BY <1>3 DEF Writes
  <1> HIDE DEF p, m
  <1>9. Carried(up', log') /\ \A j : Carries(up', j) => Carries(up, j) \/ j = n
    <2>1. Carried(up, log')
      BY <1>4 DEF Filing
    <2>2. /\ Carried(Append(up, p), log')
          /\ \A j : Carries(Append(up, p), j) => Carries(up, j) \/ j = n
      <3>1. p.id \in DOMAIN log' /\ log'[p.id].key = p.key /\ ~Carries(up, p.id)
        BY <1>2, <1>4, <1>5, <1>6
      <3>2. /\ Carried(Append(up, p), log')
            /\ \A j : Carries(Append(up, p), j) => Carries(up, j) \/ j = p.id
        BY <1>1, <1>6, <2>1, <3>1, MoreCarried
      <3> QED
        BY <3>2, <1>6
    <2> QED
      BY <2>1, <2>2, <1>8
  <1>10. /\ \A j : Kept(j)' => Kept(j)
         /\ histories'[k] = Append(histories[k], m)
         /\ \A c \in ChatKeys \ {k} : histories'[c] = histories[c]
    BY <1>7, <1>8, <1>i, HistoryGrows
  <1>11. \A c \in ChatKeys : Filed(histories'[c], c, log')
    <2>1. histories[k] \in Seq(Messages) /\ Filed(histories[k], k, log')
      BY <1>4, <1>i DEF Chats, Filing
    <2>2. \A i \in DOMAIN histories[k] : histories[k][i].id # n
      BY <1>4 DEF Filing, Filed
    <2>3. Filed(Append(histories[k], m), k, log')
      BY <2>1, <2>2, <1>2, <1>4, <1>7, FiledGrows
    <2> QED
      BY <2>3, <1>4, <1>10 DEF Filing
  <1>12. Carried(down', log') /\ \A j : Carries(down', j) <=> Carries(down, j)
    BY <1>4, <1>8 DEF Filing
  <1>13. \A i \in DOMAIN down' :
            down'[i].op = "chat" => ~log'[down'[i].id].mine \/ IsGroup(down'[i].key)
    BY <1>4, <1>8 DEF Filing, Carried
  <1>14. \A j \in DOMAIN log' : /\ ~(Carries(up', j) /\ Carries(down', j))
                                /\ Kept(j)' => ~Carries(up', j) /\ ~Carries(down', j)
    BY <1>4, <1>5, <1>9, <1>10, <1>12 DEF Filing
  <1> QED
    BY <1>9, <1>11, <1>12, <1>13, <1>14 DEF Filing

LEMMA FilingHears ==
  ASSUME Inv, Filing, NEW k \in ChatKeys, Hears(k)
  PROVE  Filing'
  <1>i. Streams /\ Chats
    BY DEF Inv
  <1> DEFINE S == [key : ChatKeys, mine : BOOLEAN, life : Nat]
             e == [key |-> k, mine |-> FALSE, life |-> life]
  <1>1. log \in Seq(S) /\ e \in S /\ up \in Seq(Requests) /\ down \in Seq(Replies)
    BY <1>i DEF Streams
  <1>2. e.key = k /\ e.mine = FALSE /\ log' = Append(log, e)
    BY DEF Hears
  <1>3. PICK n : n = Len(log) + 1
    OBVIOUS
  <1> HIDE DEF S, e
  <1>4. /\ log'[n] = e /\ n \in DOMAIN log' /\ n \notin DOMAIN log /\ n \in Nat /\ n # 0
        /\ \A j \in DOMAIN log : j \in DOMAIN log' /\ log'[j] = log[j]
        /\ \A j \in DOMAIN log' : j \in DOMAIN log \/ j = n
        /\ \A s : Carried(s, log) => Carried(s, log')
        /\ \A h, c : Filed(h, c, log) => Filed(h, c, log')
    BY <1>1, <1>2, <1>3, LogGrows
  <1>5. ~Carries(up, n) /\ ~Carries(down, n) /\ ~Kept(n)
    BY <1>4 DEF Filing, Carried, Carries, Filed, Kept
  <1> DEFINE p == [op |-> "chat", key |-> k, id |-> n]
  <1>6. p \in Replies /\ p.op = "chat" /\ p.id = n /\ p.key = k
    BY <1>4 DEF Replies
  <1>7. down' = Append(down, p) /\ up' = up /\ histories' = histories
    BY <1>3 DEF Hears
  <1> HIDE DEF p
  <1>8. Carried(down', log') /\ \A j : Carries(down', j) => Carries(down, j) \/ j = n
    <2>1. Carried(down, log')
      BY <1>4 DEF Filing
    <2>2. /\ Carried(Append(down, p), log')
          /\ \A j : Carries(Append(down, p), j) => Carries(down, j) \/ j = n
      <3>1. p.id \in DOMAIN log' /\ log'[p.id].key = p.key /\ ~Carries(down, p.id)
        BY <1>2, <1>4, <1>5, <1>6
      <3> QED
        BY <1>1, <1>6, <2>1, <3>1, MoreCarried
    <2> QED
      BY <2>2, <1>7
  <1>9. \A i \in DOMAIN down' :
            down'[i].op = "chat" => ~log'[down'[i].id].mine \/ IsGroup(down'[i].key)
    <2>1. \A i \in DOMAIN down' : (i \in DOMAIN down /\ down'[i] = down[i]) \/ down'[i] = p
      BY <1>1, <1>6, <1>7, Appended
    <2>2. \A i \in DOMAIN down : down[i].op = "chat" =>
             ~log'[down[i].id].mine \/ IsGroup(down[i].key)
      BY <1>4 DEF Filing, Carried
    <2> QED
      BY <2>1, <2>2, <1>2, <1>4, <1>6
  <1>10. Carried(up', log') /\ (\A c \in ChatKeys : Filed(histories'[c], c, log'))
    BY <1>4, <1>7 DEF Filing
  <1>11. /\ \A j : Kept(j)' <=> Kept(j)
         /\ \A j : Carries(up', j) <=> Carries(up, j)
    BY <1>7 DEF Kept
  <1>12. \A j \in DOMAIN log' : /\ ~(Carries(up', j) /\ Carries(down', j))
                                /\ Kept(j)' => ~Carries(up', j) /\ ~Carries(down', j)
    BY <1>4, <1>5, <1>8, <1>11 DEF Filing
  <1> QED
    BY <1>8, <1>9, <1>10, <1>12 DEF Filing

LEMMA FilingReturns == Inv /\ Filing /\ Returns => Filing'
  <1> SUFFICES ASSUME Inv, Filing, Returns PROVE Filing'
    OBVIOUS
  <1>1. up \in Seq(Requests) /\ down \in Seq(Replies)
    BY DEF Inv, Streams
  <1>2. /\ up # <<>> /\ Head(up).op = "chat" /\ up' = Tail(up)
        /\ down' = Append(down, Head(up)) /\ IsGroup(Head(up).key)
        /\ log' = log /\ histories' = histories
    BY DEF Returns
  <1>3. /\ Carries(up, Head(up).id) /\ ~Carries(Tail(up), Head(up).id)
        /\ Head(up).id \in DOMAIN log /\ log[Head(up).id].key = Head(up).key
    BY <1>1, <1>2, HeadGone DEF Filing
  <1>4. Head(up) \in Replies
    <2>1. Head(up) \in Requests
      BY <1>1, <1>2, Taken
    <2> QED
      BY <1>2, <2>1 DEF Requests, Replies
  <1>5. /\ Carried(up', log) /\ \A n : Carries(up', n) => Carries(up, n)
    <2>1. Thins(up, up') /\ up' \in Seq(Requests)
      BY <1>1, <1>2, Thinned, Taken
    <2> QED
      BY <1>1, <2>1, ThinCarried DEF Filing
  <1>6. ~Carries(down, Head(up).id) /\ ~Kept(Head(up).id)
    BY <1>3 DEF Filing
  <1>7. /\ Carried(down', log)
        /\ \A n : Carries(down', n) => Carries(down, n) \/ n = Head(up).id
    BY <1>1, <1>2, <1>3, <1>4, <1>6, MoreCarried DEF Filing
  <1>8. \A i \in DOMAIN down' :
            down'[i].op = "chat" => ~log[down'[i].id].mine \/ IsGroup(down'[i].key)
    <2>1. \A i \in DOMAIN down' :
             (i \in DOMAIN down /\ down'[i] = down[i]) \/ down'[i] = Head(up)
      BY <1>1, <1>2, <1>4, Appended
    <2> QED
      BY <2>1, <1>2 DEF Filing
  <1>9. \A n : Kept(n)' <=> Kept(n)
    BY <1>2 DEF Kept
  <1>10. \A n \in DOMAIN log : /\ ~(Carries(up', n) /\ Carries(down', n))
                               /\ Kept(n)' => ~Carries(up', n) /\ ~Carries(down', n)
    BY <1>2, <1>3, <1>5, <1>6, <1>7, <1>9 DEF Filing
  <1> QED
    BY <1>2, <1>5, <1>7, <1>8, <1>10 DEF Filing

LEMMA FilingReceives == Inv /\ Filing /\ Receives => Filing'
  <1> SUFFICES ASSUME Inv, Filing, Receives PROVE Filing'
    OBVIOUS
  <1>i. Streams /\ Chats
    BY DEF Inv
  <1>1. up \in Seq(Requests) /\ down \in Seq(Replies)
    BY <1>i DEF Streams
  <1>2. PICK n, k : n = Head(down).id /\ k = Head(down).key
    OBVIOUS
  <1> DEFINE m == [id |-> n, mine |-> FALSE]
  <1>3. /\ down # <<>> /\ Head(down).op = "chat" /\ down' = Tail(down)
        /\ FiledAs(k, m) /\ log' = log /\ up' = up
    BY <1>2 DEF Receives
  <1>4. /\ Carries(down, n) /\ ~Carries(down', n) /\ n \in DOMAIN log /\ log[n].key = k
    BY <1>1, <1>2, <1>3, HeadGone DEF Filing
  <1>5. k \in ChatKeys /\ n \in Nat /\ n # 0 /\ (~log[n].mine \/ IsGroup(k))
    <2>1. Head(down) \in Replies /\ 1 \in DOMAIN down /\ Head(down) = down[1]
      BY <1>1, <1>3, Taken
    <2>2. n # 0
      BY <1>4, <1>i, LenProperties DEF Streams
    <2> QED
      BY <1>2, <1>3, <2>1, <2>2, ReplyFields DEF Filing
  <1>6. m \in Messages /\ m.id = n /\ m.mine = FALSE
    BY <1>5 DEF Messages
  <1> HIDE DEF m
  <1>7. /\ histories'[k] = Append(histories[k], m)
        /\ \A c \in ChatKeys \ {k} : histories'[c] = histories[c]
        /\ \A j : Kept(j)' => Kept(j) \/ j = n
    BY <1>3, <1>5, <1>6, <1>i, HistoryGrows
  <1>8. ~Kept(n) /\ ~Carries(up, n)
    BY <1>4 DEF Filing
  <1>9. \A c \in ChatKeys : Filed(histories'[c], c, log)
    <2>1. histories[k] \in Seq(Messages) /\ Filed(histories[k], k, log)
      BY <1>5, <1>i DEF Chats, Filing
    <2>2. \A i \in DOMAIN histories[k] : histories[k][i].id = n => histories[k][i].mine # m.mine
      BY <1>5, <1>6, <1>8 DEF Kept
    <2>3. Filed(Append(histories[k], m), k, log)
      BY <2>1, <2>2, <1>4, <1>5, <1>6, FiledGrows
    <2> QED
      BY <2>3, <1>7 DEF Filing
  <1>10. /\ Carried(down', log) /\ \A j : Carries(down', j) => Carries(down, j)
         /\ \A i \in DOMAIN down' : down'[i].op = "chat" => \E j \in DOMAIN down : down[j] = down'[i]
    <2>1. Thins(down, down') /\ down' \in Seq(Replies)
      BY <1>1, <1>3, Thinned, Taken
    <2> QED
      BY <1>1, <2>1, ThinCarried DEF Filing
  <1>11. \A j \in DOMAIN log : /\ ~(Carries(up', j) /\ Carries(down', j))
                               /\ Kept(j)' => ~Carries(up', j) /\ ~Carries(down', j)
    BY <1>3, <1>4, <1>7, <1>8, <1>10 DEF Filing
  <1>12. \A i \in DOMAIN down' :
            down'[i].op = "chat" => ~log[down'[i].id].mine \/ IsGroup(down'[i].key)
    BY <1>10 DEF Filing
  <1> QED
    BY <1>3, <1>9, <1>10, <1>11, <1>12 DEF Filing

LEMMA FilingStep == Inv /\ Filing /\ [Next]_vars => Filing'
  BY MessageKinds, StreamsStep, FilingRests, FilingRenews, FilingFounds, FilingWrites,
     FilingHears, FilingReturns, FilingReceives

LEMMA InitFiling == Init => Filing
  <1> SUFFICES ASSUME Init PROVE Filing
    OBVIOUS
  <1>1. /\ up = <<>> /\ down = <<>> /\ log = <<>> /\ DOMAIN <<>> = {}
        /\ \A k \in ChatKeys : histories[k] = <<>>
    BY None DEF Init
  <1>2. \A s : s = <<>> => \A l : Carried(s, l)
    BY None DEF Carried
  <1>3. \A h : h = <<>> => \A k, l : Filed(h, k, l)
    BY None DEF Filed
  <1> QED
    BY <1>1, <1>2, <1>3 DEF Filing

\* Every message is in the chat it belongs to, at most once as received and at
\* most once as written here, over changes of account, connection and process
\* (main_window.cpp:668-747, 990-1019).
THEOREM MessagesFiledOnce == Spec => []FiledOnce
  <1>1. Inv /\ Filing => FiledOnce
    BY DEF Filing, Filed, FiledOnce
  <1> QED
    BY InitFiling, FilingStep, Invariance, <1>1, PTL DEF Spec

-----------------------------------------------------------------------------
(* Each kind keeps the processes of the server apart.                      *)

\* The key of a group is no user's, and grows with its number.
LEMMA GroupKeys ==
  /\ \A g \in Nat \ {0} : KeyOf(g) \notin {0, KeyOf(0)}
  /\ \A g \in Nat : IsGroup(KeyOf(g)) /\ KeyOf(g) < KeyOf(g + 1)
  /\ KeyOf(0) \in Int /\ \A k \in ChatKeys : k \in Int
  BY IdsAssumption, BoundAssumption DEF KeyOf, IsGroup, ChatKeys

\* What the invariants say of the numbers.
LEMMA Numbers ==
  ASSUME Inv, Filing
  PROVE  /\ life \in Nat /\ Len(owners) \in Nat /\ down \in Seq(Replies)
         /\ up \in Seq(Requests) /\ DOMAIN down \subseteq Int
         /\ histories \in [ChatKeys -> Seq(Messages)]
         /\ \A n \in DOMAIN log : log[n].life \in Nat
         /\ \A i \in DOMAIN down : down[i].op = "chat" => down[i].id \in DOMAIN log
         /\ \A i \in DOMAIN down : down[i].op = "created" =>
               down[i].group \in Nat /\ down[i].life \in Nat
         /\ \A k \in ChatKeys : \A i \in DOMAIN histories[k] :
               /\ histories[k][i].id # 0 => histories[k][i].id \in DOMAIN log
               /\ \A g \in Nat \ {0} : k = KeyOf(g) => histories[k][i].id # 0
  <1>1. /\ life \in Nat /\ Len(owners) \in Nat /\ down \in Seq(Replies)
        /\ up \in Seq(Requests) /\ DOMAIN down \subseteq Int
        /\ histories \in [ChatKeys -> Seq(Messages)]
    BY LenProperties DEF Inv, Streams, Chats
  <1>2. \A n \in DOMAIN log : log[n].life \in Nat
    <2> DEFINE S == [key : ChatKeys, mine : BOOLEAN, life : Nat]
    <2>1. log \in Seq(S) /\ \A e \in S : e.life \in Nat
      BY DEF Inv, Streams
    <2> HIDE DEF S
    <2>2. \A n \in DOMAIN log : log[n] \in S
      BY <2>1, LenProperties
    <2> QED
      BY <2>1, <2>2
  <1>3. \A i \in DOMAIN down : down[i].op = "created" =>
               down[i].group \in Nat /\ down[i].life \in Nat
    <2>1. \A i \in DOMAIN down : down[i] \in Replies
      BY <1>1, LenProperties
    <2> QED
      BY <2>1 DEF Replies
  <1>4. \A k \in ChatKeys : \A i \in DOMAIN histories[k] :
               /\ histories[k][i].id # 0 => histories[k][i].id \in DOMAIN log
               /\ histories[k][i].id = 0 => k \in {0, KeyOf(0)}
    BY DEF Filing, Filed
  <1>5. \A i \in DOMAIN down : down[i].op = "chat" => down[i].id \in DOMAIN log
    BY DEF Filing, Carried
  <1> QED
    BY <1>1, <1>2, <1>3, <1>4, <1>5, GroupKeys

\* What is left of down, in its order.
LEMMA LivesThin ==
  ASSUME Inv, Filing, Lives, Thins(down, down'), down' \in Seq(Replies), log' = log,
         UNCHANGED <<owners, life>> \/ (owners' = <<>> /\ life' = life + 1),
         \A c \in ChatKeys : \A i \in DOMAIN histories'[c] :
            \/ i \in DOMAIN histories[c] /\ histories'[c][i] = histories[c][i]
            \/ c \in {0, KeyOf(0)} /\ histories'[c][i].id = 0
  PROVE  Lives'
  <1>n. /\ life \in Nat /\ DOMAIN down \subseteq Int /\ DOMAIN down' \subseteq Int
        /\ \A n \in DOMAIN log : log[n].life \in Nat
        /\ \A i \in DOMAIN down : down[i].op = "chat" => down[i].id \in DOMAIN log
        /\ \A i \in DOMAIN down : down[i].op = "created" => down[i].group \in Nat
    BY Numbers, LenProperties
  <1>h. \A k \in ChatKeys : \A i \in DOMAIN histories[k] :
               histories[k][i].id # 0 => histories[k][i].id \in DOMAIN log
    BY Numbers
  <1>1. life' \in Nat /\ life <= life'
    BY <1>n
  <1>2. \A n \in DOMAIN log : /\ log[n].life <= life'
                              /\ log[n].life = life' => life' = life /\ owners' = owners
    <2>1. \A n \in DOMAIN log : log[n].life <= life
      BY DEF Lives
    <2> QED
      BY <2>1, <1>n, <1>1
  <1>3. PICK d \in Nat : \A i \in DOMAIN down' : down'[i].op \in {"chat", "created"} =>
                            i + d \in DOMAIN down /\ down'[i] = down[i + d]
    BY DEF Thins
  <1>4. \A k \in ChatKeys : \A i \in DOMAIN histories'[k] :
           LET m == histories'[k][i]
           IN  m.id # 0 /\ ~m.mine /\ log[m.id].life = life' => k <= KeyOf(Len(owners'))
    <2> SUFFICES ASSUME NEW k \in ChatKeys, NEW i \in DOMAIN histories'[k],
                        NEW m, m = histories'[k][i],
                        m.id # 0, ~m.mine, log[m.id].life = life'
                 PROVE  k <= KeyOf(Len(owners'))
      OBVIOUS
    <2>1. i \in DOMAIN histories[k] /\ m = histories[k][i]
      OBVIOUS
    <2>2. m.id \in DOMAIN log
      BY <2>1, <1>h
    <2> QED
      BY <2>1, <2>2, <1>2 DEF Lives
  <1>5. \A i \in DOMAIN down' : down'[i].op = "chat" /\ log[down'[i].id].life = life'
           => down'[i].key <= KeyOf(Len(owners'))
    <2> SUFFICES ASSUME NEW i \in DOMAIN down', down'[i].op = "chat",
                        log[down'[i].id].life = life'
                 PROVE  down'[i].key <= KeyOf(Len(owners'))
      OBVIOUS
    <2>1. i + d \in DOMAIN down /\ down'[i] = down[i + d]
      BY <1>3
    <2> QED
      BY <2>1, <1>2, <1>n DEF Lives
  <1>6. ASSUME NEW j \in DOMAIN down', down'[j].op = "created"
        PROVE  /\ down'[j].group # 0
               /\ \A k \in ChatKeys : k = KeyOf(down'[j].group) =>
                    \A i \in DOMAIN histories'[k] :
                      ~histories'[k][i].mine => log[histories'[k][i].id].life < down'[j].life
               /\ \A i \in DOMAIN down' : i < j /\ down'[i].op = "chat"
                                              /\ down'[i].key = KeyOf(down'[j].group)
                      => log[down'[i].id].life < down'[j].life
    <2>1. j + d \in DOMAIN down /\ down'[j] = down[j + d]
      BY <1>3, <1>6
    <2>2. down'[j].group \in Nat \ {0}
      BY <2>1, <1>6, <1>n DEF Lives
    <2>3. KeyOf(down'[j].group) \notin {0, KeyOf(0)}
      BY <2>2, GroupKeys
    <2>4. \A i \in DOMAIN down' : i < j => i + d < j + d
      BY <1>n
    <2>5. ASSUME NEW k \in ChatKeys, k = KeyOf(down'[j].group), NEW i \in DOMAIN histories'[k],
                 ~histories'[k][i].mine
          PROVE  log[histories'[k][i].id].life < down'[j].life
      <3>1. i \in DOMAIN histories[k] /\ histories'[k][i] = histories[k][i]
        BY <2>3, <2>5
      <3> QED
        BY <3>1, <2>1, <2>5, <1>6 DEF Lives
    <2>6. ASSUME NEW i \in DOMAIN down', i < j, down'[i].op = "chat",
                 down'[i].key = KeyOf(down'[j].group)
          PROVE  log[down'[i].id].life < down'[j].life
      <3>1. i + d \in DOMAIN down /\ down'[i] = down[i + d] /\ i + d < j + d
        BY <2>4, <2>6, <1>3
      <3> QED
        BY <3>1, <2>1, <2>6, <1>6 DEF Lives
    <2> QED
      BY <2>2, <2>5, <2>6
  <1> QED
    BY <1>2, <1>4, <1>5, <1>6 DEF Lives

LEMMA LivesRests == Inv /\ Filing /\ Lives /\ Rests /\ Streams' => Lives'
  <1> SUFFICES ASSUME Inv, Filing, Lives, Rests, Streams' PROVE Lives'
    OBVIOUS
  <1>1. \A c \in ChatKeys : \A i \in DOMAIN histories'[c] :
            \/ i \in DOMAIN histories[c] /\ histories'[c][i] = histories[c][i]
            \/ c \in {0, KeyOf(0)} /\ histories'[c][i].id = 0
    <2>1. ASSUME NEW k \in {0, KeyOf(0)}, FiledAs(k, Blank)
          PROVE  \A c \in ChatKeys : \A i \in DOMAIN histories'[c] :
                    \/ i \in DOMAIN histories[c] /\ histories'[c][i] = histories[c][i]
                    \/ c = k /\ histories'[c][i].id = 0
      <3>1. k \in ChatKeys /\ Blank \in Messages /\ Blank.id = 0
        BY BoundAssumption DEF ChatKeys, Blank, Messages
      <3> QED
        BY <2>1, <3>1, HistoryGrows DEF Inv
    <2> QED
      BY <2>1 DEF Rests
  <1>2. /\ Thins(down, down') /\ log' = log /\ down' \in Seq(Replies)
        /\ UNCHANGED <<owners, life>> \/ (owners' = <<>> /\ life' = life + 1)
    BY DEF Rests, Streams
  <1> QED
    BY <1>1, <1>2, LivesThin

LEMMA LivesRenews == Inv /\ Filing /\ Lives /\ Renews => Lives'
  <1> SUFFICES ASSUME Inv, Filing, Lives, Renews PROVE Lives'
    OBVIOUS
  <1>1. /\ down \in Seq(Replies) /\ down # <<>> /\ down' = Tail(down)
        /\ UNCHANGED <<log, owners, life>>
    BY Numbers DEF Renews
  <1>2. Thins(down, down') /\ down' \in Seq(Replies)
    BY <1>1, Thinned, Taken
  <1>3. \A c \in ChatKeys : histories'[c] = histories[c] \/ histories'[c] = <<>>
    BY Numbers DEF Renews
  <1>4. \A c \in ChatKeys : \A i \in DOMAIN histories'[c] :
            i \in DOMAIN histories[c] /\ histories'[c][i] = histories[c][i]
    BY <1>3, None
  <1> QED
    BY <1>1, <1>2, <1>4, LivesThin

LEMMA LivesReceives == Inv /\ Filing /\ Lives /\ Receives => Lives'
  <1> SUFFICES ASSUME Inv, Filing, Lives, Receives PROVE Lives'
    OBVIOUS
  <1>1. /\ down \in Seq(Replies) /\ down # <<>> /\ down' = Tail(down)
        /\ UNCHANGED <<log, owners, life>> /\ Head(down).op = "chat"
    BY Numbers DEF Receives
  <1>2. /\ 1 \in DOMAIN down /\ Head(down) = down[1] /\ Head(down) \in Replies
        /\ DOMAIN down' \subseteq Int
        /\ \A i \in DOMAIN down' : i + 1 \in DOMAIN down /\ i + 1 # 1 /\ down'[i] = down[i + 1]
        /\ \A i \in DOMAIN down' : 1 < i + 1
    <2>1. /\ 1 \in DOMAIN down /\ Head(down) = down[1] /\ Head(down) \in Replies
          /\ Tail(down) \in Seq(Replies)
          /\ \A i \in DOMAIN down' : i + 1 \in DOMAIN down /\ i + 1 # 1 /\ down'[i] = down[i + 1]
      BY <1>1, Taken
    <2> QED
      BY <1>1, <2>1, LenProperties
  <1>3. PICK n, k : n = Head(down).id /\ k = Head(down).key
    OBVIOUS
  <1> DEFINE m == [id |-> n, mine |-> FALSE]
  <1>4. n \in Nat /\ k \in ChatKeys /\ m \in Messages /\ m.id = n /\ FiledAs(k, m)
    BY <1>1, <1>2, <1>3, ReplyFields DEF Messages, Receives
  <1> HIDE DEF m
  <1>5. \A c \in ChatKeys : \A i \in DOMAIN histories'[c] :
              \/ i \in DOMAIN histories[c] /\ histories'[c][i] = histories[c][i]
              \/ c = k /\ histories'[c][i] = m
    BY <1>4, HistoryGrows DEF Inv
  <1>6. \A c \in ChatKeys : \A i \in DOMAIN histories'[c] :
           LET x == histories'[c][i]
           IN  x.id # 0 /\ ~x.mine /\ log[x.id].life = life => c <= KeyOf(Len(owners))
    <2>1. log[n].life = life => k <= KeyOf(Len(owners))
      BY <1>1, <1>2, <1>3 DEF Lives
    <2> QED
      BY <2>1, <1>4, <1>5 DEF Lives
  <1>7. ASSUME NEW j \in DOMAIN down', down'[j].op = "created"
        PROVE  /\ down'[j].group # 0
               /\ \A c \in ChatKeys : c = KeyOf(down'[j].group) =>
                    \A i \in DOMAIN histories'[c] :
                      ~histories'[c][i].mine => log[histories'[c][i].id].life < down'[j].life
               /\ \A i \in DOMAIN down' : i < j /\ down'[i].op = "chat"
                                              /\ down'[i].key = KeyOf(down'[j].group)
                      => log[down'[i].id].life < down'[j].life
    <2>1. j + 1 \in DOMAIN down /\ down'[j] = down[j + 1] /\ 1 < j + 1
      BY <1>2
    <2>2. k = KeyOf(down'[j].group) => log[n].life < down'[j].life
      BY <2>1, <1>1, <1>2, <1>3, <1>7 DEF Lives
    <2>3. \A i \in DOMAIN down' : i < j => i + 1 < j + 1
      BY <1>2
    <2>4. \A c \in ChatKeys : c = KeyOf(down'[j].group) =>
            \A i \in DOMAIN histories[c] :
              ~histories[c][i].mine => log[histories[c][i].id].life < down'[j].life
      BY <2>1, <1>7 DEF Lives
    <2>5. \A i \in DOMAIN down' : i < j /\ down'[i].op = "chat"
                                      /\ down'[i].key = KeyOf(down'[j].group)
                      => log[down'[i].id].life < down'[j].life
      BY <2>1, <2>3, <1>2, <1>7 DEF Lives
    <2>6. down'[j].group # 0
      BY <2>1, <1>7 DEF Lives
    <2> QED
      BY <2>2, <2>4, <2>5, <2>6, <1>4, <1>5
  <1>8. \A i \in DOMAIN down' : down'[i].op = "chat" /\ log[down'[i].id].life = life
           => down'[i].key <= KeyOf(Len(owners))
    BY <1>2 DEF Lives
  <1> QED
    BY <1>1, <1>6, <1>7, <1>8 DEF Lives

\* Something is said to a window that is connected: what it is comes last.
LEMMA LastSent ==
  ASSUME NEW S, NEW s \in Seq(S), NEW p \in S
  PROVE  /\ DOMAIN Append(s, p) \subseteq Int
         /\ \A i \in DOMAIN Append(s, p) :
              \/ i \in DOMAIN s /\ Append(s, p)[i] = s[i]
              \/ i = Len(s) + 1 /\ Append(s, p)[i] = p
         /\ \A i, j \in DOMAIN Append(s, p) :
              i < j => i \in DOMAIN s /\ Append(s, p)[i] = s[i]
  <1>1. /\ Append(s, p) \in Seq(S) /\ Len(Append(s, p)) = Len(s) + 1 /\ Len(s) \in Nat
        /\ \A i \in DOMAIN Append(s, p) :
              \/ i \in DOMAIN s /\ Append(s, p)[i] = s[i]
              \/ i = Len(s) + 1 /\ Append(s, p)[i] = p
    BY Appended
  <1>2. DOMAIN Append(s, p) = 1..(Len(s) + 1)
    BY <1>1, LenProperties
  <1>3. \A i, j \in 1..(Len(s) + 1) : i < j => i # Len(s) + 1
    BY <1>1
  <1> QED
    BY <1>1, <1>2, <1>3

LEMMA LivesFounds == Inv /\ Filing /\ Lives /\ Founds => Lives'
  <1> SUFFICES ASSUME Inv, Filing, Lives, Founds PROVE Lives'
    OBVIOUS
  <1>1. /\ life \in Nat /\ Len(owners) \in Nat /\ down \in Seq(Replies)
        /\ \A n \in DOMAIN log : log[n].life \in Nat
    BY Numbers
  <1>2. PICK g \in Nat : g = Len(owners)
    BY <1>1
  <1> DEFINE p == [op |-> "created", group |-> g + 1, life |-> life]
  <1>3. p \in Replies /\ p.op = "created" /\ p.group = g + 1 /\ p.life = life
    BY <1>1 DEF Replies
  <1>4. /\ down' = Append(down, p) /\ UNCHANGED <<log, histories, life>>
        /\ \E x \in Int : owners' = Append(owners, x)
    BY <1>2 DEF Founds
  <1> HIDE DEF p
  <1>5. Len(owners') = g + 1
    <2>1. owners \in Seq(Int)
      BY DEF Inv, Streams
    <2> QED
      BY <2>1, <1>2, <1>4, AppendProperties
  <1>6. KeyOf(g) < KeyOf(g + 1) /\ KeyOf(g) \in Int /\ KeyOf(g + 1) \in Int /\ g + 1 \in Nat \ {0}
    BY BoundAssumption, GroupKeys DEF KeyOf
  <1>7. \A k \in ChatKeys : k \in Int /\ (k <= KeyOf(g) => k <= KeyOf(g + 1) /\ k # KeyOf(g + 1))
    BY <1>6, GroupKeys
  <1>8. \A i \in DOMAIN down : down[i].op = "chat" => down[i].key \in ChatKeys
    <2>1. \A i \in DOMAIN down : down[i] \in Replies
      BY <1>1, LenProperties
    <2> QED
      BY <2>1, ReplyFields
  <1>9. /\ \A i \in DOMAIN down' :
             \/ i \in DOMAIN down /\ down'[i] = down[i]
             \/ i = Len(down) + 1 /\ down'[i] = p
        /\ \A i, j \in DOMAIN down' : i < j => i \in DOMAIN down /\ down'[i] = down[i]
    BY <1>1, <1>3, <1>4, LastSent
  <1>10. \A k \in ChatKeys : \A i \in DOMAIN histories[k] :
           LET m == histories[k][i]
           IN  m.id # 0 /\ ~m.mine /\ log[m.id].life = life => k <= KeyOf(g + 1)
    BY <1>2, <1>7 DEF Lives
  <1>11. \A i \in DOMAIN down' : down'[i].op = "chat" /\ log[down'[i].id].life = life
           => down'[i].key <= KeyOf(g + 1)
    BY <1>2, <1>3, <1>7, <1>8, <1>9 DEF Lives
  <1>12. ASSUME NEW j \in DOMAIN down', down'[j].op = "created"
         PROVE  /\ down'[j].group # 0
                /\ \A k \in ChatKeys : k = KeyOf(down'[j].group) =>
                     \A i \in DOMAIN histories[k] :
                       ~histories[k][i].mine => log[histories[k][i].id].life < down'[j].life
                /\ \A i \in DOMAIN down' : i < j /\ down'[i].op = "chat"
                                               /\ down'[i].key = KeyOf(down'[j].group)
                       => log[down'[i].id].life < down'[j].life
    <2>1. CASE j \in DOMAIN down /\ down'[j] = down[j]
      BY <2>1, <1>9, <1>12 DEF Lives
    <2>2. CASE j = Len(down) + 1 /\ down'[j] = p
      <3>1. down'[j].group = g + 1 /\ down'[j].life = life
        BY <2>2, <1>3
      <3>2. ASSUME NEW k \in ChatKeys, k = KeyOf(g + 1), NEW i \in DOMAIN histories[k],
                   ~histories[k][i].mine
            PROVE  log[histories[k][i].id].life < life
        <4>1. histories[k][i].id # 0 /\ histories[k][i].id \in DOMAIN log
          BY <3>2, <1>6, Numbers
        <4>2. log[histories[k][i].id].life # life
          BY <3>2, <4>1, <1>2, <1>7 DEF Lives
        <4>3. log[histories[k][i].id].life <= life /\ log[histories[k][i].id].life \in Nat
          BY <4>1, <1>1 DEF Lives
        <4> QED
          BY <4>2, <4>3, <1>1
      <3>3. ASSUME NEW i \in DOMAIN down, down[i].op = "chat", down[i].key = KeyOf(g + 1)
            PROVE  log[down[i].id].life < life
        <4>1. down[i].id \in DOMAIN log
          BY <3>3, Numbers
        <4>2. log[down[i].id].life # life
          BY <3>3, <1>2, <1>7, <1>8 DEF Lives
        <4>3. log[down[i].id].life <= life /\ log[down[i].id].life \in Nat
          BY <4>1, <1>1 DEF Lives
        <4> QED
          BY <4>2, <4>3, <1>1
      <3> QED
        BY <3>1, <3>2, <3>3, <1>6, <1>9
    <2> QED
      BY <2>1, <2>2, <1>9
  <1> QED
    BY <1>4, <1>5, <1>10, <1>11, <1>12 DEF Lives

\* One message more on its way down, which is no news of a group.
LEMMA LivesSent ==
  ASSUME Inv, Filing, Lives, UNCHANGED <<owners, life>>,
         NEW p \in Replies, p.op = "chat", p.key <= KeyOf(Len(owners)),
         down' = Append(down, p), histories' = histories,
         \A n \in DOMAIN log : log'[n] = log[n],
         \A n \in DOMAIN log' : n \in DOMAIN log \/ log'[n].life = life
  PROVE  Lives'
  <1>1. /\ life \in Nat /\ down \in Seq(Replies)
        /\ \A i \in DOMAIN down : down[i].op = "chat" => down[i].id \in DOMAIN log
        /\ \A k \in ChatKeys : \A i \in DOMAIN histories[k] :
               histories[k][i].id # 0 => histories[k][i].id \in DOMAIN log
    BY Numbers
  <1>2. /\ \A i \in DOMAIN down' :
             \/ i \in DOMAIN down /\ down'[i] = down[i]
             \/ i = Len(down) + 1 /\ down'[i] = p
        /\ \A i, j \in DOMAIN down' : i < j => i \in DOMAIN down /\ down'[i] = down[i]
    BY <1>1, LastSent
  <1>3. \A n \in DOMAIN log' : log'[n].life <= life
    BY <1>1 DEF Lives
  <1>4. \A k \in ChatKeys : \A i \in DOMAIN histories[k] :
           LET m == histories[k][i]
           IN  m.id # 0 /\ ~m.mine /\ log'[m.id].life = life => k <= KeyOf(Len(owners))
    BY <1>1 DEF Lives
  <1>5. \A i \in DOMAIN down' : down'[i].op = "chat" /\ log'[down'[i].id].life = life
           => down'[i].key <= KeyOf(Len(owners))
    BY <1>1, <1>2 DEF Lives
  <1>6. ASSUME NEW j \in DOMAIN down', down'[j].op = "created"
        PROVE  /\ down'[j].group # 0
               /\ \A k \in ChatKeys : k = KeyOf(down'[j].group) =>
                    \A i \in DOMAIN histories[k] :
                      ~histories[k][i].mine => log'[histories[k][i].id].life < down'[j].life
               /\ \A i \in DOMAIN down' : i < j /\ down'[i].op = "chat"
                                              /\ down'[i].key = KeyOf(down'[j].group)
                      => log'[down'[i].id].life < down'[j].life
    <2>1. j \in DOMAIN down /\ down'[j] = down[j]
      BY <1>2, <1>6
    <2>2. down[j].group \in Nat \ {0}
      BY <2>1, <1>6, Numbers DEF Lives
    <2>3. \A k \in ChatKeys : k = KeyOf(down[j].group) =>
            \A i \in DOMAIN histories[k] : histories[k][i].id \in DOMAIN log
      BY <2>2, Numbers
    <2>4. ASSUME NEW k \in ChatKeys, k = KeyOf(down[j].group), NEW i \in DOMAIN histories[k],
                 ~histories[k][i].mine
          PROVE  log'[histories[k][i].id].life < down[j].life
      <3>1. log[histories[k][i].id].life < down[j].life
        BY <2>1, <2>4, <1>6 DEF Lives
      <3> QED
        BY <3>1, <2>3, <2>4
    <2>5. ASSUME NEW i \in DOMAIN down', i < j, down'[i].op = "chat",
                 down'[i].key = KeyOf(down[j].group)
          PROVE  log'[down'[i].id].life < down[j].life
      <3>1. i \in DOMAIN down /\ down'[i] = down[i]
        BY <2>5, <1>2
      <3>2. log[down[i].id].life < down[j].life
        BY <3>1, <2>1, <2>5, <1>6 DEF Lives
      <3> QED
        BY <3>1, <3>2, <2>5, <1>1
    <2> QED
      BY <2>1, <2>2, <2>4, <2>5
  <1> QED
    BY <1>3, <1>4, <1>5, <1>6 DEF Lives

LEMMA LivesReturns == Inv /\ Filing /\ Lives /\ Returns => Lives'
  <1> SUFFICES ASSUME Inv, Filing, Lives, Returns PROVE Lives'
    OBVIOUS
  <1>1. /\ up # <<>> /\ Head(up).op = "chat" /\ down' = Append(down, Head(up))
        /\ Head(up).key <= KeyOf(Len(owners)) /\ UNCHANGED <<log, histories, owners, life>>
    BY DEF Returns
  <1>2. Head(up) \in Requests
    BY <1>1, Taken, Numbers
  <1>3. Head(up) \in Replies
    BY <1>1, <1>2 DEF Requests, Replies
  <1> QED
    BY <1>1, <1>3, LivesSent

LEMMA LivesHears ==
  ASSUME Inv, Filing, Lives, NEW k \in ChatKeys, Hears(k)
  PROVE  Lives'
  <1> DEFINE S == [key : ChatKeys, mine : BOOLEAN, life : Nat]
             e == [key |-> k, mine |-> FALSE, life |-> life]
             p == [op |-> "chat", key |-> k, id |-> Len(log) + 1]
  <1>1. log \in Seq(S) /\ e \in S /\ e.life = life
    BY Numbers DEF Inv, Streams
  <1>2. log' = Append(log, e) /\ down' = Append(down, p) /\ k <= KeyOf(Len(owners))
        /\ UNCHANGED <<histories, owners, life>>
    BY DEF Hears
  <1>3. p \in Replies /\ p.op = "chat" /\ p.key = k
    BY <1>1, LenProperties DEF Replies
  <1> HIDE DEF S, e, p
  <1>4. /\ \A n \in DOMAIN log : log'[n] = log[n]
        /\ \A n \in DOMAIN log' : n \in DOMAIN log \/ log'[n].life = life
    BY <1>1, <1>2, LogGrows
  <1> QED
    BY <1>2, <1>3, <1>4, LivesSent

LEMMA LivesWrites ==
  ASSUME Inv, Filing, Lives, NEW k \in ChatKeys, Writes(k)
  PROVE  Lives'
  <1> DEFINE S == [key : ChatKeys, mine : BOOLEAN, life : Nat]
             e == [key |-> k, mine |-> TRUE, life |-> life]
             m == [id |-> Len(log) + 1, mine |-> TRUE]
  <1>1. log \in Seq(S) /\ e \in S /\ e.life = life
    BY Numbers DEF Inv, Streams
  <1>2. log' = Append(log, e) /\ FiledAs(k, m) /\ UNCHANGED <<down, owners, life>>
    BY DEF Writes
  <1>3. m \in Messages /\ m.mine
    BY <1>1, LenProperties DEF Messages
  <1> HIDE DEF S, e, m
  <1>4. /\ \A n \in DOMAIN log : log'[n] = log[n]
        /\ \A n \in DOMAIN log' : n \in DOMAIN log \/ log'[n].life = life
    BY <1>1, <1>2, LogGrows
  <1>5. \A c \in ChatKeys : \A i \in DOMAIN histories'[c] :
              \/ i \in DOMAIN histories[c] /\ histories'[c][i] = histories[c][i]
              \/ histories'[c][i].mine
    BY <1>2, <1>3, HistoryGrows DEF Inv
  <1>6. /\ life \in Nat
        /\ \A i \in DOMAIN down : down[i].op = "chat" => down[i].id \in DOMAIN log
        /\ \A c \in ChatKeys : \A i \in DOMAIN histories[c] :
               histories[c][i].id # 0 => histories[c][i].id \in DOMAIN log
    BY Numbers
  <1>7. \A n \in DOMAIN log' : log'[n].life <= life
    BY <1>4, <1>6 DEF Lives
  <1>8. \A c \in ChatKeys : \A i \in DOMAIN histories'[c] :
           LET x == histories'[c][i]
           IN  x.id # 0 /\ ~x.mine /\ log'[x.id].life = life => c <= KeyOf(Len(owners))
    BY <1>4, <1>5, <1>6 DEF Lives
  <1>9. \A i \in DOMAIN down : down[i].op = "chat" /\ log'[down[i].id].life = life
           => down[i].key <= KeyOf(Len(owners))
    BY <1>4, <1>6 DEF Lives
  <1>10. ASSUME NEW j \in DOMAIN down, down[j].op = "created"
         PROVE  /\ down[j].group # 0
                /\ \A c \in ChatKeys : c = KeyOf(down[j].group) =>
                     \A i \in DOMAIN histories'[c] :
                       ~histories'[c][i].mine => log'[histories'[c][i].id].life < down[j].life
                /\ \A i \in DOMAIN down : i < j /\ down[i].op = "chat"
                                               /\ down[i].key = KeyOf(down[j].group)
                       => log'[down[i].id].life < down[j].life
    <2>1. down[j].group \in Nat \ {0}
      BY <1>10, Numbers DEF Lives
    <2>2. \A c \in ChatKeys : c = KeyOf(down[j].group) =>
            \A i \in DOMAIN histories[c] : histories[c][i].id \in DOMAIN log
      BY <2>1, Numbers
    <2>3. ASSUME NEW c \in ChatKeys, c = KeyOf(down[j].group), NEW i \in DOMAIN histories'[c],
                 ~histories'[c][i].mine
          PROVE  log'[histories'[c][i].id].life < down[j].life
      <3>1. i \in DOMAIN histories[c] /\ histories'[c][i] = histories[c][i]
        BY <2>3, <1>5
      <3>2. log[histories[c][i].id].life < down[j].life
        BY <3>1, <2>3, <1>10 DEF Lives
      <3> QED
        BY <3>1, <3>2, <2>2, <2>3, <1>4
    <2>4. ASSUME NEW i \in DOMAIN down, i < j, down[i].op = "chat",
                 down[i].key = KeyOf(down[j].group)
          PROVE  log'[down[i].id].life < down[j].life
      <3>1. log[down[i].id].life < down[j].life
        BY <2>4, <1>10 DEF Lives
      <3> QED
        BY <3>1, <2>4, <1>4, <1>6
    <2> QED
      BY <2>1, <2>3, <2>4
  <1> QED
    BY <1>2, <1>7, <1>8, <1>9, <1>10 DEF Lives

LEMMA LivesStep == Inv /\ Filing /\ Lives /\ [Next]_vars => Lives'
  BY MessageKinds, StreamsStep, LivesRests, LivesRenews, LivesFounds, LivesWrites,
     LivesHears, LivesReturns, LivesReceives

LEMMA InitLives == Init => Lives
  <1> SUFFICES ASSUME Init PROVE Lives
    OBVIOUS
  <1>1. /\ down = <<>> /\ log = <<>> /\ DOMAIN <<>> = {}
        /\ \A k \in ChatKeys : histories[k] = <<>>
    BY None DEF Init
  <1> QED
    BY <1>1 DEF Lives

-----------------------------------------------------------------------------
LEMMA PrefixGrows ==
  ASSUME NEW S, NEW s \in Seq(S)
  PROVE  IsPrefix(s, s) /\ \A e \in S : IsPrefix(s, Append(s, e))
  <1>1. Len(s) \in Nat /\ Len(s) <= Len(s)
    BY LenProperties
  <1>2. IsPrefix(s, s)
    BY <1>1 DEF IsPrefix
  <1>3. ASSUME NEW e \in S PROVE IsPrefix(s, Append(s, e))
    <2>1. PICK t \in Seq(S) : t = Append(s, e)
      BY AppendProperties
    <2>2. PICK n \in Nat : n = Len(s)
      BY <1>1
    <2>3. Len(t) = n + 1 /\ \A i \in 1..n : t[i] = s[i]
      BY <2>1, <2>2, AppendProperties
    <2>4. SubSeq(s, 1, n) = [i \in 1..n |-> s[i]] /\ SubSeq(t, 1, n) = [i \in 1..n |-> t[i]]
      BY <2>2, <2>3
    <2>5. [i \in 1..n |-> s[i]] = [i \in 1..n |-> t[i]]
      BY <2>3
    <2>6. n <= n + 1
      BY <2>2
    <2>7. SubSeq(s, 1, n) = SubSeq(t, 1, n)
      BY <2>4, <2>5
    <2> QED
      BY <2>1, <2>2, <2>3, <2>6, <2>7 DEF IsPrefix
  <1> QED
    BY <1>2, <1>3

\* A history only grows, but for that of a group whose number a new process of
\* the server gives away again: then nothing goes that was received from the
\* present process (main_window.cpp:749-770).
THEOREM ReceivedStays == Spec => NothingVanishes
  <1> DEFINE Stays ==
        \A k \in ChatKeys :
          \/ IsPrefix(histories[k], histories'[k])
          \/ \A i \in DOMAIN histories[k] :
                LET m == histories[k][i] IN
                  IsGroup(k) /\ (m.mine \/ log[m.id].life < Head(down).life)
  <1>1. ASSUME Inv, Filing, Lives, [Next]_vars PROVE Stays
    <2>h. histories \in [ChatKeys -> Seq(Messages)]
      BY <1>1, Numbers
    <2>1. ASSUME UNCHANGED histories PROVE Stays
      BY <2>1, <2>h, PrefixGrows
    <2>2. ASSUME NEW c \in ChatKeys, NEW m \in Messages, FiledAs(c, m) PROVE Stays
      <3>1. \A k \in ChatKeys : histories'[k] = histories[k]
                                 \/ histories'[k] = Append(histories[k], m)
        BY <2>2, <2>h DEF FiledAs
      <3> QED
        BY <3>1, <2>h, PrefixGrows
    <2>3. CASE Rests
      <3>1. 0 \in ChatKeys /\ KeyOf(0) \in ChatKeys /\ Blank \in Messages
        BY BoundAssumption DEF ChatKeys, Blank, Messages
      <3> QED
        BY <2>1, <2>2, <2>3, <3>1 DEF Rests
    <2>4. CASE Founds \/ Returns
      BY <2>1, <2>4 DEF Founds, Returns
    <2>5. ASSUME NEW k \in ChatKeys, Hears(k) PROVE Stays
      BY <2>1, <2>5 DEF Hears
    <2>6. ASSUME NEW k \in ChatKeys, Writes(k) PROVE Stays
      <3>1. [id |-> Len(log) + 1, mine |-> TRUE] \in Messages
        BY <1>1, LenProperties DEF Inv, Streams, Messages
      <3> QED
        BY <2>2, <2>6, <3>1 DEF Writes
    <2>7. CASE Receives
      <3>1. Head(down).key \in ChatKeys /\ [id |-> Head(down).id, mine |-> FALSE] \in Messages
        <4>1. Head(down) \in Replies
          BY <1>1, <2>7, Taken, Numbers DEF Receives
        <4> QED
          BY <2>7, <4>1, ReplyFields DEF Receives, Messages
      <3> QED
        BY <2>2, <2>7, <3>1 DEF Receives
    <2>8. CASE Renews
      <3>1. /\ 1 \in DOMAIN down /\ Head(down) = down[1] /\ Head(down).op = "created"
            /\ histories' = [histories EXCEPT ![KeyOf(Head(down).group)] = <<>>]
        BY <1>1, <2>8, Taken, Numbers DEF Renews
      <3>2. Head(down).group \in Nat
        BY <1>1, <3>1, Numbers
      <3>3. ASSUME NEW k \in ChatKeys, k # KeyOf(Head(down).group)
            PROVE  IsPrefix(histories[k], histories'[k])
        <4>1. histories'[k] = histories[k]
          BY <3>1, <3>3, <2>h
        <4> QED
          BY <4>1, <2>h, PrefixGrows
      <3>4. ASSUME NEW k \in ChatKeys, k = KeyOf(Head(down).group)
            PROVE  \A i \in DOMAIN histories[k] :
                     LET m == histories[k][i] IN
                       IsGroup(k) /\ (m.mine \/ log[m.id].life < Head(down).life)
        BY <1>1, <3>1, <3>2, <3>4, GroupKeys DEF Lives
      <3> QED
        BY <3>3, <3>4
    <2> HIDE DEF Stays
    <2> QED
      BY <1>1, <2>3, <2>4, <2>5, <2>6, <2>7, <2>8, MessageKinds
  <1>2. Spec => []Filing /\ []Lives
    BY InitFiling, FilingStep, InitLives, LivesStep, Invariance, PTL DEF Spec
  <1>3. Inv /\ Filing /\ Lives /\ [Next]_vars => [Stays]_vars
    BY <1>1
  <1> QED
    BY <1>2, <1>3, Invariance, PTL DEF Spec, NothingVanishes

-----------------------------------------------------------------------------
(* Types.  That there are at most MaxGroups groups is because a request to *)
(* create one is counted from the click on; who asks for a group is logged *)
(* in, so an account owns it.                                              *)

CreatesIn(q) == {i \in DOMAIN q : q[i].op = "create"}

Quota ==
    /\ owners \in Seq(Accounts)
    /\ Len(owners) + Cardinality(CreatesIn(up)) <= MaxGroups
    /\ CreatesIn(up) # {} => session \in Accounts \cup {Closed}

Grouped(p) ==
    /\ p.op = "groups" => p.groups \subseteq 1..MaxGroups
    /\ p.op = "created" => p.group \in 1..MaxGroups

GroupsKnown ==
    /\ groups \subseteq 1..MaxGroups
    /\ \A i \in DOMAIN down : Grouped(down[i])

Controls ==
    /\ page \in {"login", "register", "main"} /\ {beating, stale} \subseteq BOOLEAN
    /\ pending \in {Nothing} \cup [what : {"login", "register"}, user : Accounts]
    /\ link = "on" => pending = Nothing
    /\ contacts \subseteq Contacts

Logged ==
    /\ life \in Nat \ {0}
    /\ \A i \in DOMAIN log : log[i] \in [key : ChatKeys, mine : BOOLEAN, life : 1..life]
    /\ \A i \in DOMAIN shown : shown[i].id <= Len(log)

LEMMA CreatesFinite ==
  ASSUME NEW S, NEW q \in Seq(S)
  PROVE  IsFiniteSet(CreatesIn(q)) /\ Cardinality(CreatesIn(q)) \in Nat
  <1>1. Len(q) \in Nat /\ DOMAIN q = 1..Len(q)
    BY LenProperties
  <1>2. IsFiniteSet(1..Len(q))
    BY <1>1, FS_Interval
  <1>3. CreatesIn(q) \in SUBSET (1..Len(q))
    BY <1>1 DEF CreatesIn
  <1> QED
    BY <1>2, <1>3, FS_Subset, FS_CardinalityType

LEMMA CreatesMore ==
  ASSUME NEW S, NEW q \in Seq(S), NEW r \in S
  PROVE  /\ r.op # "create" => CreatesIn(Append(q, r)) = CreatesIn(q)
         /\ r.op = "create" =>
              Cardinality(CreatesIn(Append(q, r))) = Cardinality(CreatesIn(q)) + 1
  <1> DEFINE t == Append(q, r)
             n == Len(q) + 1
  <1>1. /\ t \in Seq(S) /\ Len(t) = n /\ t[n] = r
        /\ \A i \in 1..Len(q) : t[i] = q[i]
    BY AppendProperties
  <1>2. /\ Len(q) \in Nat /\ DOMAIN q = 1..Len(q) /\ DOMAIN t = 1..n
    BY <1>1, LenProperties
  <1>3. 1..n = 1..Len(q) \cup {n} /\ n \notin 1..Len(q)
    BY <1>2
  <1> HIDE DEF t, n
  <1>4. r.op # "create" => CreatesIn(t) = CreatesIn(q)
    BY <1>1, <1>2, <1>3 DEF CreatesIn
  <1>5. r.op = "create" => CreatesIn(t) = CreatesIn(q) \cup {n} /\ n \notin CreatesIn(q)
    BY <1>1, <1>2, <1>3 DEF CreatesIn
  <1>6. IsFiniteSet(CreatesIn(q))
    BY CreatesFinite
  <1> QED
    BY <1>4, <1>5, <1>6, FS_AddElement DEF t

LEMMA CreatesLess ==
  ASSUME NEW S, NEW q \in Seq(S), q # <<>>
  PROVE  /\ Cardinality(CreatesIn(Tail(q))) <= Cardinality(CreatesIn(q))
         /\ Head(q).op = "create" =>
              Cardinality(CreatesIn(Tail(q))) + 1 <= Cardinality(CreatesIn(q))
         /\ CreatesIn(Tail(q)) # {} \/ Head(q).op = "create" => CreatesIn(q) # {}
  <1> DEFINE t == Tail(q)
             T == CreatesIn(t)
             R == CreatesIn(q) \ {1}
             shift == [i \in T |-> i + 1]
  <1>1. /\ t \in Seq(S) /\ 1 \in DOMAIN q /\ Head(q) = q[1]
        /\ \A i \in DOMAIN t : i + 1 \in DOMAIN q /\ i + 1 # 1 /\ t[i] = q[i + 1]
    BY Taken
  <1>2. DOMAIN t \subseteq Int
    BY <1>1, LenProperties
  <1>3. /\ IsFiniteSet(CreatesIn(q)) /\ Cardinality(CreatesIn(q)) \in Nat
        /\ IsFiniteSet(T) /\ Cardinality(T) \in Nat
    BY <1>1, CreatesFinite
  <1> HIDE DEF t
  <1>4. \A i \in T : i \in Int /\ i + 1 \in R
    BY <1>1, <1>2 DEF CreatesIn
  <1> HIDE DEF T, R
  <1>5. shift \in Injection(T, R)
    BY <1>4 DEF Injection, IsInjective
  <1>6. /\ IsFiniteSet(R)
        /\ Cardinality(R) = IF 1 \in CreatesIn(q) THEN Cardinality(CreatesIn(q)) - 1
                            ELSE Cardinality(CreatesIn(q))
    BY <1>3, FS_RemoveElement DEF R
  <1>7. Cardinality(T) <= Cardinality(R)
    BY <1>5, <1>6, FS_Injection
  <1>8. Head(q).op = "create" <=> 1 \in CreatesIn(q)
    BY <1>1 DEF CreatesIn
  <1>9. T # {} => R # {}
    BY <1>4
  <1> QED
    BY <1>3, <1>6, <1>7, <1>8, <1>9 DEF T, R, t

LEMMA NoCreates == CreatesIn(<<>>) = {} /\ Cardinality({}) = 0
  BY None, FS_EmptySet DEF CreatesIn

\* The queue of requests is left, emptied, or gets one that is no CREATE.
LEMMA QuotaRests ==
  ASSUME Inv, Quota, owners' = owners \/ owners' = <<>>,
         \/ up' = <<>>
         \/ \E r \in Requests : up' = <<r>> /\ r.op # "create"
         \/ up' = up /\ session' = session
         \/ session' = session /\ \E r \in Requests : r.op # "create" /\ up' = Append(up, r)
  PROVE  Quota'
  <1>1. up \in Seq(Requests) /\ Len(owners) \in Nat /\ Len(<<>>) = 0
    BY None, LenProperties DEF Inv, Streams
  <1>2. Cardinality(CreatesIn(up)) \in Nat /\ MaxGroups \in Nat
    BY <1>1, CreatesFinite, BoundAssumption
  <1>3. owners' \in Seq(Accounts) /\ Len(owners') <= Len(owners) /\ Len(owners') \in Nat
    <2>1. CASE owners' = owners
      BY <1>1, <2>1 DEF Quota
    <2>2. CASE owners' = <<>>
      BY <1>1, <2>2, None
    <2> QED
      BY <2>1, <2>2
  <1>4. CreatesIn(up') = {} \/ (CreatesIn(up') = CreatesIn(up) /\ session' = session)
    <2>1. \A r \in Requests : r.op # "create" => CreatesIn(<<r>>) = {}
      BY DEF CreatesIn
    <2> QED
      BY <1>1, <2>1, NoCreates, CreatesMore
  <1>5. CASE CreatesIn(up') = {}
    <2>1. Len(owners') <= MaxGroups
      BY <1>1, <1>2, <1>3 DEF Quota
    <2> QED
      BY <1>3, <1>5, <2>1, NoCreates DEF Quota
  <1>6. CASE CreatesIn(up') = CreatesIn(up) /\ session' = session
    BY <1>1, <1>2, <1>3, <1>6 DEF Quota
  <1> QED
    BY <1>4, <1>5, <1>6

\* The server takes a request.
LEMMA QuotaServed ==
  ASSUME Inv, Quota, up # <<>>, up' = Tail(up), session' \in Accounts \/ session' = session,
         \/ owners' = owners
         \/ /\ owners' = Append(owners, session) /\ Head(up).op = "create"
            /\ session \in Accounts \cup {NoUser}
  PROVE  Quota'
  <1>1. up \in Seq(Requests) /\ Len(owners) \in Nat /\ Tail(up) \in Seq(Requests)
    BY LenProperties, Taken DEF Inv, Streams
  <1>2. /\ Cardinality(CreatesIn(up)) \in Nat /\ Cardinality(CreatesIn(up')) \in Nat
        /\ MaxGroups \in Nat
    BY <1>1, CreatesFinite, BoundAssumption
  <1>3. /\ Cardinality(CreatesIn(up')) <= Cardinality(CreatesIn(up))
        /\ Head(up).op = "create" =>
             Cardinality(CreatesIn(up')) + 1 <= Cardinality(CreatesIn(up))
        /\ CreatesIn(up') # {} \/ Head(up).op = "create" => CreatesIn(up) # {}
    BY <1>1, CreatesLess
  <1>4. CreatesIn(up') # {} => session' \in Accounts \cup {Closed}
    BY <1>3 DEF Quota
  <1>5. CASE owners' = owners
    BY <1>1, <1>2, <1>3, <1>4, <1>5 DEF Quota
  <1>6. CASE /\ owners' = Append(owners, session) /\ Head(up).op = "create"
             /\ session \in Accounts \cup {NoUser}
    <2>1. session \in Accounts
      BY <1>3, <1>6, NoAccount DEF Quota
    <2>2. owners' \in Seq(Accounts) /\ Len(owners') = Len(owners) + 1
      BY <1>6, <2>1, AppendProperties DEF Quota
    <2> QED
      BY <1>1, <1>2, <1>3, <1>4, <1>6, <2>2 DEF Quota
  <1> QED
    BY <1>5, <1>6

LEMMA QuotaStep == Inv /\ Quota /\ [Next]_vars => Quota'
  <1> SUFFICES ASSUME Inv, Quota, [Next]_vars PROVE Quota'
    OBVIOUS
  <1>i. up \in Seq(Requests) /\ Len(log) \in Nat /\ chat \in ChatKeys
    BY LenProperties DEF Inv, Streams, Chats
  <1>u. UNCHANGED <<owners, up, session>> => Quota'
    BY QuotaRests
  <1>1. ASSUME NEW k, SwitchPage \/ SelectUser(k) \/ SelectGroup(k) \/ ConnectFails
                        \/ PeerWrites(k)
        PROVE  Quota'
    BY <1>1, <1>u DEF SwitchPage, SelectUser, SelectGroup, Select, ConnectFails, PeerWrites,
       serverVars
  <1>2. ASSUME NEW u \in Accounts, LoginClicked(u) \/ RegisterClicked(u) PROVE Quota'
    BY <1>2, QuotaRests DEF LoginClicked, RegisterClicked, ConnectToServer
  <1>3. CASE Disconnected \/ ServerCloses \/ ServerRestarts
    BY <1>3, QuotaRests DEF Disconnected, ServerCloses, ServerRestarts
  <1>4. CASE Connected
    <2>1. /\ up' = <<[op |-> pending.what, user |-> pending.user]>> /\ owners' = owners
          /\ pending \in [what : {"login", "register"}, user : Accounts]
      BY <1>4 DEF Connected, Inv, Streams
    <2>2. PICK r \in Requests : r = [op |-> pending.what, user |-> pending.user]
      BY <2>1 DEF Requests
    <2>3. r.op # "create"
      BY <2>1, <2>2
    <2> QED
      BY <2>1, <2>2, <2>3, QuotaRests
  <1>5. CASE ReadyRead
    <2>1. UNCHANGED <<owners, session>> /\ (up' = up \/ up' = Append(up, [op |-> "list"]))
      BY <1>5 DEF ReadyRead, LoginSuccess, RegisterSuccess, Refused, Notify,
         GroupsListReceived, GroupCreated, MessageReceived, Swallowed, Arrives
    <2>2. PICK r \in Requests : r = [op |-> "list"]
      BY DEF Requests
    <2>3. r.op # "create"
      BY <2>2
    <2> QED
      BY <2>1, <2>2, <2>3, QuotaRests
  <1>6. CASE SendClicked
    <2> DEFINE r == [op |-> "chat", key |-> chat, id |-> Len(log) + 1]
    <2>1. r \in Requests /\ r.op # "create"
      BY <1>i DEF Requests
    <2>2. UNCHANGED <<owners, session>> /\ (up' = up \/ up' = Append(up, r))
      BY <1>6 DEF SendClicked, SendPacket
    <2> HIDE DEF r
    <2> QED
      BY <2>1, <2>2, QuotaRests
  <1>7. CASE CreateGroupClicked
    <2>1. /\ page = "main" /\ UNCHANGED <<owners, session>>
          /\ Len(owners) + Cardinality(CreatesIn(up)) < MaxGroups
          /\ up' = up \/ up' = Append(up, [op |-> "create"])
      BY <1>7 DEF CreateGroupClicked, SendPacket, CreatesIn
    <2>2. CASE up' = up
      BY <2>1, <2>2, <1>u
    <2>3. CASE up' = Append(up, [op |-> "create"])
      <3>1. PICK r \in Requests : r = [op |-> "create"]
        BY DEF Requests
      <3>2. r.op = "create"
        BY <3>1
      <3>3. Cardinality(CreatesIn(up')) = Cardinality(CreatesIn(up)) + 1
        BY <1>i, <2>3, <3>1, <3>2, CreatesMore
      <3>4. session' \in Accounts \cup {Closed}
        BY <2>1 DEF Inv, Pages, Session
      <3>5. /\ Len(owners) \in Nat /\ Cardinality(CreatesIn(up)) \in Nat /\ MaxGroups \in Nat
        BY <1>i, CreatesFinite, BoundAssumption, LenProperties DEF Inv, Streams
      <3> QED
        BY <2>1, <3>3, <3>4, <3>5 DEF Quota
    <2> QED
      BY <2>1, <2>2, <2>3
  <1>8. CASE Server
    <2>1. /\ up # <<>> /\ up' = Tail(up) /\ session \in Accounts \cup {NoUser}
      BY <1>8 DEF Server, ServeLogin, ServeRegister, ServeList, ServeCreate, ServeChat, Serves
    <2>2. Head(up) \in Requests
      BY <1>i, <2>1, Taken
    <2>3. CASE ServeCreate
      BY <2>1, <2>3, QuotaServed DEF ServeCreate, Serves
    <2>4. CASE ServeLogin
      <3>1. Head(up).user \in Accounts
        BY <2>2, <2>4, RequestFields DEF ServeLogin, Serves, Entering
      <3> QED
        BY <2>1, <2>4, <3>1, QuotaServed DEF ServeLogin
    <2>5. CASE ServeRegister \/ ServeList \/ ServeChat
      BY <2>1, <2>5, QuotaServed DEF ServeRegister, ServeList, ServeChat
    <2> QED
      BY <1>8, <2>3, <2>4, <2>5 DEF Server
  <1>9. CASE UNCHANGED vars
    BY <1>9, <1>u DEF vars, serverVars
  <1> QED
    BY <1>1, <1>2, <1>3, <1>4, <1>5, <1>6, <1>7, <1>8, <1>9 DEF Next, User, Network

\* Groups of which the window hears.
LEMMA GroupsKnownStep == Inv /\ Quota /\ GroupsKnown /\ [Next]_vars => GroupsKnown'
  <1> SUFFICES ASSUME Inv, Quota, GroupsKnown, [Next]_vars PROVE GroupsKnown'
    OBVIOUS
  <1>i. down \in Seq(Replies) /\ up \in Seq(Requests)
    BY DEF Inv, Streams
  <1>u. ASSUME UNCHANGED groups, down' = down \/ down' = <<>> PROVE GroupsKnown'
    BY <1>u, None DEF GroupsKnown
  <1>a. ASSUME UNCHANGED groups, NEW p \in Replies, Grouped(p), down' = Append(down, p)
        PROVE  GroupsKnown'
    BY <1>a, <1>i, Appended DEF GroupsKnown
  <1>1. ASSUME NEW k, SwitchPage \/ SelectUser(k) \/ SelectGroup(k) \/ SendClicked
                        \/ CreateGroupClicked
        PROVE  GroupsKnown'
    BY <1>1, <1>u DEF SwitchPage, SelectUser, SelectGroup, Select, SendClicked,
       CreateGroupClicked, windowVars, serverVars
  <1>2. ASSUME NEW u \in Accounts, LoginClicked(u) \/ RegisterClicked(u) PROVE GroupsKnown'
    BY <1>2, <1>u DEF LoginClicked, RegisterClicked, ConnectToServer
  <1>3. CASE Connected \/ ConnectFails \/ Disconnected \/ ServerCloses \/ ServerRestarts
    BY <1>3, <1>u DEF Connected, ConnectFails, Disconnected, ServerCloses, ServerRestarts,
       windowVars, serverVars
  <1>4. CASE ReadyRead
    <2>1. down # <<>> /\ down' = Tail(down)
      BY <1>4 DEF ReadyRead, LoginSuccess, RegisterSuccess, Refused, Notify,
         GroupsListReceived, GroupCreated, MessageReceived, Swallowed, Arrives
    <2>2. Grouped(Head(down)) /\ \A i \in DOMAIN down' : Grouped(down'[i])
      BY <1>i, <2>1, Taken DEF GroupsKnown
    <2>3. groups' \subseteq 1..MaxGroups
      <3>1. CASE GroupsListReceived \/ GroupCreated
        BY <2>2, <3>1 DEF GroupsListReceived, GroupCreated, Arrives, Grouped, GroupsKnown
      <3>2. CASE Swallowed
        BY <3>2 DEF Swallowed, GroupsKnown
      <3>3. CASE LoginSuccess \/ RegisterSuccess \/ Refused \/ Notify \/ MessageReceived
        BY <3>3 DEF LoginSuccess, RegisterSuccess, Refused, Notify, MessageReceived,
           GroupsKnown
      <3> QED
        BY <1>4, <3>1, <3>2, <3>3 DEF ReadyRead
    <2> QED
      BY <2>2, <2>3 DEF GroupsKnown
  <1>5. CASE Server
    <2>1. /\ up # <<>> /\ up' = Tail(up) /\ UNCHANGED groups
      BY <1>5 DEF Server, ServeLogin, ServeRegister, ServeList, ServeCreate, ServeChat, Serves,
         windowVars
    <2>2. Head(up) \in Requests
      BY <1>i, <2>1, Taken
    <2>3. /\ Len(owners) \in Nat /\ DOMAIN owners = 1..Len(owners) /\ MaxGroups \in Nat
          /\ Cardinality(CreatesIn(up)) \in Nat
      BY <1>i, LenProperties, CreatesFinite, BoundAssumption DEF Quota
    <2>4. CASE ServeCreate
      <3> DEFINE p == [op |-> "created", group |-> Len(owners) + 1, life |-> life]
      <3>1. down' = Append(down, p) /\ Head(up).op = "create"
        BY <2>4 DEF ServeCreate, Serves, Answers
      <3>2. Len(owners) + 1 \in 1..MaxGroups
        <4>1. Cardinality(CreatesIn(Tail(up))) \in Nat
          BY <1>i, <2>1, Taken, CreatesFinite
        <4>2. Cardinality(CreatesIn(Tail(up))) + 1 <= Cardinality(CreatesIn(up))
          BY <1>i, <2>1, <3>1, CreatesLess
        <4> QED
          BY <4>1, <4>2, <2>3 DEF Quota
      <3>3. p \in Replies /\ Grouped(p)
        BY <2>3, <3>2 DEF Replies, Inv, Streams, Grouped
      <3> HIDE DEF p
      <3> QED
        BY <2>1, <3>1, <3>3, <1>a
    <2>5. CASE ServeList
      <3> DEFINE p == [op |-> "groups", groups |-> Owned(session)]
      <3>1. down' = Append(down, p)
        BY <2>5 DEF ServeList, Answers
      <3>2. Owned(session) \subseteq 1..MaxGroups
        BY <2>3 DEF Owned, Quota
      <3>3. p \in Replies /\ Grouped(p)
        BY <2>3, <3>2 DEF Replies, Grouped
      <3> HIDE DEF p
      <3> QED
        BY <2>1, <3>1, <3>3, <1>a
    <2>6. CASE ServeLogin \/ ServeRegister
      <3>1. ServeLogin => Head(up).user \in Accounts
        BY <2>2, RequestFields DEF ServeLogin, Serves, Entering
      <3>2. \A u \in Accounts : [op |-> "login", user |-> u] \in Replies
                                 /\ Grouped([op |-> "login", user |-> u])
        BY DEF Replies, Grouped
      <3>3. \A op \in {"registered", "refused"} : [op |-> op] \in Replies
                                                   /\ Grouped([op |-> op])
        BY DEF Replies, Grouped
      <3> QED
        BY <2>1, <2>6, <3>1, <3>2, <3>3, <1>a DEF ServeLogin, ServeRegister, Answers
    <2>7. CASE ServeChat
      <3>1. Head(up).op = "chat"
        BY <2>7 DEF ServeChat, Serves
      <3>2. Head(up) \in Replies /\ Grouped(Head(up))
        BY <2>2, <3>1 DEF Requests, Replies, Grouped
      <3>3. [op |-> "notify"] \in Replies /\ Grouped([op |-> "notify"])
        BY DEF Replies, Grouped
      <3> QED
        BY <2>1, <2>7, <3>2, <3>3, <1>a, <1>u DEF ServeChat, Answers
    <2> QED
      BY <1>5, <2>4, <2>5, <2>6, <2>7 DEF Server
  <1>6. ASSUME NEW k \in ChatKeys, PeerWrites(k) PROVE GroupsKnown'
    <2> DEFINE p == [op |-> "chat", key |-> k, id |-> Len(log) + 1]
    <2>1. p \in Replies /\ Grouped(p)
      BY LenProperties DEF Replies, Inv, Streams, Grouped
    <2>2. down' = Append(down, p) /\ UNCHANGED groups
      BY <1>6 DEF PeerWrites, Answers, windowVars
    <2> HIDE DEF p
    <2> QED
      BY <2>1, <2>2, <1>a
  <1>7. CASE UNCHANGED vars
    BY <1>7, <1>u DEF vars, windowVars, serverVars
  <1> QED
    BY <1>1, <1>2, <1>3, <1>4, <1>5, <1>6, <1>7 DEF Next, User, Network

LEMMA ControlsStep == Inv /\ Controls /\ [Next]_vars => Controls'
  <1> SUFFICES ASSUME Inv, Controls, [Next]_vars PROVE Controls'
    OBVIOUS
  <1>u. UNCHANGED <<page, beating, stale, pending, link, contacts>> => Controls'
    BY DEF Controls
  <1>1. ASSUME NEW k, SelectUser(k) \/ SelectGroup(k) \/ SendClicked
                        \/ CreateGroupClicked \/ PeerWrites(k) \/ Server
                        \/ ServerCloses \/ ServerRestarts
        PROVE  Controls'
    BY <1>1, <1>u DEF SelectUser, SelectGroup, Select, SendClicked, CreateGroupClicked,
       PeerWrites, Server, ServeLogin, ServeRegister, ServeList, ServeCreate, ServeChat,
       Serves, ServerCloses, ServerRestarts, windowVars, netVars
  <1>2. ASSUME NEW u \in Accounts, LoginClicked(u) \/ RegisterClicked(u) PROVE Controls'
    <2>1. PICK what \in {"login", "register"} : ConnectToServer(what, u)
      BY <1>2 DEF LoginClicked, RegisterClicked
    <2>2. /\ pending' = [what |-> what, user |-> u] /\ link' = "connecting"
          /\ page' = page \/ page' = "login"
          /\ beating' = beating \/ beating' = FALSE
          /\ stale' \in {stale, stale \/ down # <<>>} /\ contacts' = contacts
      BY <2>1 DEF ConnectToServer, OnDisconnected
    <2> QED
      BY <2>2 DEF Controls
  <1>3. CASE Connected \/ ConnectFails \/ SwitchPage
    BY <1>3 DEF Connected, ConnectFails, SwitchPage, Controls, windowVars, netVars
  <1>4. CASE Disconnected
    BY <1>4 DEF Disconnected, OnDisconnected, Controls
  <1>5. CASE ReadyRead
    BY <1>5 DEF ReadyRead, LoginSuccess, RegisterSuccess, Refused, Notify,
       GroupsListReceived, GroupCreated, MessageReceived, Swallowed, Arrives, Controls
  <1>6. CASE UNCHANGED vars
    BY <1>6, <1>u DEF vars, windowVars, netVars
  <1> QED
    BY <1>1, <1>2, <1>3, <1>4, <1>5, <1>6 DEF Next, User, Network

\* The chat that is shown holds messages of the log.
LEMMA LoggedStep == Inv /\ Filing /\ Logged /\ [Next]_vars => Logged'
  <1> SUFFICES ASSUME Inv, Filing, Logged, [Next]_vars PROVE Logged'
    OBVIOUS
  <1> DEFINE S == [key : ChatKeys, mine : BOOLEAN, life : Nat]
  <1>i. /\ log \in Seq(S) /\ Len(log) \in Nat /\ shown \in Seq(Messages)
        /\ down \in Seq(Replies) /\ chat \in ChatKeys
    BY LenProperties DEF Inv, Streams, Chats
  <1>d. DOMAIN log = 1..Len(log)
    BY <1>i, LenProperties
  <1>m. \A i \in DOMAIN shown : shown[i].id \in Nat
    <2>1. \A i \in DOMAIN shown : shown[i] \in Messages
      BY <1>i, LenProperties, ElementOfSeq
    <2> QED
      BY <2>1 DEF Messages
  <1> HIDE DEF S
  <1>u. UNCHANGED <<life, log, shown>> => Logged'
    BY DEF Logged
  <1>w. ASSUME NEW e \in [key : ChatKeys, mine : BOOLEAN, life : {life}],
               log' = Append(log, e), life' = life,
               \A i \in DOMAIN shown' : shown'[i].id = Len(log) + 1 \/
                  \E j \in DOMAIN shown : shown'[i] = shown[j]
        PROVE  Logged'
    <2>1. e \in S /\ e \in [key : ChatKeys, mine : BOOLEAN, life : 1..life]
      BY <1>w DEF S, Logged
    <2>2. /\ Len(log') = Len(log) + 1
          /\ \A i \in DOMAIN log' : (i \in DOMAIN log /\ log'[i] = log[i]) \/ log'[i] = e
      BY <1>i, <1>w, <2>1, Appended
    <2>3. \A i \in DOMAIN shown' : shown'[i].id <= Len(log')
      BY <1>i, <1>m, <1>w, <2>2 DEF Logged
    <2> QED
      BY <1>w, <2>1, <2>2, <2>3 DEF Logged
  <1>f. ASSUME NEW k, NEW m \in Messages, File(k, m)
        PROVE  \A i \in DOMAIN shown' :
                 shown'[i].id = m.id \/ \E j \in DOMAIN shown : shown'[i] = shown[j]
    BY <1>i, <1>f, Appended DEF File
  <1>1. ASSUME NEW k, SwitchPage \/ ConnectFails \/ Connected \/ Disconnected
                        \/ CreateGroupClicked \/ Server \/ ServerCloses
        PROVE  Logged'
    BY <1>1, <1>u DEF SwitchPage, ConnectFails, Connected, Disconnected, CreateGroupClicked,
       Server, ServeLogin, ServeRegister, ServeList, ServeCreate, ServeChat, Serves,
       ServerCloses, windowVars, serverVars, historyVars
  <1>2. ASSUME NEW u \in Accounts, LoginClicked(u) \/ RegisterClicked(u) PROVE Logged'
    BY <1>2, <1>u DEF LoginClicked, RegisterClicked, ConnectToServer
  <1>3. ASSUME NEW k \in ChatKeys, Select(k) PROVE Logged'
    <2>1. shown' = histories[k] /\ UNCHANGED <<life, log>>
      BY <1>3 DEF Select, serverVars
    <2>2. \A i \in DOMAIN histories[k] : histories[k][i].id # 0 => histories[k][i].id \in DOMAIN log
      BY Numbers
    <2>3. \A i \in DOMAIN histories[k] : histories[k][i].id <= Len(log)
      BY <2>2, <1>i, <1>d
    <2> QED
      BY <2>1, <2>3 DEF Logged
  <1>4. ASSUME NEW u \in Contacts, SelectUser(u) PROVE Logged'
    BY <1>3, <1>4 DEF SelectUser, ChatKeys
  <1>5. ASSUME NEW g \in 1..MaxGroups, SelectGroup(g) PROVE Logged'
    <2>1. KeyOf(g) \in ChatKeys
      BY BoundAssumption DEF ChatKeys
    <2> QED
      BY <1>3, <1>5, <2>1 DEF SelectGroup
  <1>6. CASE SendClicked
    <2> DEFINE m == [id |-> Len(log) + 1, mine |-> TRUE]
    <2>1. m \in Messages /\ m.id = Len(log) + 1
      BY <1>i DEF Messages
    <2>2. File(chat, m) /\ log' = Append(log, [key |-> chat, mine |-> TRUE, life |-> life])
          /\ life' = life
      BY <1>6 DEF SendClicked
    <2> HIDE DEF m
    <2>3. \A i \in DOMAIN shown' : shown'[i].id = Len(log) + 1 \/
             \E j \in DOMAIN shown : shown'[i] = shown[j]
      BY <1>f, <2>1, <2>2
    <2> QED
      BY <1>i, <1>w, <2>2, <2>3
  <1>7. ASSUME NEW k \in ChatKeys, PeerWrites(k) PROVE Logged'
    <2>1. log' = Append(log, [key |-> k, mine |-> FALSE, life |-> life])
          /\ UNCHANGED <<life, shown>>
      BY <1>7 DEF PeerWrites, windowVars
    <2> QED
      BY <1>w, <2>1
  <1>8. CASE MessageReceived
    <2> DEFINE m == [id |-> Head(down).id, mine |-> FALSE]
    <2>1. down # <<>> /\ Head(down).op = "chat" /\ File(Head(down).key, m)
          /\ UNCHANGED <<life, log>>
      BY <1>8 DEF MessageReceived, Arrives
    <2>2. Head(down).id \in DOMAIN log
      BY <1>i, <2>1, Taken, Numbers
    <2>3. m \in Messages /\ m.id \in Nat /\ m.id <= Len(log)
      BY <1>i, <1>d, <2>2 DEF Messages
    <2> HIDE DEF m
    <2>4. \A i \in DOMAIN shown' : shown'[i].id <= Len(log)
      BY <1>f, <2>1, <2>3 DEF Logged
    <2> QED
      BY <2>1, <2>4 DEF Logged
  <1>9. CASE Swallowed
    <2>1. /\ UNCHANGED <<life, log>>
          /\ UNCHANGED shown \/ \E k : File(k, Blank)
      BY <1>9 DEF Swallowed, historyVars
    <2>2. Blank \in Messages /\ Blank.id = 0
      BY DEF Blank, Messages
    <2>3. \A i \in DOMAIN shown' : shown'[i].id <= Len(log)
      BY <1>f, <1>i, <2>1, <2>2 DEF Logged
    <2> QED
      BY <2>1, <2>3 DEF Logged
  <1>10. CASE LoginSuccess \/ RegisterSuccess \/ Refused \/ Notify \/ GroupsListReceived
               \/ GroupCreated
    BY <1>10, <1>u DEF LoginSuccess, RegisterSuccess, Refused, Notify, GroupsListReceived,
       GroupCreated, Arrives
  <1>11. CASE ServerRestarts
    <2>1. life' = life + 1 /\ UNCHANGED <<log, shown>>
      BY <1>11 DEF ServerRestarts, windowVars, historyVars
    <2>2. life' \in Nat \ {0} /\ 1..life \subseteq 1..life'
      BY <2>1 DEF Logged
    <2> QED
      BY <2>1, <2>2 DEF Logged
  <1>12. CASE UNCHANGED vars
    BY <1>12, <1>u DEF vars, windowVars, serverVars, historyVars
  <1> QED
    BY <1>1, <1>2, <1>4, <1>5, <1>6, <1>7, <1>8, <1>9, <1>10, <1>11, <1>12
    DEF Next, User, Network, ReadyRead

\* Pages, pending requests, groups, histories and the log keep their types; in
\* particular there is nothing pending once a request was sent on a connection,
\* and no group is known that no account owns (main_window.cpp:601-644).
THEOREM TypeCorrect == Spec => []WindowTypeOK
  <1>1. Init => Quota /\ GroupsKnown /\ Controls /\ Logged
    <2> SUFFICES ASSUME Init PROVE Quota /\ GroupsKnown /\ Controls /\ Logged
      OBVIOUS
    <2>1. CreatesIn(up) = {} /\ Cardinality(CreatesIn(up)) = 0 /\ MaxGroups \in Nat
      BY NoCreates, BoundAssumption DEF Init
    <2>2. owners \in Seq(Accounts) /\ Len(owners) = 0
      BY None DEF Init
    <2>a. Quota
      BY <2>1, <2>2 DEF Quota
    <2>3. GroupsKnown /\ Logged
      BY None DEF Init, GroupsKnown, Logged
    <2>4. Controls
      BY DEF Init, Controls
    <2> QED
      BY <2>a, <2>3, <2>4
  <1>2. ASSUME Inv, Filing, Quota, GroupsKnown, Controls, Logged PROVE WindowTypeOK
    <2>1. /\ chat \in ChatKeys /\ me \in Accounts \cup {NoUser}
          /\ link \in {"off", "connecting", "on"}
          /\ session \in Accounts \cup {NoUser, Closed}
      BY <1>2 DEF Inv, Streams, Session, Pages, Chats
    <2>2. Len(owners) <= MaxGroups
      <3>1. up \in Seq(Requests) /\ Len(owners) \in Nat /\ MaxGroups \in Nat
        BY <1>2, LenProperties, BoundAssumption DEF Inv, Streams
      <3> QED
        BY <1>2, <3>1, CreatesFinite DEF Quota
    <2> DEFINE M == [id : 0..Len(log), mine : BOOLEAN]
    <2>3. Len(log) \in Nat /\ DOMAIN log = 1..Len(log)
      BY <1>2, LenProperties DEF Inv, Streams
    <2>4. ASSUME NEW s \in Seq(Messages), \A i \in DOMAIN s : s[i].id <= Len(log)
          PROVE  s \in Seq(M)
      <3>1. Len(s) \in Nat /\ s \in [1..Len(s) -> Messages] /\ DOMAIN s = 1..Len(s)
        BY LenProperties
      <3>2. \A m \in Messages : m.id <= Len(log) => m \in M
        BY <2>3 DEF Messages
      <3> HIDE DEF M
      <3>3. s \in [1..Len(s) -> M]
        BY <3>1, <3>2, <2>4
      <3> QED
        BY <3>1, <3>3, SeqDef
    <2>5. shown \in Seq(M)
      BY <1>2, <2>4 DEF Inv, Chats, Logged
    <2>6. ASSUME NEW k \in ChatKeys PROVE histories[k] \in Seq(M)
      <3>1. histories[k] \in Seq(Messages)
        BY <1>2 DEF Inv, Chats
      <3>2. \A i \in DOMAIN histories[k] :
               histories[k][i].id # 0 => histories[k][i].id \in DOMAIN log
        BY <1>2, Numbers
      <3>3. \A i \in DOMAIN histories[k] : histories[k][i].id <= Len(log)
        BY <3>2, <2>3
      <3> QED
        BY <3>1, <3>3, <2>4
    <2>7. histories \in [ChatKeys -> Seq(M)]
      BY <1>2, <2>6 DEF Inv, Chats
    <2> QED
      BY <1>2, <2>1, <2>2, <2>5, <2>7
      DEF WindowTypeOK, Quota, GroupsKnown, Controls, Logged
  <1> QED
    BY <1>1, <1>2, QuotaStep, GroupsKnownStep, ControlsStep, LoggedStep, Invariance,
       InitFiling, FilingStep, PTL DEF Spec
=============================================================================
