---------------------------- MODULE ImServerProofs ----------------------------
(***************************************************************************)
(* Theorems about the chat server, for every set of descriptors and users, *)
(* every bound and every setting of the switches.                          *)
(*                                                                         *)
(* First what holds in every state, by the kinds of steps; then the use of *)
(* the connection manager; and last the delivery of a private message:     *)
(* what becomes of one, and that the server is a Mailbox.                  *)
(***************************************************************************)
EXTENDS ImServer, SequenceTheorems, FiniteSetTheorems, TLAPS

USE DEF NoConn, NoUser, CM!NoConn, CM!NoUser

-----------------------------------------------------------------------------
(* What the steps do to the queues.                                        *)

Queues == [Fds -> Seq(Entry)]

LEMMA PlainIsEntry == \A k \in Kind : Plain(k) \in Entry
  BY DEF Plain, Entry

LEMMA PrivateIsEntry == \A m \in Nat : Private(m) \in Entry
  BY DEF Private, Entry, Kind

\* Pushing an entry keeps the queues queues.
LEMMA PushType ==
  ASSUME out \in Queues, NEW fs, NEW e \in Entry, Push(fs, e)
  PROVE  out' \in Queues
  <1>1. \A f \in Fds : Append(out[f], e) \in Seq(Entry)
    BY AppendProperties DEF Queues
  <1> QED
    BY <1>1 DEF Push, Queues

\* An ascending enumeration of unread messages is a sequence of entries.
LEMMA AscendingType ==
  ASSUME TypeOK, NEW u, NEW s \in Ascending(Unread(u))
  PROVE  /\ Cardinality(Unread(u)) \in Nat
         /\ DOMAIN s = 1..Cardinality(Unread(u))
         /\ s \in Seq(Nat)
         /\ Len(s) = Cardinality(Unread(u))
         /\ [i \in DOMAIN s |-> Private(s[i])] \in Seq(Entry)
  <1>1. sent \in Seq(Users) /\ store \subseteq 1..Len(sent) /\ Len(sent) \in Nat
    BY DEF TypeOK
  <1>2. Unread(u) \subseteq 1..Len(sent)
    BY <1>1 DEF Unread
  <1>3. IsFiniteSet(1..Len(sent))
    BY <1>1, FS_Interval
  <1>4. IsFiniteSet(Unread(u))
    BY <1>2, <1>3, FS_Subset
  <1>5. Cardinality(Unread(u)) \in Nat
    BY <1>4, FS_CardinalityType
  <1>6. s \in [1..Cardinality(Unread(u)) -> Unread(u)]
    BY DEF Ascending
  <1>7. \A i \in 1..Cardinality(Unread(u)) : s[i] \in Nat
    BY <1>6, <1>2
  <1>8. s \in [1..Cardinality(Unread(u)) -> Nat]
    BY <1>6, <1>7
  <1>9. [i \in 1..Cardinality(Unread(u)) |-> Private(s[i])]
            \in [1..Cardinality(Unread(u)) -> Entry]
    BY <1>7, PrivateIsEntry
  <1> QED
    BY <1>5, <1>6, <1>8, <1>9, IsASeq, LenProperties

\* The answer to LOGIN and the drained messages keep the queues queues.
LEMMA DrainType ==
  ASSUME TypeOK, NEW f \in Fds, NEW u, AnswerAndDrain(f, u)
  PROVE  out' \in Queues
  <1>1. PICK s \in Ascending(Unread(u)) :
          out' = [out EXCEPT ![f] = Append(@, Plain("reply"))
                                      \o [i \in DOMAIN s |-> Private(s[i])]]
    BY DEF AnswerAndDrain
  <1>2. [i \in DOMAIN s |-> Private(s[i])] \in Seq(Entry)
    BY AscendingType
  <1>3. Append(out[f], Plain("reply")) \in Seq(Entry)
    BY PlainIsEntry, AppendProperties DEF TypeOK, Kind
  <1>4. Append(out[f], Plain("reply")) \o [i \in DOMAIN s |-> Private(s[i])] \in Seq(Entry)
    BY <1>2, <1>3, ConcatProperties
  <1> QED
    BY <1>1, <1>4 DEF TypeOK, Queues

-----------------------------------------------------------------------------
(* Type correctness.                                                       *)

LEMMA TypeInit == Init => TypeOK
  BY EmptySeq, FdsBound, UsersBound, Bounds
  DEF Init, Empty, TypeOK, CM!Init, CM!TypeOK

\* The manager's own operations keep its types.
LEMMA CMType ==
  ASSUME CM!TypeOK, NEW f \in Fds, NEW u \in Users,
         \/ CM!AddConnection(f) \/ CM!RemoveConnection(f)
         \/ CM!AuthenticateConnection(f, u) \/ CM!DeauthenticateConnection(f)
         \/ CM!Restart \/ UNCHANGED cmVars
  PROVE  CM!TypeOK'
  BY DEF CM!TypeOK, CM!AddConnection, CM!RemoveConnection, CM!AuthenticateConnection,
         CM!DeauthenticateConnection, CM!Restart, CM!ForgetRoute, cmVars

USE DEF Queues
\* A private message in a queue is one that was accepted.
Known ==
    \A f \in Fds : \A i \in DOMAIN out[f] :
        PrivateAt(f, i) => out[f][i].id \in DOMAIN sent

LEMMA TypeStep ==
  ASSUME TypeOK, Known, [Next]_vars
  PROVE  TypeOK'
  <1> USE DEF TypeOK, cmVars, loopVars, history
  <1>e. Plain("reply") \in Entry /\ Plain("error") \in Entry /\ Plain("chat") \in Entry
    BY PlainIsEntry DEF Kind
  <1>1. ASSUME NEW f \in Fds, Answer(f) PROVE TypeOK'
    BY <1>1, <1>e, PushType DEF Answer, Packet, CM!TypeOK
  <1>2. ASSUME NEW f \in Fds, LoginRefused(f) PROVE TypeOK'
    <2>1. AnswerAndDrain(f, CM!UserOn(f))
      BY <1>2 DEF LoginRefused
    <2>2. out' \in Queues
      BY <2>1, DrainType
    <2>3. store' \subseteq DOMAIN sent
      BY <2>1 DEF AnswerAndDrain, MarkRead
    <2> QED
      BY <1>2, <2>2, <2>3 DEF LoginRefused, Packet, CM!TypeOK
  <1>3. ASSUME NEW f \in Fds, Logout(f) PROVE TypeOK'
    BY <1>3, <1>e, PushType, CMType
       DEF Logout, Packet, CM!TypeOK, CM!DeauthenticateConnection, CM!ForgetRoute
  <1>4. ASSUME NEW f \in Fds, Chat(f) PROVE TypeOK'
    BY <1>4, <1>e, PushType DEF Chat, Packet, CM!TypeOK
  <1>5. ASSUME NEW f \in Fds, NEW u \in Users, Login(f, u) PROVE TypeOK'
    <2>1. AnswerAndDrain(f, u)
      BY <1>5 DEF Login
    <2>2. out' \in Queues
      BY <2>1, DrainType
    <2>3. store' \subseteq DOMAIN sent
      BY <2>1 DEF AnswerAndDrain, MarkRead
    <2>4. CM!TypeOK'
      BY <1>5, CMType DEF Login
    <2> QED
      BY <1>5, <2>2, <2>3, <2>4 DEF Login, Packet
  <1>6. ASSUME NEW f \in Fds, NEW u \in Users, ChatToStored(f, u) PROVE TypeOK'
    <2>1. sent' \in Seq(Users) /\ DOMAIN sent' = 1..(Len(sent) + 1)
          /\ DOMAIN sent = 1..Len(sent) /\ Len(sent) \in Nat
      BY <1>6, AppendProperties, LenProperties DEF ChatToStored
    <2> QED
      BY <1>6, <2>1, <1>e, PushType DEF ChatToStored, Packet, CM!TypeOK
  <1>7. ASSUME NEW f \in Fds, NEW u \in Users, ChatToRouted(f, u) PROVE TypeOK'
    <2>1. sent' \in Seq(Users) /\ DOMAIN sent' = 1..(Len(sent) + 1)
          /\ DOMAIN sent = 1..Len(sent) /\ Len(sent) \in Nat
      BY <1>7, AppendProperties, LenProperties DEF ChatToRouted
    <2>2. Private(Len(sent) + 1) \in Entry
      BY <2>1, PrivateIsEntry
    <2> QED
      BY <1>7, <2>1, <2>2, PushType DEF ChatToRouted, Packet, CM!TypeOK
  <1>8. ASSUME NEW f \in Fds, NEW u \in Users, ChatToRefused(f, u) PROVE TypeOK'
    BY <1>8, <1>e, PushType DEF ChatToRefused, Packet, CM!TypeOK
  <1>9. CASE Select
    BY <1>9, CMType DEF Select, Accept, CM!TypeOK, CM!AddConnection
  <1>10. CASE StartWriting \/ StartClosing \/ EndIteration
    BY <1>10 DEF StartWriting, StartClosing, EndIteration, CM!TypeOK
  <1>11. CASE CheckTimeout \/ CleanupUsers
    BY <1>11 DEF CheckTimeout, CleanupUsers, CM!TypeOK
  <1>12. ASSUME NEW f \in Fds, EndRead(f) \/ ReadEnds(f) \/ EndWrite(f) \/ WriteFails(f)
         PROVE TypeOK'
    BY <1>12 DEF EndRead, ReadEnds, EndWrite, WriteFails, Reading, Writing, Turn, CM!TypeOK
  <1>13. ASSUME NEW f \in Fds, WriteFront(f) PROVE TypeOK'
    <2>1. out[f] \in Seq(Entry) /\ out[f] # <<>>
      BY <1>13 DEF WriteFront
    <2>2. Tail(out[f]) \in Seq(Entry)
      BY <2>1, HeadTailProperties
    <2>3. 1 \in DOMAIN out[f] /\ Head(out[f]) = out[f][1]
      BY <2>1, EmptySeq, LenProperties
    <2>4. written' \subseteq DOMAIN sent
      BY <1>13, <2>3 DEF WriteFront, Known, PrivateAt
    <2> QED
      BY <1>13, <2>2, <2>4 DEF WriteFront, CM!TypeOK
  <1>14. ASSUME NEW f \in Fds, Drop(f) PROVE CM!TypeOK' /\ conns' \subseteq Fds /\ out' \in Queues
    BY <1>14, EmptySeq DEF Drop, CM!TypeOK, CM!RemoveConnection, CM!ForgetRoute
  <1>15. ASSUME NEW f \in Fds, Close(f) PROVE TypeOK'
    BY <1>15, <1>14 DEF Close
  <1>16. ASSUME NEW f \in Fds, Expire(f) PROVE TypeOK'
    BY <1>16, <1>14 DEF Expire, CM!TypeOK
  <1>17. CASE Crash \/ CrashInSave
    <2>1. Reset /\ store' \subseteq store
      BY <1>17 DEF Crash, CrashInSave
    <2>2. [f \in Fds |-> <<>>] \in Queues
      BY EmptySeq
    <2> QED
      BY <2>1, <2>2 DEF Reset, CM!TypeOK, CM!Restart
  <1>18. CASE UNCHANGED vars
    BY <1>18 DEF vars, CM!TypeOK
  <1> QED
    BY <1>1, <1>2, <1>3, <1>4, <1>5, <1>6, <1>7, <1>8, <1>9, <1>10, <1>11, <1>12, <1>13,
       <1>15, <1>16, <1>17, <1>18 DEF Next, Handle, Loop

-----------------------------------------------------------------------------
(* Where the entries of a queue come from.                                 *)

Kept(f, i) == i \in DOMAIN out[f] /\ out'[f][i] = out[f][i]

\* Push appends e to the queues of fs and leaves the others alone.
LEMMA PushAt ==
  ASSUME TypeOK, NEW fs, NEW e \in Entry, Push(fs, e), NEW f \in Fds
  PROVE  /\ f \notin fs => out'[f] = out[f]
         /\ \A i \in DOMAIN out'[f] :
              Kept(f, i) \/ (f \in fs /\ i = Len(out[f]) + 1 /\ out'[f][i] = e)
         /\ \A i \in DOMAIN out[f] : i \in Nat /\ i < Len(out[f]) + 1
         /\ Len(out[f]) \in Nat
  <1>1. out[f] \in Seq(Entry)
    BY DEF TypeOK
  <1>2. /\ DOMAIN out[f] = 1..Len(out[f])
        /\ Len(out[f]) \in Nat
    BY <1>1, LenProperties
  <1>3. CASE f \notin fs
    BY <1>2, <1>3 DEF Push, Kept
  <1>4. CASE f \in fs
    <2>1. out'[f] = Append(out[f], e)
      BY <1>4 DEF Push
    <2>2. /\ Append(out[f], e) \in Seq(Entry)
          /\ Len(Append(out[f], e)) = Len(out[f]) + 1
          /\ \A i \in 1..Len(out[f]) : Append(out[f], e)[i] = out[f][i]
          /\ Append(out[f], e)[Len(out[f]) + 1] = e
      BY <1>1, AppendProperties
    <2>3. DOMAIN Append(out[f], e) = 1..(Len(out[f]) + 1)
      BY <2>2, LenProperties
    <2> QED
      BY <1>2, <1>4, <2>1, <2>2, <2>3 DEF Kept
  <1> QED
    BY <1>3, <1>4

\* LOGIN appends its answer and then the unread messages, in ascending order.
LEMMA DrainAt ==
  ASSUME TypeOK, NEW f \in Fds, NEW u, AnswerAndDrain(f, u)
  PROVE  \E s \in Ascending(Unread(u)) :
           /\ \A g \in Fds \ {f} : out'[g] = out[g]
           /\ Len(out[f]) \in Nat
           /\ \A i \in DOMAIN out[f] : i \in Nat /\ i < Len(out[f]) + 1
           /\ DOMAIN s \subseteq Nat \ {0}
           /\ \A j \in DOMAIN s : s[j] \in Unread(u)
           /\ \A i \in DOMAIN out'[f] :
                \/ Kept(f, i)
                \/ i = Len(out[f]) + 1 /\ out'[f][i] = Plain("reply")
                \/ \E j \in DOMAIN s : /\ i = Len(out[f]) + 1 + j
                                       /\ out'[f][i] = Private(s[j])
  <1>1. PICK s \in Ascending(Unread(u)) :
          out' = [out EXCEPT ![f] = Append(@, Plain("reply"))
                                      \o [i \in DOMAIN s |-> Private(s[i])]]
    BY DEF AnswerAndDrain
  <1> DEFINE n == Len(out[f])
             a == Append(out[f], Plain("reply"))
             d == [i \in DOMAIN s |-> Private(s[i])]
  <1>2. out[f] \in Seq(Entry) /\ Plain("reply") \in Entry
    BY PlainIsEntry DEF TypeOK, Kind
  <1>3. n \in Nat /\ DOMAIN out[f] = 1..n
    BY <1>2, LenProperties
  <1>4. /\ a \in Seq(Entry) /\ Len(a) = n + 1
        /\ \A i \in 1..n : a[i] = out[f][i]
        /\ a[n + 1] = Plain("reply")
    BY <1>2, AppendProperties
  <1>5. /\ Cardinality(Unread(u)) \in Nat
        /\ DOMAIN s = 1..Cardinality(Unread(u))
        /\ d \in Seq(Entry)
    BY AscendingType
  <1>6. Len(d) = Cardinality(Unread(u))
    BY <1>5, LenProperties
  <1>7. /\ a \o d \in Seq(Entry)
        /\ Len(a \o d) = n + 1 + Len(d)
        /\ \A i \in 1..(n + 1 + Len(d)) :
             (a \o d)[i] = IF i <= n + 1 THEN a[i] ELSE d[i - (n + 1)]
    <2> HIDE DEF a, d
    <2>1. /\ a \o d \in Seq(Entry)
          /\ Len(a \o d) = Len(a) + Len(d)
          /\ \A i \in 1..(Len(a) + Len(d)) :
               (a \o d)[i] = IF i <= Len(a) THEN a[i] ELSE d[i - Len(a)]
      BY <1>4, <1>5, ConcatProperties
    <2> QED
      BY <2>1, <1>4
  <1>8. DOMAIN (a \o d) = 1..(n + 1 + Len(d))
    BY <1>7, LenProperties
  <1>9. out'[f] = a \o d /\ \A g \in Fds \ {f} : out'[g] = out[g]
    BY <1>1 DEF TypeOK
  <1>10. \A j \in DOMAIN s : s[j] \in Unread(u)
    BY DEF Ascending
  <1>11. ASSUME NEW i \in DOMAIN out'[f]
         PROVE \/ Kept(f, i)
               \/ i = n + 1 /\ out'[f][i] = Plain("reply")
               \/ \E j \in DOMAIN s : i = n + 1 + j /\ out'[f][i] = Private(s[j])
    <2>1. i \in 1..(n + 1 + Len(d))
      BY <1>8, <1>9
    <2>2. CASE i <= n
      <3>1. i \in DOMAIN out[f]
        BY <2>1, <2>2, <1>3
      <3>2. (a \o d)[i] = a[i] /\ a[i] = out[f][i]
        BY <2>1, <2>2, <1>3, <1>4, <1>7
      <3> HIDE DEF a, d
      <3> QED
        BY <3>1, <3>2, <1>9 DEF Kept
    <2>3. CASE i = n + 1
      <3>1. (a \o d)[i] = Plain("reply")
        BY <2>1, <2>3, <1>3, <1>4, <1>7
      <3> HIDE DEF a, d
      <3> QED
        BY <3>1, <2>3, <1>9
    <2>4. CASE i > n + 1
      <3>1. i - (n + 1) \in DOMAIN s /\ i = n + 1 + (i - (n + 1))
        BY <2>1, <2>4, <1>3, <1>5, <1>6
      <3>2. (a \o d)[i] = d[i - (n + 1)]
        BY <2>1, <2>4, <1>3, <1>7
      <3>3. d[i - (n + 1)] = Private(s[i - (n + 1)])
        BY <3>1
      <3> HIDE DEF a, d
      <3> QED
        BY <3>1, <3>2, <3>3, <1>9
    <2> QED
      BY <2>1, <2>2, <2>3, <2>4, <1>3
  <1>12. DOMAIN s \subseteq Nat \ {0}
    BY <1>5
  <1>13. \A i \in DOMAIN out[f] : i \in Nat /\ i < n + 1
    BY <1>3
  <1> HIDE DEF d, a
  <1> QED
    BY <1>3, <1>9, <1>10, <1>11, <1>12, <1>13

\* The front buffer leaves its queue.
LEMMA TailAt ==
  ASSUME TypeOK, NEW f \in Fds, out[f] # <<>>, out' = [out EXCEPT ![f] = Tail(@)]
  PROVE  /\ \A g \in Fds \ {f} : out'[g] = out[g]
         /\ 1 \in DOMAIN out[f] /\ Head(out[f]) = out[f][1]
         /\ \A i \in DOMAIN out'[f] :
              i \in Nat \ {0} /\ i + 1 \in DOMAIN out[f] /\ out'[f][i] = out[f][i + 1]
  <1>1. out[f] \in Seq(Entry)
    BY DEF TypeOK
  <1>2. /\ Tail(out[f]) \in Seq(Entry)
        /\ Len(Tail(out[f])) = Len(out[f]) - 1
        /\ \A i \in 1..Len(Tail(out[f])) : Tail(out[f])[i] = out[f][i + 1]
    BY <1>1, HeadTailProperties
  <1>3. /\ Len(out[f]) \in Nat \ {0} /\ DOMAIN out[f] = 1..Len(out[f])
        /\ DOMAIN Tail(out[f]) = 1..Len(Tail(out[f]))
    BY <1>1, <1>2, EmptySeq, LenProperties
  <1>4. Head(out[f]) = out[f][1]
    BY <1>1, <1>3
  <1>5. out'[f] = Tail(out[f]) /\ \A g \in Fds \ {f} : out'[g] = out[g]
    BY DEF TypeOK
  <1>6. ASSUME NEW i \in 1..Len(Tail(out[f]))
        PROVE  i \in Nat \ {0} /\ i + 1 \in 1..Len(out[f]) /\ Tail(out[f])[i] = out[f][i + 1]
    BY <1>2, <1>3
  <1>7. 1 \in DOMAIN out[f]
    BY <1>3
  <1> QED
    BY <1>3, <1>4, <1>5, <1>6, <1>7

-----------------------------------------------------------------------------
(* What a step does to the messages.  Six kinds of steps cover all actions, *)
(* so the invariants about messages need six cases and not eighteen.       *)

\* a packet is answered, or an error or a broadcast is pushed
PushesPlain ==
    /\ \E k \in Kind \ {"to"}, fs \in SUBSET Fds : Push(fs, Plain(k))
    /\ UNCHANGED <<store, sent, written>>

\* a private message goes to the file
StoresMessage ==
    \E u \in Users, fs \in SUBSET Fds :
        /\ userToConn[u] = NoConn
        /\ sent' = Append(sent, u)
        /\ store' = store \cup {Len(sent) + 1}
        /\ Push(fs, Plain("reply"))
        /\ UNCHANGED written

\* a private message goes to the queue that its addressee's route names
RoutesMessage ==
    \E u \in Users, fs \in SUBSET Fds :
        /\ userToConn[u] # NoConn /\ fs \subseteq {userToConn[u]}
        /\ sent' = Append(sent, u)
        /\ Push(fs, Private(Len(sent) + 1))
        /\ UNCHANGED <<store, written>>

\* a user's unread messages go to a queue
DrainsMessages ==
    /\ \E f \in Fds, u \in Users \cup {NoUser} : AnswerAndDrain(f, u)
    /\ UNCHANGED <<sent, written>>

\* the front buffer of a queue is written
WritesFront ==
    /\ \E f \in Fds :
         /\ out[f] # <<>>
         /\ out' = [out EXCEPT ![f] = Tail(@)]
         /\ written' = IF Head(out[f]).kind = "to"
                       THEN written \cup {Head(out[f]).id} ELSE written
    /\ UNCHANGED <<store, sent>>

\* nothing happens to messages, or queues and lines of the file are lost
LosesMessages ==
    /\ \A f \in Fds : out'[f] = out[f] \/ out'[f] = <<>>
    /\ store' \subseteq store
    /\ UNCHANGED <<sent, written>>

LEMMA StepKinds ==
  ASSUME TypeOK, [Next]_vars
  PROVE  \/ PushesPlain \/ StoresMessage \/ RoutesMessage
         \/ DrainsMessages \/ WritesFront \/ LosesMessages
  <1> USE DEF TypeOK, cmVars, loopVars, history
  <1>k. {"reply", "error", "chat"} \subseteq Kind \ {"to"}
    BY DEF Kind
  <1>1. ASSUME NEW f \in Fds, Answer(f) PROVE PushesPlain
    BY <1>1, <1>k DEF Answer, PushesPlain
  <1>2. ASSUME NEW f \in Fds, LoginRefused(f) PROVE DrainsMessages
    <2>1. CM!UserOn(f) \in Users \cup {NoUser}
      BY DEF CM!UserOn, CM!TypeOK
    <2> QED
      BY <1>2, <2>1 DEF LoginRefused, DrainsMessages
  <1>3. ASSUME NEW f \in Fds, Logout(f) PROVE PushesPlain
    BY <1>3, <1>k DEF Logout, PushesPlain
  <1>4. ASSUME NEW f \in Fds, Chat(f) PROVE PushesPlain
    <2>1. PICK k \in {"error", "chat"} : Push(Targets(f, CM!Authenticated), Plain(k))
      BY <1>4 DEF Chat
    <2>2. Targets(f, CM!Authenticated) \in SUBSET Fds
      BY DEF Targets
    <2> QED
      BY <1>4, <2>1, <2>2, <1>k DEF Chat, PushesPlain
  <1>5. ASSUME NEW f \in Fds, NEW u \in Users, Login(f, u) PROVE DrainsMessages
    BY <1>5 DEF Login, DrainsMessages
  <1>6. ASSUME NEW f \in Fds, NEW u \in Users, ChatToStored(f, u) PROVE StoresMessage
    BY <1>6 DEF ChatToStored, StoresMessage, CM!ConnectionOf
  <1>7. ASSUME NEW f \in Fds, NEW u \in Users, ChatToRouted(f, u) PROVE RoutesMessage
    BY <1>7 DEF ChatToRouted, RoutesMessage, CM!ConnectionOf, Targets
  <1>8. ASSUME NEW f \in Fds, NEW u \in Users, ChatToRefused(f, u) PROVE PushesPlain
    <2>1. /\ Targets(f, {CM!ConnectionOf(u)}) \in SUBSET Fds
          /\ {f} \in SUBSET Fds
      BY DEF Targets
    <2> QED
      BY <1>8, <2>1, <1>k DEF ChatToRefused, PushesPlain
  <1>9. CASE Select \/ StartWriting \/ StartClosing \/ EndIteration
    BY <1>9 DEF Select, StartWriting, StartClosing, EndIteration, LosesMessages
  <1>10. CASE CheckTimeout \/ CleanupUsers
    BY <1>10 DEF CheckTimeout, CleanupUsers, LosesMessages
  <1>11. ASSUME NEW f \in Fds, EndRead(f) \/ ReadEnds(f) \/ EndWrite(f) \/ WriteFails(f)
         PROVE LosesMessages
    BY <1>11 DEF EndRead, ReadEnds, EndWrite, WriteFails, LosesMessages
  <1>12. ASSUME NEW f \in Fds, WriteFront(f) PROVE WritesFront
    BY <1>12 DEF WriteFront, WritesFront
  <1>13. ASSUME NEW f \in Fds, Close(f) \/ Expire(f) PROVE LosesMessages
    BY <1>13 DEF Close, Expire, Drop, LosesMessages
  <1>14. CASE Crash \/ CrashInSave
    BY <1>14 DEF Crash, CrashInSave, Reset, LosesMessages
  <1>15. CASE UNCHANGED vars
    BY <1>15 DEF vars, LosesMessages
  <1> QED
    BY <1>1, <1>2, <1>3, <1>4, <1>5, <1>6, <1>7, <1>8, <1>9, <1>10, <1>11, <1>12, <1>13,
       <1>14, <1>15 DEF Next, Handle, Loop

-----------------------------------------------------------------------------
(* The tables of connections.                                              *)

\* What a phase of the loop has used up when the next one begins.
Swept ==
    /\ phase \in {"write", "close", "expire", "select"} => writable = {}
    /\ phase \in {"close", "select"} => todo = {}
    /\ phase \in {"expire", "select"} => toClose = {}

LEMMA SweptStep ==
  ASSUME Swept, [Next]_vars
  PROVE  Swept'
  <1> USE DEF Swept, loopVars
  <1>1. ASSUME NEW f \in Fds, Handle(f) PROVE Swept'
    BY <1>1 DEF Handle, Answer, LoginRefused, Logout, Chat, Login, ChatToStored,
       ChatToRouted, ChatToRefused, Packet, Reading
  <1>2. CASE Loop
    BY <1>2 DEF Loop, Select, StartWriting, StartClosing, EndIteration, CheckTimeout,
       CleanupUsers, EndRead, ReadEnds, WriteFront, EndWrite, WriteFails, Close, Expire,
       Reading, Writing, Turn
  <1>3. CASE Crash \/ CrashInSave
    BY <1>3 DEF Crash, CrashInSave, Reset
  <1>4. CASE UNCHANGED vars
    BY <1>4 DEF vars
  <1> QED
    BY <1>1, <1>2, <1>3, <1>4 DEF Next

\* The loop, the connection manager, the monitor and the queues keep agreeing.
LEMMA TablesStep ==
  ASSUME TypeOK, Swept, TablesAgree, [Next]_vars
  PROVE  TablesAgree'
  <1> USE DEF TypeOK, TablesAgree, Expiring, cmVars, loopVars, history, CM!TypeOK
  <1>p. ASSUME NEW f \in Fds, Packet(f), UNCHANGED connections,
               \A g \in Fds \ conns : out'[g] = out[g] /\ userOf'[g] = userOf[g]
        PROVE  TablesAgree'
    BY <1>p DEF Packet, Reading, Turn
  <1>r. \A f \in Fds : Packet(f) => f \in conns
    BY DEF Packet, Reading, Turn
  <1>1. ASSUME NEW f \in Fds, Answer(f) PROVE TablesAgree'
    BY <1>1, <1>p, <1>r DEF Answer, Push
  <1>2. ASSUME NEW f \in Fds, LoginRefused(f) PROVE TablesAgree'
    BY <1>2, <1>p, <1>r DEF LoginRefused, AnswerAndDrain
  <1>3. ASSUME NEW f \in Fds, Logout(f) PROVE TablesAgree'
    BY <1>3, <1>p, <1>r DEF Logout, Push, CM!DeauthenticateConnection
  <1>4. ASSUME NEW f \in Fds, Chat(f) PROVE TablesAgree'
    BY <1>4, <1>p DEF Chat, Push, Targets
  <1>5. ASSUME NEW f \in Fds, NEW u \in Users, Login(f, u) PROVE TablesAgree'
    BY <1>5, <1>p, <1>r DEF Login, AnswerAndDrain, CM!AuthenticateConnection
  <1>6. ASSUME NEW f \in Fds, NEW u \in Users, ChatToStored(f, u) PROVE TablesAgree'
    BY <1>6, <1>p, <1>r DEF ChatToStored, Push
  <1>7. ASSUME NEW f \in Fds, NEW u \in Users, ChatToRouted(f, u) PROVE TablesAgree'
    BY <1>7, <1>p DEF ChatToRouted, Push, Targets
  <1>8. ASSUME NEW f \in Fds, NEW u \in Users, ChatToRefused(f, u) PROVE TablesAgree'
    BY <1>8, <1>p, <1>r DEF ChatToRefused, Push, Targets
  <1>9. CASE Select
    BY <1>9 DEF Select, Accept, Lowest, CM!AddConnection
  <1>10. CASE StartWriting \/ StartClosing \/ EndIteration
    BY <1>10 DEF StartWriting, StartClosing, EndIteration
  <1>11. CASE CheckTimeout \/ CleanupUsers
    BY <1>11 DEF CheckTimeout, CleanupUsers
  <1>12. ASSUME NEW f \in Fds, EndRead(f) \/ ReadEnds(f) \/ EndWrite(f) \/ WriteFails(f)
         PROVE TablesAgree'
    BY <1>12 DEF EndRead, ReadEnds, EndWrite, WriteFails, Reading, Writing, Turn
  <1>13. ASSUME NEW f \in Fds, WriteFront(f) PROVE TablesAgree'
    BY <1>13 DEF WriteFront, Writing, Turn
  <1>14. ASSUME NEW f \in Fds, Drop(f)
         PROVE /\ connections' = connections \ {f} /\ conns' = conns \ {f}
               /\ \A g \in Fds \ conns' : out'[g] = <<>> /\ userOf'[g] = NoUser
    BY <1>14 DEF Drop, CM!RemoveConnection
  <1>15. ASSUME NEW f \in Fds, Close(f) PROVE TablesAgree'
    <2>1. phase = "close" /\ UNCHANGED <<phase, todo, writable>>
          /\ toClose' = toClose \ {f} /\ activities' = activities \ {f}
      BY <1>15 DEF Close
    <2>2. todo = {} /\ writable = {}
      BY <2>1 DEF Swept
    <2> QED
      BY <1>14, <1>15, <2>1, <2>2 DEF Close
  <1>16. ASSUME NEW f \in Fds, Expire(f) PROVE TablesAgree'
    <2>1. phase = "expire" /\ toClose = {} /\ writable = {} /\ f \in todo
      BY <1>16 DEF Expire, Swept
    <2>2. UNCHANGED <<activities, phase, toClose, writable>> /\ todo' = todo \ {f}
      BY <1>16 DEF Expire
    <2>3. Drop(f)
      BY <1>16, <2>1 DEF Expire
    <2> QED
      BY <1>14, <2>1, <2>2, <2>3
  <1>17. CASE Crash \/ CrashInSave
    BY <1>17 DEF Crash, CrashInSave, Reset, CM!Restart
  <1>18. CASE UNCHANGED vars
    BY <1>18 DEF vars
  <1> QED
    BY <1>1, <1>2, <1>3, <1>4, <1>5, <1>6, <1>7, <1>8, <1>9, <1>10, <1>11, <1>12, <1>13,
       <1>15, <1>16, <1>17, <1>18 DEF Next, Handle, Loop

-----------------------------------------------------------------------------
(* Messages in the file.                                                   *)

\* An accepted message gets an identity above all others.
LEMMA SentAppend ==
  ASSUME TypeOK, NEW u \in Users, sent' = Append(sent, u)
  PROVE  /\ Len(sent) + 1 \in Nat
         /\ DOMAIN sent \subseteq Nat
         /\ DOMAIN sent' = DOMAIN sent \cup {Len(sent) + 1}
         /\ \A m \in DOMAIN sent : m < Len(sent) + 1 /\ sent'[m] = sent[m]
         /\ sent'[Len(sent) + 1] = u
  <1>1. sent \in Seq(Users)
    BY DEF TypeOK
  <1>2. /\ Append(sent, u) \in Seq(Users)
        /\ Len(Append(sent, u)) = Len(sent) + 1
        /\ \A i \in 1..Len(sent) : Append(sent, u)[i] = sent[i]
        /\ Append(sent, u)[Len(sent) + 1] = u
    BY <1>1, AppendProperties
  <1>3. /\ DOMAIN sent = 1..Len(sent) /\ Len(sent) \in Nat
        /\ DOMAIN Append(sent, u) = 1..(Len(sent) + 1)
    BY <1>1, <1>2, LenProperties
  <1> QED
    BY <1>2, <1>3

\* A user who has a route has nothing waiting in the file: LOGIN makes the
\* route and drains in one step, and nothing is stored while there is a route.
LEMMA DrainedStep ==
  ASSUME TypeOK, ReachableDrained, [Next]_vars
  PROVE  ReachableDrained'
  <1> USE DEF cmVars, loopVars, history
  <1>0. ASSUME store' \subseteq store, UNCHANGED sent,
               \A u \in Users : userToConn'[u] \in {userToConn[u], NoConn}
        PROVE  ReachableDrained'
    BY <1>0 DEF ReachableDrained, Unread
  <1>f. ASSUME NEW f \in Fds, CM!ForgetRoute(f)
        PROVE  \A u \in Users : userToConn'[u] \in {userToConn[u], NoConn}
    BY <1>f DEF CM!ForgetRoute
  <1>1. ASSUME NEW f \in Fds, Answer(f) \/ Chat(f) PROVE ReachableDrained'
    BY <1>0, <1>1 DEF Answer, Chat
  <1>2. ASSUME NEW f \in Fds, LoginRefused(f) PROVE ReachableDrained'
    BY <1>0, <1>2 DEF LoginRefused, AnswerAndDrain, MarkRead
  <1>3. ASSUME NEW f \in Fds, Logout(f) PROVE ReachableDrained'
    BY <1>0, <1>3, <1>f DEF Logout, CM!DeauthenticateConnection
  <1>4. ASSUME NEW f \in Fds, NEW u \in Users, Login(f, u) PROVE ReachableDrained'
    <2>1. store' = store \ Unread(u) /\ sent' = sent
      BY <1>4 DEF Login, AnswerAndDrain, MarkRead
    <2>2. \A v \in Users : v # u => userToConn'[v] = userToConn[v]
      BY <1>4 DEF Login, CM!AuthenticateConnection, TypeOK, CM!TypeOK
    <2> QED
      BY <2>1, <2>2 DEF ReachableDrained, Unread
  <1>5. ASSUME NEW f \in Fds, NEW u \in Users, ChatToStored(f, u) PROVE ReachableDrained'
    <2>1. /\ store' = store \cup {Len(sent) + 1} /\ userToConn[u] = NoConn
          /\ userToConn' = userToConn
      BY <1>5 DEF ChatToStored, CM!ConnectionOf
    <2>2. sent'[Len(sent) + 1] = u /\ \A m \in store : sent'[m] = sent[m]
      BY <1>5, SentAppend DEF ChatToStored, TypeOK
    <2> QED
      BY <2>1, <2>2 DEF ReachableDrained, Unread
  <1>6. ASSUME NEW f \in Fds, NEW u \in Users, ChatToRouted(f, u) PROVE ReachableDrained'
    <2>1. store' = store /\ userToConn' = userToConn
      BY <1>6 DEF ChatToRouted
    <2>2. \A m \in store : sent'[m] = sent[m]
      BY <1>6, SentAppend DEF ChatToRouted, TypeOK
    <2> QED
      BY <2>1, <2>2 DEF ReachableDrained, Unread
  <1>7. ASSUME NEW f \in Fds, NEW u \in Users, ChatToRefused(f, u) PROVE ReachableDrained'
    BY <1>0, <1>7 DEF ChatToRefused
  <1>8. CASE Select \/ StartWriting \/ StartClosing \/ EndIteration \/ CheckTimeout
             \/ CleanupUsers
    BY <1>0, <1>8 DEF Select, Accept, CM!AddConnection, StartWriting, StartClosing,
       EndIteration, CheckTimeout, CleanupUsers
  <1>9. ASSUME NEW f \in Fds, EndRead(f) \/ ReadEnds(f) \/ WriteFront(f) \/ EndWrite(f)
                             \/ WriteFails(f)
        PROVE ReachableDrained'
    BY <1>0, <1>9 DEF EndRead, ReadEnds, WriteFront, EndWrite, WriteFails
  <1>10. ASSUME NEW f \in Fds, Close(f) \/ Expire(f) PROVE ReachableDrained'
    <2>1. Drop(f) \/ UNCHANGED cmVars
      BY <1>10 DEF Close, Expire
    <2>2. \A u \in Users : userToConn'[u] \in {userToConn[u], NoConn}
      BY <2>1, <1>f DEF Drop, CM!RemoveConnection
    <2> QED
      BY <1>0, <1>10, <2>2 DEF Close, Expire
  <1>11. CASE Crash \/ CrashInSave
    <2>1. Reset /\ store' \subseteq store
      BY <1>11 DEF Crash, CrashInSave
    <2> QED
      BY <1>0, <2>1 DEF Reset, CM!Restart
  <1>12. CASE UNCHANGED vars
    BY <1>0, <1>12 DEF vars
  <1> QED
    BY <1>1, <1>2, <1>3, <1>4, <1>5, <1>6, <1>7, <1>8, <1>9, <1>10, <1>11, <1>12
       DEF Next, Handle, Loop

-----------------------------------------------------------------------------
(* Messages in queues.                                                     *)

\* StoredNewest, one position of a queue at a time.
NewestAt ==
    \A m \in store :
        /\ \A n \in written : sent[n] = sent[m] => n < m
        /\ \A f \in Fds : \A i \in DOMAIN out[f] :
             PrivateAt(f, i) /\ sent[out[f][i].id] = sent[m] => out[f][i].id < m

LEMMA NewestIsNewestAt == (StoredNewest <=> NewestAt) /\ (StoredNewest' <=> NewestAt')
  <1>1. StoredNewest <=> NewestAt
    BY DEF StoredNewest, NewestAt, Queued, PrivateAt
  <1>2. StoredNewest' <=> NewestAt'
    BY DEF StoredNewest, NewestAt, Queued, PrivateAt
  <1> QED
    BY <1>1, <1>2

MessagesOK == Known /\ OneCopy /\ QueueOrder /\ NewestAt

\* Private messages stay where they are in their queues, and no line comes
\* back into the file.
LEMMA QuietStep ==
  ASSUME TypeOK, MessagesOK, UNCHANGED <<sent, written>>, store' \subseteq store,
         \A f \in Fds : \A i \in DOMAIN out'[f] : PrivateAt(f, i)' => Kept(f, i)
  PROVE  MessagesOK'
  <1>1. \A f \in Fds : \A i \in DOMAIN out'[f] :
          PrivateAt(f, i)' => PrivateAt(f, i) /\ out'[f][i] = out[f][i]
    BY DEF PrivateAt, Kept
  <1>2. Known'
    BY <1>1 DEF MessagesOK, Known, PrivateAt
  <1>3. OneCopy'
    <2>1. \A f \in Fds : \A i \in DOMAIN out'[f] :
             PrivateAt(f, i)' => out'[f][i].id \notin store' \cup written'
      BY <1>1 DEF MessagesOK, OneCopy, PrivateAt
    <2>2. ASSUME NEW f \in Fds, NEW g \in Fds, NEW i \in DOMAIN out'[f], NEW j \in DOMAIN out'[g],
                 PrivateAt(f, i)', PrivateAt(g, j)', out'[f][i].id = out'[g][j].id
          PROVE  f = g /\ i = j
      <3>1. /\ PrivateAt(f, i) /\ out'[f][i] = out[f][i]
            /\ PrivateAt(g, j) /\ out'[g][j] = out[g][j]
        BY <1>1, <2>2
      <3>2. i \in DOMAIN out[f] /\ j \in DOMAIN out[g] /\ out[f][i].id = out[g][j].id
        BY <3>1, <2>2 DEF PrivateAt
      <3> QED
        BY <3>1, <3>2 DEF MessagesOK, OneCopy
    <2> QED
      BY <2>1, <2>2 DEF MessagesOK, OneCopy
  <1>4. QueueOrder'
    <2> SUFFICES ASSUME NEW f \in Fds, NEW i \in DOMAIN out'[f], NEW j \in DOMAIN out'[f],
                        i < j, PrivateAt(f, i)', PrivateAt(f, j)',
                        sent'[out'[f][i].id] = sent'[out'[f][j].id]
                 PROVE  out'[f][i].id < out'[f][j].id
      BY DEF QueueOrder
    <2>1. /\ PrivateAt(f, i) /\ out'[f][i] = out[f][i]
          /\ PrivateAt(f, j) /\ out'[f][j] = out[f][j]
      BY <1>1
    <2> QED
      BY <2>1 DEF MessagesOK, QueueOrder, PrivateAt
  <1>5. NewestAt'
    BY <1>1 DEF MessagesOK, NewestAt, PrivateAt
  <1> QED
    BY <1>2, <1>3, <1>4, <1>5 DEF MessagesOK

\* A message that goes to the file is newer than all that are queued.
LEMMA StoreStep ==
  ASSUME TypeOK, MessagesOK, StoresMessage
  PROVE  MessagesOK'
  <1>1. PICK u \in Users, fs \in SUBSET Fds :
          /\ sent' = Append(sent, u)
          /\ store' = store \cup {Len(sent) + 1}
          /\ Push(fs, Plain("reply"))
          /\ written' = written
    BY DEF StoresMessage
  <1> DEFINE new == Len(sent) + 1
  <1>2. /\ new \in Nat /\ DOMAIN sent \subseteq Nat
        /\ DOMAIN sent' = DOMAIN sent \cup {new}
        /\ \A m \in DOMAIN sent : m < new /\ sent'[m] = sent[m]
        /\ sent'[new] = u
    BY <1>1, SentAppend
  <1>3. new \notin DOMAIN sent
    BY <1>2
  <1>4. store \subseteq DOMAIN sent /\ written \subseteq DOMAIN sent
    BY DEF TypeOK
  <1>5. Plain("reply") \in Entry /\ Plain("reply").kind # "to"
    BY PlainIsEntry DEF Plain, Kind
  <1>6. ASSUME NEW f \in Fds, NEW i \in DOMAIN out'[f], PrivateAt(f, i)'
        PROVE  PrivateAt(f, i) /\ out'[f][i] = out[f][i] /\ out[f][i].id \in DOMAIN sent
    <2>1. Kept(f, i)
      BY <1>1, <1>5, <1>6, PushAt DEF PrivateAt
    <2> QED
      BY <1>6, <2>1 DEF Kept, PrivateAt, MessagesOK, Known
  <1> HIDE DEF new
  <1>7. store' = store \cup {new}
    BY <1>1 DEF new
  <1>8. Known'
    BY <1>2, <1>6 DEF Known
  <1>9. OneCopy'
    <2>1. store' \cap written' = {}
      BY <1>1, <1>3, <1>4, <1>7 DEF MessagesOK, OneCopy
    <2>2. ASSUME NEW f \in Fds, NEW i \in DOMAIN out'[f], PrivateAt(f, i)'
          PROVE  out'[f][i].id \notin store' \cup written'
      <3>1. PrivateAt(f, i) /\ out'[f][i] = out[f][i] /\ out[f][i].id \in DOMAIN sent
        BY <1>6, <2>2
      <3> QED
        BY <3>1, <1>1, <1>3, <1>7 DEF MessagesOK, OneCopy, PrivateAt
    <2>3. ASSUME NEW f \in Fds, NEW g \in Fds, NEW i \in DOMAIN out'[f], NEW j \in DOMAIN out'[g],
                 PrivateAt(f, i)', PrivateAt(g, j)', out'[f][i].id = out'[g][j].id
          PROVE  f = g /\ i = j
      <3>1. /\ PrivateAt(f, i) /\ out'[f][i] = out[f][i]
            /\ PrivateAt(g, j) /\ out'[g][j] = out[g][j]
        BY <1>6, <2>3
      <3>2. i \in DOMAIN out[f] /\ j \in DOMAIN out[g] /\ out[f][i].id = out[g][j].id
        BY <3>1, <2>3 DEF PrivateAt
      <3> QED
        BY <3>1, <3>2 DEF MessagesOK, OneCopy
    <2> QED
      BY <2>1, <2>2, <2>3 DEF OneCopy
  <1>10. QueueOrder'
    <2> SUFFICES ASSUME NEW f \in Fds, NEW i \in DOMAIN out'[f], NEW j \in DOMAIN out'[f],
                        i < j, PrivateAt(f, i)', PrivateAt(f, j)',
                        sent'[out'[f][i].id] = sent'[out'[f][j].id]
                 PROVE  out'[f][i].id < out'[f][j].id
      BY DEF QueueOrder
    <2>1. /\ PrivateAt(f, i) /\ out'[f][i] = out[f][i] /\ out[f][i].id \in DOMAIN sent
          /\ PrivateAt(f, j) /\ out'[f][j] = out[f][j] /\ out[f][j].id \in DOMAIN sent
      BY <1>6
    <2>2. sent[out[f][i].id] = sent[out[f][j].id]
      BY <2>1, <1>2
    <2> QED
      BY <2>1, <2>2 DEF MessagesOK, QueueOrder, PrivateAt
  <1>11. NewestAt'
    <2> SUFFICES ASSUME NEW m \in store'
                 PROVE  /\ \A n \in written' : sent'[n] = sent'[m] => n < m
                        /\ \A f \in Fds : \A i \in DOMAIN out'[f] :
                             PrivateAt(f, i)' /\ sent'[out'[f][i].id] = sent'[m]
                             => out'[f][i].id < m
      BY DEF NewestAt
    <2>1. CASE m = new
      BY <2>1, <1>1, <1>2, <1>4, <1>6
    <2>2. CASE m \in store
      <3>1. sent'[m] = sent[m] /\ \A n \in written : sent'[n] = sent[n]
        BY <2>2, <1>2, <1>4
      <3>2. \A n \in written' : sent'[n] = sent'[m] => n < m
        BY <3>1, <2>2, <1>1 DEF MessagesOK, NewestAt
      <3>3. ASSUME NEW f \in Fds, NEW i \in DOMAIN out'[f], PrivateAt(f, i)',
                   sent'[out'[f][i].id] = sent'[m]
            PROVE  out'[f][i].id < m
        <4>1. PrivateAt(f, i) /\ out'[f][i] = out[f][i] /\ out[f][i].id \in DOMAIN sent
          BY <1>6, <3>3
        <4>2. sent[out[f][i].id] = sent[m]
          BY <4>1, <3>1, <3>3, <1>2
        <4> QED
          BY <4>1, <4>2, <2>2 DEF MessagesOK, NewestAt, PrivateAt
      <3> QED
        BY <3>2, <3>3
    <2> QED
      BY <2>1, <2>2, <1>7
  <1> QED
    BY <1>8, <1>9, <1>10, <1>11 DEF MessagesOK

\* A message that is queued at once is newer than all that are queued, and none
\* for its addressee is left in the file.
LEMMA RouteStep ==
  ASSUME TypeOK, MessagesOK, ReachableDrained, RoutesMessage
  PROVE  MessagesOK'
  <1>1. PICK u \in Users, fs \in SUBSET Fds :
          /\ userToConn[u] # NoConn /\ fs \subseteq {userToConn[u]}
          /\ sent' = Append(sent, u)
          /\ Push(fs, Private(Len(sent) + 1))
          /\ store' = store /\ written' = written
    BY DEF RoutesMessage
  <1> DEFINE new == Len(sent) + 1
             Last(f, i) == f \in fs /\ i = Len(out[f]) + 1
  <1>2. /\ new \in Nat /\ DOMAIN sent \subseteq Nat
        /\ DOMAIN sent' = DOMAIN sent \cup {new}
        /\ \A m \in DOMAIN sent : m < new /\ sent'[m] = sent[m]
        /\ sent'[new] = u
    BY <1>1, SentAppend
  <1>3. new \notin DOMAIN sent
    BY <1>2
  <1>4. store \subseteq DOMAIN sent /\ written \subseteq DOMAIN sent
    BY DEF TypeOK
  <1>5. Private(new) \in Entry /\ Private(new).id = new
    BY <1>2, PrivateIsEntry DEF Private
  <1> HIDE DEF new
  <1>6. Push(fs, Private(new))
    BY <1>1 DEF new
  <1>7. ASSUME NEW f \in Fds, NEW i \in DOMAIN out'[f], PrivateAt(f, i)'
        PROVE  \/ /\ PrivateAt(f, i) /\ i \in Nat /\ i < Len(out[f]) + 1
                  /\ out'[f][i] = out[f][i] /\ out[f][i].id \in DOMAIN sent
               \/ Last(f, i) /\ out'[f][i].id = new
    <2>1. Kept(f, i) \/ (Last(f, i) /\ out'[f][i] = Private(new))
      BY <1>5, <1>6, PushAt
    <2>2. CASE Kept(f, i)
      <3>1. i \in Nat /\ i < Len(out[f]) + 1
        BY <2>2, <1>5, <1>6, PushAt DEF Kept
      <3> QED
        BY <3>1, <1>7, <2>2 DEF Kept, PrivateAt, MessagesOK, Known
    <2> QED
      BY <2>1, <2>2, <1>5
  <1>8. Known'
    BY <1>2, <1>7 DEF Known
  <1>9. OneCopy'
    <2>1. ASSUME NEW f \in Fds, NEW i \in DOMAIN out'[f], PrivateAt(f, i)'
          PROVE  out'[f][i].id \notin store' \cup written'
      <3>1. CASE PrivateAt(f, i) /\ out'[f][i] = out[f][i]
        BY <3>1, <1>1 DEF MessagesOK, OneCopy, PrivateAt
      <3>2. CASE out'[f][i].id = new
        BY <3>2, <1>1, <1>3, <1>4
      <3> QED
        BY <3>1, <3>2, <2>1, <1>7
    <2>2. ASSUME NEW f \in Fds, NEW g \in Fds, NEW i \in DOMAIN out'[f], NEW j \in DOMAIN out'[g],
                 PrivateAt(f, i)', PrivateAt(g, j)', out'[f][i].id = out'[g][j].id
          PROVE  f = g /\ i = j
      <3>1. \/ PrivateAt(f, i) /\ out'[f][i] = out[f][i] /\ out[f][i].id \in DOMAIN sent
            \/ Last(f, i) /\ out'[f][i].id = new
        BY <1>7, <2>2
      <3>2. \/ PrivateAt(g, j) /\ out'[g][j] = out[g][j] /\ out[g][j].id \in DOMAIN sent
            \/ Last(g, j) /\ out'[g][j].id = new
        BY <1>7, <2>2
      <3>3. CASE Last(f, i) /\ Last(g, j)
        BY <3>3, <1>1
      <3>4. CASE /\ PrivateAt(f, i) /\ out'[f][i] = out[f][i]
                 /\ PrivateAt(g, j) /\ out'[g][j] = out[g][j]
        <4>1. i \in DOMAIN out[f] /\ j \in DOMAIN out[g] /\ out[f][i].id = out[g][j].id
          BY <3>4, <2>2 DEF PrivateAt
        <4> QED
          BY <3>4, <4>1 DEF MessagesOK, OneCopy
      <3> HIDE DEF Last
      <3> QED
        BY <3>1, <3>2, <3>3, <3>4, <2>2, <1>3
    <2> QED
      BY <2>1, <2>2, <1>1 DEF OneCopy, MessagesOK
  <1>10. QueueOrder'
    <2> SUFFICES ASSUME NEW f \in Fds, NEW i \in DOMAIN out'[f], NEW j \in DOMAIN out'[f],
                        i < j, PrivateAt(f, i)', PrivateAt(f, j)',
                        sent'[out'[f][i].id] = sent'[out'[f][j].id]
                 PROVE  out'[f][i].id < out'[f][j].id
      BY DEF QueueOrder
    <2>n. Len(out[f]) \in Nat
      BY <1>5, <1>6, PushAt
    <2>1. CASE Last(f, i)
      <3>1. j \in Nat /\ j < i + 1
        BY <1>7, <2>1, <2>n
      <3> QED
        BY <3>1, <2>1, <2>n
    <2>2. CASE ~Last(f, i) /\ Last(f, j)
      <3>1. out'[f][i].id \in DOMAIN sent /\ (out'[f][j].id = new \/ j < Len(out[f]) + 1)
        BY <1>7, <2>2
      <3> QED
        BY <3>1, <1>2, <2>2, <2>n
    <2>3. CASE ~Last(f, i) /\ ~Last(f, j)
      <3>1. /\ PrivateAt(f, i) /\ out'[f][i] = out[f][i] /\ out[f][i].id \in DOMAIN sent
            /\ PrivateAt(f, j) /\ out'[f][j] = out[f][j] /\ out[f][j].id \in DOMAIN sent
        BY <1>7, <2>3
      <3>2. sent[out[f][i].id] = sent[out[f][j].id]
        BY <3>1, <1>2
      <3> QED
        BY <3>1, <3>2 DEF MessagesOK, QueueOrder, PrivateAt
    <2> QED
      BY <2>1, <2>2, <2>3
  <1>11. NewestAt'
    <2> SUFFICES ASSUME NEW m \in store
                 PROVE  /\ \A n \in written : sent'[n] = sent'[m] => n < m
                        /\ \A f \in Fds : \A i \in DOMAIN out'[f] :
                             PrivateAt(f, i)' /\ sent'[out'[f][i].id] = sent'[m]
                             => out'[f][i].id < m
      BY <1>1 DEF NewestAt
    <2>1. sent'[m] = sent[m] /\ \A n \in written : sent'[n] = sent[n]
      BY <1>2, <1>4
    <2>2. \A n \in written : sent'[n] = sent'[m] => n < m
      BY <2>1 DEF MessagesOK, NewestAt
    <2>3. sent[m] # u
      BY <1>1 DEF ReachableDrained, Unread
    <2>4. ASSUME NEW f \in Fds, NEW i \in DOMAIN out'[f], PrivateAt(f, i)',
                 sent'[out'[f][i].id] = sent'[m]
          PROVE  out'[f][i].id < m
      <3>1. out'[f][i].id # new
        BY <2>1, <2>3, <2>4, <1>2
      <3>2. PrivateAt(f, i) /\ out'[f][i] = out[f][i] /\ out[f][i].id \in DOMAIN sent
        BY <1>7, <2>4, <3>1
      <3>3. sent[out[f][i].id] = sent[m]
        BY <3>2, <2>1, <2>4, <1>2
      <3> QED
        BY <3>2, <3>3 DEF MessagesOK, NewestAt, PrivateAt
    <2> QED
      BY <2>2, <2>4
  <1> QED
    BY <1>8, <1>9, <1>10, <1>11 DEF MessagesOK

\* The unread messages of one user leave the file and go to a queue, in their
\* order; they are newer than what is queued for that user.
LEMMA DrainStep ==
  ASSUME TypeOK, MessagesOK, DrainsMessages
  PROVE  MessagesOK'
  <1>1. PICK c \in Fds, u \in Users \cup {NoUser} : AnswerAndDrain(c, u)
    BY DEF DrainsMessages
  <1>2. /\ store' = store \ Unread(u) /\ sent' = sent /\ written' = written
        /\ \A m \in Unread(u) : m \in store /\ sent[m] = u
    BY <1>1 DEF DrainsMessages, AnswerAndDrain, MarkRead, Unread
  <1>3. PICK s \in Ascending(Unread(u)) :
           /\ \A g \in Fds \ {c} : out'[g] = out[g]
           /\ Len(out[c]) \in Nat
           /\ \A i \in DOMAIN out[c] : i \in Nat /\ i < Len(out[c]) + 1
           /\ DOMAIN s \subseteq Nat \ {0}
           /\ \A j \in DOMAIN s : s[j] \in Unread(u)
           /\ \A i \in DOMAIN out'[c] :
                \/ Kept(c, i)
                \/ i = Len(out[c]) + 1 /\ out'[c][i] = Plain("reply")
                \/ \E j \in DOMAIN s : /\ i = Len(out[c]) + 1 + j
                                       /\ out'[c][i] = Private(s[j])
    BY <1>1, DrainAt
  <1>4. store \subseteq DOMAIN sent /\ written \subseteq DOMAIN sent /\ DOMAIN sent \subseteq Nat
    BY LenProperties DEF TypeOK
  <1>5. \A i, j \in DOMAIN s : i < j => s[i] < s[j]
    BY DEF Ascending
  <1> DEFINE Old(f, i) == /\ PrivateAt(f, i) /\ out'[f][i] = out[f][i]
                          /\ f = c => i \in Nat /\ i < Len(out[c]) + 1
             New(f, i, j) == /\ f = c /\ j \in DOMAIN s /\ i = Len(out[c]) + 1 + j
                             /\ out'[f][i].id = s[j]
  <1>6. ASSUME NEW f \in Fds, NEW i \in DOMAIN out'[f], PrivateAt(f, i)'
        PROVE  Old(f, i) \/ \E j \in DOMAIN s : New(f, i, j)
    <2>1. CASE f # c
      BY <2>1, <1>3, <1>6 DEF PrivateAt
    <2>2. CASE f = c
      <3>1. Kept(c, i) \/ \E j \in DOMAIN s : /\ i = Len(out[c]) + 1 + j
                                             /\ out'[c][i] = Private(s[j])
        BY <2>2, <1>3, <1>6 DEF PrivateAt, Plain
      <3>2. CASE Kept(c, i)
        BY <3>2, <2>2, <1>3, <1>6 DEF Kept, PrivateAt
      <3>3. ASSUME NEW j \in DOMAIN s, i = Len(out[c]) + 1 + j, out'[c][i] = Private(s[j])
            PROVE  New(f, i, j)
        BY <3>3, <2>2 DEF Private
      <3> HIDE DEF New, Old
      <3>4. CASE \E j \in DOMAIN s : /\ i = Len(out[c]) + 1 + j
                                     /\ out'[c][i] = Private(s[j])
        BY <3>3, <3>4
      <3> QED
        BY <3>1, <3>2, <3>4
    <2> QED
      BY <2>1, <2>2
  <1>7. \A f \in Fds : \A i \in DOMAIN out[f] :
          PrivateAt(f, i) => out[f][i].id \in DOMAIN sent /\ out[f][i].id \notin store \cup written
    BY DEF MessagesOK, Known, OneCopy
  <1>8. \A f \in Fds : \A i, j : New(f, i, j) =>
          /\ out'[f][i].id \in store /\ out'[f][i].id \in DOMAIN sent
          /\ out'[f][i].id \notin store' /\ out'[f][i].id \notin written
          /\ sent[out'[f][i].id] = u
    BY <1>2, <1>3, <1>4 DEF MessagesOK, OneCopy
  <1>9. Known'
    BY <1>2, <1>6, <1>7, <1>8 DEF Known, PrivateAt
  <1>10. OneCopy'
    <2>1. store' \cap written' = {}
      BY <1>2 DEF MessagesOK, OneCopy
    <2>2. ASSUME NEW f \in Fds, NEW i \in DOMAIN out'[f], PrivateAt(f, i)'
          PROVE  out'[f][i].id \notin store' \cup written'
      BY <2>2, <1>2, <1>6, <1>7, <1>8 DEF PrivateAt
    <2>3. ASSUME NEW f \in Fds, NEW g \in Fds, NEW i \in DOMAIN out'[f], NEW j \in DOMAIN out'[g],
                 PrivateAt(f, i)', PrivateAt(g, j)', out'[f][i].id = out'[g][j].id
          PROVE  f = g /\ i = j
      <3>1. Old(f, i) \/ \E k \in DOMAIN s : New(f, i, k)
        BY <1>6, <2>3
      <3>2. Old(g, j) \/ \E k \in DOMAIN s : New(g, j, k)
        BY <1>6, <2>3
      <3>3. CASE Old(f, i) /\ Old(g, j)
        <4>1. i \in DOMAIN out[f] /\ j \in DOMAIN out[g] /\ out[f][i].id = out[g][j].id
          BY <3>3, <2>3 DEF PrivateAt
        <4> QED
          BY <3>3, <4>1 DEF MessagesOK, OneCopy
      <3>4. ASSUME NEW k \in DOMAIN s, NEW l \in DOMAIN s, New(f, i, k), New(g, j, l)
            PROVE  f = g /\ i = j
        <4>1. f = g /\ s[k] = s[l]
          BY <2>3, <3>4
        <4>2. s[k] \in Nat /\ k \in Nat /\ l \in Nat
          BY <1>2, <1>3, <1>4
        <4>3. ~(k < l) /\ ~(l < k)
          BY <1>5, <4>1, <4>2
        <4> QED
          BY <4>1, <4>2, <4>3, <3>4
      <3>5. ASSUME Old(f, i), NEW k \in DOMAIN s, New(g, j, k)
            PROVE  FALSE
        BY <3>5, <2>3, <1>7, <1>8 DEF PrivateAt
      <3>6. ASSUME Old(g, j), NEW k \in DOMAIN s, New(f, i, k)
            PROVE  FALSE
        <4>1. out[g][j].id \notin store /\ out'[g][j] = out[g][j]
          BY <3>6, <1>7 DEF PrivateAt
        <4>2. out'[f][i].id \in store
          BY <3>6, <1>8
        <4> QED
          BY <4>1, <4>2, <2>3
      <3> HIDE DEF New, Old
      <3> QED
        BY <3>1, <3>2, <3>3, <3>4, <3>5, <3>6
    <2> QED
      BY <2>1, <2>2, <2>3 DEF OneCopy
  <1>11. QueueOrder'
    <2> SUFFICES ASSUME NEW f \in Fds, NEW i \in DOMAIN out'[f], NEW j \in DOMAIN out'[f],
                        i < j, PrivateAt(f, i)', PrivateAt(f, j)',
                        sent'[out'[f][i].id] = sent'[out'[f][j].id]
                 PROVE  out'[f][i].id < out'[f][j].id
      BY DEF QueueOrder
    <2>0. sent[out'[f][i].id] = sent[out'[f][j].id]
      BY <1>2
    <2>1. Old(f, i) \/ \E k \in DOMAIN s : New(f, i, k)
      BY <1>6
    <2>2. Old(f, j) \/ \E k \in DOMAIN s : New(f, j, k)
      BY <1>6
    <2>3. CASE Old(f, i) /\ Old(f, j)
      BY <2>0, <2>3 DEF MessagesOK, QueueOrder, PrivateAt
    <2>4. ASSUME Old(f, i), NEW k \in DOMAIN s, New(f, j, k)
          PROVE  out'[f][i].id < out'[f][j].id
      <3>1. out'[f][j].id \in store
        BY <2>4, <1>8
      <3>2. PrivateAt(f, i) /\ out'[f][i] = out[f][i] /\ i \in DOMAIN out[f]
        BY <2>4 DEF PrivateAt
      <3> QED
        BY <2>0, <3>1, <3>2 DEF MessagesOK, NewestAt
    <2>5. ASSUME NEW k \in DOMAIN s, New(f, i, k), Old(f, j)
          PROVE  FALSE
      <3>1. k \in Nat /\ Len(out[c]) \in Nat /\ i = Len(out[c]) + 1 + k
        BY <2>5, <1>3
      <3>2. j \in Nat /\ j < Len(out[c]) + 1
        BY <2>5
      <3> QED
        BY <3>1, <3>2
    <2>6. ASSUME NEW k \in DOMAIN s, NEW l \in DOMAIN s, New(f, i, k), New(f, j, l)
          PROVE  out'[f][i].id < out'[f][j].id
      <3>1. k \in Nat /\ l \in Nat /\ Len(out[c]) \in Nat
        BY <1>3
      <3>2. k < l
        BY <2>6, <3>1
      <3> QED
        BY <2>6, <3>2, <1>5
    <2> HIDE DEF New, Old
    <2> QED
      BY <2>1, <2>2, <2>3, <2>4, <2>5, <2>6
  <1>12. NewestAt'
    <2> SUFFICES ASSUME NEW m \in store \ Unread(u)
                 PROVE  /\ \A n \in written : sent[n] = sent[m] => n < m
                        /\ \A f \in Fds : \A i \in DOMAIN out'[f] :
                             PrivateAt(f, i)' /\ sent[out'[f][i].id] = sent[m]
                             => out'[f][i].id < m
      BY <1>2 DEF NewestAt
    <2>1. sent[m] # u
      BY DEF Unread
    <2>2. ASSUME NEW f \in Fds, NEW i \in DOMAIN out'[f], PrivateAt(f, i)',
                 sent[out'[f][i].id] = sent[m]
          PROVE  out'[f][i].id < m
      <3>1. Old(f, i)
        BY <2>1, <2>2, <1>6, <1>8
      <3> QED
        BY <3>1, <2>2 DEF MessagesOK, NewestAt, PrivateAt
    <2> QED
      BY <2>2 DEF MessagesOK, NewestAt
  <1> QED
    BY <1>9, <1>10, <1>11, <1>12 DEF MessagesOK

\* The front of a queue is written; the positions behind it move up by one.
LEMMA WriteStep ==
  ASSUME TypeOK, MessagesOK, WritesFront
  PROVE  MessagesOK'
  <1>1. PICK c \in Fds : /\ out[c] # <<>>
                         /\ out' = [out EXCEPT ![c] = Tail(@)]
                         /\ written' = IF Head(out[c]).kind = "to"
                                       THEN written \cup {Head(out[c]).id} ELSE written
    BY DEF WritesFront
  <1>2. store' = store /\ sent' = sent
    BY DEF WritesFront
  <1>3. /\ \A g \in Fds \ {c} : out'[g] = out[g]
        /\ 1 \in DOMAIN out[c] /\ Head(out[c]) = out[c][1]
        /\ \A i \in DOMAIN out'[c] :
             i \in Nat \ {0} /\ i + 1 \in DOMAIN out[c] /\ out'[c][i] = out[c][i + 1]
    BY <1>1, TailAt
  <1>4. written' \subseteq written \/ (PrivateAt(c, 1) /\ written' = written \cup {out[c][1].id})
    BY <1>1, <1>3 DEF PrivateAt
  <1> DEFINE Was(f, i) == IF f = c THEN i + 1 ELSE i
  <1>5. ASSUME NEW f \in Fds, NEW i \in DOMAIN out'[f], PrivateAt(f, i)'
        PROVE  /\ PrivateAt(f, Was(f, i)) /\ Was(f, i) \in DOMAIN out[f]
               /\ out'[f][i] = out[f][Was(f, i)]
               /\ f = c => i \in Nat \ {0}
    BY <1>3, <1>5 DEF PrivateAt
  <1>6. Known'
    BY <1>2, <1>5 DEF MessagesOK, Known, PrivateAt
  <1>7. OneCopy'
    <2>1. store' \cap written' = {}
      BY <1>2, <1>3, <1>4 DEF MessagesOK, OneCopy
    <2>2. ASSUME NEW f \in Fds, NEW i \in DOMAIN out'[f], PrivateAt(f, i)'
          PROVE  out'[f][i].id \notin store' \cup written'
      <3>1. /\ PrivateAt(f, Was(f, i)) /\ Was(f, i) \in DOMAIN out[f]
            /\ out'[f][i] = out[f][Was(f, i)]
        BY <1>5, <2>2
      <3>2. out'[f][i].id \notin store \cup written
        BY <3>1 DEF MessagesOK, OneCopy
      <3>3. PrivateAt(c, 1) => out'[f][i].id # out[c][1].id
        <4>1. f = c => Was(f, i) # 1
          BY <1>5, <2>2
        <4> HIDE DEF Was
        <4> QED
          BY <3>1, <4>1, <1>3 DEF MessagesOK, OneCopy
      <3> QED
        BY <3>2, <3>3, <1>2, <1>4
    <2>3. ASSUME NEW f \in Fds, NEW g \in Fds, NEW i \in DOMAIN out'[f], NEW j \in DOMAIN out'[g],
                 PrivateAt(f, i)', PrivateAt(g, j)', out'[f][i].id = out'[g][j].id
          PROVE  f = g /\ i = j
      <3>1. /\ PrivateAt(f, Was(f, i)) /\ Was(f, i) \in DOMAIN out[f]
            /\ out'[f][i] = out[f][Was(f, i)]
            /\ PrivateAt(g, Was(g, j)) /\ Was(g, j) \in DOMAIN out[g]
            /\ out'[g][j] = out[g][Was(g, j)]
        BY <1>5, <2>3
      <3>2. f = g /\ Was(f, i) = Was(g, j)
        <4> HIDE DEF Was
        <4> QED
          BY <3>1, <2>3 DEF MessagesOK, OneCopy
      <3>3. f = c => i \in Nat /\ j \in Nat
        BY <3>2, <1>5, <2>3
      <3> QED
        BY <3>2, <3>3
    <2> QED
      BY <2>1, <2>2, <2>3 DEF OneCopy
  <1>8. QueueOrder'
    <2> SUFFICES ASSUME NEW f \in Fds, NEW i \in DOMAIN out'[f], NEW j \in DOMAIN out'[f],
                        i < j, PrivateAt(f, i)', PrivateAt(f, j)',
                        sent'[out'[f][i].id] = sent'[out'[f][j].id]
                 PROVE  out'[f][i].id < out'[f][j].id
      BY DEF QueueOrder
    <2>1. /\ PrivateAt(f, Was(f, i)) /\ Was(f, i) \in DOMAIN out[f]
          /\ out'[f][i] = out[f][Was(f, i)]
          /\ PrivateAt(f, Was(f, j)) /\ Was(f, j) \in DOMAIN out[f]
          /\ out'[f][j] = out[f][Was(f, j)]
      BY <1>5
    <2>2. Was(f, i) < Was(f, j)
      BY <1>5
    <2> HIDE DEF Was
    <2> QED
      BY <2>1, <2>2, <1>2 DEF MessagesOK, QueueOrder
  <1>9. NewestAt'
    <2> SUFFICES ASSUME NEW m \in store
                 PROVE  /\ \A n \in written' : sent[n] = sent[m] => n < m
                        /\ \A f \in Fds : \A i \in DOMAIN out'[f] :
                             PrivateAt(f, i)' /\ sent[out'[f][i].id] = sent[m]
                             => out'[f][i].id < m
      BY <1>2 DEF NewestAt
    <2>1. \A n \in written' : sent[n] = sent[m] => n < m
      BY <1>3, <1>4 DEF MessagesOK, NewestAt
    <2>2. ASSUME NEW f \in Fds, NEW i \in DOMAIN out'[f], PrivateAt(f, i)',
                 sent[out'[f][i].id] = sent[m]
          PROVE  out'[f][i].id < m
      <3>1. /\ PrivateAt(f, Was(f, i)) /\ Was(f, i) \in DOMAIN out[f]
            /\ out'[f][i] = out[f][Was(f, i)]
        BY <1>5, <2>2
      <3> HIDE DEF Was
      <3> QED
        BY <3>1, <2>2 DEF MessagesOK, NewestAt
    <2> QED
      BY <2>1, <2>2
  <1> QED
    BY <1>6, <1>7, <1>8, <1>9 DEF MessagesOK

\* Messages keep in order and single, whatever the step.
LEMMA MessagesStep ==
  ASSUME TypeOK, MessagesOK, ReachableDrained, [Next]_vars
  PROVE  MessagesOK'
  <1>1. CASE PushesPlain
    <2>1. PICK k \in Kind \ {"to"}, fs \in SUBSET Fds : Push(fs, Plain(k))
      BY <1>1 DEF PushesPlain
    <2>2. Plain(k) \in Entry /\ Plain(k).kind # "to"
      BY PlainIsEntry DEF Plain
    <2>3. ASSUME NEW f \in Fds, NEW i \in DOMAIN out'[f], PrivateAt(f, i)'
          PROVE  Kept(f, i)
      BY <2>1, <2>2, <2>3, PushAt DEF PrivateAt
    <2> QED
      BY <1>1, <2>3, QuietStep DEF PushesPlain
  <1>2. CASE LosesMessages
    <2>1. ASSUME NEW f \in Fds, NEW i \in DOMAIN out'[f], PrivateAt(f, i)'
          PROVE  Kept(f, i)
      <3>1. CASE out'[f] = out[f]
        BY <3>1 DEF Kept
      <3>2. CASE out'[f] = <<>>
        BY <3>2
      <3> QED
        BY <3>1, <3>2, <1>2 DEF LosesMessages
    <2> QED
      BY <1>2, <2>1, QuietStep DEF LosesMessages
  <1> QED
    BY <1>1, <1>2, StepKinds, StoreStep, RouteStep, DrainStep, WriteStep

-----------------------------------------------------------------------------
(* The inductive invariant: the loop's tables, the users with a route and  *)
(* the places of the messages need each other.                             *)

Inv ==
    /\ TypeOK
    /\ Swept
    /\ TablesAgree
    /\ ReachableDrained
    /\ MessagesOK

LEMMA InvInit == Init => Inv
  <1> SUFFICES ASSUME Init PROVE Inv
    OBVIOUS
  <1>1. TypeOK
    BY TypeInit
  <1>2. Swept /\ TablesAgree
    BY DEF Init, Empty, CM!Init, Swept, TablesAgree, Expiring
  <1>3. ReachableDrained
    BY DEF Init, ReachableDrained, Unread
  <1>4. MessagesOK
    BY DEF Init, Empty, MessagesOK, Known, OneCopy, QueueOrder, NewestAt, PrivateAt
  <1> QED
    BY <1>1, <1>2, <1>3, <1>4 DEF Inv

LEMMA InvStep == Inv /\ [Next]_vars => Inv'
  BY TypeStep, SweptStep, TablesStep, DrainedStep, MessagesStep DEF Inv, MessagesOK

\* Every reachable state satisfies the inductive invariant.
THEOREM InductiveInvariant == Spec => []Inv
  BY InvInit, InvStep, PTL DEF Spec

\* The variables keep their types; in particular no entry of a queue, line of
\* the file or written message has an identity that was never accepted.
THEOREM TypeCorrect == Spec => []TypeOK
  <1>1. Inv => TypeOK
    BY DEF Inv
  <1> QED
    BY <1>1, InductiveInvariant, PTL

\* The loop's table, the connection manager, the monitor and the queues agree
\* on which connections exist, at every step of the loop
\* (server_im.cpp:141-143, 245-251, 259-266).
THEOREM ConnectionTablesAgree == Spec => []TablesAgree
  <1>1. Inv => TablesAgree
    BY DEF Inv
  <1> QED
    BY <1>1, InductiveInvariant, PTL

\* No message waits in the file for a user who has a route
\* (message_handler.cpp:184-190, server_im.cpp:178-196), not even with several
\* connections of one user, time-outs or restarts.
THEOREM RoutedUsersHaveNothingStored == Spec => []ReachableDrained
  <1>1. Inv => ReachableDrained
    BY DEF Inv
  <1> QED
    BY <1>1, InductiveInvariant, PTL

\* A private message is never in two places: it is delivered at most once,
\* across restarts of the process too (message_storage.cpp:49-66).
THEOREM AtMostOneCopy == Spec => []OneCopy
  <1>1. Inv => OneCopy
    BY DEF Inv, MessagesOK
  <1> QED
    BY <1>1, InductiveInvariant, PTL

\* The messages for one user leave each queue in the order of acceptance.
THEOREM QueuesAreInOrder == Spec => []QueueOrder
  <1>1. Inv => QueueOrder
    BY DEF Inv, MessagesOK
  <1> QED
    BY <1>1, InductiveInvariant, PTL

\* What is stored for a user is newer than all that was queued for or written
\* to that user: the file never causes a reordering.
THEOREM FileIsNewest == Spec => []StoredNewest
  <1>1. Inv => StoredNewest
    BY NewestIsNewestAt DEF Inv, MessagesOK
  <1> QED
    BY <1>1, InductiveInvariant, PTL

-----------------------------------------------------------------------------
(* Routes.  The theorems of this section are about clients that send LOGIN *)
(* once per session, as all clients of the repository do (im_client.cpp);  *)
(* with a second LOGIN the code does not keep them.                        *)

\* Under that discipline each step of the server is a step of the connection
\* manager that its module calls OnceNext: a descriptor is added only when it
\* is not tracked, and removed or authenticated only when it is.
LEMMA ManagerStep ==
  ASSUME ~ReLogin, Inv, [Next]_vars
  PROVE  [CM!OnceNext]_(CM!cmVars)
  <1> USE DEF cmVars, loopVars, history, CM!cmVars
  <1>c. connections = conns
    BY DEF Inv, TablesAgree
  <1>1. CASE UNCHANGED cmVars
    BY <1>1
  <1>2. ASSUME NEW f \in Fds, Logout(f) PROVE CM!OnceNext
    BY <1>2 DEF Logout, CM!DeauthenticateConnection, CM!Authenticated, CM!OnceNext,
       CM!Housekeeping
  <1>3. ASSUME NEW f \in Fds, NEW u \in Users, Login(f, u) PROVE CM!OnceNext
    <2>1. f \in connections /\ userOf[f] = NoUser /\ CM!AuthenticateConnection(f, u)
      BY <1>3 DEF Login, CM!AuthenticateConnection, CM!UserOn
    <2> QED
      BY <2>1 DEF CM!OnceNext, CM!OnceLogin
  <1>4. ASSUME NEW f \in Fds, Accept(f) PROVE CM!OnceNext
    BY <1>4, <1>c DEF Accept, Lowest, CM!OnceNext, CM!Housekeeping
  <1>5. ASSUME NEW f \in conns, Drop(f) PROVE CM!OnceNext
    BY <1>5, <1>c DEF Drop, CM!OnceNext, CM!Housekeeping
  <1>6. CASE Select
    BY <1>1, <1>4, <1>6 DEF Select
  <1>7. ASSUME NEW f \in Fds, Close(f) \/ Expire(f) PROVE [CM!OnceNext]_(CM!cmVars)
    <2>1. CASE f \in conns /\ Drop(f)
      BY <2>1, <1>5
    <2>2. Close(f) => f \in conns
      BY DEF Close, Inv, TablesAgree
    <2> QED
      BY <1>1, <1>7, <2>1, <2>2 DEF Close, Expire
  <1>8. CASE Crash \/ CrashInSave
    BY <1>8 DEF Crash, CrashInSave, Reset, CM!OnceNext, CM!Housekeeping
  <1>9. \/ UNCHANGED cmVars
        \/ \E f \in Fds : Logout(f) \/ (\E u \in Users : Login(f, u)) \/ Close(f) \/ Expire(f)
        \/ Select \/ Crash \/ CrashInSave
    <2>1. ASSUME NEW f \in Fds, Handle(f)
          PROVE  UNCHANGED cmVars \/ Logout(f) \/ \E u \in Users : Login(f, u)
      BY <2>1 DEF Handle, Answer, LoginRefused, Chat, ChatToStored, ChatToRouted, ChatToRefused
    <2>2. CASE Loop
      BY <2>2 DEF Loop, StartWriting, StartClosing, EndIteration, CheckTimeout, CleanupUsers,
         EndRead, ReadEnds, WriteFront, EndWrite, WriteFails
    <2>3. CASE UNCHANGED vars
      BY <2>3 DEF vars
    <2> QED
      BY <2>1, <2>2, <2>3 DEF Next
  <1> QED
    BY <1>1, <1>2, <1>3, <1>6, <1>7, <1>8, <1>9

\* The manager's routes stay sound under that discipline.
LEMMA SoundStep ==
  ASSUME CM!TypeOK, CM!RouteSound, [CM!OnceNext]_(CM!cmVars)
  PROVE  CM!RouteSound'
  <1> USE DEF CM!RouteSound, CM!TypeOK
  <1>1. ASSUME NEW f \in Fds, CM!AddConnection(f), f \notin connections PROVE CM!RouteSound'
    BY <1>1 DEF CM!AddConnection
  <1>2. ASSUME NEW f \in Fds, CM!RemoveConnection(f) PROVE CM!RouteSound'
    BY <1>2, UsersBound DEF CM!RemoveConnection, CM!ForgetRoute, CM!Authenticated
  <1>3. ASSUME NEW f \in Fds, CM!DeauthenticateConnection(f) PROVE CM!RouteSound'
    BY <1>3 DEF CM!DeauthenticateConnection, CM!ForgetRoute, CM!Authenticated
  <1>4. ASSUME NEW f \in Fds, NEW u \in Users, CM!OnceLogin(f, u) PROVE CM!RouteSound'
    BY <1>4, UsersBound DEF CM!OnceLogin, CM!AuthenticateConnection
  <1>5. CASE CM!Restart
    BY <1>5 DEF CM!Restart
  <1>6. CASE UNCHANGED CM!cmVars
    BY <1>6 DEF CM!cmVars
  <1> QED
    BY <1>1, <1>2, <1>3, <1>4, <1>5, <1>6 DEF CM!OnceNext, CM!Housekeeping

\* The server keeps the discipline that the connection manager needs.
THEOREM ServerUsesManagerWell ==
  ASSUME ~ReLogin
  PROVE  Spec => CMOnce
  <1>1. Init => CM!Init
    BY DEF Init
  <1>2. Inv /\ [Next]_vars => [CM!OnceNext]_(CM!cmVars)
    BY ManagerStep
  <1> QED
    BY <1>1, <1>2, InductiveInvariant, PTL DEF Spec, CMOnce, CM!OnceSpec

\* A route leads to a live connection of that very user, so that handle_chat_to
\* (message_handler.cpp:239-242) never sends a message to somebody else.
THEOREM RoutesLeadToTheUser ==
  ASSUME ~ReLogin
  PROVE  Spec => []RouteSound
  <1>1. Init => RouteSound
    BY DEF Init, CM!Init, RouteSound, CM!RouteSound
  <1>2. Inv /\ RouteSound /\ [Next]_vars => RouteSound'
    BY ManagerStep, SoundStep DEF Inv, TypeOK, RouteSound
  <1> QED
    BY <1>1, <1>2, InductiveInvariant, PTL DEF Spec

\* A push adds at most its own message to a queue.
LEMMA PushQueued ==
  ASSUME TypeOK, NEW fs, NEW e \in Entry, Push(fs, e), NEW f \in Fds,
         NEW m \in Queued(f)', m \notin Queued(f)
  PROVE  f \in fs /\ e.kind = "to" /\ m = e.id
  <1>1. PICK i \in DOMAIN out'[f] : out'[f][i].kind = "to" /\ m = out'[f][i].id
    BY DEF Queued
  <1>2. ~Kept(f, i)
    BY <1>1 DEF Kept, Queued
  <1> QED
    BY <1>1, <1>2, PushAt

\* LOGIN adds unread messages of its user to the queue of its connection.
LEMMA DrainQueued ==
  ASSUME TypeOK, NEW c \in Fds, NEW u, AnswerAndDrain(c, u), NEW f \in Fds,
         NEW m \in Queued(f)', m \notin Queued(f)
  PROVE  f = c /\ m \in Unread(u)
  <1>1. PICK i \in DOMAIN out'[f] : out'[f][i].kind = "to" /\ m = out'[f][i].id
    BY DEF Queued
  <1>2. ~Kept(f, i)
    BY <1>1 DEF Kept, Queued
  <1>3. f = c
    BY <1>1, DrainAt DEF Queued
  <1>4. PICK s \in Ascending(Unread(u)) :
           /\ \A j \in DOMAIN s : s[j] \in Unread(u)
           /\ \A k \in DOMAIN out'[c] :
                \/ Kept(c, k)
                \/ out'[c][k] = Plain("reply")
                \/ \E j \in DOMAIN s : out'[c][k] = Private(s[j])
    BY DrainAt
  <1>5. PICK j \in DOMAIN s : out'[f][i] = Private(s[j])
    BY <1>1, <1>2, <1>3, <1>4 DEF Plain
  <1> QED
    BY <1>1, <1>3, <1>4, <1>5 DEF Private

\* The other steps add no message to any queue.
LEMMA OthersQueued ==
  ASSUME TypeOK, LosesMessages \/ WritesFront, NEW f \in Fds
  PROVE  Queued(f)' \subseteq Queued(f)
  <1>1. CASE LosesMessages
    BY <1>1 DEF LosesMessages, Queued
  <1>2. CASE WritesFront
    <2>1. PICK c \in Fds : out[c] # <<>> /\ out' = [out EXCEPT ![c] = Tail(@)]
      BY <1>2 DEF WritesFront
    <2>2. /\ \A g \in Fds \ {c} : out'[g] = out[g]
          /\ \A i \in DOMAIN out'[c] : i + 1 \in DOMAIN out[c] /\ out'[c][i] = out[c][i + 1]
      BY <2>1, TailAt
    <2> QED
      BY <2>2 DEF Queued
  <1> QED
    BY <1>1, <1>2

\* A private message is queued only on a connection that is authenticated as
\* its addressee when it is queued: by its route (server_im.cpp:200-207) or by
\* LOGIN (server_im.cpp:178-196).
THEOREM QueuedForTheAddressee ==
  ASSUME ~ReLogin
  PROVE  Spec => OnlyToAddressee
  <1> DEFINE Step == \A f \in Fds : \A m \in Queued(f)' \ Queued(f) : userOf'[f] = sent'[m]
  <1>1. ASSUME Inv, RouteSound, Next PROVE Step
    <2> SUFFICES ASSUME NEW g \in Fds, NEW m \in Queued(g)', m \notin Queued(g)
                 PROVE  userOf'[g] = sent'[m]
      OBVIOUS
    <2> USE DEF cmVars, history
    <2>t. TypeOK /\ TablesAgree
      BY <1>1 DEF Inv
    <2>e. {"reply", "error", "chat"} \subseteq Kind
      BY DEF Kind
    <2>p. ASSUME NEW fs, NEW k \in {"reply", "error", "chat"}, Push(fs, Plain(k))
          PROVE  FALSE
      BY <2>p, <2>t, <2>e, PlainIsEntry, PushQueued DEF Plain
    <2>1. ASSUME NEW f \in Fds, Answer(f) \/ Logout(f) \/ Chat(f) PROVE FALSE
      <3>1. CASE Chat(f)
        BY <3>1, <2>p DEF Chat
      <3> QED
        BY <3>1, <2>1, <2>p DEF Answer, Logout
    <2>2. ASSUME NEW f \in Fds, NEW u \in Users, ChatToStored(f, u) \/ ChatToRefused(f, u)
          PROVE  FALSE
      BY <2>2, <2>p DEF ChatToStored, ChatToRefused
    <2>3. ASSUME NEW f \in Fds, LoginRefused(f) PROVE userOf'[g] = sent'[m]
      <3>1. g = f /\ m \in Unread(CM!UserOn(f))
        BY <2>3, <2>t, DrainQueued DEF LoginRefused
      <3>2. sent[m] = CM!UserOn(f) /\ sent[m] \in Users
        BY <3>1, <2>t DEF Unread, TypeOK
      <3> QED
        BY <2>3, <3>1, <3>2, UsersBound DEF LoginRefused, CM!UserOn
    <2>4. ASSUME NEW f \in Fds, NEW u \in Users, Login(f, u) PROVE userOf'[g] = sent'[m]
      <3>1. g = f /\ m \in Unread(u)
        BY <2>4, <2>t, DrainQueued DEF Login
      <3> QED
        BY <2>4, <3>1, <2>t DEF Login, CM!AuthenticateConnection, Unread, TypeOK, CM!TypeOK
    <2>5. ASSUME NEW f \in Fds, NEW u \in Users, ChatToRouted(f, u) PROVE userOf'[g] = sent'[m]
      <3>1. /\ Push(Targets(f, {userToConn[u]}), Private(Len(sent) + 1))
            /\ sent' = Append(sent, u) /\ userOf' = userOf /\ userToConn[u] # NoConn
        BY <2>5 DEF ChatToRouted, CM!ConnectionOf
      <3>2. sent'[Len(sent) + 1] = u /\ Private(Len(sent) + 1) \in Entry
        BY <3>1, <2>t, SentAppend, PrivateIsEntry
      <3>3. g = userToConn[u] /\ m = Len(sent) + 1
        BY <3>1, <3>2, <2>t, PushQueued DEF Targets, Private
      <3> QED
        BY <3>1, <3>2, <3>3, <1>1 DEF RouteSound, CM!RouteSound
    <2>6. CASE Loop \/ Crash \/ CrashInSave
      <3>1. ASSUME NEW f \in Fds, WriteFront(f) PROVE WritesFront
        BY <3>1 DEF WriteFront, WritesFront
      <3>2. ASSUME NEW f \in Fds, Close(f) \/ Expire(f) PROVE LosesMessages
        BY <3>2, <2>t DEF Close, Expire, Drop, LosesMessages, TypeOK
      <3>3. ASSUME Crash \/ CrashInSave PROVE LosesMessages
        BY <3>3 DEF Crash, CrashInSave, Reset, LosesMessages
      <3>4. ASSUME NEW f \in Fds, EndRead(f) \/ ReadEnds(f) \/ EndWrite(f) \/ WriteFails(f)
            PROVE  LosesMessages
        BY <3>4 DEF EndRead, ReadEnds, EndWrite, WriteFails, LosesMessages
      <3>5. ASSUME \/ Select \/ StartWriting \/ StartClosing
                   \/ EndIteration \/ CheckTimeout \/ CleanupUsers
            PROVE  LosesMessages
        BY <3>5 DEF Select, StartWriting, StartClosing, EndIteration, CheckTimeout,
           CleanupUsers, LosesMessages
      <3>6. LosesMessages \/ WritesFront
        BY <2>6, <3>1, <3>2, <3>3, <3>4, <3>5 DEF Loop
      <3> QED
        BY <3>6, <2>t, OthersQueued
    <2> QED
      BY <1>1, <2>1, <2>2, <2>3, <2>4, <2>5, <2>6 DEF Next, Handle
  <1>2. Inv /\ RouteSound /\ [Next]_vars => [Step]_vars
    BY <1>1
  <1>3. Spec => [][Step]_vars
    BY <1>2, InductiveInvariant, RoutesLeadToTheUser, PTL DEF Spec
  <1> QED
    BY <1>3 DEF OnlyToAddressee

-----------------------------------------------------------------------------
(* The delivery of private messages: why one is lost, and that the server  *)
(* keeps the promise of Mailbox.                                           *)

InQueue(m) == \E f \in Fds : m \in Queued(f)

-----------------------------------------------------------------------------
(* What each kind of step does to the messages in the queues.              *)

\* Pushing keeps what is queued; a private entry adds its message.
LEMMA PushesQueued ==
  ASSUME TypeOK, NEW fs, NEW e \in Entry, Push(fs, e), NEW f \in Fds
  PROVE  Queued(f)' = Queued(f) \cup (IF f \in fs /\ e.kind = "to" THEN {e.id} ELSE {})
  <1>1. out[f] \in Seq(Entry) /\ DOMAIN out[f] = 1..Len(out[f]) /\ Len(out[f]) \in Nat
    BY LenProperties DEF TypeOK
  <1>2. CASE f \notin fs
    BY <1>2 DEF Push, Queued
  <1>3. CASE f \in fs
    <2>1. /\ Append(out[f], e) \in Seq(Entry)
          /\ Len(Append(out[f], e)) = Len(out[f]) + 1
          /\ \A i \in 1..Len(out[f]) : Append(out[f], e)[i] = out[f][i]
          /\ Append(out[f], e)[Len(out[f]) + 1] = e
      BY <1>1, AppendProperties
    <2>2. DOMAIN Append(out[f], e) = 1..(Len(out[f]) + 1)
      BY <2>1, LenProperties
    <2>3. out'[f] = Append(out[f], e)
      BY <1>3 DEF Push
    <2>4. ASSUME NEW i \in DOMAIN out'[f]
          PROVE  \/ i \in DOMAIN out[f] /\ out'[f][i] = out[f][i]
                 \/ i = Len(out[f]) + 1 /\ out'[f][i] = e
      <3>1. i \in 1..(Len(out[f]) + 1)
        BY <2>2, <2>3
      <3>2. i \in 1..Len(out[f]) \/ i = Len(out[f]) + 1
        BY <3>1, <1>1
      <3> QED
        BY <3>2, <1>1, <2>1, <2>3
    <2>5. \A i \in DOMAIN out[f] : i \in DOMAIN out'[f] /\ out'[f][i] = out[f][i]
      <3> SUFFICES ASSUME NEW i \in 1..Len(out[f])
                   PROVE  i \in 1..(Len(out[f]) + 1) /\ Append(out[f], e)[i] = out[f][i]
        BY <1>1, <2>2, <2>3
      <3> QED
        BY <1>1, <2>1
    <2>6. Len(out[f]) + 1 \in 1..(Len(out[f]) + 1)
      BY <1>1
    <2>7. Len(out[f]) + 1 \in DOMAIN out'[f] /\ out'[f][Len(out[f]) + 1] = e
      BY <2>1, <2>2, <2>3, <2>6
    <2> QED
      BY <1>3, <2>4, <2>5, <2>7 DEF Queued
  <1> QED
    BY <1>2, <1>3

\* LOGIN moves all unread messages of its user to the queue of its connection.
LEMMA DrainsQueued ==
  ASSUME TypeOK, NEW c \in Fds, NEW u, AnswerAndDrain(c, u), NEW f \in Fds
  PROVE  Queued(f)' = Queued(f) \cup (IF f = c THEN Unread(u) ELSE {})
  <1>1. PICK s \in Ascending(Unread(u)) :
          out' = [out EXCEPT ![c] = Append(@, Plain("reply"))
                                      \o [i \in DOMAIN s |-> Private(s[i])]]
    BY DEF AnswerAndDrain
  <1> DEFINE n == Len(out[c])
             a == Append(out[c], Plain("reply"))
             d == [i \in DOMAIN s |-> Private(s[i])]
  <1>2. out[c] \in Seq(Entry) /\ Plain("reply") \in Entry
    BY PlainIsEntry DEF TypeOK, Kind
  <1>3. n \in Nat /\ DOMAIN out[c] = 1..n
    BY <1>2, LenProperties
  <1>4. /\ a \in Seq(Entry) /\ Len(a) = n + 1
        /\ \A i \in 1..n : a[i] = out[c][i]
    BY <1>2, AppendProperties
  <1>5. /\ Cardinality(Unread(u)) \in Nat
        /\ DOMAIN s = 1..Cardinality(Unread(u))
        /\ d \in Seq(Entry)
    BY AscendingType
  <1>6. Len(d) = Cardinality(Unread(u))
    BY <1>5, LenProperties
  <1>7. /\ a \o d \in Seq(Entry)
        /\ Len(a \o d) = n + 1 + Len(d)
        /\ \A i \in 1..(n + 1 + Len(d)) :
             (a \o d)[i] = IF i <= n + 1 THEN a[i] ELSE d[i - (n + 1)]
    <2> HIDE DEF a, d
    <2>1. /\ a \o d \in Seq(Entry)
          /\ Len(a \o d) = Len(a) + Len(d)
          /\ \A i \in 1..(Len(a) + Len(d)) :
               (a \o d)[i] = IF i <= Len(a) THEN a[i] ELSE d[i - Len(a)]
      BY <1>4, <1>5, ConcatProperties
    <2> QED
      BY <2>1, <1>4
  <1>8. DOMAIN (a \o d) = 1..(n + 1 + Len(d))
    BY <1>7, LenProperties
  <1>9. out'[c] = a \o d /\ \A g \in Fds \ {c} : out'[g] = out[g]
    BY <1>1 DEF TypeOK
  <1>10. \A m \in Unread(u) : \E j \in DOMAIN s : s[j] = m
    BY DEF Ascending
  <1>11. \A i \in DOMAIN out[c] : i \in DOMAIN out'[c] /\ out'[c][i] = out[c][i]
    <2> SUFFICES ASSUME NEW i \in 1..n
                 PROVE  i \in 1..(n + 1 + Len(d)) /\ (a \o d)[i] = out[c][i]
      BY <1>3, <1>8, <1>9
    <2>1. i \in 1..(n + 1 + Len(d)) /\ i <= n + 1
      BY <1>3, <1>5, <1>6
    <2> HIDE DEF a, d
    <2> QED
      BY <2>1, <1>4, <1>7
  <1>12. \A j \in DOMAIN s : n + 1 + j \in DOMAIN out'[c] /\ out'[c][n + 1 + j] = Private(s[j])
    <2> SUFFICES ASSUME NEW j \in DOMAIN s
                 PROVE  n + 1 + j \in 1..(n + 1 + Len(d)) /\ (a \o d)[n + 1 + j] = Private(s[j])
      BY <1>8, <1>9
    <2>1. /\ n + 1 + j \in 1..(n + 1 + Len(d)) /\ ~(n + 1 + j <= n + 1)
          /\ (n + 1 + j) - (n + 1) = j
      BY <1>3, <1>5, <1>6
    <2>2. (a \o d)[n + 1 + j] = d[j]
      BY <2>1, <1>7
    <2> QED
      BY <2>1, <2>2
  <1>13. CASE f # c
    BY <1>9, <1>13 DEF Queued
  <1>14. CASE f = c
    <2> HIDE DEF a, d, n
    <2>1. Queued(c) \subseteq Queued(c)'
      BY <1>11 DEF Queued
    <2>2. ASSUME NEW m \in Unread(u) PROVE m \in Queued(c)'
      <3>1. PICK j \in DOMAIN s : s[j] = m
        BY <1>10
      <3>2. n + 1 + j \in DOMAIN out'[c] /\ out'[c][n + 1 + j] = Private(m)
        BY <3>1, <1>12
      <3>3. Private(m).kind = "to" /\ Private(m).id = m
        BY DEF Private
      <3> QED
        BY <3>2, <3>3 DEF Queued
    <2>3. \A m \in Queued(c)' : m \in Queued(c) \/ m \in Unread(u)
      BY DrainQueued
    <2> QED
      BY <1>14, <2>1, <2>2, <2>3
  <1> QED
    BY <1>13, <1>14

\* Writing takes the message of the front buffer, if it has one.
LEMMA WritesQueued ==
  ASSUME Inv, NEW c \in Fds, out[c] # <<>>, out' = [out EXCEPT ![c] = Tail(@)],
         NEW h, h = Head(out[c]), NEW m
  PROVE  /\ h.kind = "to" => InQueue(h.id) /\ ~InQueue(h.id)'
         /\ ~(h.kind = "to" /\ m = h.id) => (InQueue(m)' <=> InQueue(m))
  <1>1. TypeOK /\ OneCopy
    BY DEF Inv, MessagesOK
  <1>2. /\ \A g \in Fds \ {c} : out'[g] = out[g]
        /\ 1 \in DOMAIN out[c] /\ h = out[c][1]
        /\ \A i \in DOMAIN out'[c] :
             i \in Nat \ {0} /\ i + 1 \in DOMAIN out[c] /\ out'[c][i] = out[c][i + 1]
    BY <1>1, TailAt
  <1>3. \A i \in DOMAIN out[c] : i = 1 \/ (i - 1 \in DOMAIN out'[c] /\ out'[c][i - 1] = out[c][i])
    <2>1. out[c] \in Seq(Entry)
      BY <1>1 DEF TypeOK
    <2>2. /\ Tail(out[c]) \in Seq(Entry)
          /\ Len(Tail(out[c])) = Len(out[c]) - 1
          /\ \A i \in 1..Len(Tail(out[c])) : Tail(out[c])[i] = out[c][i + 1]
      BY <2>1, HeadTailProperties
    <2>3. /\ Len(out[c]) \in Nat \ {0} /\ DOMAIN out[c] = 1..Len(out[c])
          /\ DOMAIN Tail(out[c]) = 1..Len(Tail(out[c]))
      BY <2>1, <2>2, EmptySeq, LenProperties
    <2>4. out'[c] = Tail(out[c])
      BY <1>1 DEF TypeOK
    <2> SUFFICES ASSUME NEW i \in 1..Len(out[c]), i # 1
                 PROVE  i - 1 \in 1..Len(Tail(out[c])) /\ Tail(out[c])[i - 1] = out[c][i]
      BY <2>3, <2>4
    <2>5. i - 1 \in 1..Len(Tail(out[c])) /\ (i - 1) + 1 = i
      BY <2>2, <2>3
    <2> QED
      BY <2>2, <2>5
  <1>4. ASSUME h.kind = "to" PROVE InQueue(h.id) /\ ~InQueue(h.id)'
    <2>1. PrivateAt(c, 1)
      BY <1>2, <1>4 DEF PrivateAt
    <2>2. InQueue(h.id)
      BY <1>2, <1>4 DEF InQueue, Queued
    <2>3. ASSUME NEW g \in Fds, NEW i \in DOMAIN out'[g], out'[g][i].kind = "to",
                 out'[g][i].id = h.id
          PROVE  FALSE
      <3>1. CASE g # c
        BY <3>1, <2>1, <2>3, <1>1, <1>2 DEF OneCopy, PrivateAt
      <3>2. CASE g = c
        <4>1. i + 1 \in DOMAIN out[c] /\ i + 1 # 1 /\ out'[c][i] = out[c][i + 1]
          BY <3>2, <2>3, <1>2
        <4> QED
          BY <4>1, <3>2, <2>1, <2>3, <1>1, <1>2 DEF OneCopy, PrivateAt
      <3> QED
        BY <3>1, <3>2
    <2>4. \A g \in Fds : h.id \notin Queued(g)'
      BY <2>3 DEF Queued
    <2> QED
      BY <2>2, <2>4 DEF InQueue
  <1>5. ASSUME ~(h.kind = "to" /\ m = h.id) PROVE InQueue(m)' <=> InQueue(m)
    <2>1. ASSUME NEW g \in Fds PROVE m \in Queued(g)' <=> m \in Queued(g)
      <3>1. CASE g # c
        BY <3>1, <1>2 DEF Queued
      <3>2. CASE g = c
        <4>1. m \in Queued(c)' => m \in Queued(c)
          BY <1>2 DEF Queued
        <4>2. ASSUME NEW i \in DOMAIN out[c], out[c][i].kind = "to", m = out[c][i].id
              PROVE  m \in Queued(c)'
          <5>1. i # 1
            BY <4>2, <1>2, <1>5
          <5> QED
            BY <5>1, <4>2, <1>3 DEF Queued
        <4> QED
          BY <3>2, <4>1, <4>2 DEF Queued
      <3> QED
        BY <3>1, <3>2
    <2> QED
      BY <2>1 DEF InQueue
  <1> QED
    BY <1>4, <1>5

-----------------------------------------------------------------------------
(* Losses.                                                                 *)

\* Where a message can be, under the invariant.
LEMMA OnePlace ==
  ASSUME Inv, NEW m
  PROVE  /\ m \in store \/ InQueue(m) \/ m \in written => m \in DOMAIN sent
         /\ ~(m \in store /\ m \in written)
         /\ InQueue(m) => m \notin store /\ m \notin written
  <1>1. TypeOK /\ OneCopy /\ Known
    BY DEF Inv, MessagesOK
  <1>2. ASSUME InQueue(m) PROVE m \in DOMAIN sent /\ m \notin store \cup written
    <2>1. PICK f \in Fds : \E i \in DOMAIN out[f] : PrivateAt(f, i) /\ m = out[f][i].id
      BY <1>2 DEF InQueue, Queued, PrivateAt
    <2> QED
      BY <2>1, <1>1 DEF OneCopy, Known
  <1> QED
    BY <1>1, <1>2 DEF TypeOK, OneCopy

\* A private message that is stored or queued is lost only with the connection
\* whose queue held it (server_im.cpp:245-251, 259-266) or when the process ends
\* while it writes the message file (message_storage.cpp:150-166), under every
\* setting of the switches.
THEOREM LossesAreExplained == Spec => LossExplained
  <1> DEFINE Step ==
        \A m \in DOMAIN sent :
          Live(m) /\ ~Live(m)' /\ m \notin written' =>
              \/ \E f \in conns \ conns' : m \in Queued(f)
              \/ CrashInSave
  <1>1. ASSUME Inv, Next PROVE Step
    <2> SUFFICES ASSUME NEW m \in DOMAIN sent, Live(m), ~Live(m)', m \notin written',
                        ~CrashInSave
                 PROVE  \E f \in conns \ conns' : m \in Queued(f)
      OBVIOUS
    <2> USE DEF cmVars, loopVars, history
    <2>t. TypeOK /\ TablesAgree
      BY <1>1 DEF Inv
    <2>1. ASSUME store' = store PROVE \E f \in Fds : m \in Queued(f) /\ out'[f] # out[f]
      <3>1. PICK f \in Fds : m \in Queued(f) /\ m \notin Queued(f)'
        BY <2>1 DEF Live
      <3> QED
        BY <3>1 DEF Queued
    <2>2. ASSUME NEW f \in Fds, m \in Queued(f) PROVE f \in conns
      BY <2>2, <2>t DEF TablesAgree, Queued
    <2>3. ASSUME NEW f \in Fds, Close(f) \/ Expire(f)
          PROVE  \E g \in conns \ conns' : m \in Queued(g)
      <3>1. store' = store
        BY <2>3 DEF Close, Expire
      <3>2. PICK g \in Fds : m \in Queued(g) /\ out'[g] # out[g]
        BY <2>1, <3>1
      <3>3. g = f /\ conns' = conns \ {f}
        BY <2>3, <3>2, <2>t DEF Close, Expire, Drop, TypeOK
      <3> QED
        BY <3>2, <3>3, <2>2
    <2>4. ASSUME Crash PROVE \E g \in conns \ conns' : m \in Queued(g)
      BY <2>4, <2>1, <2>2 DEF Crash, Reset
    <2>5. ASSUME NEW f \in Fds, WriteFront(f) PROVE FALSE
      <3>1. out[f] # <<>> /\ out' = [out EXCEPT ![f] = Tail(@)] /\ store' = store
            /\ written' = IF Head(out[f]).kind = "to"
                          THEN written \cup {Head(out[f]).id} ELSE written
        BY <2>5 DEF WriteFront
      <3>2. m \in store' \/ InQueue(m)' \/ m \in written'
        BY <3>1, <1>1, WritesQueued DEF Live, InQueue
      <3> QED
        BY <3>2 DEF Live, InQueue
    <2>6. ASSUME UNCHANGED <<store, out>> PROVE FALSE
      BY <2>6 DEF Live, Queued
    <2>7. ASSUME NEW f \in Fds, EndRead(f) \/ ReadEnds(f) \/ EndWrite(f) \/ WriteFails(f)
          PROVE FALSE
      BY <2>6, <2>7 DEF EndRead, ReadEnds, EndWrite, WriteFails
    <2>8. ASSUME \/ Select \/ StartWriting \/ StartClosing
                 \/ EndIteration \/ CheckTimeout \/ CleanupUsers
          PROVE  FALSE
      BY <2>6, <2>8 DEF Select, StartWriting, StartClosing, EndIteration, CheckTimeout,
         CleanupUsers
    <2>9. ASSUME NEW f \in Fds, Handle(f) PROVE FALSE
      <3>1. ASSUME NEW fs, NEW e \in Entry, Push(fs, e), store \subseteq store' PROVE FALSE
        <4>1. \A g \in Fds : Queued(g) \subseteq Queued(g)'
          BY <3>1, <2>t, PushesQueued
        <4> QED
          BY <3>1, <4>1 DEF Live
      <3>2. ASSUME NEW u, AnswerAndDrain(f, u) PROVE FALSE
        <4>1. \A g \in Fds : Queued(g)' = Queued(g) \cup (IF g = f THEN Unread(u) ELSE {})
          BY <3>2, <2>t, DrainsQueued
        <4>2. store' = store \ Unread(u)
          BY <3>2 DEF AnswerAndDrain, MarkRead
        <4> QED
          BY <4>1, <4>2 DEF Live
      <3>e. /\ \A k \in {"reply", "error", "chat"} : Plain(k) \in Entry
            /\ Private(Len(sent) + 1) \in Entry
        BY <2>t, LenProperties, PlainIsEntry, PrivateIsEntry DEF TypeOK, Kind
      <3>3. ASSUME Answer(f) \/ Logout(f) PROVE FALSE
        BY <3>1, <3>3, <3>e DEF Answer, Logout
      <3>4. ASSUME Chat(f) PROVE FALSE
        BY <3>1, <3>4, <3>e DEF Chat
      <3>5. ASSUME NEW u \in Users, ChatToStored(f, u) \/ ChatToRouted(f, u) PROVE FALSE
        BY <3>1, <3>5, <3>e DEF ChatToStored, ChatToRouted
      <3>6. ASSUME NEW u \in Users, ChatToRefused(f, u) PROVE FALSE
        BY <3>1, <3>6, <3>e DEF ChatToRefused
      <3>7. ASSUME LoginRefused(f) PROVE FALSE
        BY <3>2, <3>7 DEF LoginRefused
      <3>8. ASSUME NEW u \in Users, Login(f, u) PROVE FALSE
        BY <3>2, <3>8 DEF Login
      <3> QED
        BY <2>9, <3>3, <3>4, <3>5, <3>6, <3>7, <3>8 DEF Handle
    <2> QED
      BY <1>1, <2>3, <2>4, <2>5, <2>7, <2>8, <2>9 DEF Next, Loop
  <1>2. Inv /\ [Next]_vars => [Step]_vars
    BY <1>1
  <1>3. Spec => [][Step]_vars
    BY <1>2, InductiveInvariant, PTL DEF Spec
  <1> QED
    BY <1>3 DEF LossExplained

-----------------------------------------------------------------------------
(* No message is dropped without a word.                                   *)

\* An accepted message is stored or queued, unless the addressee's route leads
\* back to the sender (server_im.cpp:200-207): if clients send LOGIN once per
\* session no route leads to a connection that the loop has dropped.
THEOREM NothingDroppedSilently ==
  ASSUME ~ReLogin
  PROVE  Spec => NoSilentDrop
  <1> DEFINE Step == sent' # sent =>
                        \/ Live(Len(sent))'
                        \/ Turn(userToConn[sent'[Len(sent')]])
  <1>1. ASSUME Inv, RouteSound, Next PROVE Step
    <2> SUFFICES ASSUME sent' # sent
                 PROVE  Live(Len(sent))' \/ Turn(userToConn[sent'[Len(sent')]])
      OBVIOUS
    <2> USE DEF history
    <2>t. TypeOK /\ TablesAgree
      BY <1>1 DEF Inv
    <2>s. ASSUME NEW u \in Users, sent' = Append(sent, u)
          PROVE  /\ Len(sent') = Len(sent) + 1 /\ sent'[Len(sent')] = u
                 /\ Private(Len(sent) + 1) \in Entry
      BY <2>s, <2>t, AppendProperties, LenProperties, PrivateIsEntry DEF TypeOK
    <2>1. ASSUME NEW f \in Fds, NEW u \in Users, ChatToStored(f, u)
          PROVE  Live(Len(sent))'
      <3>1. Len(sent') = Len(sent) + 1 /\ store' = store \cup {Len(sent) + 1}
        BY <2>1, <2>s DEF ChatToStored
      <3> QED
        BY <3>1 DEF Live
    <2>2. ASSUME NEW f \in Fds, NEW u \in Users, ChatToRouted(f, u)
          PROVE  Live(Len(sent))' \/ Turn(userToConn[sent'[Len(sent')]])
      <3>1. /\ Push(Targets(f, {userToConn[u]}), Private(Len(sent) + 1))
            /\ sent' = Append(sent, u) /\ userToConn[u] # NoConn
        BY <2>2 DEF ChatToRouted, CM!ConnectionOf
      <3>r. userToConn[u] \in connections /\ connections = conns /\ conns \subseteq Fds
        BY <3>1, <1>1, <2>t DEF RouteSound, CM!RouteSound, TablesAgree, TypeOK
      <3>2. PICK c \in Fds : c = userToConn[u] /\ c \in conns
        BY <3>r
      <3>3. CASE c = f
        BY <3>1, <3>2, <3>3, <2>2, <2>s DEF ChatToRouted, Packet, Reading
      <3>4. CASE c # f
        <4>1. c \in Targets(f, {userToConn[u]})
          BY <3>2, <3>4 DEF Targets
        <4>2. Private(Len(sent) + 1).kind = "to" /\ Private(Len(sent) + 1).id = Len(sent) + 1
          BY DEF Private
        <4>3. Queued(c)' = Queued(c) \cup {Len(sent) + 1}
          BY <4>1, <4>2, <3>1, <3>2, <2>s, <2>t, PushesQueued
        <4>4. Len(sent') = Len(sent) + 1
          BY <3>1, <2>s
        <4> QED
          BY <4>3, <4>4 DEF Live
      <3> QED
        BY <3>3, <3>4
    <2>3. ASSUME NEW f \in Fds, \/ Answer(f) \/ LoginRefused(f) \/ Logout(f) \/ Chat(f)
                                \/ \E u \in Users : Login(f, u) \/ ChatToRefused(f, u)
          PROVE  FALSE
      BY <2>3 DEF Answer, LoginRefused, Logout, Chat, Login, ChatToRefused
    <2>4. ASSUME Loop \/ Crash \/ CrashInSave PROVE FALSE
      BY <2>4 DEF Loop, Crash, CrashInSave, Reset, Select, StartWriting, StartClosing,
         EndIteration, CheckTimeout, CleanupUsers, EndRead, ReadEnds, WriteFront,
         EndWrite, WriteFails, Close, Expire
    <2> QED
      BY <1>1, <2>1, <2>2, <2>3, <2>4 DEF Next, Handle
  <1>2. Inv /\ RouteSound /\ [Next]_vars => [Step]_vars
    BY <1>1
  <1>3. Spec => [][Step]_vars
    BY <1>2, InductiveInvariant, RoutesLeadToTheUser, PTL DEF Spec
  <1> QED
    BY <1>3 DEF NoSilentDrop

-----------------------------------------------------------------------------
(* The server implements Mailbox.                                          *)

Box == [m \in 1..MaxId |-> MessageState(m)]

\* Under the invariant MessageState says where the message is.
StatesTell ==
    \A m \in 1..MaxId :
        /\ m \notin DOMAIN sent => MessageState(m) = "new"
        /\ m \in store => MessageState(m) = "stored"
        /\ InQueue(m) => MessageState(m) = "queued"
        /\ m \in written => MessageState(m) = "written"
        /\ m \in DOMAIN sent /\ m \notin store /\ ~InQueue(m) /\ m \notin written
              => MessageState(m) = "lost"

LEMMA StatesAreTold == Inv => StatesTell
  <1> SUFFICES ASSUME Inv, NEW m \in 1..MaxId
               PROVE  /\ m \notin DOMAIN sent => MessageState(m) = "new"
                      /\ m \in store => MessageState(m) = "stored"
                      /\ InQueue(m) => MessageState(m) = "queued"
                      /\ m \in written => MessageState(m) = "written"
                      /\ m \in DOMAIN sent /\ m \notin store /\ ~InQueue(m) /\ m \notin written
                            => MessageState(m) = "lost"
    BY DEF StatesTell
  <1>p. /\ "stored" \in Places(m) <=> m \in store
        /\ "queued" \in Places(m) <=> InQueue(m)
        /\ "written" \in Places(m) <=> m \in written
        /\ Places(m) \subseteq {"stored", "queued", "written"}
    BY DEF Places, InQueue
  <1>1. CASE m \notin DOMAIN sent
    <2>1. m \notin store /\ ~InQueue(m) /\ m \notin written
      BY <1>1, OnePlace
    <2>2. Places(m) = {}
      BY <2>1, <1>p
    <2> QED
      BY <1>1, <2>1, <2>2 DEF MessageState
  <1>2. CASE m \in store
    <2>1. m \in DOMAIN sent /\ ~InQueue(m) /\ m \notin written
      BY <1>2, OnePlace
    <2>2. Places(m) = {"stored"}
      BY <1>2, <2>1, <1>p
    <2> QED
      BY <1>2, <2>1, <2>2 DEF MessageState
  <1>3. CASE InQueue(m)
    <2>1. m \in DOMAIN sent /\ m \notin store /\ m \notin written
      BY <1>3, OnePlace
    <2>2. Places(m) = {"queued"}
      BY <1>3, <2>1, <1>p
    <2> QED
      BY <1>3, <2>1, <2>2 DEF MessageState
  <1>4. CASE m \in written
    <2>1. m \in DOMAIN sent /\ ~InQueue(m) /\ m \notin store
      BY <1>4, OnePlace
    <2>2. Places(m) = {"written"}
      BY <1>4, <2>1, <1>p
    <2> QED
      BY <1>4, <2>1, <2>2 DEF MessageState
  <1>5. CASE m \in DOMAIN sent /\ m \notin store /\ ~InQueue(m) /\ m \notin written
    <2>1. Places(m) = {}
      BY <1>5, <1>p
    <2> QED
      BY <1>5, <2>1 DEF MessageState
  <1> QED
    BY <1>1, <1>2, <1>3, <1>4, <1>5

\* The change of one message, from what it was to what it is.
Change(S, from, to) ==
    /\ \A m \in S : MessageState(m) = from /\ MessageState(m)' = to
    /\ \A m \in (1..MaxId) \ S : MessageState(m)' = MessageState(m)

LEMMA ChangeMoves ==
  ASSUME NEW S \in SUBSET (1..MaxId), NEW from, NEW to, Change(S, from, to),
         S # {}, <<from, to>> \in Promise!Arrow
  PROVE  Promise!Moves(S, from, to)
  BY DEF Promise!Moves, Change

LEMMA ChangeStutters ==
  ASSUME NEW S \in SUBSET (1..MaxId), NEW from, NEW to, Change(S, from, to), S = {}
  PROVE  Box' = Box
  BY DEF Box, Change

\* A message whose place does not change keeps its state.
LEMMA PlaceTells ==
  ASSUME StatesTell, StatesTell', NEW m \in 1..MaxId,
         (m \in DOMAIN sent)' <=> m \in DOMAIN sent,
         (m \in store)' <=> m \in store,
         InQueue(m)' <=> InQueue(m),
         (m \in written)' <=> m \in written
  PROVE  MessageState(m)' = MessageState(m)
  BY DEF StatesTell

LEMMA PlainBox ==
  ASSUME TypeOK, StatesTell, StatesTell', PushesPlain
  PROVE  Box' = Box
  <1>1. PICK k \in Kind \ {"to"}, fs \in SUBSET Fds : Push(fs, Plain(k))
    BY DEF PushesPlain
  <1>2. Plain(k) \in Entry /\ Plain(k).kind # "to"
    BY PlainIsEntry DEF Plain
  <1>3. ASSUME NEW f \in Fds PROVE Queued(f)' = Queued(f)
    <2>1. Queued(f)' = Queued(f) \cup
                         (IF f \in fs /\ Plain(k).kind = "to" THEN {Plain(k).id} ELSE {})
      BY <1>1, <1>2, PushesQueued
    <2> QED
      BY <1>2, <2>1
  <1>4. \A m : InQueue(m)' <=> InQueue(m)
    BY <1>3 DEF InQueue
  <1>5. \A m \in 1..MaxId : MessageState(m)' = MessageState(m)
    BY <1>4, PlaceTells DEF PushesPlain
  <1> QED
    BY <1>5 DEF Box

\* The message that a step accepts goes where the step puts it.
LEMMA SendBox ==
  ASSUME StatesTell, StatesTell', NEW n, n \notin DOMAIN sent,
         NEW to \in {"stored", "queued", "lost"},
         n \in 1..MaxId => MessageState(n)' = to,
         \A m \in (1..MaxId) \ {n} : MessageState(m)' = MessageState(m)
  PROVE  Promise!Next \/ Box' = Box
  <1>1. CASE n \in 1..MaxId
    <2>1. Change({n}, "new", to)
      BY <1>1 DEF Change, StatesTell
    <2>2. <<"new", to>> \in Promise!Arrow
      BY DEF Promise!Arrow
    <2>3. Promise!Moves({n}, "new", to)
      BY <1>1, <2>1, <2>2, ChangeMoves
    <2> QED
      BY <1>1, <2>3 DEF Promise!Next, Promise!Send
  <1>2. CASE n \notin 1..MaxId
    BY <1>2 DEF Box
  <1> QED
    BY <1>1, <1>2

LEMMA StoreBox ==
  ASSUME Inv, Inv', StatesTell, StatesTell', StoresMessage
  PROVE  Promise!Next \/ Box' = Box
  <1>t. TypeOK
    BY DEF Inv
  <1>1. PICK u \in Users, fs \in SUBSET Fds :
          /\ sent' = Append(sent, u)
          /\ store' = store \cup {Len(sent) + 1}
          /\ Push(fs, Plain("reply"))
          /\ UNCHANGED written
    BY DEF StoresMessage
  <1>2. PICK n : n = Len(sent) + 1
    OBVIOUS
  <1>3. n \notin DOMAIN sent /\ DOMAIN sent' = DOMAIN sent \cup {n}
    BY <1>t, <1>1, <1>2, AppendProperties, LenProperties DEF TypeOK
  <1>4. ASSUME NEW f \in Fds PROVE Queued(f)' = Queued(f)
    <2> DEFINE e == Plain("reply")
    <2>1. e \in Entry /\ e.kind # "to"
      BY PlainIsEntry DEF Plain, Kind
    <2>2. Queued(f)' = Queued(f) \cup (IF f \in fs /\ e.kind = "to" THEN {e.id} ELSE {})
      <3> HIDE DEF e
      <3>1. Push(fs, e)
        BY <1>1 DEF e
      <3> QED
        BY <1>t, <2>1, <3>1, PushesQueued
    <2> QED
      BY <2>1, <2>2
  <1>5. \A m : InQueue(m)' <=> InQueue(m)
    BY <1>4 DEF InQueue
  <1>6. \A m \in (1..MaxId) \ {n} : MessageState(m)' = MessageState(m)
    BY <1>1, <1>2, <1>3, <1>5, PlaceTells
  <1>7. n \in 1..MaxId => MessageState(n)' = "stored"
    BY <1>1, <1>2 DEF StatesTell
  <1> QED
    BY <1>3, <1>6, <1>7, SendBox

LEMMA RouteBox ==
  ASSUME Inv, Inv', StatesTell, StatesTell', RoutesMessage
  PROVE  Promise!Next \/ Box' = Box
  <1>t. TypeOK
    BY DEF Inv
  <1>1. PICK u \in Users, fs \in SUBSET Fds :
          /\ sent' = Append(sent, u)
          /\ Push(fs, Private(Len(sent) + 1))
          /\ UNCHANGED <<store, written>>
    BY DEF RoutesMessage
  <1>2. PICK n : n = Len(sent) + 1
    OBVIOUS
  <1>3. n \notin DOMAIN sent /\ DOMAIN sent' = DOMAIN sent \cup {n}
    BY <1>t, <1>1, <1>2, AppendProperties, LenProperties DEF TypeOK
  <1>4. \A f \in Fds : Queued(f)' = Queued(f) \cup (IF f \in fs THEN {n} ELSE {})
    <2>1. Private(n) \in Entry /\ Private(n).kind = "to" /\ Private(n).id = n
      BY <1>t, <1>2, PrivateIsEntry, LenProperties DEF Private, TypeOK
    <2>2. Push(fs, Private(n))
      BY <1>1, <1>2
    <2> QED
      BY <1>t, <2>1, <2>2, PushesQueued
  <1>5. \A m : m # n => (InQueue(m)' <=> InQueue(m))
    BY <1>4 DEF InQueue
  <1>6. \A m \in (1..MaxId) \ {n} : MessageState(m)' = MessageState(m)
    BY <1>1, <1>2, <1>3, <1>5, PlaceTells
  <1>7. CASE fs # {}
    <2>1. InQueue(n)'
      BY <1>4, <1>7 DEF InQueue
    <2>2. n \in 1..MaxId => MessageState(n)' = "queued"
      BY <2>1 DEF StatesTell
    <2> QED
      BY <1>3, <1>6, <2>2, SendBox
  <1>8. CASE fs = {}
    <2>1. n \notin store /\ n \notin written /\ ~InQueue(n)
      BY <1>3, OnePlace
    <2>2. InQueue(n)' <=> InQueue(n)
      BY <1>4, <1>8 DEF InQueue
    <2>3. n \in DOMAIN sent' /\ n \notin store' /\ n \notin written' /\ ~InQueue(n)'
      BY <1>1, <1>3, <2>1, <2>2
    <2>4. n \in 1..MaxId => MessageState(n)' = "lost"
      BY <2>3 DEF StatesTell
    <2> QED
      BY <1>3, <1>6, <2>4, SendBox
  <1> QED
    BY <1>7, <1>8

LEMMA DrainBox ==
  ASSUME Inv, Inv', StatesTell, StatesTell', DrainsMessages
  PROVE  Promise!Next \/ Box' = Box
  <1>t. TypeOK
    BY DEF Inv
  <1>1. PICK c \in Fds, u \in Users \cup {NoUser} : AnswerAndDrain(c, u)
    BY DEF DrainsMessages
  <1>2. PICK S : S = Unread(u) \cap (1..MaxId)
    OBVIOUS
  <1>3. \A f \in Fds : Queued(f)' = Queued(f) \cup (IF f = c THEN Unread(u) ELSE {})
    BY <1>t, <1>1, DrainsQueued
  <1>4. store' = store \ Unread(u) /\ Unread(u) \subseteq store
    BY <1>1 DEF AnswerAndDrain, MarkRead, Unread
  <1>5. \A m : /\ m \in Unread(u) => InQueue(m)'
               /\ m \notin Unread(u) => (InQueue(m)' <=> InQueue(m))
    BY <1>3 DEF InQueue
  <1>6. ASSUME NEW m \in (1..MaxId) \ S PROVE MessageState(m)' = MessageState(m)
    <2>1. m \notin Unread(u)
      BY <1>2, <1>6
    <2>2. /\ InQueue(m)' <=> InQueue(m)
          /\ (m \in store)' <=> m \in store
      BY <1>4, <1>5, <2>1
    <2> QED
      BY <2>2, PlaceTells DEF DrainsMessages
  <1>7. ASSUME NEW m \in S PROVE MessageState(m) = "stored" /\ MessageState(m)' = "queued"
    BY <1>2, <1>4, <1>5 DEF StatesTell
  <1>8. Change(S, "stored", "queued")
    BY <1>6, <1>7 DEF Change
  <1>9. <<"stored", "queued">> \in Promise!Arrow /\ S \in SUBSET (1..MaxId)
    BY <1>2 DEF Promise!Arrow
  <1>10. CASE S = {}
    BY <1>8, <1>9, <1>10, ChangeStutters
  <1>11. CASE S # {}
    <2>1. Promise!Moves(S, "stored", "queued")
      BY <1>8, <1>9, <1>11, ChangeMoves
    <2> QED
      BY <1>9, <2>1 DEF Promise!Next, Promise!Flush
  <1> QED
    BY <1>10, <1>11

LEMMA WriteBox ==
  ASSUME Inv, Inv', StatesTell, StatesTell', WritesFront
  PROVE  Promise!Next \/ Box' = Box
  <1>1. PICK c \in Fds :
          /\ out[c] # <<>>
          /\ out' = [out EXCEPT ![c] = Tail(@)]
          /\ written' = IF Head(out[c]).kind = "to"
                        THEN written \cup {Head(out[c]).id} ELSE written
    BY DEF WritesFront
  <1>2. PICK h : h = Head(out[c])
    OBVIOUS
  <1>3. UNCHANGED <<store, sent>>
    BY DEF WritesFront
  <1>4. CASE h.kind # "to"
    <2>1. \A m : InQueue(m)' <=> InQueue(m)
      BY <1>1, <1>2, <1>4, WritesQueued
    <2>2. written' = written
      BY <1>1, <1>2, <1>4
    <2>3. \A m \in 1..MaxId : MessageState(m)' = MessageState(m)
      BY <1>3, <2>1, <2>2, PlaceTells
    <2> QED
      BY <2>3 DEF Box
  <1>5. CASE h.kind = "to"
    <2>1. PICK n : n = h.id
      OBVIOUS
    <2>2. /\ InQueue(n) /\ ~InQueue(n)'
          /\ \A m : m # n => (InQueue(m)' <=> InQueue(m))
      BY <1>1, <1>2, <1>5, <2>1, WritesQueued
    <2>3. written' = written \cup {n}
      BY <1>1, <1>2, <1>5, <2>1
    <2>4. \A m \in (1..MaxId) \ {n} : MessageState(m)' = MessageState(m)
      BY <1>3, <2>2, <2>3, PlaceTells
    <2>5. n \in 1..MaxId => MessageState(n) = "queued" /\ MessageState(n)' = "written"
      BY <2>2, <2>3 DEF StatesTell
    <2>6. CASE n \in 1..MaxId
      <3>1. Change({n}, "queued", "written")
        BY <2>4, <2>5, <2>6 DEF Change
      <3>2. <<"queued", "written">> \in Promise!Arrow
        BY DEF Promise!Arrow
      <3>3. Promise!Moves({n}, "queued", "written")
        BY <2>6, <3>1, <3>2, ChangeMoves
      <3> QED
        BY <2>6, <3>3 DEF Promise!Next, Promise!Write
    <2>7. CASE n \notin 1..MaxId
      BY <2>4, <2>7 DEF Box
    <2> QED
      BY <2>6, <2>7
  <1> QED
    BY <1>4, <1>5

LEMMA LoseBox ==
  ASSUME Inv, Inv', StatesTell, StatesTell', LosesMessages
  PROVE  Promise!Next \/ Box' = Box
  <1> DEFINE Lost(m) == Live(m) /\ ~Live(m)'
  <1>1. PICK S : S = {m \in 1..MaxId : Lost(m)}
    OBVIOUS
  <1>2. UNCHANGED <<sent, written>>
    BY DEF LosesMessages
  <1>3. ASSUME NEW m PROVE /\ InQueue(m)' => InQueue(m)
                           /\ (m \in store)' => m \in store
    <2>1. ASSUME NEW f \in Fds, m \in Queued(f)' PROVE m \in Queued(f)
      BY <2>1 DEF LosesMessages, Queued
    <2> QED
      BY <2>1 DEF InQueue, LosesMessages
  <1>4. \A m : Live(m) <=> m \in store \/ InQueue(m)
    BY DEF Live, InQueue
  <1>5. \A m : Live(m)' <=> (m \in store)' \/ InQueue(m)'
    BY DEF Live, InQueue
  <1>6. ASSUME NEW m \in S
        PROVE  MessageState(m) \in {"stored", "queued"} /\ MessageState(m)' = "lost"
    <2>1. m \in 1..MaxId /\ Live(m) /\ ~Live(m)'
      BY <1>1
    <2>2. m \in DOMAIN sent /\ m \notin written
      BY <2>1, <1>4, OnePlace
    <2>3. m \in DOMAIN sent' /\ m \notin store' /\ ~InQueue(m)' /\ m \notin written'
      BY <2>1, <2>2, <1>2, <1>5
    <2>4. MessageState(m)' = "lost"
      BY <2>1, <2>3 DEF StatesTell
    <2> QED
      BY <2>1, <2>4, <1>4 DEF StatesTell
  <1>7. ASSUME NEW m \in (1..MaxId) \ S PROVE MessageState(m)' = MessageState(m)
    <2>1. Live(m) => Live(m)'
      BY <1>1
    <2>2. ~(m \in store /\ InQueue(m))
      BY OnePlace
    <2>3. /\ (m \in store)' <=> m \in store
          /\ InQueue(m)' <=> InQueue(m)
      BY <2>1, <2>2, <1>3, <1>4, <1>5
    <2> QED
      BY <2>3, <1>2, PlaceTells
  <1>8. S \in SUBSET (1..MaxId)
    BY <1>1
  <1> HIDE DEF Lost
  <1>9. CASE S = {}
    BY <1>7, <1>9 DEF Box
  <1>10. CASE S # {}
    <2>1. Promise!Lose(S)
      BY <1>6, <1>7, <1>8, <1>10 DEF Promise!Lose
    <2> QED
      BY <2>1, <1>8 DEF Promise!Next
  <1> QED
    BY <1>9, <1>10

\* Every step is a step of Mailbox, or leaves all messages where they are.
LEMMA BoxStep ==
  ASSUME Inv, Inv', StatesTell, StatesTell', [Next]_vars
  PROVE  Promise!Next \/ Box' = Box
  <1>1. TypeOK
    BY DEF Inv
  <1> QED
    BY <1>1, StepKinds, PlainBox, StoreBox, RouteBox, DrainBox, WriteBox, LoseBox

\* The server implements Mailbox: whatever the clients and the kernel do, a
\* private message is stored, queued and written at most once, and one that
\* was written or lost never comes back (message_handler.cpp:134-190,
\* server_im.cpp:178-247, message_storage.cpp:107-160).
THEOREM MailboxImplemented == Spec => MailboxSpec
  <1>1. Init => Promise!Init
    <2> SUFFICES ASSUME Init, NEW m \in 1..MaxId PROVE MessageState(m) = "new"
      BY DEF Promise!Init
    <2>1. sent = <<>>
      BY DEF Init
    <2> QED
      <3>1. <<>> \in Seq(Users) /\ Len(<<>>) = 0
        BY EmptySeq
      <3>2. DOMAIN sent = 1..0
        BY <2>1, <3>1, LenProperties
      <3> QED
        BY <3>2, InvInit, StatesAreTold DEF StatesTell
  <1>2. ASSUME Inv, Inv', StatesTell, StatesTell', [Next]_vars
        PROVE  [Promise!Next]_[m \in 1..MaxId |-> MessageState(m)]
    BY <1>2, BoxStep DEF Box
  <1>3. Spec => []Inv
    BY InductiveInvariant
  <1>4. []Inv => []StatesTell
    BY StatesAreTold, PTL
  <1> QED
    BY <1>1, <1>2, <1>3, <1>4, PTL DEF Spec, MailboxSpec, Promise!Spec
=============================================================================
