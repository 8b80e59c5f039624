----------------------------- MODULE UserManager -----------------------------
(***************************************************************************)
(* Accounts: the user manager (user_manager.cpp), REGISTER and LOGIN of    *)
(* the message handler, users_db.txt over restarts of the server, and the  *)
(* private messages that are kept for an id while nobody is logged in with *)
(* it.  The online table is in Presence, connections are in ImServer: here *)
(* an id has a route or not.                                               *)
(*                                                                         *)
(* users_db.txt has a line "id name hash" per user and is read back by     *)
(* blanks: of a name of two words the first is taken for the name and the  *)
(* second for the hash.  FirstWord says what becomes of a name; a password *)
(* stands for its hash, and Junk for a hash that no password has.          *)
(***************************************************************************)
EXTENDS Integers, Sequences, FiniteSets, FiniteSetsExt

CONSTANTS
    Names,      \* user names
    FirstWord,  \* name -> its first word
    Seeds,      \* names registered at every start (alice, bob, charlie)
    Passwords, SeedPassword, Junk,
    MaxId,      \* bound: ids given out
    MaxAccounts,\* bound: accounts confirmed, over all processes
    MaxMail     \* bound: private messages

ASSUME NamesAssumption ==
    /\ "" \notin Names
    /\ FirstWord \in [Names -> Names]
    /\ \A n \in Names : FirstWord[FirstWord[n]] = FirstWord[n]
ASSUME SeedsAssumption ==
    /\ Seeds \in Seq(Names)
    /\ \A i, j \in DOMAIN Seeds : Seeds[i] = Seeds[j] => i = j
    /\ \A i \in DOMAIN Seeds : FirstWord[Seeds[i]] = Seeds[i]
ASSUME PasswordsAssumption == SeedPassword \in Passwords /\ Junk \notin Passwords
ASSUME BoundsAssumption == {MaxId, MaxAccounts, MaxMail} \subseteq Nat /\ Len(Seeds) <= MaxId

VARIABLES
    db,         \* users_, username_to_id_ and next_user_id_
    routed,     \* ids with an authenticated connection
    file,       \* the lines of users_db.txt, which stand in the order of their ids
    mail,       \* messages kept for an id
    confirmed,  \* history: accounts that REGISTER answered with "ok"
    written,    \* history: names that a REGISTER tried to save
    lost,       \* history: accounts whose line was missing when a process ended
    read        \* history: messages with the account that was given them

vars == <<db, routed, file, mail, confirmed, written, lost, read>>

Ids     == 1..MaxId
NoUser  == [name |-> "", hash |-> Junk]     \* no such key
Account == [id : Ids, name : Names, hash : Passwords]

\* the user that id has for the program
Known(i) == db.users[i] # NoUser
As(i)    == [id |-> i, name |-> db.users[i].name, hash |-> db.users[i].hash]

-----------------------------------------------------------------------------
(* users_db.txt                                                            *)

\* save_to_file: a line per user
Lines(d) ==
    {[id |-> i, name |-> d.users[i].name, hash |-> d.users[i].hash] :
        i \in {j \in Ids : d.users[j] # NoUser}}

\* what a process that ends in save_to_file leaves behind: the first lines, of
\* which the last may have lost digits of its hash
CutOff(ls) ==
    LET before(i) == {l \in ls : l.id < i}
    IN  {before(i) : i \in 1..(MaxId + 1)}
          \cup {before(l.id) \cup {[l EXCEPT !.hash = Junk]} : l \in ls}

\* what load_from_file makes of a line
Parsed(l) ==
    [name |-> FirstWord[l.name],
     hash |-> IF FirstWord[l.name] = l.name THEN l.hash ELSE Junk]

\* mutant of Loaded: the largest id is given out again
Loaded_SameId(ls) ==
    [users |-> [i \in Ids |-> IF \E l \in ls : l.id = i
                              THEN Parsed(CHOOSE l \in ls : l.id = i) ELSE NoUser],
     names |-> [n \in Names |-> Max({0} \cup {l.id : l \in {k \in ls : Parsed(k).name = n}})],
     next  |-> Max({1} \cup {l.id : l \in ls})]

\* load_from_file: a later line with the same name takes the name over
Loaded(ls) ==
    [users |-> [i \in Ids |-> IF \E l \in ls : l.id = i
                              THEN Parsed(CHOOSE l \in ls : l.id = i) ELSE NoUser],
     names |-> [n \in Names |-> Max({0} \cup {l.id : l \in {k \in ls : Parsed(k).name = n}})],
     next  |-> Max({0} \cup {l.id : l \in ls}) + 1]

\* mutant of Registered: the name is not looked up
Registered_Twice(d, n, p) ==
    [users |-> [d.users EXCEPT ![d.next] = [name |-> n, hash |-> p]],
     names |-> [d.names EXCEPT ![n] = d.next],
     next  |-> d.next + 1]

\* register_user: a name that is taken changes nothing
Registered(d, n, p) ==
    IF d.names[n] # 0 THEN d
    ELSE [users |-> [d.users EXCEPT ![d.next] = [name |-> n, hash |-> p]],
          names |-> [d.names EXCEPT ![n] = d.next],
          next  |-> d.next + 1]

\* main: load, then register the test users that are not there
Started(ls) ==
    LET after[k \in 0..Len(Seeds)] ==
            IF k = 0 THEN Loaded(ls) ELSE Registered(after[k - 1], Seeds[k], SeedPassword)
    IN  after[Len(Seeds)]

TestUsers == {[id |-> i, name |-> Seeds[i], hash |-> SeedPassword] : i \in DOMAIN Seeds}

-----------------------------------------------------------------------------
TypeOK ==
    /\ db.users \in [Ids -> [name : Names, hash : Passwords \cup {Junk}] \cup {NoUser}]
    /\ db.names \in [Names -> Ids \cup {0}]
    /\ db.next \in 1..(MaxId + 1)
    /\ \A i \in Ids : i >= db.next => ~Known(i)
    /\ routed \subseteq {i \in Ids : Known(i)}
    /\ file \subseteq [id : Ids, name : Names, hash : Passwords \cup {Junk}]
    /\ mail \subseteq [to : Ids, meant : Account \cup {NoUser}]
    /\ written \subseteq Names /\ confirmed \subseteq Account /\ lost \subseteq Account
    /\ read \subseteq [meant : Account \cup {NoUser}, by : Account]

\* the test users exist from the first start on
Init ==
    /\ db = Started({})
    /\ routed = {}
    /\ file = {} /\ mail = {}
    /\ confirmed = Lines(Started({}))
    /\ written = {} /\ lost = {} /\ read = {}

-----------------------------------------------------------------------------
(* REGISTER.                                                               *)

CanRegister(n) ==
    /\ db.names[n] = 0
    /\ db.next <= MaxId /\ Cardinality(confirmed) < MaxAccounts

NewAccount(n, p) == [id |-> db.next, name |-> n, hash |-> p]

\* The answer is "ok" whether the file could be opened for writing or not.
Register(n, p) ==
    /\ CanRegister(n)
    /\ db' = Registered(db, n, p)
    /\ file' = Lines(db')
    /\ confirmed' = confirmed \cup {NewAccount(n, p)}
    /\ written' = written \cup {n}
    /\ UNCHANGED <<routed, mail, lost, read>>

RegisterUnsaved(n, p) ==
    /\ CanRegister(n)
    /\ db' = Registered(db, n, p)
    /\ confirmed' = confirmed \cup {NewAccount(n, p)}
    /\ written' = written \cup {n}
    /\ UNCHANGED <<routed, file, mail, lost, read>>

-----------------------------------------------------------------------------
(* Sessions.                                                               *)

\* mutant of Login: the hash is not compared
Login_AnyPassword(n, p) ==
    /\ db.names[n] # 0
    /\ routed' = routed \cup {db.names[n]}
    /\ mail' = {m \in mail : m.to # db.names[n]}
    /\ read' = read \cup {[meant |-> m.meant, by |-> [id |-> db.names[n], name |-> n, hash |-> p]] :
                             m \in mail \ mail'}
    /\ UNCHANGED <<db, file, confirmed, written, lost>>

\* LOGIN: the messages that were kept for the id are handed out
Login(n, p) ==
    /\ db.names[n] # 0 /\ db.users[db.names[n]].hash = p
    /\ routed' = routed \cup {db.names[n]}
    /\ mail' = {m \in mail : m.to # db.names[n]}
    /\ read' = read \cup {[meant |-> m.meant, by |-> As(db.names[n])] :
                             m \in mail \ mail'}
    /\ UNCHANGED <<db, file, confirmed, written, lost>>

\* The user logs out or the connection is closed.
Leave(i) ==
    /\ i \in routed
    /\ routed' = routed \ {i}
    /\ UNCHANGED <<db, file, mail, confirmed, written, lost, read>>

\* CHAT_TO for an id that has no route, whoever has it or nobody: the sender
\* means the account that has the id at that time
ChatTo(i) ==
    /\ routed # {} /\ i \notin routed
    /\ Cardinality(mail) + Cardinality(read) < MaxMail
    /\ mail' = mail \cup {[to |-> i, meant |-> IF Known(i) /\ As(i) \in Account
                                               THEN As(i) ELSE NoUser]}
    /\ UNCHANGED <<db, routed, file, confirmed, written, lost, read>>

-----------------------------------------------------------------------------
(* Ends and starts of the process.                                         *)

Accounts(d) == {a \in Account : d.users[a.id] = [name |-> a.name, hash |-> a.hash]}

\* The process ends with the file ls, and the next one starts from it.  An account
\* is lost if ls has no line for it; the test users come back if theirs are missing.
RestartFrom(ls) ==
    /\ db' = Started(ls)
    /\ routed' = {}
    /\ file' = ls
    /\ LET back == {a \in TestUsers : \A l \in ls : l.id # a.id}
       IN  lost' = lost \cup (Accounts(db) \ (ls \cup back))
    /\ UNCHANGED <<mail, confirmed, read>>

Restart == RestartFrom(file) /\ UNCHANGED written

KilledInSave(n, p) ==
    /\ CanRegister(n)
    /\ \E ls \in CutOff(Lines(Registered(db, n, p))) : RestartFrom(ls)
    /\ written' = written \cup {n}

Next ==
    \/ \E n \in Names, p \in Passwords :
          Register(n, p) \/ RegisterUnsaved(n, p) \/ Login(n, p) \/ KilledInSave(n, p)
    \/ \E i \in Ids : Leave(i) \/ ChatTo(i)
    \/ Restart

Spec == Init /\ [][Next]_vars

-----------------------------------------------------------------------------
(* Properties.                                                             *)

Works(a) == db.names[a.name] = a.id /\ As(a.id) = a

\* a name with a blank in it, or another such name that begins with this one
Mangled(a) ==
    \E n \in written : FirstWord[n] # n /\ a.name \in {n, FirstWord[n]}

Gone(a) == a \in lost \/ Mangled(a)

\* AccountsKept: an account that was confirmed goes on working, with its id, name
\* and password, over any number of restarts, registrations and other people's
\* losses, unless its own line was not in users_db.txt when a process ended
\* (user_manager.cpp:9-42, message_handler.cpp:605), or names with blanks are mixed
\* up by the file.  In particular the id of an account that is not lost is never
\* given out again, although what is given out next is rebuilt from what the file
\* has; the id of a lost account is.
AccountsKept == \A a \in confirmed : Works(a) \/ Gone(a)

\* MailToMeant: a private message that was kept is given to the account that had
\* the id when it was sent, or to the first one that gets the id if nobody had
\* (message_handler.cpp:184-190 does not look), over restarts and re-used ids.
MailToMeant ==
    \A r \in read : r.by = r.meant \/ r.meant = NoUser \/ Gone(r.meant)
=============================================================================
