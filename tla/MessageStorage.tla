--------------------------- MODULE MessageStorage ---------------------------
(***************************************************************************)
(* The message storage (message_storage.cpp): a text file,                 *)
(*                                                                         *)
(*    from_id|to_id|content|timestamp|read                                 *)
(*                                                                         *)
(* for every message, that every operation reads from the start and every  *)
(* change writes from the start.  What is written of one message is the    *)
(* sequence of its fields.  A field is an integer: one that is not         *)
(* negative stands for digits, a negative one for a word that no number    *)
(* can be read from, and Broken for two such words with a line break       *)
(* between them.  A content is the sequence of what stands between its     *)
(* '|'.  Nothing escapes a '|' or a line break.                            *)
(***************************************************************************)
EXTENDS Integers, Sequences, FiniteSets, Selection

CONSTANTS
    Users,      \* user ids
    Texts,      \* contents
    MaxSaved    \* bound: messages in the file, and counted, when one is saved

ASSUME UsersAssumption == Users \subseteq Nat
ASSUME TextsAssumption == Texts \subseteq Seq(Int) \ {<<>>}
ASSUME BoundAssumption == MaxSaved \in Nat

VARIABLES
    file,       \* storage_file_: what is written of each message
    running,    \* is there a process?
    total,      \* total_messages_
    fetched,    \* what the last operation returned, if it was get_offline_messages
    fault       \* history: did the last operation, or the constructor, find the file
                \* closed to it or not write all of it, or did the process end there?

vars == <<file, running, total, fetched, fault>>

\* now(): nanoseconds since 1970, told from the flag 1
Now == 99

Broken == -99

Message == [from : Users, to : Users, text : Texts, ts : Int, read : BOOLEAN]

-----------------------------------------------------------------------------
(* The file format.                                                        *)

\* mutant of Line: the flag is not written
Line_NoFlag(m) == <<m.from, m.to>> \o m.text \o <<m.ts>>

\* what save_all_messages writes of a message
Line(m) == <<m.from, m.to>> \o m.text \o <<m.ts, IF m.read THEN 1 ELSE 0>>

\* stoul and stoull throw on a field that is not a number; behind a line break
\* a word stands where a number is looked for
Readable(l) ==
    /\ \A i \in {1, 2, 4} : l[i] >= 0
    /\ \A i \in DOMAIN l : l[i] # Broken

\* one line of load_all_messages: the first five fields, wherever they come from
Parse(l) == [from |-> l[1], to |-> l[2], text |-> <<l[3]>>, ts |-> l[4], read |-> l[5] = 1]

Loadable == \A i \in DOMAIN file : Readable(file[i])

\* load_all_messages, when it can open the file
Messages == [i \in DOMAIN file |-> Parse(file[i])]

Lines(ms) == [i \in DOMAIN ms |-> Line(ms[i])]

-----------------------------------------------------------------------------
(* Reading and writing.  In every operation shut tells that the file       *)
(* cannot be opened for reading.  Where a line is not readable             *)
(* load_all_messages throws, nobody catches and the process ends (Ended),  *)
(* as does every later one in the constructor.                             *)

Reading(shut) == running /\ (shut \/ Loadable)

\* load_all_messages
Loaded(shut) == IF shut THEN <<>> ELSE Messages

FirstLines(ms) == {SubSeq(Lines(ms), 1, n) : n \in 0..Len(ms)}

\* save_all_messages truncates the file, writes and closes it.  It does nothing
\* when it cannot open the file, and does not look at whether lines are written.
SaveAll(ms, shut) ==
    \/ ~shut /\ file' = Lines(ms) /\ fault' = FALSE
    \/ file' \in {file} \cup FirstLines(ms) /\ fault' = TRUE

Init ==
    /\ file = <<>> /\ running = TRUE /\ total = 0 /\ fetched = <<>> /\ fault = FALSE

-----------------------------------------------------------------------------
(* The operations.                                                         *)

Unread(m) == ~m.read

\* what is saved by each operation that has loaded ms
To(ms, u)     == {i \in DOMAIN ms : ms[i].to = u}
From(ms, u)   == {i \in DOMAIN ms : ms[i].from = u}
AsRead(ms, S) == [i \in DOMAIN ms |-> IF i \in S THEN [ms[i] EXCEPT !.read = TRUE] ELSE ms[i]]
Without(ms, u) == Those(ms, LAMBDA m : m.to # u /\ m.from # u)

NewMessage(f, t, c) == [from |-> f, to |-> t, text |-> c, ts |-> Now, read |-> FALSE]

SaveOfflineMessage(m, shut) ==
    /\ Reading(shut)
    /\ Len(file) < MaxSaved /\ total < MaxSaved
    /\ SaveAll(Append(Loaded(shut), m), shut)
    /\ total' = total + 1 /\ fetched' = <<>>
    /\ UNCHANGED running

\* mutant of GetOfflineMessages: only the copies that are returned are marked
GetOfflineMessages_NotSaved(u, shut) ==
    /\ Reading(shut)
    /\ fetched' = Those(Loaded(shut), LAMBDA m : m.to = u /\ Unread(m))
    /\ fault' = shut
    /\ UNCHANGED <<file, running, total>>

GetOfflineMessages(u, shut) ==
    /\ Reading(shut)
    /\ fetched' = Those(Loaded(shut), LAMBDA m : m.to = u /\ Unread(m))
    /\ IF fetched' = <<>> THEN UNCHANGED file /\ fault' = shut
                          ELSE SaveAll(AsRead(Loaded(shut), To(Loaded(shut), u)), shut)
    /\ UNCHANGED <<running, total>>

Marked(ms, u, f) == AsRead(ms, To(ms, u) \cap From(ms, f))

MarkAsRead(u, f, shut) ==
    /\ Reading(shut)
    /\ SaveAll(Marked(Loaded(shut), u, f), shut)
    /\ fetched' = <<>>
    /\ UNCHANGED <<running, total>>

\* mutant of ClearUserMessages: the counter is forgotten
ClearUserMessages_OldTotal(u, shut) ==
    /\ Reading(shut)
    /\ SaveAll(Without(Loaded(shut), u), shut)
    /\ fetched' = <<>>
    /\ UNCHANGED <<running, total>>

ClearUserMessages(u, shut) ==
    /\ Reading(shut)
    /\ SaveAll(Without(Loaded(shut), u), shut)
    /\ total' = Len(Without(Loaded(shut), u)) /\ fetched' = <<>>
    /\ UNCHANGED running

-----------------------------------------------------------------------------
(* The process.                                                            *)

\* killed in save_all_messages: the file ends after some line
EndedIn(ms) == file' \in FirstLines(ms)

\* killed, or ended by what load_all_messages throws
Ended ==
    /\ running /\ running' = FALSE
    /\ fetched' = <<>> /\ fault' = TRUE
    /\ UNCHANGED total
    /\ \/ UNCHANGED file
       \/ \E shut \in BOOLEAN :
            /\ shut \/ Loadable
            /\ \/ \E f, t \in Users, c \in Texts :
                    /\ Len(file) < MaxSaved
                    /\ EndedIn(Append(Loaded(shut), NewMessage(f, t, c)))
               \/ \E u \in Users :
                    \/ EndedIn(Without(Loaded(shut), u))
                    \/ EndedIn(AsRead(Loaded(shut), To(Loaded(shut), u)))
               \/ \E u, f \in Users : EndedIn(Marked(Loaded(shut), u, f))

\* The constructor writes an empty file where it cannot open one for reading,
\* and loads the file.
Started ==
    /\ ~running /\ running' = TRUE
    /\ fetched' = <<>>
    /\ \/ Loadable /\ total' = Len(file) /\ fault' = FALSE /\ UNCHANGED file
       \/ /\ file' \in {file, <<>>} /\ fault' = TRUE
          /\ \/ total' = 0
             \/ Loadable' /\ total' = Len(file')

Next ==
    \/ \E shut \in BOOLEAN :
         \/ \E f, t \in Users, c \in Texts : SaveOfflineMessage(NewMessage(f, t, c), shut)
         \/ \E u \in Users : GetOfflineMessages(u, shut) \/ ClearUserMessages(u, shut)
         \/ \E u, f \in Users : MarkAsRead(u, f, shut)
    \/ Ended \/ Started

Spec == Init /\ [][Next]_vars

-----------------------------------------------------------------------------
\* Types; a line that is written without one of its fields breaks them.
TypeOK ==
    /\ file \in Seq(Seq(Int)) /\ \A i \in DOMAIN file : Len(file[i]) >= 5
    /\ Messages \in Seq(Message)
    /\ running \in BOOLEAN /\ fault \in BOOLEAN
    /\ total \in Nat
    /\ fetched \in Seq(Message)

\* TotalCounts: get_total_messages, which is maintained by three operations and
\* the constructor (message_storage.cpp:20, 36, 96) and never read from the file
\* in between, stays right: a step without a fault leaves it the number of the
\* messages in the file, if it was that before or the process is new.  A message
\* that could not be written is counted (line 36 before line 38).
TotalKept ==
    /\ running' /\ Loadable' /\ ~fault'
    /\ running => total = Len(file)
    => total' = Len(file')

TotalCounts == [][TotalKept]_vars

\* InboxSpec: the file is an Inbox: without a fault a message is returned exactly
\* once, with the sender, the addressee and the text it was saved with, in the
\* order of saving, unless it is marked or cleared; and a fault does no more than
\* what Inbox!Fault says.
Strip(s) == [i \in DOMAIN s |-> [from |-> s[i].from, to |-> s[i].to, text |-> s[i].text]]

Box == INSTANCE Inbox WITH
          pending <- Strip(Those(Messages, Unread)),
          fetched <- Strip(fetched)

InboxSpec == Box!Spec

-----------------------------------------------------------------------------
\* FieldsReadBack: "format: from_id|to_id|content|timestamp|read"
\* (message_storage.cpp:116): what stands in the file can be read again.
FieldsReadBack == Loadable
=============================================================================
