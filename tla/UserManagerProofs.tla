--------------------------- MODULE UserManagerProofs ---------------------------
(***************************************************************************)
(* Accounts over any number of registrations, restarts and damaged files,  *)
(* for any names, passwords and test users.                                *)
(*                                                                         *)
(* What a start makes of a file is read from the file alone: so the        *)
(* invariant says of the file and of the tables the same thing, that of    *)
(* their lines (Sound).  It is kept by what a process that ends in         *)
(* save_to_file leaves behind, by load_from_file and by register_user, and *)
(* it is all that LOGIN and the restarts need.                             *)
(***************************************************************************)
EXTENDS UserManager, SequenceTheorems, WellFoundedInduction, TLAPS

\* The names that can be in the file once the names W were registered.
Words(W) == W \cup {FirstWord[w] : w \in W}

\* n is what the file makes of a name with a blank.
Blurred(n, W) == \E w \in W : FirstWord[w] # w /\ n = FirstWord[w]

\* Lines of users_db.txt after the names W were registered: the ids have no gap,
\* the test users come first, and only blurred names occur twice.
Sound(ls, W) ==
    /\ ls \subseteq [id : Ids, name : Names, hash : Passwords \cup {Junk}]
    /\ \A k, l \in ls : k.id = l.id => k = l
    /\ \A l \in ls : \A i \in 1..l.id : \E k \in ls : k.id = i
    /\ \A l \in ls : IF l.id \in DOMAIN Seeds THEN l.name = Seeds[l.id]
                                              ELSE l.name \in Words(W)
    /\ \A k, l \in ls : k.name = l.name => k.id = l.id \/ Blurred(l.name, W)

Tables(d, W) ==
    /\ d.users \in [Ids -> [name : Names, hash : Passwords \cup {Junk}] \cup {NoUser}]
    /\ d.names \in [Names -> Ids \cup {0}]
    /\ d.next \in 1..(MaxId + 1)
    /\ \A i \in Ids : d.users[i] # NoUser <=> i < d.next
    /\ \A i \in Ids : d.users[i] # NoUser => d.names[d.users[i].name] # 0
    /\ \A n \in Names : d.names[n] # 0 =>
          d.users[d.names[n]] # NoUser /\ d.users[d.names[n]].name = n
    /\ Sound(Lines(d), W)

\* a still has its id, name and password
Stays(a) == As(a.id) = a \/ Gone(a)

Inv ==
    /\ Tables(db, written) /\ Len(Seeds) < db.next
    /\ Sound(file, written)
    /\ routed \subseteq {i \in Ids : Known(i)}
    /\ mail \subseteq [to : Ids, meant : Account \cup {NoUser}]
    /\ written \subseteq Names /\ confirmed \subseteq Account /\ lost \subseteq Account
    /\ read \subseteq [meant : Account \cup {NoUser}, by : Account]
    /\ \A a \in confirmed : Stays(a)
    /\ \A m \in mail : m.meant # NoUser => m.meant.id = m.to /\ Stays(m.meant)
    /\ MailToMeant
-----------------------------------------------------------------------------
(* Numbers.                                                                *)

LEMMA Least ==
  ASSUME NEW S, S \subseteq Nat, S # {}
  PROVE  \E x \in S : \A y \in S : x <= y
  <1>1. PICK x \in S : \A y \in S : <<y, x>> \notin OpToRel(<, Nat)
    BY WFMin, NatLessThanWellFounded
  <1>2. ASSUME NEW y \in S PROVE x <= y
    <2>1. ~(y < x)
      BY <1>1 DEF OpToRel
    <2>2. x \in Nat /\ y \in Nat
      OBVIOUS
    <2> QED
      BY <2>1, <2>2
  <1> QED
    BY <1>2

\* Induction on 0..n, for the property of being in S.
LEMMA UpTo ==
  ASSUME NEW n \in Nat, NEW S, 0 \in S, \A k \in 1..n : k - 1 \in S => k \in S
  PROVE  \A k \in 0..n : k \in S
  <1> SUFFICES ASSUME ~\A k \in 0..n : k \in S PROVE FALSE
    OBVIOUS
  <1> DEFINE T == {k \in 0..n : k \notin S}
  <1>1. T \subseteq Nat /\ T # {}
    OBVIOUS
  <1>2. PICK k \in T : \A j \in T : k <= j
    BY <1>1, Least
  <1>3. k \in 1..n /\ k - 1 \in 0..n /\ ~(k <= k - 1)
    BY <1>2
  <1> QED
    BY <1>2, <1>3

LEMMA MaxOf ==
  ASSUME NEW n \in Nat, NEW S, S \subseteq 0..n, S # {}
  PROVE  Max(S) \in S /\ \A y \in S : y <= Max(S)
  <1> DEFINE T == {n - x : x \in S}
  <1>1. T \subseteq Nat /\ T # {}
    <2>1. \A x \in S : x \in Nat /\ x <= n
      OBVIOUS
    <2>2. \A x \in S : n - x \in Nat
      BY <2>1
    <2> QED
      BY <2>2
  <1>2. PICK t \in T : \A u \in T : t <= u
    BY <1>1, Least
  <1>3. PICK x \in S : t = n - x
    BY <1>2
  <1>4. ASSUME NEW y \in S PROVE x >= y
    <2>1. n - x <= n - y
      BY <1>2, <1>3
    <2>2. x \in 0..n /\ y \in 0..n
      OBVIOUS
    <2> QED
      BY <2>1, <2>2
  <1>5. Max(S) \in S /\ \A y \in S : Max(S) >= y
    BY <1>4 DEF Max
  <1>6. \A y \in S : y \in Int
    OBVIOUS
  <1>7. PICK m \in S : m = Max(S)
    BY <1>5
  <1>8. \A y \in S : m >= y
    BY <1>5, <1>7
  <1>9. \A y \in S : y <= m
    BY <1>6, <1>8
  <1> QED
    BY <1>5, <1>7, <1>9
-----------------------------------------------------------------------------
(* Lines and names.                                                        *)

LEMMA Constants ==
  /\ Len(Seeds) \in Nat /\ DOMAIN Seeds = 1..Len(Seeds) /\ Len(Seeds) <= MaxId
  /\ \A i \in DOMAIN Seeds : Seeds[i] \in Names
  /\ MaxId \in Nat /\ Ids = 1..MaxId
  /\ SeedPassword \in Passwords /\ Junk \notin Passwords
  /\ \A n \in Names : \A h : [name |-> n, hash |-> h] # NoUser
  <1>1. /\ Len(Seeds) \in Nat /\ DOMAIN Seeds = 1..Len(Seeds)
        /\ \A i \in DOMAIN Seeds : Seeds[i] \in Names
    BY SeedsAssumption, LenProperties
  <1>2. Len(Seeds) <= MaxId /\ MaxId \in Nat /\ Ids = 1..MaxId
    BY BoundsAssumption DEF Ids
  <1>3. \A n \in Names : \A h : [name |-> n, hash |-> h] # NoUser
    BY NamesAssumption DEF NoUser
  <1> QED
    BY <1>1, <1>2, <1>3, PasswordsAssumption

LEMMA NamesKnown ==
  ASSUME NEW W, W \subseteq Names
  PROVE  /\ Words(W) \subseteq Names
         /\ \A n \in Words(W) : FirstWord[n] \in Words(W)
         /\ \A n \in Words(W) : FirstWord[n] # n => n \in W /\ Blurred(FirstWord[n], W)
         /\ \A n \in Names : Blurred(n, W) => FirstWord[n] = n
  BY NamesAssumption DEF Words, Blurred

\* More names registered, the same lines.
LEMMA MoreNames ==
  ASSUME NEW ls, NEW V, NEW W, V \subseteq W, Sound(ls, V)
  PROVE  Sound(ls, W)
  <1>1. Words(V) \subseteq Words(W) /\ \A n : Blurred(n, V) => Blurred(n, W)
    BY DEF Words, Blurred
  <1> QED
    BY <1>1 DEF Sound

\* A line more.
LEMMA LineAdded ==
  ASSUME NEW ls, NEW W, Sound(ls, W), NEW l \in [id : Ids, name : Names, hash : Passwords \cup {Junk}],
         \A k \in ls : k.id < l.id,
         \A i \in 1..(l.id - 1) : \E k \in ls : k.id = i,
         IF l.id \in DOMAIN Seeds THEN l.name = Seeds[l.id] ELSE l.name \in Words(W),
         \A k \in ls : k.name = l.name => Blurred(l.name, W)
  PROVE  Sound(ls \cup {l}, W)
  <1> DEFINE both == ls \cup {l}
  <1>1. l.id \in Nat /\ ~(l.id < l.id)
    BY DEF Ids
  <1>2. both \subseteq [id : Ids, name : Names, hash : Passwords \cup {Junk}]
    BY DEF Sound
  <1>3. \A j, k \in both : j.id = k.id => j = k
    BY <1>1 DEF Sound
  <1>4. \A k \in both : \A i \in 1..k.id : \E j \in both : j.id = i
    <2>1. \A i \in 1..l.id : i \in 1..(l.id - 1) \/ i = l.id
      BY <1>1
    <2> QED
      BY <2>1 DEF Sound
  <1>5. \A k \in both : IF k.id \in DOMAIN Seeds THEN k.name = Seeds[k.id]
                                                 ELSE k.name \in Words(W)
    BY DEF Sound
  <1>6. \A j, k \in both : j.name = k.name => j.id = k.id \/ Blurred(k.name, W)
    BY DEF Sound
  <1> HIDE DEF both
  <1>7. Sound(both, W)
    BY <1>2, <1>3, <1>4, <1>5, <1>6 DEF Sound
  <1> QED
    BY <1>7 DEF both

\* save_to_file keeps the lines sound wherever it ends.
LEMMA CutIsSound ==
  ASSUME NEW ls, NEW W, Sound(ls, W), NEW cut \in CutOff(ls)
  PROVE  Sound(cut, W)
  <1> DEFINE before(i) == {l \in ls : l.id < i}
  <1>t. ls \subseteq [id : Ids, name : Names, hash : Passwords \cup {Junk}]
    BY DEF Sound
  <1>n. \A l \in ls : l.id \in Nat
    BY <1>t DEF Ids
  <1>1. ASSUME NEW n \in Nat PROVE Sound(before(n), W)
    <2>1. before(n) \subseteq ls
      OBVIOUS
    <2>2. ASSUME NEW l \in before(n), NEW i \in 1..l.id
          PROVE  \E k \in before(n) : k.id = i
      <3>1. PICK k \in ls : k.id = i
        BY <2>1, <2>2 DEF Sound
      <3>2. k.id < n
        BY <3>1, <1>n, <2>1
      <3> QED
        BY <3>1, <3>2
    <2> HIDE DEF before
    <2> QED
      BY <2>1, <2>2 DEF Sound
  <1>2. ASSUME NEW l \in ls PROVE Sound(before(l.id) \cup {[l EXCEPT !.hash = Junk]}, W)
    <2> DEFINE x == [l EXCEPT !.hash = Junk]
    <2>1. /\ x \in [id : Ids, name : Names, hash : Passwords \cup {Junk}]
          /\ x.id = l.id /\ x.name = l.name
      BY <1>t
    <2>2. Sound(before(l.id), W)
      BY <1>1, <1>n
    <2>3. \A k \in before(l.id) : k \in ls /\ k.id < l.id /\ k.id # l.id
      BY <1>n
    <2>4. ASSUME NEW i \in 1..(l.id - 1) PROVE \E k \in before(l.id) : k.id = i
      <3>1. i \in 1..l.id /\ i < l.id
        BY <1>n
      <3>2. PICK k \in ls : k.id = i
        BY <3>1 DEF Sound
      <3> QED
        BY <3>1, <3>2
    <2>5. IF l.id \in DOMAIN Seeds THEN l.name = Seeds[l.id] ELSE l.name \in Words(W)
      BY DEF Sound
    <2>6. \A k \in before(l.id) : k.name = l.name => Blurred(l.name, W)
      BY <2>3 DEF Sound
    <2> HIDE DEF before, x
    <2>7. Sound(before(l.id) \cup {x}, W)
      BY <2>1, <2>2, <2>3, <2>4, <2>5, <2>6, LineAdded
    <2> QED
      BY <2>7 DEF x
  <1>3. \/ \E i \in 1..(MaxId + 1) : cut = before(i)
        \/ \E l \in ls : cut = before(l.id) \cup {[l EXCEPT !.hash = Junk]}
    BY DEF CutOff
  <1> QED
    BY <1>1, <1>2, <1>3
-----------------------------------------------------------------------------
(* load_from_file.                                                         *)

LEMMA ParsedLine ==
  ASSUME NEW l \in [id : Ids, name : Names, hash : Passwords \cup {Junk}]
  PROVE  /\ l.id \in Ids /\ l.name \in Names
         /\ Parsed(l) \in [name : Names, hash : Passwords \cup {Junk}]
         /\ Parsed(l).name = FirstWord[l.name] /\ Parsed(l) # NoUser
         /\ FirstWord[l.name] = l.name => Parsed(l) = [name |-> l.name, hash |-> l.hash]
  BY NamesAssumption, Constants DEF Parsed

LEMMA LoadedIds ==
  ASSUME NEW ls, NEW W, Sound(ls, W)
  PROVE  /\ Loaded(ls).next \in 1..(MaxId + 1)
         /\ \A i \in Ids : i < Loaded(ls).next <=> \E l \in ls : l.id = i
  <1> DEFINE S == {0} \cup {l.id : l \in ls}
  <1>t. \A l \in ls : l.id \in 1..MaxId
    BY Constants DEF Sound
  <1>1. MaxId \in Nat /\ S \subseteq 0..MaxId /\ S # {}
    BY <1>t, Constants
  <1>2. PICK n \in S : n = Max(S) /\ \A y \in S : y <= n
    <2> HIDE DEF S
    <2> QED
      BY <1>1, MaxOf
  <1>3. n \in 0..MaxId
    BY <1>1, <1>2
  <1>4. Loaded(ls).next = n + 1
    BY <1>2 DEF Loaded
  <1>b. n + 1 \in 1..(MaxId + 1)
    BY <1>3, <1>1
  <1>5. ASSUME NEW i \in Ids PROVE i < n + 1 <=> \E l \in ls : l.id = i
    <2>1. i \in 1..MaxId
      BY Constants
    <2>2. ASSUME NEW l \in ls, l.id = i PROVE i < n + 1
      <3>1. i <= n
        BY <1>2, <2>2
      <3> QED
        BY <3>1, <2>1, <1>3
    <2>3. ASSUME i < n + 1 PROVE \E l \in ls : l.id = i
      <3>1. n # 0 /\ i \in 1..n
        BY <2>1, <2>3, <1>3
      <3>2. PICK l \in ls : l.id = n
        BY <3>1, <1>2
      <3> QED
        BY <3>1, <3>2 DEF Sound
    <2> QED
      BY <2>2, <2>3
  <1> QED
    BY <1>b, <1>4, <1>5

LEMMA LoadedNames ==
  ASSUME NEW ls, NEW W, Sound(ls, W)
  PROVE  /\ Loaded(ls).names \in [Names -> Ids \cup {0}]
         /\ \A l \in ls : Loaded(ls).names[FirstWord[l.name]] # 0
         /\ \A n \in Names : Loaded(ls).names[n] # 0 =>
               \E l \in ls : l.id = Loaded(ls).names[n] /\ FirstWord[l.name] = n
  <1> DEFINE S(n) == {0} \cup {l.id : l \in {k \in ls : Parsed(k).name = n}}
  <1>t. \A l \in ls : /\ l.id \in 1..MaxId /\ FirstWord[l.name] \in Names
                      /\ Parsed(l).name = FirstWord[l.name]
    BY Constants, ParsedLine, NamesAssumption DEF Sound
  <1>1. ASSUME NEW n \in Names
        PROVE  /\ Max(S(n)) \in S(n) /\ \A y \in S(n) : y <= Max(S(n))
               /\ S(n) \subseteq 0..MaxId
    <2>1. MaxId \in Nat /\ S(n) \subseteq 0..MaxId /\ S(n) # {}
      BY <1>t, Constants
    <2> HIDE DEF S
    <2> QED
      BY <2>1, MaxOf
  <1>2. Loaded(ls).names = [n \in Names |-> Max(S(n))]
    BY DEF Loaded
  <1>3. ASSUME NEW n \in Names PROVE Max(S(n)) \in Ids \cup {0}
    BY <1>1, Constants
  <1>4. ASSUME NEW l \in ls PROVE Max(S(FirstWord[l.name])) # 0
    <2>1. PICK n \in Names : n = FirstWord[l.name]
      BY <1>t
    <2>2. l.id \in S(n)
      BY <2>1, <1>t
    <2>3. l.id <= Max(S(n)) /\ Max(S(n)) \in 0..MaxId
      BY <2>2, <1>1
    <2>4. PICK m \in 0..MaxId : m = Max(S(n))
      BY <2>3
    <2>5. m # 0
      BY <2>3, <2>4, <1>t, Constants
    <2> QED
      BY <2>1, <2>4, <2>5
  <1>5. ASSUME NEW n \in Names, Max(S(n)) # 0
        PROVE  \E l \in ls : l.id = Max(S(n)) /\ FirstWord[l.name] = n
    BY <1>1, <1>5, <1>t
  <1> HIDE DEF S
  <1> QED
    BY <1>2, <1>3, <1>4, <1>5, <1>t

LEMMA LoadedTables ==
  ASSUME NEW ls, NEW W, W \subseteq Names, Sound(ls, W)
  PROVE  /\ Tables(Loaded(ls), W)
         /\ \A l \in ls : Loaded(ls).users[l.id] = Parsed(l)
  <1> DEFINE d == Loaded(ls)
  <1>l. \A l \in ls : /\ l \in [id : Ids, name : Names, hash : Passwords \cup {Junk}]
                      /\ l.id \in Ids /\ l.name \in Names
                      /\ Parsed(l) \in [name : Names, hash : Passwords \cup {Junk}]
                      /\ Parsed(l).name = FirstWord[l.name] /\ Parsed(l) # NoUser
    BY ParsedLine DEF Sound
  <1>1. /\ \A l \in ls : d.users[l.id] = Parsed(l)
        /\ \A i \in Ids : (\A l \in ls : l.id # i) => d.users[i] = NoUser
    <2>1. \A l \in ls : (CHOOSE k \in ls : k.id = l.id) = l
      BY DEF Sound
    <2>2. d.users = [i \in Ids |-> IF \E l \in ls : l.id = i
                                   THEN Parsed(CHOOSE l \in ls : l.id = i) ELSE NoUser]
      BY DEF Loaded
    <2> HIDE DEF d
    <2> QED
      BY <2>1, <2>2, <1>l
  <1>2. d.users \in [Ids -> [name : Names, hash : Passwords \cup {Junk}] \cup {NoUser}]
    <2>1. d.users = [i \in Ids |-> d.users[i]]
      BY DEF Loaded
    <2> HIDE DEF d
    <2>2. \A i \in Ids : d.users[i] \in [name : Names, hash : Passwords \cup {Junk}] \cup {NoUser}
      BY <1>1, <1>l
    <2> QED
      BY <2>1, <2>2
  <1>3. /\ d.next \in 1..(MaxId + 1)
        /\ \A i \in Ids : i < d.next <=> \E l \in ls : l.id = i
    BY LoadedIds
  <1>4. /\ d.names \in [Names -> Ids \cup {0}]
        /\ \A l \in ls : d.names[FirstWord[l.name]] # 0
        /\ \A n \in Names : d.names[n] # 0 =>
               \E l \in ls : l.id = d.names[n] /\ FirstWord[l.name] = n
    BY LoadedNames
  <1> HIDE DEF d
  <1>5. \A i \in Ids : d.users[i] # NoUser <=> \E l \in ls : l.id = i
    BY <1>1, <1>l
  <1>6. \A i \in Ids : d.users[i] # NoUser => d.names[d.users[i].name] # 0
    BY <1>1, <1>4, <1>5, <1>l
  <1>7. \A n \in Names : d.names[n] # 0 =>
          d.users[d.names[n]] # NoUser /\ d.users[d.names[n]].name = n
    BY <1>1, <1>4, <1>l
  <1>8. Sound(Lines(d), W)
    <2> DEFINE L == Lines(d)
    <2>1. \A x \in L : \E l \in ls :
             x = [id |-> l.id, name |-> FirstWord[l.name], hash |-> Parsed(l).hash]
      <3>1. \A x \in L : \E i \in Ids : d.users[i] # NoUser
               /\ x = [id |-> i, name |-> d.users[i].name, hash |-> d.users[i].hash]
        BY DEF Lines
      <3> QED
        BY <3>1, <1>1, <1>5, <1>l
    <2>2. ASSUME NEW l \in ls PROVE \E x \in L : x.id = l.id
      <3>1. l.id \in Ids /\ d.users[l.id] # NoUser
        BY <1>5, <1>l
      <3>2. [id |-> l.id, name |-> d.users[l.id].name, hash |-> d.users[l.id].hash] \in L
        BY <3>1 DEF Lines
      <3> QED
        BY <3>2
    <2>3. \A x \in L : \E l \in ls : x.id = l.id /\ x.name = FirstWord[l.name]
      BY <2>1
    <2>4. L \subseteq [id : Ids, name : Names, hash : Passwords \cup {Junk}]
      <3>1. \A l \in ls : [id |-> l.id, name |-> FirstWord[l.name], hash |-> Parsed(l).hash]
                               \in [id : Ids, name : Names, hash : Passwords \cup {Junk}]
        BY <1>l, NamesAssumption
      <3> HIDE DEF L
      <3> QED
        BY <2>1, <3>1
    <2>5. \A x, y \in L : x.id = y.id => x = y
      BY <2>1 DEF Sound
    <2>6. \A x \in L : \A i \in 1..x.id : \E y \in L : y.id = i
      BY <2>2, <2>3 DEF Sound
    <2>7. ASSUME NEW x \in L
          PROVE  IF x.id \in DOMAIN Seeds THEN x.name = Seeds[x.id] ELSE x.name \in Words(W)
      BY <2>3, NamesKnown, SeedsAssumption DEF Sound
    <2>8. ASSUME NEW x \in L, NEW y \in L, x.name = y.name, x.id # y.id
          PROVE  Blurred(y.name, W)
      <3>1. PICK k \in ls : x.id = k.id /\ x.name = FirstWord[k.name]
        BY <2>3
      <3>2. PICK l \in ls : y.id = l.id /\ y.name = FirstWord[l.name]
        BY <2>3
      <3>3. CASE k.name = l.name
        <4>1. Blurred(l.name, W)
          BY <3>1, <3>2, <3>3, <2>8 DEF Sound
        <4>2. FirstWord[l.name] = l.name
          BY <4>1, NamesKnown, <1>l
        <4> QED
          BY <4>1, <4>2, <3>2
      <3>4. ASSUME NEW z \in ls, FirstWord[z.name] # z.name PROVE Blurred(FirstWord[z.name], W)
        <4>1. z.name \in Words(W)
          BY <3>4, SeedsAssumption DEF Sound
        <4> QED
          BY <3>4, <4>1, NamesKnown
      <3>5. CASE k.name # l.name
        BY <3>1, <3>2, <3>4, <3>5, <2>8
      <3> QED
        BY <3>3, <3>5
    <2> HIDE DEF L
    <2>9. Sound(L, W)
      BY <2>4, <2>5, <2>6, <2>7, <2>8 DEF Sound
    <2> QED
      BY <2>9 DEF L
  <1>9. Tables(d, W)
    BY <1>2, <1>3, <1>4, <1>5, <1>6, <1>7, <1>8 DEF Tables
  <1> QED
    BY <1>1, <1>9 DEF d
-----------------------------------------------------------------------------
(* register_user, and the start of the process.                            *)

LEMMA LineOf ==
  ASSUME NEW d, NEW W, Tables(d, W), NEW i \in Ids, i < d.next
  PROVE  /\ d.users[i] # NoUser /\ d.users[i] \in [name : Names, hash : Passwords \cup {Junk}]
         /\ [id |-> i, name |-> d.users[i].name, hash |-> d.users[i].hash] \in Lines(d)
         /\ IF i \in DOMAIN Seeds THEN d.users[i].name = Seeds[i]
                                  ELSE d.users[i].name \in Words(W)
         /\ \A j \in Ids : j < d.next /\ d.users[j].name = d.users[i].name
               => i = j \/ Blurred(d.users[i].name, W)
  <1> DEFINE line(j) == [id |-> j, name |-> d.users[j].name, hash |-> d.users[j].hash]
  <1>1. \A j \in Ids : j < d.next => d.users[j] # NoUser /\ line(j) \in Lines(d)
    BY DEF Tables, Lines
  <1>2. d.users[i] \in [name : Names, hash : Passwords \cup {Junk}]
    BY <1>1 DEF Tables
  <1>3. \A j : line(j).id = j /\ line(j).name = d.users[j].name
    OBVIOUS
  <1> HIDE DEF line
  <1>4. IF i \in DOMAIN Seeds THEN d.users[i].name = Seeds[i] ELSE d.users[i].name \in Words(W)
    <2>1. line(i) \in Lines(d)
      BY <1>1
    <2> QED
      BY <2>1, <1>3 DEF Tables, Sound
  <1>5. \A j \in Ids : j < d.next /\ d.users[j].name = d.users[i].name
               => i = j \/ Blurred(d.users[i].name, W)
    <2>1. \A k, l \in Lines(d) : k.name = l.name => k.id = l.id \/ Blurred(l.name, W)
      BY DEF Tables, Sound
    <2> QED
      BY <2>1, <1>1, <1>3
  <1> QED
    BY <1>1, <1>2, <1>4, <1>5 DEF line

LEMMA RegisteredTables ==
  ASSUME NEW d, NEW W, Tables(d, W), d.next \in Ids,
         NEW n \in Names, NEW p \in Passwords, d.names[n] = 0,
         IF d.next \in DOMAIN Seeds THEN n = Seeds[d.next] ELSE n \in Words(W)
  PROVE  /\ Tables(Registered(d, n, p), W)
         /\ Registered(d, n, p).next = d.next + 1
         /\ Registered(d, n, p).users[d.next] = [name |-> n, hash |-> p]
         /\ \A i \in Ids : i # d.next => Registered(d, n, p).users[i] = d.users[i]
  <1> DEFINE e == Registered(d, n, p)
             u == [name |-> n, hash |-> p]
             l == [id |-> d.next, name |-> n, hash |-> p]
  <1>1. /\ e.users = [d.users EXCEPT ![d.next] = u]
        /\ e.names = [d.names EXCEPT ![n] = d.next]
        /\ e.next = d.next + 1
    BY DEF Registered
  <1>2. u \in [name : Names, hash : Passwords \cup {Junk}] /\ u.name = n /\ u # NoUser
    BY Constants
  <1>3. d.next \in 1..MaxId /\ MaxId \in Nat /\ Ids = 1..MaxId
    BY Constants
  <1>4. d.users[d.next] = NoUser /\ \A i \in Ids : d.users[i] # NoUser => i < d.next
    BY <1>3 DEF Tables
  <1>5. /\ e.users[d.next] = u
        /\ \A i \in Ids : i # d.next => e.users[i] = d.users[i]
        /\ e.names[n] = d.next
        /\ \A m \in Names : m # n => e.names[m] = d.names[m]
    BY <1>1 DEF Tables
  <1>6. /\ e.users \in [Ids -> [name : Names, hash : Passwords \cup {Junk}] \cup {NoUser}]
        /\ e.names \in [Names -> Ids \cup {0}]
    <2> HIDE DEF u, e
    <2> QED
      BY <1>1, <1>2 DEF Tables
  <1>7. e.next \in 1..(MaxId + 1)
    BY <1>1, <1>3
  <1> HIDE DEF e, u
  <1>8. \A i \in Ids : e.users[i] # NoUser <=> i < e.next
    <2>1. \A i \in Ids : i < d.next + 1 <=> i < d.next \/ i = d.next
      BY <1>3
    <2> QED
      BY <2>1, <1>1, <1>2, <1>5 DEF Tables
  <1>9. \A i \in Ids : e.users[i] # NoUser => e.names[e.users[i].name] # 0
    BY <1>2, <1>3, <1>5 DEF Tables
  <1>10. \A m \in Names : e.names[m] # 0 =>
            e.users[e.names[m]] # NoUser /\ e.users[e.names[m]].name = m
    BY <1>2, <1>4, <1>5 DEF Tables
  <1>11. Lines(e) = Lines(d) \cup {l}
    <2>1. l = [id |-> d.next, name |-> e.users[d.next].name, hash |-> e.users[d.next].hash]
      BY <1>5 DEF u
    <2>2. \A i \in Ids : e.users[i] # NoUser <=> d.users[i] # NoUser \/ i = d.next
      BY <1>2, <1>5
    <2> HIDE DEF l
    <2> QED
      BY <2>1, <2>2, <1>4, <1>5 DEF Lines
  <1>12. Sound(Lines(d) \cup {l}, W)
    <2>1. /\ l \in [id : Ids, name : Names, hash : Passwords \cup {Junk}]
          /\ l.id = d.next /\ l.name = n
      OBVIOUS
    <2>2. \A k \in Lines(d) : k.id \in Ids /\ d.users[k.id] # NoUser /\ k.name = d.users[k.id].name
      BY DEF Lines
    <2>3. \A k \in Lines(d) : k.id < l.id /\ k.name # l.name
      BY <2>1, <2>2, <1>4 DEF Tables
    <2>4. ASSUME NEW i \in 1..(l.id - 1) PROVE \E k \in Lines(d) : k.id = i
      <3>1. i \in Ids /\ i < d.next
        BY <2>1, <1>3
      <3>2. d.users[i] # NoUser
        BY <3>1 DEF Tables
      <3>3. [id |-> i, name |-> d.users[i].name, hash |-> d.users[i].hash] \in Lines(d)
        BY <3>1, <3>2 DEF Lines
      <3> QED
        BY <3>3
    <2>5. Sound(Lines(d), W)
      BY DEF Tables
    <2> HIDE DEF l
    <2> QED
      BY <2>1, <2>3, <2>4, <2>5, LineAdded
  <1>13. Tables(e, W)
    BY <1>6, <1>7, <1>8, <1>9, <1>10, <1>11, <1>12 DEF Tables
  <1> QED
    BY <1>1, <1>5, <1>13 DEF e, u

\* The recursive definition of Started has a solution.
LEMMA StartedAfter ==
  ASSUME NEW ls
  PROVE  \E after :
           /\ after = [k \in 0..Len(Seeds) |->
                         IF k = 0 THEN Loaded(ls)
                         ELSE Registered(after[k - 1], Seeds[k], SeedPassword)]
           /\ Started(ls) = after[Len(Seeds)]
  <1> DEFINE E(f, k) == IF k = 0 THEN Loaded(ls)
                        ELSE Registered(f[k - 1], Seeds[k], SeedPassword)
             S == {k \in 0..Len(Seeds) : \E f : f = [j \in 0..k |-> E(f, j)]}
  <1>n. PICK n \in Nat : n = Len(Seeds)
    BY Constants
  <1>1. 0 \in S
    <2>1. [j \in 0..0 |-> Loaded(ls)] = [j \in 0..0 |-> E([i \in 0..0 |-> Loaded(ls)], j)]
      OBVIOUS
    <2> HIDE DEF E
    <2> QED
      BY <2>1, <1>n
  <1>2. ASSUME NEW k \in 1..n, k - 1 \in S PROVE k \in S
    <2>1. PICK f : f = [j \in 0..(k - 1) |-> E(f, j)]
      BY <1>2
    <2> DEFINE g == [j \in 0..k |-> IF j = k THEN E(f, k) ELSE f[j]]
    <2>2. ASSUME NEW j \in 0..k PROVE g[j] = E(g, j)
      <3>1. CASE j = 0
        BY <3>1, <2>1
      <3>2. CASE j # 0
        <4>1. j - 1 \in 0..k /\ j - 1 # k /\ (j # k => j \in 0..(k - 1))
          BY <3>2
        <4>2. g[j - 1] = f[j - 1]
          BY <4>1
        <4>3. g[j] = E(f, j)
          BY <4>1, <2>1
        <4> QED
          BY <3>2, <4>2, <4>3
      <3> QED
        BY <3>1, <3>2
    <2>3. g = [j \in 0..k |-> g[j]]
      OBVIOUS
    <2> HIDE DEF g, E
    <2>4. g = [j \in 0..k |-> E(g, j)]
      BY <2>2, <2>3
    <2> QED
      BY <2>4, <1>n
  <1>3. \A k \in 0..n : k \in S
    <2> HIDE DEF S
    <2> QED
      BY <1>1, <1>2, UpTo
  <1>4. \E f : f = [k \in 0..Len(Seeds) |-> E(f, k)]
    BY <1>3, <1>n
  <1> DEFINE after == CHOOSE f : f = [k \in 0..Len(Seeds) |-> E(f, k)]
  <1>5. Started(ls) = after[Len(Seeds)]
    BY DEF Started
  <1>6. after = [k \in 0..Len(Seeds) |-> E(after, k)]
    <2> HIDE DEF E
    <2> QED
      BY <1>4
  <1> HIDE DEF after
  <1> QED
    BY <1>5, <1>6
\* A start reads the lines, and puts back the test users that have none.
LEMMA StartedTables ==
  ASSUME NEW ls, NEW W, W \subseteq Names, Sound(ls, W)
  PROVE  /\ Tables(Started(ls), W) /\ Len(Seeds) < Started(ls).next
         /\ \A l \in ls : Started(ls).users[l.id] = Parsed(l)
         /\ \A i \in Ids : i < Started(ls).next /\ (\A l \in ls : l.id # i) =>
               /\ i \in DOMAIN Seeds
               /\ Started(ls).users[i] = [name |-> Seeds[i], hash |-> SeedPassword]
  <1>1. PICK after : /\ after = [k \in 0..Len(Seeds) |->
                                   IF k = 0 THEN Loaded(ls)
                                   ELSE Registered(after[k - 1], Seeds[k], SeedPassword)]
                     /\ Started(ls) = after[Len(Seeds)]
    BY StartedAfter
  <1>n. PICK n \in Nat : n = Len(Seeds) /\ DOMAIN Seeds = 1..n /\ n <= MaxId
    BY Constants
  <1>l. \A l \in ls : l.id \in Ids
    BY DEF Sound
  <1> DEFINE P(d, k) ==
               /\ Tables(d, W) /\ k < d.next
               /\ \A l \in ls : d.users[l.id] = Parsed(l) /\ l.id < d.next
               /\ \A i \in Ids : i < d.next /\ (\A l \in ls : l.id # i) =>
                     i \in 1..n /\ d.users[i] = [name |-> Seeds[i], hash |-> SeedPassword]
             S == {k \in 0..n : P(after[k], k)}
  <1>2. 0 \in S
    <2>1. after[0] = Loaded(ls)
      BY <1>1, <1>n
    <2>2. /\ Tables(Loaded(ls), W) /\ \A l \in ls : Loaded(ls).users[l.id] = Parsed(l)
          /\ Loaded(ls).next \in 1..(MaxId + 1)
          /\ \A i \in Ids : i < Loaded(ls).next <=> \E l \in ls : l.id = i
      BY LoadedTables, LoadedIds
    <2>3. 0 < Loaded(ls).next
      BY <2>2, Constants
    <2>4. P(Loaded(ls), 0)
      BY <2>2, <2>3, <1>l
    <2> HIDE DEF P
    <2> QED
      BY <2>1, <2>4, <1>n
  <1>3. ASSUME NEW k \in 1..n, k - 1 \in S PROVE k \in S
    <2>1. PICK d : d = after[k - 1]
      OBVIOUS
    <2>2. P(d, k - 1)
      BY <1>3, <2>1
    <2>3. /\ after[k] = Registered(d, Seeds[k], SeedPassword)
      BY <2>1, <1>1, <1>n
    <2>4. /\ Seeds[k] \in Names /\ k \in DOMAIN Seeds /\ k \in Ids /\ k \in Nat
          /\ SeedPassword \in Passwords
      BY Constants, <1>n
    <2>5. d.next \in 1..(MaxId + 1) /\ k <= d.next /\ MaxId \in Nat
      <3>1. d.next \in 1..(MaxId + 1) /\ k - 1 < d.next
        BY <2>2 DEF Tables
      <3> QED
        BY <3>1, Constants
    <2>6. \A i \in Ids : i < d.next => IF i \in DOMAIN Seeds THEN d.users[i].name = Seeds[i]
                                                            ELSE TRUE
      BY <2>2, LineOf
    <2>7. CASE d.names[Seeds[k]] # 0
      <3>1. after[k] = d
        BY <2>3, <2>7 DEF Registered
      <3>2. k # d.next
        <4> SUFFICES ASSUME k = d.next PROVE FALSE
          OBVIOUS
        <4>1. PICK j \in Ids : j = d.names[Seeds[k]]
          BY <2>2, <2>4, <2>7 DEF Tables
        <4>2. d.users[j] # NoUser /\ d.users[j].name = Seeds[k]
          BY <4>1, <2>2, <2>4, <2>7 DEF Tables
        <4>3. j < k
          BY <4>2, <2>2 DEF Tables
        <4>4. j \in DOMAIN Seeds /\ j # k
          BY <4>3, <1>n, Constants
        <4>5. d.users[j].name = Seeds[j]
          BY <4>3, <4>4, <2>6
        <4> QED
          BY <4>2, <4>4, <4>5, <2>4, SeedsAssumption
      <3>3. k < d.next
        BY <3>2, <2>5
      <3>4. P(d, k)
        BY <3>3, <2>2
      <3> HIDE DEF P
      <3> QED
        BY <3>1, <3>4
    <2>8. CASE d.names[Seeds[k]] = 0
      <3>1. k = d.next
        <4> SUFFICES ASSUME k < d.next PROVE FALSE
          BY <2>5
        <4>1. d.users[k] # NoUser /\ d.users[k].name = Seeds[k]
          BY <2>2, <2>4, <2>6 DEF Tables
        <4> QED
          BY <4>1, <2>2, <2>4, <2>8 DEF Tables
      <3> DEFINE e == Registered(d, Seeds[k], SeedPassword)
      <3>2. /\ Tables(e, W) /\ e.next = k + 1
            /\ e.users[k] = [name |-> Seeds[k], hash |-> SeedPassword]
            /\ \A i \in Ids : i # k => e.users[i] = d.users[i]
        BY <3>1, <2>2, <2>4, <2>8, RegisteredTables
      <3> HIDE DEF e
      <3>3. k < k + 1 /\ \A i \in Ids : i < k + 1 <=> i < k \/ i = k
        BY <2>4, Constants
      <3>4. \A l \in ls : l.id # k /\ l.id < k
        BY <2>2, <3>1, <2>4, <1>l, Constants
      <3>5. P(e, k)
        BY <3>1, <3>2, <3>3, <3>4, <2>2, <1>l
      <3> HIDE DEF P
      <3> QED
        BY <3>5, <2>3 DEF e
    <2> QED
      BY <2>7, <2>8
  <1>4. \A k \in 0..n : k \in S
    <2> HIDE DEF S
    <2> QED
      BY <1>2, <1>3, UpTo
  <1>5. P(Started(ls), n)
    BY <1>1, <1>4, <1>n
  <1> QED
    BY <1>5, <1>n

-----------------------------------------------------------------------------
(* Accounts.                                                               *)

\* Who still has his line can log in, unless his name is mangled.
LEMMA WorksIf ==
  ASSUME Tables(db, written), written \subseteq Names, NEW a \in Account, As(a.id) = a
  PROVE  Works(a) \/ Mangled(a)
  <1>1. a.id \in Ids /\ a.name \in Names /\ a.hash \in Passwords
    BY DEF Account
  <1>2. db.users[a.id].name = a.name /\ db.users[a.id].hash = a.hash
    BY <1>1 DEF As
  <1>3. db.users[a.id] # NoUser
    BY <1>1, <1>2, Constants DEF NoUser
  <1>4. PICK j \in Ids : j = db.names[a.name]
    BY <1>1, <1>2, <1>3 DEF Tables
  <1>5. j # 0 /\ db.users[j] # NoUser /\ db.users[j].name = a.name
    BY <1>1, <1>4, Constants DEF Tables
  <1>6. a.id < db.next /\ j < db.next
    BY <1>1, <1>3, <1>5 DEF Tables
  <1>7. a.id = j \/ Blurred(a.name, written)
    BY <1>1, <1>2, <1>5, <1>6, LineOf
  <1>8. ASSUME Blurred(a.name, written) PROVE Mangled(a)
    BY <1>8 DEF Blurred, Mangled
  <1> QED
    BY <1>4, <1>7, <1>8 DEF Works

\* What is gone does not come back.
LEMMA GoneForEver ==
  ASSUME lost \subseteq lost', written \subseteq written', NEW a, Gone(a)
  PROVE  Gone(a)'
  BY DEF Gone, Mangled

\* A start keeps what was not lost.
LEMMA StartKeeps ==
  ASSUME Inv, NEW ls, written \subseteq written', written' \subseteq Names,
         Sound(ls, written'), RestartFrom(ls), NEW a \in Account, Stays(a)
  PROVE  Stays(a)'
  <1>1. a.id \in Ids /\ a.name \in Names /\ a.hash \in Passwords
    BY DEF Account
  <1>2. lost \subseteq lost'
    BY DEF RestartFrom
  <1>3. CASE Gone(a)
    BY <1>2, <1>3, GoneForEver DEF Stays
  <1>4. CASE As(a.id) = a
    <2>1. db.users[a.id] = [name |-> a.name, hash |-> a.hash]
      <3>1. db.users[a.id].name = a.name /\ db.users[a.id].hash = a.hash
        BY <1>1, <1>4 DEF As
      <3>2. db.users[a.id] # NoUser
        BY <1>1, <3>1, Constants DEF NoUser
      <3>3. db.users[a.id] \in [name : Names, hash : Passwords \cup {Junk}]
        BY <3>2, <1>1 DEF Inv, Tables
      <3> QED
        BY <3>1, <3>3
    <2>2. a \in Accounts(db)
      BY <2>1 DEF Accounts
    <2>3. \/ a \in lost'
          \/ a \in ls
          \/ a \in TestUsers /\ \A l \in ls : l.id # a.id
      BY <2>2 DEF RestartFrom
    <2>4. db' = Started(ls)
      BY DEF RestartFrom
    <2>5. CASE a \in lost'
      BY <2>5 DEF Stays, Gone
    <2>6. CASE a \in ls
      <3>1. db'.users[a.id] = Parsed(a)
        BY <2>4, <2>6, StartedTables
      <3>2. CASE FirstWord[a.name] = a.name
        <4>1. Parsed(a) = [name |-> a.name, hash |-> a.hash]
          BY <3>2 DEF Parsed
        <4>2. As(a.id)' = [id |-> a.id, name |-> a.name, hash |-> a.hash]
          BY <3>1, <4>1 DEF As
        <4>3. As(a.id)' = a
          BY <4>2 DEF Account
        <4> QED
          BY <4>3 DEF Stays
      <3>3. CASE FirstWord[a.name] # a.name
        <4>1. a.name \in Words(written')
          BY <2>6, <3>3, SeedsAssumption DEF Sound
        <4>2. a.name \in written'
          BY <4>1, <3>3, NamesKnown
        <4> QED
          BY <3>3, <4>2 DEF Stays, Gone, Mangled
      <3> QED
        BY <3>2, <3>3
    <2>7. CASE a \in TestUsers /\ \A l \in ls : l.id # a.id
      <3>1. PICK i \in DOMAIN Seeds : a = [id |-> i, name |-> Seeds[i], hash |-> SeedPassword]
        BY <2>7 DEF TestUsers
      <3>2. i \in Ids /\ i < Started(ls).next
        <4>1. Len(Seeds) < Started(ls).next /\ Started(ls).next \in 1..(MaxId + 1)
          BY StartedTables DEF Tables
        <4> QED
          BY <3>1, <4>1, Constants
      <3>3. Started(ls).users[i] = [name |-> Seeds[i], hash |-> SeedPassword]
        BY <3>1, <3>2, <2>7, StartedTables
      <3>4. As(a.id)' = a
        BY <3>1, <3>3, <2>4 DEF As
      <3> QED
        BY <3>4 DEF Stays
    <2> QED
      BY <2>3, <2>5, <2>6, <2>7
  <1> QED
    BY <1>3, <1>4 DEF Stays
-----------------------------------------------------------------------------
(* The invariant.                                                          *)

LEMMA MoreTables ==
  ASSUME NEW d, NEW V, NEW W, V \subseteq W, Tables(d, V)
  PROVE  Tables(d, W)
  BY MoreNames DEF Tables

\* What stays if nothing is lost, no id changes hands, and names may be added.
LEMMA StillStays ==
  ASSUME lost \subseteq lost', written \subseteq written', NEW a, Stays(a),
         As(a.id) = a => As(a.id)' = a
  PROVE  Stays(a)'
  BY GoneForEver DEF Stays

LEMMA InitInv == Init => Inv
  <1> SUFFICES ASSUME Init PROVE Inv
    OBVIOUS
  <1>1. Sound({}, {})
    BY DEF Sound
  <1>2. /\ Tables(db, {}) /\ Len(Seeds) < db.next
        /\ \A i \in Ids : i < db.next =>
              /\ i \in DOMAIN Seeds
              /\ db.users[i] = [name |-> Seeds[i], hash |-> SeedPassword]
    BY <1>1, StartedTables DEF Init
  <1>3. ASSUME NEW a \in confirmed PROVE a \in Account /\ As(a.id) = a
    <2>1. PICK i \in Ids : /\ db.users[i] # NoUser
                           /\ a = [id |-> i, name |-> db.users[i].name, hash |-> db.users[i].hash]
      BY <1>3 DEF Init, Lines
    <2>2. /\ i \in DOMAIN Seeds
          /\ db.users[i] = [name |-> Seeds[i], hash |-> SeedPassword]
      BY <2>1, <1>2 DEF Tables
    <2>3. a = [id |-> i, name |-> Seeds[i], hash |-> SeedPassword]
      BY <2>1, <2>2
    <2>4. a \in Account
      BY <2>2, <2>3, Constants DEF Account
    <2> QED
      BY <2>1, <2>4 DEF As
  <1> QED
    BY <1>1, <1>2, <1>3 DEF Init, Inv, Stays, MailToMeant

LEMMA StartInv ==
  ASSUME Inv, NEW ls, written \subseteq written', written' \subseteq Names,
         Sound(ls, written'), RestartFrom(ls)
  PROVE  Inv'
  <1>1. /\ db' = Started(ls) /\ routed' = {} /\ file' = ls /\ lost \subseteq lost'
        /\ UNCHANGED <<mail, confirmed, read>> /\ lost' \subseteq Account
    BY DEF RestartFrom, Inv, Accounts
  <1>2. Tables(db', written') /\ Len(Seeds) < db'.next
    BY <1>1, StartedTables
  <1>3. \A a \in confirmed' : Stays(a)'
    BY <1>1, StartKeeps DEF Inv
  <1>4. \A m \in mail' : m.meant # NoUser => m.meant.id = m.to /\ Stays(m.meant)'
    <2>1. \A m \in mail : m.meant # NoUser =>
             m.meant \in Account /\ m.meant.id = m.to /\ Stays(m.meant)
      BY DEF Inv
    <2> QED
      BY <2>1, <1>1, StartKeeps
  <1>5. MailToMeant'
    BY <1>1, GoneForEver DEF Inv, MailToMeant
  <1> QED
    BY <1>1, <1>2, <1>3, <1>4, <1>5 DEF Inv

\* A registration gives out an id that nobody has.
LEMMA NewTables ==
  ASSUME Inv, NEW n \in Names, NEW p \in Passwords, CanRegister(n)
  PROVE  /\ Tables(Registered(db, n, p), written \cup {n})
         /\ Len(Seeds) < Registered(db, n, p).next
         /\ db.next \in Ids
         /\ Registered(db, n, p).users[db.next] = [name |-> n, hash |-> p]
         /\ \A i \in Ids : i # db.next => Registered(db, n, p).users[i] = db.users[i]
  <1>1. Tables(db, written \cup {n})
    BY MoreTables DEF Inv
  <1>2. db.next \in Ids /\ db.next \in Nat /\ Len(Seeds) < db.next /\ Len(Seeds) \in Nat
    <2>1. db.next \in 1..(MaxId + 1) /\ db.next <= MaxId /\ Len(Seeds) < db.next
      BY DEF Inv, Tables, CanRegister
    <2> QED
      BY <2>1, Constants
  <1>3. db.next \notin DOMAIN Seeds
    BY <1>2, Constants
  <1>4. db.names[n] = 0 /\ n \in Words(written \cup {n})
    BY DEF CanRegister, Words
  <1>5. /\ Tables(Registered(db, n, p), written \cup {n})
        /\ Registered(db, n, p).next = db.next + 1
        /\ Registered(db, n, p).users[db.next] = [name |-> n, hash |-> p]
        /\ \A i \in Ids : i # db.next => Registered(db, n, p).users[i] = db.users[i]
    BY <1>1, <1>2, <1>3, <1>4, RegisteredTables
  <1>6. Len(Seeds) < db.next + 1
    BY <1>2
  <1> QED
    BY <1>2, <1>5, <1>6

LEMMA RegisterInv ==
  ASSUME Inv, NEW n \in Names, NEW p \in Passwords, Register(n, p) \/ RegisterUnsaved(n, p)
  PROVE  Inv'
  <1>1. /\ CanRegister(n) /\ db' = Registered(db, n, p)
        /\ file' = Lines(db') \/ file' = file
        /\ confirmed' = confirmed \cup {NewAccount(n, p)} /\ written' = written \cup {n}
        /\ UNCHANGED <<routed, mail, lost, read>>
    BY DEF Register, RegisterUnsaved
  <1>2. /\ Tables(db', written') /\ Len(Seeds) < db'.next /\ db.next \in Ids
        /\ db'.users[db.next] = [name |-> n, hash |-> p]
        /\ \A i \in Ids : i # db.next => db'.users[i] = db.users[i]
    BY <1>1, NewTables
  <1>3. Sound(file', written')
    BY <1>1, <1>2, MoreNames DEF Inv, Tables
  <1>4. db.users[db.next] = NoUser
    BY <1>2 DEF Inv, Tables
  <1>5. routed' \subseteq {i \in Ids : Known(i)'}
    BY <1>1, <1>2, <1>4 DEF Inv, Known
  <1>6. ASSUME NEW a \in Account, Stays(a) PROVE Stays(a)'
    <2>1. a.id \in Ids /\ a.hash # Junk
      BY Constants DEF Account
    <2>2. ASSUME As(a.id) = a PROVE a.id # db.next
      <3>1. db.users[a.id].hash = a.hash
        BY <2>2 DEF As
      <3>2. NoUser.hash = Junk
        BY DEF NoUser
      <3> QED
        BY <3>1, <3>2, <2>1, <1>4
    <2>3. As(a.id) = a => As(a.id)' = a
      BY <2>1, <2>2, <1>2 DEF As
    <2> QED
      BY <2>3, <1>1, <1>6, StillStays
  <1>c. PICK c : c = [id |-> db.next, name |-> n, hash |-> p]
    OBVIOUS
  <1>7. c = NewAccount(n, p) /\ c \in Account /\ Stays(c)'
    <2>1. c = NewAccount(n, p) /\ c \in Account /\ c.id = db.next
      BY <1>2, <1>c DEF NewAccount, Account
    <2>2. As(c.id)' = c
      BY <1>2, <1>c, <2>1 DEF As
    <2> QED
      BY <2>1, <2>2 DEF Stays
  <1>8. \A a \in confirmed' : a \in Account /\ Stays(a)'
    <2>1. \A a \in confirmed : a \in Account /\ Stays(a)
      BY DEF Inv
    <2> QED
      BY <2>1, <1>1, <1>6, <1>7
  <1>9. \A m \in mail' : m.meant # NoUser => m.meant.id = m.to /\ Stays(m.meant)'
    <2>1. \A m \in mail : m.meant # NoUser =>
             m.meant \in Account /\ m.meant.id = m.to /\ Stays(m.meant)
      BY DEF Inv
    <2> QED
      BY <2>1, <1>1, <1>6
  <1>10. MailToMeant'
    BY <1>1, GoneForEver DEF Inv, MailToMeant
  <1> QED
    BY <1>1, <1>2, <1>3, <1>5, <1>8, <1>9, <1>10 DEF Inv

LEMMA LoginInv ==
  ASSUME Inv, NEW n \in Names, NEW p \in Passwords, Login(n, p)
  PROVE  Inv'
  <1>1. PICK i \in Ids : i = db.names[n]
    BY DEF Login, Inv, Tables
  <1>2. /\ db.users[i].hash = p /\ routed' = routed \cup {i}
        /\ mail' \subseteq mail
        /\ \A m \in mail \ mail' : m.to = i
        /\ read' = read \cup {[meant |-> m.meant, by |-> As(i)] : m \in mail \ mail'}
        /\ UNCHANGED <<db, file, confirmed, written, lost>>
    BY <1>1 DEF Login
  <1>3. Known(i) /\ db.users[i].name = n
    BY <1>1, Constants DEF Login, Inv, Tables, Known
  <1>4. As(i) \in Account
    BY <1>2, <1>3 DEF As, Account
  <1>5. \A a : (Stays(a) <=> Stays(a)') /\ (Gone(a) <=> Gone(a)')
    BY <1>2 DEF Stays, Gone, Mangled, As
  <1>6. ASSUME NEW m \in mail \ mail'
        PROVE  /\ m.meant \in Account \cup {NoUser}
               /\ As(i) = m.meant \/ m.meant = NoUser \/ Gone(m.meant)
    <2>1. m \in mail /\ m.to = i
      BY <1>2
    <2>2. m.meant # NoUser => m.meant.id = i /\ Stays(m.meant)
      BY <2>1 DEF Inv
    <2>3. m.meant \in Account \cup {NoUser}
      BY <2>1 DEF Inv
    <2> QED
      BY <2>2, <2>3 DEF Stays
  <1>7. read' \subseteq [meant : Account \cup {NoUser}, by : Account]
    BY <1>2, <1>4, <1>6 DEF Inv
  <1>8. MailToMeant'
    <2>1. ASSUME NEW r \in read' PROVE r.by = r.meant \/ r.meant = NoUser \/ Gone(r.meant)
      <3>1. CASE r \in read
        BY <3>1 DEF Inv, MailToMeant
      <3>2. ASSUME NEW m \in mail \ mail', r = [meant |-> m.meant, by |-> As(i)]
            PROVE  r.by = r.meant \/ r.meant = NoUser \/ Gone(r.meant)
        BY <3>2, <1>6
      <3> QED
        BY <1>2, <3>1, <3>2
    <2> QED
      BY <2>1, <1>5 DEF MailToMeant
  <1>9. routed' \subseteq {j \in Ids : Known(j)'}
    BY <1>2, <1>3 DEF Inv, Known
  <1> QED
    BY <1>2, <1>5, <1>7, <1>8, <1>9 DEF Inv

LEMMA SessionInv ==
  ASSUME Inv, NEW i \in Ids, Leave(i) \/ ChatTo(i) PROVE Inv'
  <1>1. UNCHANGED <<db, file, confirmed, written, lost, read>>
    BY DEF Leave, ChatTo
  <1>2. \A a : (Stays(a) <=> Stays(a)') /\ (Gone(a) <=> Gone(a)')
    BY <1>1 DEF Stays, Gone, Mangled, As
  <1>3. MailToMeant'
    BY <1>1, <1>2 DEF Inv, MailToMeant
  <1>4. CASE Leave(i)
    BY <1>1, <1>2, <1>3, <1>4 DEF Leave, Inv, Known
  <1>5. CASE ChatTo(i)
    <2> DEFINE meant == IF Known(i) /\ As(i) \in Account THEN As(i) ELSE NoUser
               m == [to |-> i, meant |-> meant]
    <2>1. /\ mail' = mail \cup {m} /\ UNCHANGED routed
      BY <1>5 DEF ChatTo
    <2>2. m \in [to : Ids, meant : Account \cup {NoUser}]
      OBVIOUS
    <2>3. m.meant # NoUser => m.meant.id = m.to /\ Stays(m.meant)
      BY DEF Stays, As
    <2> HIDE DEF m
    <2> QED
      BY <2>1, <2>2, <2>3, <1>1, <1>2, <1>3 DEF Inv, Known
  <1> QED
    BY <1>4, <1>5

LEMMA InvStep == Inv /\ [Next]_vars => Inv'
  <1> SUFFICES ASSUME Inv, [Next]_vars PROVE Inv'
    OBVIOUS
  <1>1. ASSUME NEW n \in Names, NEW p \in Passwords,
               Register(n, p) \/ RegisterUnsaved(n, p) \/ Login(n, p)
        PROVE  Inv'
    BY <1>1, RegisterInv, LoginInv
  <1>2. ASSUME NEW n \in Names, NEW p \in Passwords, KilledInSave(n, p) PROVE Inv'
    <2>1. PICK ls \in CutOff(Lines(Registered(db, n, p))) : RestartFrom(ls)
      BY <1>2 DEF KilledInSave
    <2>2. written' = written \cup {n} /\ CanRegister(n) /\ written' \subseteq Names
      BY <1>2 DEF KilledInSave, Inv
    <2>3. Sound(Lines(Registered(db, n, p)), written')
      BY <2>2, NewTables DEF Tables
    <2>4. Sound(ls, written')
      BY <2>1, <2>3, CutIsSound
    <2> QED
      BY <2>1, <2>2, <2>4, StartInv
  <1>3. ASSUME NEW i \in Ids, Leave(i) \/ ChatTo(i) PROVE Inv'
    BY <1>3, SessionInv
  <1>4. CASE Restart
    <2>1. RestartFrom(file) /\ written' = written /\ Sound(file, written') /\ written' \subseteq Names
      BY <1>4 DEF Restart, Inv
    <2> QED
      BY <2>1, StartInv
  <1>5. CASE UNCHANGED vars
    BY <1>5 DEF vars, Inv, Known, Stays, Gone, Mangled, As, MailToMeant
  <1> QED
    BY <1>1, <1>2, <1>3, <1>4, <1>5 DEF Next

LEMMA Invariance == Spec => []Inv
  BY InitInv, InvStep, PTL DEF Spec

-----------------------------------------------------------------------------
(* Theorems.                                                               *)

\* Types, and that the next id is free, over all restarts from damaged files.
THEOREM TypeCorrect == Spec => []TypeOK
  <1>1. Inv => TypeOK
    <2> SUFFICES ASSUME Inv PROVE TypeOK
      OBVIOUS
    <2>1. \A i \in Ids : i >= db.next => ~Known(i)
      <3>1. \A i \in Ids : Known(i) <=> i < db.next
        BY DEF Inv, Tables, Known
      <3>2. db.next \in Int /\ \A i \in Ids : i \in Int
        BY Constants DEF Inv, Tables
      <3>3. \A i \in Ids : i >= db.next => ~(i < db.next)
        BY <3>2
      <3> QED
        BY <3>1, <3>3
    <2> QED
      BY <2>1 DEF Inv, Tables, Sound, TypeOK
  <1> QED
    BY <1>1, Invariance, PTL

\* An account works for as long as it is not gone (user_manager.cpp:9-42).
THEOREM AccountsWork == Spec => []AccountsKept
  <1>1. Inv => AccountsKept
    BY WorksIf DEF Inv, AccountsKept, Stays, Gone
  <1> QED
    BY <1>1, Invariance, PTL

\* Kept mail reaches the account it was meant for (message_handler.cpp:184-190).
THEOREM MailReachesTheMeant == Spec => []MailToMeant
  <1>1. Inv => MailToMeant
    BY DEF Inv
  <1> QED
    BY <1>1, Invariance, PTL
=============================================================================
