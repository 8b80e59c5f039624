------------------------ MODULE MessageStorageProofs ------------------------
(***************************************************************************)
(* Theorems about the message storage, for every set of users and of texts *)
(* and any number of messages.                                             *)
(*                                                                         *)
(* Selections come first: what they hold, also a selection of a selection  *)
(* and of a part.  Then the counter; and for contents with neither a        *)
(* separator nor a line break that lines read back as they were written,   *)
(* what a step does to the messages, and that the file is an Inbox.        *)
(***************************************************************************)
EXTENDS MessageStorage, SequenceTheorems, FiniteSetTheorems, TLAPS

-----------------------------------------------------------------------------
(* Selections.                                                             *)

\* The elements of a finite set of positions have the ranks 1, 2, ...
LEMMA Ranks ==
  ASSUME NEW n \in Nat, NEW S \in SUBSET (1..n)
  PROVE  /\ IsFiniteSet(S) /\ Cardinality(S) \in Nat
         /\ \A i \in S : i \in Nat /\ Rank(S, i) \in 1..Cardinality(S)
         /\ \A i, j \in S : i < j => Rank(S, i) < Rank(S, j)
         /\ \A i, j \in S : Rank(S, i) = Rank(S, j) => i = j
         /\ \A k \in 1..Cardinality(S) : \E i \in S : Rank(S, i) = k
  <1> DEFINE Upto(i) == {j \in S : j <= i}
             c == Cardinality(S)
  <1>1. IsFiniteSet(S) /\ c \in Nat /\ \A i \in S : i \in Nat
    <2>1. IsFiniteSet(1..n)
      BY FS_Interval
    <2>2. IsFiniteSet(S)
      BY <2>1, FS_Subset
    <2>3. c \in Nat
      BY <2>2, FS_CardinalityType
    <2> QED
      BY <2>2, <2>3
  <1>2. ASSUME NEW i \in S
        PROVE  /\ IsFiniteSet(Upto(i)) /\ Cardinality(Upto(i)) \in Nat
               /\ Cardinality(Upto(i)) <= c /\ Cardinality(Upto(i)) # 0
    <2>1. Upto(i) \in SUBSET S /\ i \in Upto(i)
      BY <1>1
    <2> HIDE DEF Upto
    <2>2. IsFiniteSet(Upto(i)) /\ Cardinality(Upto(i)) <= c
      BY <1>1, <2>1, FS_Subset
    <2> QED
      BY <2>1, <2>2, FS_CardinalityType, FS_EmptySet
  <1>3. \A i \in S : Rank(S, i) \in 1..c
    BY <1>1, <1>2 DEF Rank
  <1>4. ASSUME NEW i \in S, NEW j \in S, i < j
        PROVE  Rank(S, i) < Rank(S, j)
    <2>1. Upto(i) \in SUBSET Upto(j) /\ j \in Upto(j) /\ j \notin Upto(i)
      <3>1. i \in Nat /\ j \in Nat /\ \A k \in S : k \in Nat
        BY <1>1
      <3>2. \A k \in S : k <= i => k <= j
        BY <1>4, <3>1
      <3>3. ~(j <= i) /\ j <= j
        BY <1>4, <3>1
      <3> QED
        BY <3>2, <3>3
    <2>2. IsFiniteSet(Upto(j)) /\ Cardinality(Upto(i)) \in Nat /\ Cardinality(Upto(j)) \in Nat
      BY <1>2
    <2>3. Rank(S, i) = Cardinality(Upto(i)) /\ Rank(S, j) = Cardinality(Upto(j))
      BY DEF Rank
    <2> HIDE DEF Upto
    <2>4. /\ Cardinality(Upto(i)) <= Cardinality(Upto(j))
          /\ Cardinality(Upto(j)) # Cardinality(Upto(i))
      BY <2>1, <2>2, FS_Subset
    <2> QED
      BY <2>2, <2>3, <2>4
  <1> DEFINE r == [i \in S |-> Rank(S, i)]
  <1>5. r \in [S -> 1..c]
    BY <1>3
  <1>6. ASSUME NEW i \in S, NEW j \in S, r[i] = r[j]
        PROVE  i = j
    <2>1. Rank(S, i) = Rank(S, j) /\ Rank(S, i) \in Nat
      BY <1>1, <1>3, <1>6
    <2> QED
      BY <1>1, <1>4, <2>1
  <1>7. IsFiniteSet(1..c) /\ Cardinality(1..c) = c
    <2>1. IsFiniteSet(1..c) /\ Cardinality(1..c) = IF 1 > c THEN 0 ELSE c - 1 + 1
      BY <1>1, FS_Interval
    <2> QED
      BY <1>1, <2>1
  <1> HIDE DEF r
  <1>8. r \in Injection(S, 1..c)
    BY <1>5, <1>6 DEF Injection, IsInjective
  <1>9. r \in Surjection(S, 1..c)
    BY <1>7, <1>8, FS_Injection
  <1>10. \A k \in 1..c : \E i \in S : Rank(S, i) = k
    BY <1>9 DEF Surjection, r
  <1>11. \A i, j \in S : Rank(S, i) = Rank(S, j) => i = j
    BY <1>6 DEF r
  <1> QED
    BY <1>1, <1>3, <1>4, <1>10, <1>11

\* What a selection holds.
LEMMA SelectedIs ==
  ASSUME NEW X, NEW s \in Seq(X), NEW S \in SUBSET (1..Len(s))
  PROVE  /\ Selected(s, S) \in Seq(X)
         /\ Len(Selected(s, S)) = Cardinality(S)
         /\ Cardinality(S) \in Nat
         /\ \A i \in S : /\ Rank(S, i) \in 1..Cardinality(S)
                         /\ Selected(s, S)[Rank(S, i)] = s[i]
  <1> DEFINE c == Cardinality(S)
             at(k) == CHOOSE i \in S : Rank(S, i) = k
             t == Selected(s, S)
  <1>1. Len(s) \in Nat /\ \A i \in 1..Len(s) : s[i] \in X
    BY LenProperties
  <1>2. /\ c \in Nat /\ \A i \in S : i \in Nat /\ Rank(S, i) \in 1..c
        /\ \A i, j \in S : Rank(S, i) = Rank(S, j) => i = j
        /\ \A k \in 1..c : \E i \in S : Rank(S, i) = k
    <2> HIDE DEF at, t
    <2> QED
      BY <1>1, Ranks
  <1>3. \A k \in 1..c : at(k) \in S /\ Rank(S, at(k)) = k
    BY <1>2
  <1>4. t = [k \in 1..c |-> s[at(k)]]
    BY DEF Selected
  <1> HIDE DEF at, t
  <1>5. \A k \in 1..c : s[at(k)] \in X
    BY <1>1, <1>3
  <1>6. t \in [1..c -> X]
    BY <1>4, <1>5
  <1>7. t \in Seq(X) /\ Len(t) = c
    BY <1>2, <1>6
  <1>8. ASSUME NEW i \in S
        PROVE  t[Rank(S, i)] = s[i]
    <2>1. Rank(S, i) \in 1..c
      BY <1>2
    <2>2. at(Rank(S, i)) \in S /\ Rank(S, at(Rank(S, i))) = Rank(S, i)
      BY <1>3, <2>1
    <2>3. at(Rank(S, i)) = i
      BY <1>2, <2>1, <2>2
    <2> QED
      BY <1>4, <2>1, <2>3
  <1> QED
    BY <1>2, <1>7, <1>8 DEF t

\* A sequence that holds the same is the selection.
LEMMA IsSelected ==
  ASSUME NEW X, NEW s \in Seq(X), NEW S \in SUBSET (1..Len(s)), NEW t \in Seq(X),
         Len(t) = Cardinality(S), \A i \in S : t[Rank(S, i)] = s[i]
  PROVE  t = Selected(s, S)
  <1>1. /\ Selected(s, S) \in Seq(X) /\ Len(Selected(s, S)) = Cardinality(S)
        /\ \A i \in S : Selected(s, S)[Rank(S, i)] = s[i]
    BY SelectedIs
  <1>2. \A k \in 1..Cardinality(S) : \E i \in S : Rank(S, i) = k
    BY LenProperties, Ranks
  <1>3. \A k \in 1..Len(t) : t[k] = Selected(s, S)[k]
    BY <1>1, <1>2
  <1> QED
    BY <1>1, <1>3, SeqEqual

LEMMA NothingSelected ==
  ASSUME NEW X, NEW s \in Seq(X), NEW S \in SUBSET (1..Len(s))
  PROVE  Selected(s, S) = <<>> <=> S = {}
  <1>1. Selected(s, S) \in Seq(X) /\ Len(Selected(s, S)) = Cardinality(S)
    BY SelectedIs
  <1>2. IsFiniteSet(S)
    BY LenProperties, Ranks
  <1>3. Cardinality(S) = 0 <=> S = {}
    BY <1>2, FS_EmptySet
  <1> QED
    BY <1>1, <1>3

\* A selection of a selection: V says of ranks what Q says of positions.
LEMMA SelectedTwice ==
  ASSUME NEW X, NEW s \in Seq(X), NEW S \in SUBSET (1..Len(s)), NEW Q \in SUBSET S,
         NEW V \in SUBSET (1..Cardinality(S)), \A i \in S : i \in Q <=> Rank(S, i) \in V
  PROVE  Selected(Selected(s, S), V) = Selected(s, Q)
  <1> DEFINE t == Selected(s, S)
             v == Selected(t, V)
  <1>1. /\ t \in Seq(X) /\ Len(t) = Cardinality(S) /\ Cardinality(S) \in Nat
        /\ \A i \in S : Rank(S, i) \in 1..Cardinality(S) /\ t[Rank(S, i)] = s[i]
    BY SelectedIs
  <1> HIDE DEF t
  <1>2. /\ v \in Seq(X) /\ Len(v) = Cardinality(V)
        /\ \A k \in V : v[Rank(V, k)] = t[k]
    <2>1. V \in SUBSET (1..Len(t))
      BY <1>1
    <2> HIDE DEF v
    <2>2. Selected(t, V) \in Seq(X) /\ Len(Selected(t, V)) = Cardinality(V)
      BY <1>1, <2>1, SelectedIs
    <2>3. \A k \in V : Selected(t, V)[Rank(V, k)] = t[k]
      BY <1>1, <2>1, SelectedIs
    <2> QED
      BY <2>2, <2>3 DEF v
  <1>3. /\ \A i \in S : i \in Nat /\ Rank(S, i) \in Nat
        /\ \A i, j \in S : i < j => Rank(S, i) < Rank(S, j)
        /\ \A i, j \in S : Rank(S, i) = Rank(S, j) => i = j
        /\ \A k \in 1..Cardinality(S) : \E i \in S : Rank(S, i) = k
    <2>1. Len(s) \in Nat
      BY LenProperties
    <2>2. \A i \in S : i \in Nat /\ Rank(S, i) \in 1..Cardinality(S)
      BY <2>1, Ranks
    <2>3. \A i \in S : Rank(S, i) \in Nat
      BY <1>1, <2>2
    <2>4. /\ \A i, j \in S : i < j => Rank(S, i) < Rank(S, j)
          /\ \A i, j \in S : Rank(S, i) = Rank(S, j) => i = j
          /\ \A k \in 1..Cardinality(S) : \E i \in S : Rank(S, i) = k
      BY <2>1, Ranks
    <2> QED
      BY <2>2, <2>3, <2>4
  \* ranks of S carry Q, and any first part of it, one to one to V
  <1>4. ASSUME NEW A \in SUBSET Q, NEW B \in SUBSET V, \A i \in Q : i \in A <=> Rank(S, i) \in B
        PROVE  Cardinality(A) = Cardinality(B)
    <2> DEFINE f == [i \in A |-> Rank(S, i)]
    <2>1. f \in [A -> B]
      BY <1>4
    <2>2. \A i, j \in A : f[i] = f[j] => i = j
      BY <1>3
    <2>3. \A k \in B : \E i \in A : f[i] = k
      BY <1>3, <1>4
    <2> HIDE DEF f
    <2>4. f \in Bijection(A, B)
      BY <2>1, <2>2, <2>3 DEF Bijection, Injection, Surjection, IsInjective
    <2>5. IsFiniteSet(A)
      <3>1. A \in SUBSET (1..Len(s)) /\ Len(s) \in Nat
        BY LenProperties
      <3> QED
        BY <3>1, Ranks
    <2> QED
      BY <2>4, <2>5, FS_Bijection DEF ExistsBijection
  <1>5. Cardinality(Q) = Cardinality(V)
    BY <1>4
  <1>6. ASSUME NEW i \in Q
        PROVE  Rank(Q, i) = Rank(V, Rank(S, i))
    <2> DEFINE A == {j \in Q : j <= i}
               B == {k \in V : k <= Rank(S, i)}
    <2>1. \A j \in Q : j <= i <=> Rank(S, j) <= Rank(S, i)
      BY <1>3
    <2>2. A \in SUBSET Q /\ B \in SUBSET V /\ \A j \in Q : j \in A <=> Rank(S, j) \in B
      BY <2>1
    <2> HIDE DEF A, B
    <2>3. Cardinality(A) = Cardinality(B)
      BY <1>4, <2>2
    <2> QED
      BY <2>3 DEF Rank, A, B
  <1>7. \A i \in Q : v[Rank(Q, i)] = s[i]
    BY <1>1, <1>2, <1>6
  <1> HIDE DEF v
  <1>8. v = Selected(s, Q)
    <2>1. Q \in SUBSET (1..Len(s)) /\ Len(v) = Cardinality(Q)
      BY <1>2, <1>5
    <2> QED
      BY <1>2, <1>7, <2>1, IsSelected
  <1> QED
    BY <1>8 DEF v, t

\* A first part of a sequence holds a first part of the selection.
LEMMA SelectedCut ==
  ASSUME NEW X, NEW s \in Seq(X), NEW S \in SUBSET (1..Len(s)), NEW n \in 0..Len(s),
         NEW Q \in SUBSET S, \A i \in S : i \in Q <=> i <= n
  PROVE  /\ Cardinality(Q) \in 0..Cardinality(S)
         /\ Selected(SubSeq(s, 1, n), Q) = SubSeq(Selected(s, S), 1, Cardinality(Q))
  <1> DEFINE c == Cardinality(Q)
             u == SubSeq(s, 1, n)
             t == Selected(s, S)
             v == SubSeq(t, 1, c)
  <1>1. Len(s) \in Nat /\ n \in Nat /\ \A i \in 1..Len(s) : s[i] \in X
    BY LenProperties
  <1>2. /\ t \in Seq(X) /\ Len(t) = Cardinality(S) /\ Cardinality(S) \in Nat
        /\ \A i \in S : Rank(S, i) \in 1..Cardinality(S) /\ t[Rank(S, i)] = s[i]
    BY SelectedIs
  <1>3. u \in Seq(X) /\ Len(u) = n /\ \A i \in 1..n : u[i] = s[i]
    <2>1. /\ u \in Seq(X) /\ Len(u) = (IF 1 <= n THEN n - 1 + 1 ELSE 0)
          /\ \A i \in 1..(n - 1 + 1) : u[i] = s[1 + i - 1]
      BY <1>1, SubSeqProperties
    <2> HIDE DEF u
    <2> QED
      BY <1>1, <2>1
  <1>4. Q \in SUBSET S /\ Q \in SUBSET (1..n) /\ \A i \in S : i \in Nat
    <2>1. \A i \in 1..Len(s) : i \in Nat /\ (i <= n => i \in 1..n)
      BY <1>1
    <2> QED
      BY <2>1
  <1>5. c \in Nat /\ c <= Cardinality(S)
    <2>1. IsFiniteSet(S) /\ c \in Nat
      BY <1>1, <1>4, Ranks
    <2> QED
      BY <1>4, <2>1, FS_Subset
  <1>6. ASSUME NEW i \in Q
        PROVE  Rank(Q, i) = Rank(S, i) /\ Rank(Q, i) \in 1..c
    <2>1. {j \in Q : j <= i} = {j \in S : j <= i}
      <3>1. i \in Nat /\ i <= n
        BY <1>4
      <3>2. \A j \in S : j <= i => j <= n
        BY <1>1, <1>4, <3>1
      <3> QED
        BY <3>2
    <2>2. Rank(Q, i) \in 1..c
      BY <1>1, <1>4, Ranks
    <2> QED
      BY <2>1, <2>2 DEF Rank
  <1> HIDE DEF u, t
  <1>7. v \in Seq(X) /\ Len(v) = c /\ \A k \in 1..c : v[k] = t[k]
    <2>1. \A k \in 1..c : t[k] \in X
      BY <1>2, <1>5
    <2>2. /\ v \in Seq(X) /\ Len(v) = (IF 1 <= c THEN c - 1 + 1 ELSE 0)
          /\ \A k \in 1..(c - 1 + 1) : v[k] = t[1 + k - 1]
      BY <1>5, <2>1, SubSeqProperties
    <2> HIDE DEF v
    <2>3. \A k \in 1..c : k \in 1..(c - 1 + 1) /\ 1 + k - 1 = k
      BY <1>5
    <2>4. Len(v) = c
      BY <1>5, <2>2
    <2> QED
      BY <2>2, <2>3, <2>4
  <1>8. \A i \in Q : v[Rank(Q, i)] = u[i]
    BY <1>2, <1>3, <1>4, <1>6, <1>7
  <1> HIDE DEF v
  <1>9. v = Selected(u, Q)
    <2>1. u \in Seq(X) /\ Q \in SUBSET (1..Len(u)) /\ v \in Seq(X) /\ Len(v) = c
      BY <1>3, <1>4, <1>7
    <2> QED
      BY <1>8, <2>1, IsSelected
  <1>10. c \in 0..Cardinality(S)
    BY <1>2, <1>5
  <1> QED
    BY <1>9, <1>10 DEF u, t, v

-----------------------------------------------------------------------------
(* The lines of the file.                                                  *)

\* What can be read from a file, and the lines of a file.
Raw     == [from : Int, to : Int, text : Seq(Int) \ {<<>>}, ts : Int, read : BOOLEAN]
Written == {l \in Seq(Int) : Len(l) >= 5}

LEMMA ParseIs ==
  ASSUME NEW l \in Written
  PROVE  Parse(l) \in Raw
  <1>1. l[1] \in Int /\ l[2] \in Int /\ l[3] \in Int /\ l[4] \in Int
    <2>1. \A i \in 1..Len(l) : l[i] \in Int
      BY DEF Written
    <2>2. 1 \in 1..Len(l) /\ 2 \in 1..Len(l) /\ 3 \in 1..Len(l) /\ 4 \in 1..Len(l)
      BY DEF Written
    <2> QED
      BY <2>1, <2>2
  <1>2. <<l[3]>> \in Seq(Int) \ {<<>>}
    BY <1>1
  <1> QED
    BY <1>1, <1>2 DEF Parse, Raw

LEMMA LineIs ==
  ASSUME NEW m \in Raw
  PROVE  /\ Line(m) \in Written
         /\ Line(m)[1] = m.from /\ Line(m)[2] = m.to
         /\ Len(m.text) = 1 => /\ Line(m)[3] = m.text[1] /\ Line(m)[4] = m.ts
                               /\ Line(m)[5] = IF m.read THEN 1 ELSE 0
                               /\ Len(Line(m)) = 5
  <1> DEFINE a == <<m.from, m.to>>
             t == m.text
             z == <<m.ts, IF m.read THEN 1 ELSE 0>>
  <1>1. a \in Seq(Int) /\ Len(a) = 2 /\ a[1] = m.from /\ a[2] = m.to
    BY DEF Raw
  <1>2. z \in Seq(Int) /\ Len(z) = 2 /\ z[1] = m.ts /\ z[2] = IF m.read THEN 1 ELSE 0
    BY DEF Raw
  <1>3. t \in Seq(Int) /\ t # <<>> /\ Len(t) \in Nat \ {0}
    BY DEF Raw
  <1> HIDE DEF a, t, z
  <1> DEFINE b == a \o t
  <1>4. /\ b \in Seq(Int) /\ Len(b) = 2 + Len(t)
        /\ \A i \in 1..(2 + Len(t)) : b[i] = IF i <= 2 THEN a[i] ELSE t[i - 2]
    <2>1. /\ b \in Seq(Int) /\ Len(b) = Len(a) + Len(t)
          /\ \A i \in 1..(Len(a) + Len(t)) : b[i] = IF i <= Len(a) THEN a[i] ELSE t[i - Len(a)]
      BY <1>1, <1>3, ConcatProperties
    <2> HIDE DEF b
    <2> QED
      BY <1>1, <2>1
  <1> HIDE DEF b
  <1> DEFINE l == b \o z
  <1>5. /\ l \in Seq(Int) /\ Len(l) = 2 + Len(t) + 2
        /\ \A i \in 1..(2 + Len(t) + 2) : l[i] = IF i <= 2 + Len(t) THEN b[i] ELSE z[i - (2 + Len(t))]
    <2>1. /\ l \in Seq(Int) /\ Len(l) = Len(b) + Len(z)
          /\ \A i \in 1..(Len(b) + Len(z)) : l[i] = IF i <= Len(b) THEN b[i] ELSE z[i - Len(b)]
      BY <1>2, <1>4, ConcatProperties
    <2> HIDE DEF l
    <2> QED
      BY <1>2, <1>4, <2>1
  <1>6. l = Line(m)
    BY DEF Line, a, b, t, z
  <1> HIDE DEF l
  <1>7. l \in Written
    BY <1>3, <1>5 DEF Written
  <1>8. l[1] = m.from /\ l[2] = m.to
    <2>1. Len(t) \in Nat /\ Len(t) >= 0
      BY <1>1, LenProperties
    <2>2. l[1] = b[1] /\ l[2] = b[2]
      BY <1>5, <2>1
    <2> QED
      BY <1>1, <1>3, <1>4, <2>2
  <1>9. ASSUME Len(t) = 1
        PROVE  l[3] = t[1] /\ l[4] = z[1] /\ l[5] = z[2] /\ Len(l) = 5
    <2>1. l[3] = b[3] /\ b[3] = t[1]
      BY <1>4, <1>5, <1>9
    <2>2. l[4] = z[1] /\ l[5] = z[2] /\ Len(l) = 5
      BY <1>5, <1>9
    <2> QED
      BY <2>1, <2>2
  <1> QED
    BY <1>2, <1>6, <1>7, <1>8, <1>9 DEF t

LEMMA LinesAre ==
  ASSUME NEW ms \in Seq(Raw)
  PROVE  Lines(ms) \in Seq(Written) /\ Len(Lines(ms)) = Len(ms)
  <1>1. Len(ms) \in Nat /\ DOMAIN ms = 1..Len(ms) /\ \A i \in 1..Len(ms) : ms[i] \in Raw
    BY LenProperties
  <1>2. Lines(ms) \in [1..Len(ms) -> Written]
    BY <1>1, LineIs DEF Lines
  <1> QED
    BY <1>1, <1>2

-----------------------------------------------------------------------------
(* What the operations write.  M is a set of messages that contains what   *)
(* is in the file, read or not, and what is saved.                         *)

Closed(M) ==
    /\ \A m \in M : [m EXCEPT !.read = TRUE] \in M
    /\ \A f, t \in Users, c \in Texts : NewMessage(f, t, c) \in M

\* out is what an operation saves that has loaded ms
Saves(ms, out) ==
    \/ \E f, t \in Users, c \in Texts : out = Append(ms, NewMessage(f, t, c))
    \/ \E u \in Users : out = Without(ms, u) \/ out = AsRead(ms, To(ms, u))
    \/ \E u, f \in Users : out = Marked(ms, u, f)

\* the positions of the messages that clear_user_messages keeps, and of those
\* that get_offline_messages returns
Others(ms, u)  == {i \in DOMAIN ms : ms[i].to # u /\ ms[i].from # u}
Waiting(ms, u) == {i \in DOMAIN ms : ms[i].to = u /\ Unread(ms[i])}

LEMMA AsReadIs ==
  ASSUME NEW M, Closed(M), NEW ms \in Seq(M), NEW S
  PROVE  AsRead(ms, S) \in Seq(M) /\ Len(AsRead(ms, S)) = Len(ms)
  <1>1. Len(ms) \in Nat /\ DOMAIN ms = 1..Len(ms) /\ \A i \in DOMAIN ms : ms[i] \in M
    BY LenProperties
  <1>2. AsRead(ms, S) \in [1..Len(ms) -> M]
    BY <1>1 DEF AsRead, Closed
  <1> QED
    BY <1>1, <1>2

LEMMA WithoutIs ==
  ASSUME NEW M, NEW ms \in Seq(M), NEW u
  PROVE  /\ Without(ms, u) = Selected(ms, Others(ms, u)) /\ Without(ms, u) \in Seq(M)
         /\ Others(ms, u) \in SUBSET (1..Len(ms)) /\ Len(Without(ms, u)) \in Nat
  <1>1. Without(ms, u) = Selected(ms, Others(ms, u))
    BY DEF Without, Those, Others
  <1>2. Others(ms, u) \in SUBSET (1..Len(ms))
    BY LenProperties DEF Others
  <1> QED
    BY <1>1, <1>2, SelectedIs

LEMMA SavesIs ==
  ASSUME NEW M, Closed(M), NEW ms \in Seq(M), NEW out, Saves(ms, out)
  PROVE  out \in Seq(M)
  <1>1. ASSUME NEW f \in Users, NEW t \in Users, NEW c \in Texts
        PROVE  Append(ms, NewMessage(f, t, c)) \in Seq(M)
    BY AppendProperties DEF Closed
  <1>2. ASSUME NEW S
        PROVE  AsRead(ms, S) \in Seq(M)
    BY AsReadIs
  <1>3. ASSUME NEW u
        PROVE  Without(ms, u) \in Seq(M)
    BY WithoutIs
  <1> QED
    BY <1>1, <1>2, <1>3 DEF Saves, Marked

LEMMA MessagesLen ==
  ASSUME file \in Seq(Written)
  PROVE  /\ Messages \in Seq(Raw) /\ Len(Messages) = Len(file) /\ Len(file) \in Nat
         /\ DOMAIN Messages = 1..Len(file) /\ DOMAIN file = 1..Len(file)
  <1>1. Len(file) \in Nat /\ DOMAIN file = 1..Len(file) /\ \A i \in 1..Len(file) : file[i] \in Written
    BY LenProperties
  <1>2. Messages \in [1..Len(file) -> Raw]
    BY <1>1, ParseIs DEF Messages
  <1> QED
    BY <1>1, <1>2

LEMMA LoadedIs ==
  ASSUME NEW M, Messages \in Seq(M), NEW shut \in BOOLEAN
  PROVE  /\ Loaded(shut) \in Seq(M) /\ Loaded(shut) \in {Messages, <<>>}
         /\ ~shut => Loaded(shut) = Messages
  <1>1. CASE shut
    BY <1>1, EmptySeq DEF Loaded
  <1>2. CASE ~shut
    BY <1>2 DEF Loaded
  <1> QED
    BY <1>1, <1>2

LEMMA RawClosed == Closed(Raw)
  <1>1. ASSUME NEW f \in Users, NEW t \in Users, NEW c \in Texts
        PROVE  NewMessage(f, t, c) \in Raw
    <2>1. f \in Int /\ t \in Int /\ c \in Seq(Int) \ {<<>>}
      BY UsersAssumption, TextsAssumption
    <2> QED
      BY <2>1 DEF NewMessage, Raw, Now
  <1>2. \A m \in Raw : [m EXCEPT !.read = TRUE] \in Raw
    BY DEF Raw
  <1> QED
    BY <1>1, <1>2 DEF Closed

\* The first lines are the lines of the first messages.
LEMMA FirstLinesAre ==
  ASSUME NEW M, NEW ms \in Seq(M), NEW l \in FirstLines(ms)
  PROVE  \E n \in 0..Len(ms) : SubSeq(ms, 1, n) \in Seq(M) /\ l = Lines(SubSeq(ms, 1, n))
  <1>1. /\ Len(ms) \in Nat /\ DOMAIN ms = 1..Len(ms)
        /\ \A i \in 1..Len(ms) : ms[i] \in M
    BY LenProperties
  <1>2. PICK n \in 0..Len(ms) : l = SubSeq(Lines(ms), 1, n)
    BY DEF FirstLines
  <1> DEFINE q == SubSeq(ms, 1, n)
             a == Lines(ms)
             k == SubSeq(a, 1, n)
  <1>3. /\ q \in Seq(M) /\ Len(q) = n /\ \A i \in 1..n : q[i] = ms[i]
    <2>1. \A i \in 1..n : ms[i] \in M
      BY <1>1
    <2>2. /\ q \in Seq(M) /\ Len(q) = (IF 1 <= n THEN n - 1 + 1 ELSE 0)
          /\ \A i \in 1..(n - 1 + 1) : q[i] = ms[1 + i - 1]
      BY <1>1, <2>1, SubSeqProperties
    <2> HIDE DEF q
    <2> QED
      BY <1>1, <2>2
  <1>4. DOMAIN a = 1..Len(ms) /\ \A i \in 1..n : a[i] = Line(ms[i]) /\ a[i] \in {Line(m) : m \in M}
    BY <1>1 DEF Lines
  <1> HIDE DEF a
  <1>5. /\ k \in Seq({Line(m) : m \in M}) /\ Len(k) = n /\ \A i \in 1..n : k[i] = a[i]
    <2>1. /\ k \in Seq({Line(m) : m \in M}) /\ Len(k) = (IF 1 <= n THEN n - 1 + 1 ELSE 0)
          /\ \A i \in 1..(n - 1 + 1) : k[i] = a[1 + i - 1]
      BY <1>1, <1>4, SubSeqProperties
    <2> HIDE DEF k
    <2> QED
      BY <1>1, <2>1
  <1> HIDE DEF q, k
  <1>6. DOMAIN q = 1..n /\ Lines(q) = [i \in 1..n |-> Line(ms[i])]
    BY <1>3 DEF Lines
  <1>7. k = [i \in 1..n |-> Line(ms[i])]
    <2>1. k \in [1..n -> {Line(m) : m \in M}]
      BY <1>5, LenProperties
    <2> QED
      BY <1>4, <1>5, <2>1
  <1> QED
    BY <1>2, <1>3, <1>6, <1>7 DEF k, a, q

-----------------------------------------------------------------------------
(* The counter.                                                            *)

Counted ==
    /\ file \in Seq(Written) /\ running \in BOOLEAN /\ total \in Nat

LEMMA SavedFile ==
  ASSUME file \in Seq(Written), NEW ms \in Seq(Raw), NEW shut, SaveAll(ms, shut)
  PROVE  /\ file' \in Seq(Written)
         /\ ~fault' => Len(file') = Len(ms) /\ ~shut
  <1>1. Lines(ms) \in Seq(Written) /\ Len(Lines(ms)) = Len(ms)
    BY LinesAre
  <1>2. ASSUME NEW l \in FirstLines(ms)
        PROVE  l \in Seq(Written)
    <2>1. PICK n \in 0..Len(ms) : SubSeq(ms, 1, n) \in Seq(Raw) /\ l = Lines(SubSeq(ms, 1, n))
      BY FirstLinesAre
    <2> QED
      BY <2>1, LinesAre
  <1> QED
    BY <1>1, <1>2 DEF SaveAll

LEMMA CountedStep == Counted /\ [Next]_vars => Counted' /\ TotalKept
  <1> SUFFICES ASSUME Counted, [Next]_vars PROVE Counted' /\ TotalKept
    OBVIOUS
  <1>0. /\ file \in Seq(Written) /\ Messages \in Seq(Raw) /\ Len(file) \in Nat
        /\ Len(Messages) = Len(file) /\ running \in BOOLEAN /\ total \in Nat
    BY MessagesLen DEF Counted
  <1>1. ASSUME NEW shut \in BOOLEAN, NEW f \in Users, NEW t \in Users, NEW c \in Texts,
               SaveOfflineMessage(NewMessage(f, t, c), shut)
        PROVE  Counted' /\ TotalKept
    <2> DEFINE ms == Append(Loaded(shut), NewMessage(f, t, c))
    <2>1. ms \in Seq(Raw) /\ (~shut => Len(ms) = Len(file) + 1)
      <3>1. /\ Loaded(shut) \in Seq(Raw) /\ NewMessage(f, t, c) \in Raw
            /\ ~shut => Loaded(shut) = Messages
        BY <1>0, LoadedIs, RawClosed DEF Closed
      <3> QED
        BY <1>0, <3>1, AppendProperties
    <2> HIDE DEF ms
    <2>2. SaveAll(ms, shut) /\ running /\ running' = running /\ total' = total + 1
      BY <1>1 DEF SaveOfflineMessage, Reading, ms
    <2>3. file' \in Seq(Written) /\ (~fault' => Len(file') = Len(ms) /\ ~shut)
      BY <1>0, <2>1, <2>2, SavedFile
    <2>4. Counted'
      BY <1>0, <2>2, <2>3 DEF Counted
    <2> QED
      BY <1>0, <2>1, <2>2, <2>3, <2>4 DEF TotalKept
  <1>2. ASSUME NEW shut \in BOOLEAN, NEW S, SaveAll(AsRead(Loaded(shut), S), shut),
               UNCHANGED <<running, total>>
        PROVE  Counted' /\ TotalKept
    <2>1. /\ AsRead(Loaded(shut), S) \in Seq(Raw)
          /\ ~shut => Len(AsRead(Loaded(shut), S)) = Len(file)
      <3>1. Loaded(shut) \in Seq(Raw) /\ (~shut => Loaded(shut) = Messages)
        BY <1>0, LoadedIs
      <3> QED
        BY <1>0, <3>1, RawClosed, AsReadIs
    <2>2. /\ file' \in Seq(Written)
          /\ ~fault' => Len(file') = Len(AsRead(Loaded(shut), S)) /\ ~shut
      BY <1>0, <1>2, <2>1, SavedFile
    <2> QED
      BY <1>0, <1>2, <2>1, <2>2 DEF Counted, TotalKept
  <1>3. ASSUME NEW shut \in BOOLEAN, NEW u \in Users, GetOfflineMessages(u, shut)
        PROVE  Counted' /\ TotalKept
    <2>1. CASE SaveAll(AsRead(Loaded(shut), To(Loaded(shut), u)), shut)
      BY <1>2, <1>3, <2>1 DEF GetOfflineMessages
    <2>2. CASE UNCHANGED file
      BY <1>0, <1>3, <2>2 DEF GetOfflineMessages, Counted, TotalKept
    <2> QED
      BY <1>3, <2>1, <2>2 DEF GetOfflineMessages
  <1>4. ASSUME NEW shut \in BOOLEAN, NEW u \in Users, NEW f \in Users, MarkAsRead(u, f, shut)
        PROVE  Counted' /\ TotalKept
    BY <1>2, <1>4 DEF MarkAsRead, Marked
  <1>5. ASSUME NEW shut \in BOOLEAN, NEW u \in Users, ClearUserMessages(u, shut)
        PROVE  Counted' /\ TotalKept
    <2> DEFINE ms == Without(Loaded(shut), u)
    <2>1. ms \in Seq(Raw) /\ Len(ms) \in Nat
      BY <1>0, LoadedIs, WithoutIs
    <2> HIDE DEF ms
    <2>2. SaveAll(ms, shut) /\ running' = running /\ total' = Len(ms)
      BY <1>5 DEF ClearUserMessages, ms
    <2>3. file' \in Seq(Written) /\ (~fault' => Len(file') = Len(ms) /\ ~shut)
      BY <1>0, <2>1, <2>2, SavedFile
    <2> QED
      BY <1>0, <2>1, <2>2, <2>3 DEF Counted, TotalKept
  <1>6. ASSUME NEW shut \in BOOLEAN, NEW ms, Saves(Loaded(shut), ms), EndedIn(ms)
        PROVE  file' \in Seq(Written)
    <2>1. ms \in Seq(Raw)
      BY <1>0, <1>6, LoadedIs, RawClosed, SavesIs
    <2>2. PICK n \in 0..Len(ms) : SubSeq(ms, 1, n) \in Seq(Raw) /\ file' = Lines(SubSeq(ms, 1, n))
      BY <1>6, <2>1, FirstLinesAre DEF EndedIn
    <2> QED
      BY <2>2, LinesAre
  <1>7. CASE Ended
    <2>1. running' = FALSE /\ fault' = TRUE /\ total' = total
      BY <1>7 DEF Ended
    <2>2. CASE UNCHANGED file
      BY <1>0, <2>1, <2>2 DEF Counted, TotalKept
    <2>3. CASE \E shut \in BOOLEAN : \E ms : Saves(Loaded(shut), ms) /\ EndedIn(ms)
      BY <1>0, <1>6, <2>1, <2>3 DEF Counted, TotalKept
    <2> QED
      BY <1>7, <2>2, <2>3 DEF Ended, Saves
  <1>8. CASE Started
    <2>1. file' \in Seq(Written) /\ Len(file') \in Nat
      BY <1>0, <1>8, EmptySeq, LenProperties DEF Started
    <2>2. total' \in Nat /\ running' = TRUE
      BY <1>0, <1>8, <2>1 DEF Started
    <2>3. ~fault' => total' = Len(file')
      BY <1>8 DEF Started
    <2> QED
      BY <2>1, <2>2, <2>3 DEF Counted, TotalKept
  <1>9. CASE UNCHANGED vars
    BY <1>9 DEF vars, Counted, TotalKept
  <1> QED
    BY <1>1, <1>3, <1>4, <1>5, <1>7, <1>8, <1>9 DEF Next

\* The counter stays right over every step without a fault, for all contents that
\* can be read back, and a start puts it right (message_storage.cpp:20, 36, 96).
THEOREM TotalIsRight == Spec => TotalCounts
  <1>1. Init => Counted
    <2>1. <<>> \in Seq(Written)
      BY EmptySeq
    <2> QED
      BY <2>1 DEF Init, Counted
  <1> QED
    BY <1>1, CountedStep, PTL DEF Spec, TotalCounts

-----------------------------------------------------------------------------
(* The messages, when no content contains a separator or a line break.     *)

Plain == \A c \in Texts : Len(c) = 1 /\ c[1] # Broken

Stored == [from : Users, to : Users, text : Texts, ts : Nat, read : BOOLEAN]

LEMMA StoredIs ==
  /\ \A m \in Stored : m \in Raw /\ m \in Message
  /\ Closed(Stored)
  <1>1. \A u \in Users : u \in Int
    BY UsersAssumption
  <1>2. \A c \in Texts : c \in Seq(Int) \ {<<>>}
    BY TextsAssumption
  <1>3. \A m \in Stored : m \in Raw /\ m \in Message
    BY <1>1, <1>2 DEF Stored, Raw, Message
  <1>4. Closed(Stored)
    BY DEF Closed, Stored, NewMessage, Now
  <1> QED
    BY <1>3, <1>4

LEMMA StoredSeq ==
  ASSUME NEW ms \in Seq(Stored)
  PROVE  ms \in Seq(Raw) /\ ms \in Seq(Message)
  BY StoredIs, SeqMonotonic

\* A line is read back as it was written.
LEMMA LineReadBack ==
  ASSUME Plain, NEW m \in Stored
  PROVE  Parse(Line(m)) = m /\ Readable(Line(m))
  <1>1. m \in Raw /\ m.text \in Texts /\ m.read \in BOOLEAN /\ m.from \in Nat /\ m.to \in Nat /\ m.ts \in Nat
    BY StoredIs, UsersAssumption DEF Stored
  <1>2. m.text \in Seq(Int) /\ Len(m.text) = 1 /\ m.text[1] # Broken
    BY <1>1, TextsAssumption DEF Plain
  <1>3. /\ Line(m)[1] = m.from /\ Line(m)[2] = m.to /\ Line(m)[3] = m.text[1]
        /\ Line(m)[4] = m.ts /\ Line(m)[5] = IF m.read THEN 1 ELSE 0
        /\ Len(Line(m)) = 5 /\ Line(m) \in Seq(Int)
    BY <1>1, <1>2, LineIs DEF Written
  <1>4. <<m.text[1]>> = m.text
    BY <1>2
  <1>5. (Line(m)[5] = 1) = m.read
    BY <1>1, <1>3
  <1>6. Parse(Line(m)) = m
    BY <1>3, <1>4, <1>5 DEF Parse, Stored
  <1>7. Readable(Line(m))
    <2>1. \A i \in DOMAIN Line(m) : i \in {1, 2, 3, 4, 5}
      BY <1>3, LenProperties
    <2> QED
      BY <1>1, <1>2, <1>3, <2>1 DEF Readable, Broken
  <1> QED
    BY <1>6, <1>7

LEMMA ReadBack ==
  ASSUME Plain, NEW ms \in Seq(Stored), file' = Lines(ms)
  PROVE  file' \in Seq(Written) /\ Messages' = ms
  <1>1. DOMAIN ms = 1..Len(ms) /\ \A i \in DOMAIN ms : ms[i] \in Stored
    BY LenProperties
  <1>2. ms = [i \in DOMAIN ms |-> ms[i]]
    BY LenProperties
  <1>3. DOMAIN file' = DOMAIN ms /\ \A i \in DOMAIN ms : file'[i] = Line(ms[i])
    BY DEF Lines
  <1>4. \A i \in DOMAIN ms : Parse(file'[i]) = ms[i]
    BY <1>1, <1>3, LineReadBack
  <1>5. Messages' = [i \in DOMAIN ms |-> ms[i]]
    BY <1>3, <1>4 DEF Messages
  <1> QED
    BY <1>2, <1>5, StoredSeq, LinesAre

\* what is in the file is what was written of messages
Orderly == /\ file \in Seq(Written) /\ Messages \in Seq(Stored) /\ file = Lines(Messages)

Tidy == /\ Orderly
        /\ fetched \in Seq(Stored)
        /\ running \in BOOLEAN /\ fault \in BOOLEAN /\ total \in Nat

LEMMA Rewritten ==
  ASSUME Plain, NEW ms \in Seq(Stored), file' = Lines(ms)
  PROVE  Orderly' /\ Messages' = ms
  BY ReadBack DEF Orderly

\* a first part of ms is in the file
Part(ms) == \E n \in 0..Len(ms) : Messages' = SubSeq(ms, 1, n)

LEMMA PartIs ==
  ASSUME Plain, NEW ms \in Seq(Stored), file' \in FirstLines(ms)
  PROVE  Orderly' /\ Part(ms)
  <1>1. PICK n \in 0..Len(ms) : SubSeq(ms, 1, n) \in Seq(Stored) /\ file' = Lines(SubSeq(ms, 1, n))
    BY FirstLinesAre
  <1> QED
    BY <1>1, Rewritten DEF Part

LEMMA Unwritten ==
  ASSUME Orderly, UNCHANGED file
  PROVE  Orderly' /\ Messages' = Messages
  BY DEF Orderly, Messages

LEMMA SaveIs ==
  ASSUME Plain, Orderly, NEW ms \in Seq(Stored), NEW shut, SaveAll(ms, shut)
  PROVE  /\ Orderly'
         /\ \/ ~shut /\ fault' = FALSE /\ Messages' = ms
            \/ fault' = TRUE /\ (Messages' = Messages \/ Part(ms))
  <1>1. CASE ~shut /\ file' = Lines(ms) /\ fault' = FALSE
    BY <1>1, Rewritten
  <1>2. CASE file' = file /\ fault' = TRUE
    BY <1>2, Unwritten
  <1>3. CASE file' \in FirstLines(ms) /\ fault' = TRUE
    BY <1>3, PartIs
  <1> QED
    BY <1>1, <1>2, <1>3 DEF SaveAll

\* What get_offline_messages returns.
LEMMA FetchedIs ==
  ASSUME Tidy, NEW shut \in BOOLEAN, NEW u \in Users, GetOfflineMessages(u, shut)
  PROVE  /\ fetched' = Selected(Loaded(shut), Waiting(Loaded(shut), u))
         /\ fetched' \in Seq(Stored)
         /\ fetched' = <<>> <=> Waiting(Loaded(shut), u) = {}
  <1> DEFINE ms == Loaded(shut)
  <1>1. ms \in Seq(Stored)
    BY LoadedIs DEF Tidy, Orderly
  <1>2. fetched' = Selected(ms, Waiting(ms, u))
    BY DEF GetOfflineMessages, Those, Waiting
  <1> HIDE DEF ms
  <1>3. Waiting(ms, u) \in SUBSET (1..Len(ms))
    BY <1>1, LenProperties DEF Waiting
  <1>4. fetched' \in Seq(Stored) /\ (fetched' = <<>> <=> Waiting(ms, u) = {})
    BY <1>1, <1>2, <1>3, SelectedIs, NothingSelected
  <1> QED
    BY <1>2, <1>4 DEF ms

\* The steps, by what they do to the messages in the file: those without a fault
\* and the others.
CleanSteps ==
    \/ \E f, t \in Users, c \in Texts :
         Messages' = Append(Messages, NewMessage(f, t, c)) /\ fetched' = <<>>
    \/ \E u \in Users :
         /\ fetched' = Selected(Messages, Waiting(Messages, u))
         /\ \/ Messages' = AsRead(Messages, To(Messages, u))
            \/ Waiting(Messages, u) = {} /\ Messages' = Messages
    \/ \E u, f \in Users : Messages' = Marked(Messages, u, f) /\ fetched' = <<>>
    \/ \E u \in Users : Messages' = Without(Messages, u) /\ fetched' = <<>>
    \/ Messages' = Messages /\ fetched' = <<>>

FaultySteps ==
    \/ Messages' \in {Messages, <<>>} /\ fetched' = <<>>
    \/ \E ms \in {Messages, <<>>} :
         \/ fetched' = <<>> /\ \E out \in Seq(Stored) : Saves(ms, out) /\ Part(out)
         \/ \E u \in Users :
              /\ fetched' = Selected(ms, Waiting(ms, u))
              /\ Messages' = Messages \/ Part(AsRead(ms, To(ms, u)))

MessageSteps ==
    \/ fault' = FALSE /\ CleanSteps
    \/ fault' = TRUE /\ FaultySteps
    \/ UNCHANGED <<file, fetched, fault>>

LEMMA StepKinds ==
  ASSUME Plain, Tidy, [Next]_vars
  PROVE  Tidy' /\ MessageSteps
  <1>0. /\ Orderly /\ Messages \in Seq(Stored) /\ fetched \in Seq(Stored)
        /\ running \in BOOLEAN /\ total \in Nat /\ fault \in BOOLEAN
        /\ Closed(Stored) /\ <<>> \in Seq(Stored)
    BY StoredIs, EmptySeq DEF Tidy, Orderly
  <1>1. ASSUME NEW shut \in BOOLEAN
        PROVE  /\ Loaded(shut) \in Seq(Stored) /\ Loaded(shut) \in {Messages, <<>>}
               /\ ~shut => Loaded(shut) = Messages
    BY <1>0, LoadedIs
  \* an operation that returns nothing
  <1>2. ASSUME NEW shut \in BOOLEAN, NEW out, Saves(Loaded(shut), out), SaveAll(out, shut),
               fetched' = <<>>
        PROVE  /\ Orderly' /\ fault' \in BOOLEAN /\ out \in Seq(Stored)
               /\ \/ fault' = FALSE /\ Messages' = out /\ Loaded(shut) = Messages
                  \/ fault' = TRUE /\ FaultySteps
    <2>1. out \in Seq(Stored)
      BY <1>0, <1>1, <1>2, SavesIs
    <2>2. /\ Orderly'
          /\ \/ ~shut /\ fault' = FALSE /\ Messages' = out
             \/ fault' = TRUE /\ (Messages' = Messages \/ Part(out))
      BY <1>0, <1>2, <2>1, SaveIs
    <2> QED
      BY <1>1, <1>2, <2>1, <2>2 DEF FaultySteps
  <1>3. ASSUME NEW shut \in BOOLEAN, NEW f \in Users, NEW t \in Users, NEW c \in Texts,
               SaveOfflineMessage(NewMessage(f, t, c), shut)
        PROVE  Tidy' /\ MessageSteps
    <2> DEFINE out == Append(Loaded(shut), NewMessage(f, t, c))
    <2>1. SaveAll(out, shut) /\ fetched' = <<>> /\ running' = running /\ total' = total + 1
      BY <1>3 DEF SaveOfflineMessage
    <2>2. Saves(Loaded(shut), out)
      BY DEF Saves
    <2>3. /\ Orderly' /\ fault' \in BOOLEAN
          /\ \/ fault' = FALSE /\ Messages' = Append(Messages, NewMessage(f, t, c))
             \/ fault' = TRUE /\ FaultySteps
      BY <1>2, <2>1, <2>2
    <2>4. Tidy'
      BY <1>0, <2>1, <2>3 DEF Tidy
    <2> QED
      BY <2>1, <2>3, <2>4 DEF MessageSteps, CleanSteps
  <1>4. ASSUME NEW shut \in BOOLEAN, NEW u \in Users, GetOfflineMessages(u, shut)
        PROVE  Tidy' /\ MessageSteps
    <2> DEFINE ms == Loaded(shut)
    <2>1. /\ fetched' = Selected(ms, Waiting(ms, u)) /\ fetched' \in Seq(Stored)
          /\ fetched' = <<>> <=> Waiting(ms, u) = {}
          /\ UNCHANGED <<running, total>>
      BY <1>4, FetchedIs DEF GetOfflineMessages
    <2>2. CASE fetched' # <<>>
      <3>1. SaveAll(AsRead(ms, To(ms, u)), shut)
        BY <1>4, <2>2 DEF GetOfflineMessages
      <3>2. AsRead(ms, To(ms, u)) \in Seq(Stored)
        BY <1>0, <1>1, AsReadIs
      <3>3. /\ Orderly'
            /\ \/ ~shut /\ fault' = FALSE /\ Messages' = AsRead(ms, To(ms, u))
               \/ fault' = TRUE /\ (Messages' = Messages \/ Part(AsRead(ms, To(ms, u))))
        BY <1>0, <3>1, <3>2, SaveIs
      <3>4. Tidy'
        BY <1>0, <2>1, <3>3 DEF Tidy
      <3> QED
        BY <1>1, <2>1, <3>3, <3>4 DEF MessageSteps, CleanSteps, FaultySteps
    <2>3. CASE fetched' = <<>>
      <3>1. UNCHANGED file /\ fault' = shut
        BY <1>4, <2>3 DEF GetOfflineMessages
      <3>2. Orderly' /\ Messages' = Messages
        BY <1>0, <3>1, Unwritten
      <3>3. Tidy'
        BY <1>0, <2>1, <3>1, <3>2 DEF Tidy
      <3> QED
        BY <1>1, <2>1, <2>3, <3>1, <3>2, <3>3 DEF MessageSteps, CleanSteps, FaultySteps
    <2> QED
      BY <2>2, <2>3
  <1>5. ASSUME NEW shut \in BOOLEAN, NEW u \in Users, NEW f \in Users, MarkAsRead(u, f, shut)
        PROVE  Tidy' /\ MessageSteps
    <2> DEFINE out == Marked(Loaded(shut), u, f)
    <2>1. SaveAll(out, shut) /\ fetched' = <<>> /\ UNCHANGED <<running, total>>
      BY <1>5 DEF MarkAsRead
    <2>2. Saves(Loaded(shut), out)
      BY DEF Saves
    <2>3. /\ Orderly' /\ fault' \in BOOLEAN
          /\ \/ fault' = FALSE /\ Messages' = Marked(Messages, u, f)
             \/ fault' = TRUE /\ FaultySteps
      BY <1>2, <2>1, <2>2
    <2>4. Tidy'
      BY <1>0, <2>1, <2>3 DEF Tidy
    <2> QED
      BY <2>1, <2>3, <2>4 DEF MessageSteps, CleanSteps
  <1>6. ASSUME NEW shut \in BOOLEAN, NEW u \in Users, ClearUserMessages(u, shut)
        PROVE  Tidy' /\ MessageSteps
    <2> DEFINE out == Without(Loaded(shut), u)
    <2>1. SaveAll(out, shut) /\ fetched' = <<>> /\ running' = running /\ total' = Len(out)
      BY <1>6 DEF ClearUserMessages
    <2>2. Saves(Loaded(shut), out) /\ Len(out) \in Nat
      BY <1>1, WithoutIs DEF Saves
    <2>3. /\ Orderly' /\ fault' \in BOOLEAN
          /\ \/ fault' = FALSE /\ Messages' = Without(Messages, u)
             \/ fault' = TRUE /\ FaultySteps
      BY <1>2, <2>1, <2>2
    <2>4. Tidy'
      BY <1>0, <2>1, <2>2, <2>3 DEF Tidy
    <2> QED
      BY <2>1, <2>3, <2>4 DEF MessageSteps, CleanSteps
  <1>7. CASE Ended
    <2>1. /\ fetched' = <<>> /\ fault' = TRUE /\ running' = FALSE /\ total' = total
          /\ UNCHANGED file \/ \E shut \in BOOLEAN : \E out : Saves(Loaded(shut), out) /\ EndedIn(out)
      BY <1>7 DEF Ended, Saves
    <2>2. Orderly' /\ FaultySteps
      <3>1. CASE UNCHANGED file
        BY <1>0, <2>1, <3>1, Unwritten DEF FaultySteps
      <3>2. ASSUME NEW shut \in BOOLEAN, NEW out, Saves(Loaded(shut), out), EndedIn(out)
            PROVE  Orderly' /\ FaultySteps
        <4>1. out \in Seq(Stored)
          BY <1>0, <1>1, <3>2, SavesIs
        <4>2. Orderly' /\ Part(out)
          BY <3>2, <4>1, PartIs DEF EndedIn
        <4> QED
          BY <1>1, <2>1, <3>2, <4>1, <4>2 DEF FaultySteps
      <3> QED
        BY <2>1, <3>1, <3>2
    <2> QED
      BY <1>0, <2>1, <2>2 DEF Tidy, MessageSteps
  <1>8. CASE Started
    <2>1. running' = TRUE /\ fetched' = <<>>
      BY <1>8 DEF Started
    <2>2. Orderly' /\ Messages' \in {Messages, <<>>}
      <3>1. CASE UNCHANGED file
        BY <1>0, <3>1, Unwritten
      <3>2. CASE file' = <<>>
        <4>1. Lines(<<>>) = <<>>
          BY DEF Lines
        <4> QED
          BY <1>0, <3>2, <4>1, Rewritten
      <3> QED
        BY <1>8, <3>1, <3>2 DEF Started
    <2>3. \/ fault' = FALSE /\ Messages' = Messages
          \/ fault' = TRUE
      BY <1>0, <1>8, Unwritten DEF Started
    <2>4. total' \in Nat
      <3>1. Len(file') \in Nat /\ Len(file) \in Nat
        BY <1>0, <2>2, LenProperties DEF Orderly
      <3> QED
        BY <1>8, <3>1 DEF Started
    <2> QED
      BY <1>0, <2>1, <2>2, <2>3, <2>4 DEF Tidy, MessageSteps, CleanSteps, FaultySteps
  <1>9. CASE UNCHANGED vars
    BY <1>9, Unwritten DEF vars, Tidy, MessageSteps
  <1> QED
    BY <1>3, <1>4, <1>5, <1>6, <1>7, <1>8, <1>9 DEF Next

LEMMA InitTidy == Init => Tidy
  <1> SUFFICES ASSUME Init PROVE Tidy
    OBVIOUS
  <1>1. /\ file = <<>> /\ fetched = <<>> /\ running \in BOOLEAN /\ fault \in BOOLEAN
        /\ total \in Nat
    BY DEF Init
  <1>2. Messages = <<>> /\ Lines(<<>>) = <<>>
    BY <1>1 DEF Messages, Lines
  <1> QED
    BY <1>1, <1>2, EmptySeq DEF Tidy, Orderly

LEMMA TidyAlways ==
  ASSUME Plain
  PROVE  Spec => []Tidy
  <1>1. Tidy /\ [Next]_vars => Tidy'
    BY StepKinds
  <1> QED
    BY <1>1, InitTidy, PTL DEF Spec

\* Without a separator or a line break in a content, what is read from the file
\* are messages as they were saved, whatever is lost by a fault
\* (message_storage.cpp:104-166).
THEOREM TypeCorrect ==
  ASSUME Plain
  PROVE  Spec => []TypeOK
  <1>1. Tidy => TypeOK
    <2> SUFFICES ASSUME Tidy PROVE TypeOK
      OBVIOUS
    <2>1. \A i \in DOMAIN file : file[i] \in Written
      BY LenProperties DEF Tidy, Orderly
    <2>2. file \in Seq(Seq(Int))
      <3>1. Written \subseteq Seq(Int)
        BY DEF Written
      <3> QED
        BY <3>1, SeqMonotonic DEF Tidy, Orderly
    <2> QED
      BY <2>1, <2>2, StoredSeq DEF TypeOK, Tidy, Orderly, Written
  <1> QED
    BY <1>1, TidyAlways, PTL

\* And what stands in the file can always be read again: with neither a separator
\* nor a line break in a content, what FieldsReadBack says is true, whatever a
\* fault leaves of the messages (message_storage.cpp:113-141).
THEOREM PlainFieldsReadBack ==
  ASSUME Plain
  PROVE  Spec => []FieldsReadBack
  <1>1. Tidy => FieldsReadBack
    <2> SUFFICES ASSUME Tidy, NEW i \in DOMAIN file PROVE Readable(file[i])
      BY DEF FieldsReadBack, Loadable
    <2>1. i \in DOMAIN Messages /\ Messages[i] \in Stored
      <3>1. i \in 1..Len(Messages) /\ i \in DOMAIN Messages
        BY MessagesLen DEF Tidy, Orderly
      <3> QED
        BY <3>1, LenProperties DEF Tidy, Orderly
    <2>2. file[i] = Line(Messages[i])
      BY <2>1 DEF Tidy, Orderly, Lines
    <2> QED
      BY <2>1, <2>2, LineReadBack
  <1> QED
    BY <1>1, TidyAlways, PTL

-----------------------------------------------------------------------------
(* The storage is an Inbox.                                                *)

Heading == [from : Users, to : Users, text : Texts]
HeadOf(m) == [from |-> m.from, to |-> m.to, text |-> m.text]

UnreadAt(ms) == {i \in DOMAIN ms : ~ms[i].read}

\* what waits, of the messages ms: the value of pending
Pend(ms) == Strip(Those(ms, Unread))

LEMMA StripIs ==
  ASSUME NEW ms \in Seq(Stored)
  PROVE  /\ Strip(ms) \in Seq(Heading) /\ Len(Strip(ms)) = Len(ms)
         /\ \A i \in 1..Len(ms) : Strip(ms)[i] = HeadOf(ms[i])
         /\ Len(ms) \in Nat /\ DOMAIN ms = 1..Len(ms)
         /\ \A i \in 1..Len(ms) : ms[i] \in Stored
         /\ UnreadAt(ms) \in SUBSET (1..Len(Strip(ms)))
  <1>1. Len(ms) \in Nat /\ DOMAIN ms = 1..Len(ms) /\ \A i \in 1..Len(ms) : ms[i] \in Stored
    BY LenProperties
  <1>2. Strip(ms) = [i \in 1..Len(ms) |-> HeadOf(ms[i])]
    BY <1>1 DEF Strip, HeadOf
  <1>3. \A i \in 1..Len(ms) : HeadOf(ms[i]) \in Heading
    BY <1>1 DEF HeadOf, Heading, Stored
  <1>4. Strip(ms) \in [1..Len(ms) -> Heading]
    BY <1>2, <1>3
  <1>5. Strip(ms) \in Seq(Heading) /\ Len(Strip(ms)) = Len(ms)
    BY <1>1, <1>4
  <1> QED
    BY <1>1, <1>2, <1>5 DEF UnreadAt

LEMMA StripSelected ==
  ASSUME NEW ms \in Seq(Stored), NEW S \in SUBSET (1..Len(ms))
  PROVE  Strip(Selected(ms, S)) = Selected(Strip(ms), S)
  <1> DEFINE t == Selected(ms, S)
  <1>1. /\ t \in Seq(Stored) /\ Len(t) = Cardinality(S)
        /\ \A i \in S : Rank(S, i) \in 1..Cardinality(S) /\ t[Rank(S, i)] = ms[i]
    BY SelectedIs
  <1> HIDE DEF t
  <1>2. /\ Strip(t) \in Seq(Heading) /\ Len(Strip(t)) = Cardinality(S)
        /\ \A k \in 1..Cardinality(S) : Strip(t)[k] = HeadOf(t[k])
    BY <1>1, StripIs
  <1>3. /\ Strip(ms) \in Seq(Heading) /\ S \in SUBSET (1..Len(Strip(ms)))
        /\ \A i \in S : Strip(ms)[i] = HeadOf(ms[i])
    BY StripIs
  <1>4. \A i \in S : Strip(t)[Rank(S, i)] = Strip(ms)[i]
    BY <1>1, <1>2, <1>3
  <1>5. Strip(t) = Selected(Strip(ms), S)
    BY <1>2, <1>3, <1>4, IsSelected
  <1> QED
    BY <1>5 DEF t

LEMMA PendIs ==
  ASSUME NEW ms \in Seq(Stored)
  PROVE  /\ Pend(ms) = Selected(Strip(ms), UnreadAt(ms))
         /\ Pend(ms) \in Seq(Heading) /\ Len(Pend(ms)) = Cardinality(UnreadAt(ms))
         /\ Cardinality(UnreadAt(ms)) \in Nat
         /\ \A i \in UnreadAt(ms) : /\ Rank(UnreadAt(ms), i) \in 1..Len(Pend(ms))
                                    /\ Pend(ms)[Rank(UnreadAt(ms), i)] = HeadOf(ms[i])
  <1>1. Those(ms, Unread) = Selected(ms, UnreadAt(ms))
    BY DEF Those, Unread, UnreadAt
  <1>2. /\ Strip(ms) \in Seq(Heading) /\ UnreadAt(ms) \in SUBSET (1..Len(Strip(ms)))
        /\ UnreadAt(ms) \in SUBSET (1..Len(ms))
        /\ \A i \in UnreadAt(ms) : Strip(ms)[i] = HeadOf(ms[i])
    BY StripIs
  <1>3. Pend(ms) = Selected(Strip(ms), UnreadAt(ms))
    BY <1>1, <1>2, StripSelected DEF Pend
  <1> QED
    BY <1>2, <1>3, SelectedIs

\* To select among what waits is to select among the messages.
LEMMA AmongPending ==
  ASSUME NEW ms \in Seq(Stored), NEW Q \in SUBSET UnreadAt(ms), NEW V \in SUBSET DOMAIN Pend(ms),
         \A i \in UnreadAt(ms), k \in DOMAIN Pend(ms) :
           Pend(ms)[k] = HeadOf(ms[i]) => (i \in Q <=> k \in V)
  PROVE  Selected(Pend(ms), V) = Selected(Strip(ms), Q)
  <1>1. /\ Pend(ms) = Selected(Strip(ms), UnreadAt(ms))
        /\ DOMAIN Pend(ms) = 1..Cardinality(UnreadAt(ms))
        /\ Strip(ms) \in Seq(Heading) /\ UnreadAt(ms) \in SUBSET (1..Len(Strip(ms)))
    BY PendIs, StripIs, LenProperties
  <1>2. \A i \in UnreadAt(ms) : i \in Q <=> Rank(UnreadAt(ms), i) \in V
    BY <1>1, PendIs
  <1>3. V \in SUBSET (1..Cardinality(UnreadAt(ms)))
    BY <1>1
  <1> QED
    BY <1>1, <1>2, <1>3, SelectedTwice

\* Saving: one more waits.
LEMMA PendAdded ==
  ASSUME NEW ms \in Seq(Stored), NEW m \in Stored, ~m.read
  PROVE  Pend(Append(ms, m)) = Append(Pend(ms), HeadOf(m))
  <1> DEFINE u == Append(ms, m)
             n == Len(ms) + 1
  <1>1. /\ u \in Seq(Stored) /\ Len(u) = n /\ u[n] = m /\ Len(ms) \in Nat
        /\ \A i \in 1..Len(ms) : u[i] = ms[i]
    BY AppendProperties, LenProperties
  <1> HIDE DEF u
  <1>2. UnreadAt(u) = UnreadAt(ms) \cup {n}
    <2>1. DOMAIN u = 1..n /\ DOMAIN ms = 1..Len(ms) /\ 1..n = (1..Len(ms)) \cup {n}
      BY <1>1, LenProperties
    <2> QED
      BY <1>1, <2>1 DEF UnreadAt
  <1> DEFINE S == UnreadAt(ms)
             R == UnreadAt(u)
             c == Cardinality(S)
             a == Append(Pend(ms), HeadOf(m))
  <1>3. /\ Pend(u) \in Seq(Heading) /\ Len(Pend(u)) = Cardinality(R)
        /\ \A i \in R : Pend(u)[Rank(R, i)] = HeadOf(u[i])
    BY <1>1, PendIs
  <1>4. /\ Pend(ms) \in Seq(Heading) /\ Len(Pend(ms)) = c /\ c \in Nat
        /\ \A i \in S : Pend(ms)[Rank(S, i)] = HeadOf(ms[i])
    BY PendIs
  <1>5. S \in SUBSET (1..Len(ms)) /\ R = S \cup {n}
    BY <1>2, StripIs DEF UnreadAt
  <1> HIDE DEF S, R, a
  <1>6. /\ Cardinality(R) = c + 1 /\ Rank(R, n) = c + 1
        /\ \A i \in S : Rank(R, i) = Rank(S, i)
    <2>1. \A i \in S : i \in Nat /\ i < n
      BY <1>1, <1>5
    <2>2. n \notin S
      BY <1>1, <2>1
    <2>3. IsFiniteSet(S)
      BY <1>1, <1>5, Ranks
    <2>4. Cardinality(R) = c + 1
      BY <1>5, <2>2, <2>3, FS_AddElement
    <2>5. {j \in R : j <= n} = R
      <3>1. \A j \in R : j <= n
        BY <1>1, <1>5, <2>1
      <3> QED
        BY <3>1
    <2>6. ASSUME NEW i \in S
          PROVE  Rank(R, i) = Rank(S, i)
      <3>1. {j \in R : j <= i} = {j \in S : j <= i}
        BY <1>1, <1>5, <2>1
      <3> QED
        BY <3>1 DEF Rank
    <2> QED
      BY <2>4, <2>5, <2>6 DEF Rank
  <1>7. /\ Len(Pend(u)) = c + 1 /\ Pend(u)[c + 1] = HeadOf(m)
        /\ \A k \in 1..c : Pend(u)[k] = Pend(ms)[k]
    <2>1. Pend(u)[Rank(R, n)] = HeadOf(u[n])
      BY <1>3, <1>5
    <2>2. ASSUME NEW k \in 1..c
          PROVE  Pend(u)[k] = Pend(ms)[k]
      <3>1. PICK i \in S : Rank(S, i) = k
        BY <1>1, <1>5, Ranks
      <3>2. Pend(u)[Rank(R, i)] = HeadOf(u[i]) /\ Pend(ms)[Rank(S, i)] = HeadOf(ms[i])
        BY <1>3, <1>4, <1>5
      <3>3. u[i] = ms[i] /\ Rank(R, i) = k
        BY <1>1, <1>5, <1>6, <3>1
      <3> QED
        BY <3>1, <3>2, <3>3
    <2> QED
      BY <1>1, <1>3, <1>6, <2>1, <2>2
  <1>8. /\ a \in Seq(Heading) /\ Len(a) = c + 1 /\ a[c + 1] = HeadOf(m)
        /\ \A k \in 1..c : a[k] = Pend(ms)[k]
    <2>1. HeadOf(m) \in Heading
      BY DEF HeadOf, Heading, Stored
    <2> QED
      BY <1>4, <2>1, AppendProperties DEF a
  <1>9. \A k \in 1..(c + 1) : Pend(u)[k] = a[k]
    <2>1. \A k \in 1..(c + 1) : k = c + 1 \/ k \in 1..c
      BY <1>4
    <2> QED
      BY <1>7, <1>8, <2>1
  <1>10. Pend(u) = a
    BY <1>3, <1>7, <1>8, <1>9, SeqEqual
  <1> QED
    BY <1>10 DEF a, u

\* Marking the messages at S: the others wait.
LEMMA PendMarked ==
  ASSUME NEW ms \in Seq(Stored), NEW S
  PROVE  Pend(AsRead(ms, S)) = Selected(Strip(ms), UnreadAt(ms) \ S)
  <1> DEFINE a == AsRead(ms, S)
  <1>1. /\ a \in Seq(Stored) /\ Len(a) = Len(ms)
        /\ \A i \in DOMAIN ms : ms[i] \in Stored
    BY AsReadIs, StoredIs, LenProperties
  <1>2. \A i \in DOMAIN ms :
          /\ HeadOf(a[i]) = HeadOf(ms[i])
          /\ a[i].read <=> i \in S \/ ms[i].read
    BY <1>1 DEF AsRead, HeadOf, Stored
  <1>3. DOMAIN a = DOMAIN ms
    BY DEF AsRead
  <1> HIDE DEF a
  <1>4. UnreadAt(a) = UnreadAt(ms) \ S
    BY <1>1, <1>2, <1>3 DEF UnreadAt
  <1>5. Strip(a) = Strip(ms)
    <2>1. Strip(a) = [i \in DOMAIN ms |-> HeadOf(a[i])]
      BY <1>3 DEF Strip, HeadOf
    <2>2. Strip(ms) = [i \in DOMAIN ms |-> HeadOf(ms[i])]
      BY <1>1 DEF Strip, HeadOf
    <2> QED
      BY <1>2, <2>1, <2>2
  <1> QED
    BY <1>1, <1>4, <1>5, PendIs DEF a

\* Clearing: what waits of the others.
LEMMA PendCleared ==
  ASSUME NEW ms \in Seq(Stored), NEW u
  PROVE  Pend(Without(ms, u)) = Selected(Strip(ms), Others(ms, u) \cap UnreadAt(ms))
  <1> DEFINE w == Without(ms, u)
             W == Others(ms, u)
  <1>1. w = Selected(ms, W) /\ w \in Seq(Stored) /\ W \in SUBSET (1..Len(ms))
    BY WithoutIs
  <1> HIDE DEF w, W
  <1>2. /\ Strip(w) = Selected(Strip(ms), W)
        /\ Strip(ms) \in Seq(Heading) /\ W \in SUBSET (1..Len(Strip(ms)))
    BY <1>1, StripSelected, StripIs
  <1>3. /\ Len(w) = Cardinality(W)
        /\ \A i \in W : Rank(W, i) \in 1..Cardinality(W) /\ w[Rank(W, i)] = ms[i]
    BY <1>1, SelectedIs
  <1>4. DOMAIN w = 1..Cardinality(W) /\ UnreadAt(w) \in SUBSET (1..Cardinality(W))
    BY <1>1, <1>3, LenProperties DEF UnreadAt
  <1>5. \A i \in W : i \in DOMAIN ms
    BY <1>1, LenProperties
  <1>6. \A i \in W : i \in W \cap UnreadAt(ms) <=> Rank(W, i) \in UnreadAt(w)
    BY <1>3, <1>4, <1>5 DEF UnreadAt
  <1>7. Selected(Selected(Strip(ms), W), UnreadAt(w)) = Selected(Strip(ms), W \cap UnreadAt(ms))
    BY <1>2, <1>4, <1>6, SelectedTwice, SMTT(20)
  <1> QED
    BY <1>1, <1>2, <1>7, PendIs DEF w, W

\* A first part of the file: a first part of what waits.
LEMMA PendCut ==
  ASSUME NEW ms \in Seq(Stored), NEW n \in 0..Len(ms)
  PROVE  \E c \in 0..Len(Pend(ms)) : Pend(SubSeq(ms, 1, n)) = SubSeq(Pend(ms), 1, c)
  <1> DEFINE q == SubSeq(ms, 1, n)
             Q == {i \in UnreadAt(ms) : i <= n}
  <1>1. /\ Len(ms) \in Nat /\ n \in Nat /\ DOMAIN ms = 1..Len(ms)
        /\ \A i \in 1..Len(ms) : ms[i] \in Stored
    BY StripIs
  <1>2. q \in Seq(Stored) /\ Len(q) = n /\ \A i \in 1..n : q[i] = ms[i]
    <2>1. /\ q \in Seq(Stored) /\ Len(q) = (IF 1 <= n THEN n - 1 + 1 ELSE 0)
          /\ \A i \in 1..(n - 1 + 1) : q[i] = ms[1 + i - 1]
      <3>1. \A i \in 1..n : ms[i] \in Stored
        BY <1>1
      <3> QED
        BY <1>1, <3>1, SubSeqProperties
    <2> HIDE DEF q
    <2> QED
      BY <1>1, <2>1
  <1> HIDE DEF q
  <1>3. UnreadAt(q) = Q
    <2>1. DOMAIN q = 1..n /\ \A i \in 1..Len(ms) : i <= n <=> i \in 1..n
      BY <1>1, <1>2, LenProperties
    <2>2. \A i \in 1..n : i \in 1..Len(ms)
      BY <1>1
    <2> QED
      BY <1>1, <1>2, <2>1, <2>2 DEF UnreadAt
  <1>4. /\ Strip(ms) \in Seq(Heading) /\ Len(Strip(ms)) = Len(ms)
        /\ \A i \in 1..Len(ms) : Strip(ms)[i] = HeadOf(ms[i])
        /\ UnreadAt(ms) \in SUBSET (1..Len(Strip(ms)))
    BY StripIs
  <1>5. Strip(q) = SubSeq(Strip(ms), 1, n)
    <2> DEFINE t == SubSeq(Strip(ms), 1, n)
    <2>1. t \in Seq(Heading) /\ Len(t) = n /\ \A i \in 1..n : t[i] = Strip(ms)[i]
      <3>1. \A i \in 1..n : Strip(ms)[i] \in Heading
        BY <1>1, <1>4, LenProperties
      <3>2. /\ t \in Seq(Heading) /\ Len(t) = (IF 1 <= n THEN n - 1 + 1 ELSE 0)
            /\ \A i \in 1..(n - 1 + 1) : t[i] = Strip(ms)[1 + i - 1]
        BY <1>1, <3>1, SubSeqProperties
      <3> HIDE DEF t
      <3> QED
        BY <1>1, <3>2
    <2> HIDE DEF t
    <2>2. /\ Strip(q) \in Seq(Heading) /\ Len(Strip(q)) = n
          /\ \A i \in 1..n : Strip(q)[i] = HeadOf(q[i])
      BY <1>2, StripIs
    <2>3. \A i \in 1..n : Strip(q)[i] = t[i]
      <3>1. \A i \in 1..n : i \in 1..Len(ms)
        BY <1>1
      <3> QED
        BY <1>2, <1>4, <2>1, <2>2, <3>1
    <2>4. Strip(q) = t
      BY <2>1, <2>2, <2>3, SeqEqual
    <2> QED
      BY <2>4 DEF t
  <1>6. /\ Cardinality(Q) \in 0..Cardinality(UnreadAt(ms))
        /\ Selected(SubSeq(Strip(ms), 1, n), Q)
             = SubSeq(Selected(Strip(ms), UnreadAt(ms)), 1, Cardinality(Q))
    <2>1. n \in 0..Len(Strip(ms)) /\ Q \in SUBSET UnreadAt(ms)
          /\ \A i \in UnreadAt(ms) : i \in Q <=> i <= n
      BY <1>4
    <2> HIDE DEF Q
    <2> QED
      BY <1>4, <2>1, SelectedCut
  <1> HIDE DEF Q
  <1>7. Pend(q) = SubSeq(Pend(ms), 1, Cardinality(Q)) /\ Cardinality(Q) \in 0..Len(Pend(ms))
    BY <1>2, <1>3, <1>5, <1>6, PendIs
  <1> QED
    BY <1>7 DEF q

\* The Inbox selects with the same operators.
LEMMA BoxSelected ==
  ASSUME NEW s, NEW S
  PROVE  Box!Selected(s, S) = Selected(s, S)
  BY DEF Box!Selected, Box!Rank, Box!Cardinality, Selected, Rank, Cardinality

\* What the Inbox keeps and returns of what waits, told by the messages.
Keeps(ms, Q) == Selected(Strip(ms), UnreadAt(ms) \cap Q)

LEMMA BoxSelects ==
  ASSUME NEW ms \in Seq(Stored), NEW u \in Users
  PROVE  /\ Box!Fetched(Pend(ms), u) = Keeps(ms, To(ms, u))
         /\ Box!Unfetched(Pend(ms), u) = Keeps(ms, DOMAIN ms \ To(ms, u))
         /\ Box!Cleared(Pend(ms), u) = Keeps(ms, Others(ms, u))
         /\ \A v \in Users : Box!Unmarked(Pend(ms), u, v)
                               = Keeps(ms, DOMAIN ms \ (To(ms, u) \cap From(ms, v)))
  <1> DEFINE p == Pend(ms)
             U == UnreadAt(ms)
  <1>1. U \in SUBSET DOMAIN ms
    BY DEF UnreadAt
  <1>2. \A i \in U, k \in DOMAIN p : p[k] = HeadOf(ms[i]) =>
          p[k].to = ms[i].to /\ p[k].from = ms[i].from
    BY DEF HeadOf
  <1> HIDE DEF p, U
  <1>3. ASSUME NEW Q, NEW V \in SUBSET DOMAIN p,
               \A i \in U, k \in DOMAIN p : p[k] = HeadOf(ms[i]) => (i \in Q <=> k \in V)
        PROVE  Selected(p, V) = Keeps(ms, Q)
    <2>1. \A i \in U, k \in DOMAIN p : p[k] = HeadOf(ms[i]) => (i \in U \cap Q <=> k \in V)
      BY <1>3
    <2> QED
      BY <1>1, <1>3, <2>1, AmongPending DEF p, U, Keeps
  <1>4. Box!Fetched(p, u) = Keeps(ms, To(ms, u))
    <2> DEFINE V == {k \in DOMAIN p : p[k].to = u}
    <2>1. Selected(p, V) = Keeps(ms, To(ms, u))
      BY <1>1, <1>2, <1>3 DEF To
    <2> QED
      BY <2>1, BoxSelected DEF Box!Fetched, Box!Those
  <1>5. Box!Unfetched(p, u) = Keeps(ms, DOMAIN ms \ To(ms, u))
    <2> DEFINE V == {k \in DOMAIN p : p[k].to # u}
    <2>1. Selected(p, V) = Keeps(ms, DOMAIN ms \ To(ms, u))
      BY <1>1, <1>2, <1>3 DEF To
    <2> QED
      BY <2>1, BoxSelected DEF Box!Unfetched, Box!Those
  <1>6. Box!Cleared(p, u) = Keeps(ms, Others(ms, u))
    <2> DEFINE V == {k \in DOMAIN p : p[k].to # u /\ p[k].from # u}
    <2>1. Selected(p, V) = Keeps(ms, Others(ms, u))
      BY <1>1, <1>2, <1>3 DEF Others
    <2> QED
      BY <2>1, BoxSelected DEF Box!Cleared, Box!Those
  <1>7. ASSUME NEW v \in Users
        PROVE  Box!Unmarked(p, u, v) = Keeps(ms, DOMAIN ms \ (To(ms, u) \cap From(ms, v)))
    <2> DEFINE V == {k \in DOMAIN p : ~(p[k].to = u /\ p[k].from = v)}
    <2>1. Selected(p, V) = Keeps(ms, DOMAIN ms \ (To(ms, u) \cap From(ms, v)))
      BY <1>1, <1>2, <1>3 DEF To, From
    <2> QED
      BY <2>1, BoxSelected DEF Box!Unmarked, Box!Those
  <1> QED
    BY <1>4, <1>5, <1>6, <1>7 DEF p

\* What waits, and what is returned, after an operation on ms.
LEMMA AfterIs ==
  ASSUME NEW ms \in Seq(Stored)
  PROVE  /\ \A f, t \in Users, c \in Texts :
              /\ Pend(Append(ms, NewMessage(f, t, c)))
                   = Append(Pend(ms), HeadOf(NewMessage(f, t, c)))
              /\ HeadOf(NewMessage(f, t, c)) \in Heading
         /\ \A u \in Users :
              /\ Strip(Selected(ms, Waiting(ms, u))) = Box!Fetched(Pend(ms), u)
              /\ Pend(AsRead(ms, To(ms, u))) = Box!Unfetched(Pend(ms), u)
              /\ Waiting(ms, u) = {} => Pend(ms) = Box!Unfetched(Pend(ms), u)
              /\ Pend(Without(ms, u)) = Box!Cleared(Pend(ms), u)
         /\ \A u, v \in Users : Pend(Marked(ms, u, v)) = Box!Unmarked(Pend(ms), u, v)
  <1>1. DOMAIN ms = 1..Len(ms)
    BY LenProperties
  <1>2. ASSUME NEW f \in Users, NEW t \in Users, NEW c \in Texts
        PROVE  /\ Pend(Append(ms, NewMessage(f, t, c)))
                    = Append(Pend(ms), HeadOf(NewMessage(f, t, c)))
               /\ HeadOf(NewMessage(f, t, c)) \in Heading
    <2>1. NewMessage(f, t, c) \in Stored /\ ~NewMessage(f, t, c).read
      BY DEF NewMessage, Stored, Now
    <2>2. HeadOf(NewMessage(f, t, c)) \in Heading
      BY DEF HeadOf, Heading, NewMessage
    <2> QED
      BY <2>1, <2>2, PendAdded
  <1>3. ASSUME NEW S
        PROVE  Pend(AsRead(ms, S)) = Keeps(ms, DOMAIN ms \ S)
    <2>1. UnreadAt(ms) \ S = UnreadAt(ms) \cap (DOMAIN ms \ S)
      BY DEF UnreadAt
    <2> QED
      BY <2>1, PendMarked DEF Keeps
  <1>4. ASSUME NEW u \in Users
        PROVE  Strip(Selected(ms, Waiting(ms, u))) = Keeps(ms, To(ms, u))
    <2>1. /\ Waiting(ms, u) = UnreadAt(ms) \cap To(ms, u)
          /\ Waiting(ms, u) \in SUBSET (1..Len(ms))
      BY <1>1 DEF Waiting, UnreadAt, To, Unread
    <2> QED
      BY <2>1, StripSelected DEF Keeps
  <1>5. ASSUME NEW u \in Users, Waiting(ms, u) = {}
        PROVE  Pend(ms) = Keeps(ms, DOMAIN ms \ To(ms, u))
    <2>1. UnreadAt(ms) = UnreadAt(ms) \cap (DOMAIN ms \ To(ms, u))
      BY <1>5 DEF Waiting, UnreadAt, To, Unread
    <2> QED
      BY <2>1, PendIs DEF Keeps
  <1>6. ASSUME NEW u \in Users
        PROVE  Pend(Without(ms, u)) = Keeps(ms, Others(ms, u))
    <2>1. Others(ms, u) \cap UnreadAt(ms) = UnreadAt(ms) \cap Others(ms, u)
      OBVIOUS
    <2> QED
      BY <2>1, PendCleared DEF Keeps
  <1>7. ASSUME NEW u \in Users, NEW v \in Users
        PROVE  Pend(Marked(ms, u, v)) = Keeps(ms, DOMAIN ms \ (To(ms, u) \cap From(ms, v)))
    BY <1>3 DEF Marked
  <1>8. ASSUME NEW u \in Users
        PROVE  /\ Strip(Selected(ms, Waiting(ms, u))) = Box!Fetched(Pend(ms), u)
               /\ Pend(AsRead(ms, To(ms, u))) = Box!Unfetched(Pend(ms), u)
               /\ Waiting(ms, u) = {} => Pend(ms) = Box!Unfetched(Pend(ms), u)
               /\ Pend(Without(ms, u)) = Box!Cleared(Pend(ms), u)
    <2>1. Pend(AsRead(ms, To(ms, u))) = Keeps(ms, DOMAIN ms \ To(ms, u))
      BY <1>3
    <2> QED
      BY <1>4, <1>5, <1>6, <2>1, BoxSelects
  <1>9. ASSUME NEW u \in Users, NEW v \in Users
        PROVE  Pend(Marked(ms, u, v)) = Box!Unmarked(Pend(ms), u, v)
    BY <1>7, BoxSelects
  <1> QED
    BY <1>2, <1>8, <1>9

LEMMA NothingWaits == Strip(<<>>) = <<>> /\ Pend(<<>>) = <<>>
  <1>1. <<>> \in Seq(Stored) /\ Len(<<>>) = 0
    BY EmptySeq
  <1>2. Strip(<<>>) \in Seq(Heading) /\ Len(Strip(<<>>)) = 0
    BY <1>1, StripIs
  <1>3. Pend(<<>>) \in Seq(Heading) /\ Len(Pend(<<>>)) = 0
    <2>1. UnreadAt(<<>>) = {}
      BY DEF UnreadAt
    <2>2. Pend(<<>>) \in Seq(Heading) /\ Len(Pend(<<>>)) = Cardinality({})
      BY <1>1, <2>1, PendIs
    <2> QED
      BY <2>2, FS_EmptySet
  <1> QED
    BY <1>2, <1>3, EmptySeq

LEMMA InitBox == Init => Box!Init
  <1> SUFFICES ASSUME Init PROVE Box!Init
    OBVIOUS
  <1>1. Messages = <<>> /\ fetched = <<>> /\ fault = FALSE
    BY DEF Init, Messages
  <1>2. Pend(Messages) = <<>> /\ Strip(fetched) = <<>>
    BY <1>1, NothingWaits
  <1> QED
    BY <1>1, <1>2 DEF Box!Init, Pend

\* The steps without a fault, as steps of the Inbox.
LEMMA CleanBox ==
  ASSUME Tidy, fault' = FALSE, CleanSteps
  PROVE  Box!Next
  <1> DEFINE p == Pend(Messages)
             q == Pend(Messages')
  <1>1. p = Strip(Those(Messages, Unread)) /\ q = Strip(Those(Messages', Unread))
    BY DEF Pend
  <1>2. Heading = Box!Message /\ Strip(<<>>) = <<>> /\ Messages \in Seq(Stored)
    BY NothingWaits DEF Heading, Box!Message, Tidy, Orderly
  <1> HIDE DEF p, q
  <1>3. ASSUME NEW f \in Users, NEW t \in Users, NEW c \in Texts,
               Messages' = Append(Messages, NewMessage(f, t, c)), fetched' = <<>>
        PROVE  Box!Save
    <2>1. q = Append(p, HeadOf(NewMessage(f, t, c))) /\ HeadOf(NewMessage(f, t, c)) \in Box!Message
      BY <1>2, <1>3, AfterIs DEF p, q
    <2> QED
      BY <1>1, <1>2, <1>3, <2>1 DEF Box!Save
  <1>4. ASSUME NEW u \in Users, fetched' = Selected(Messages, Waiting(Messages, u)),
               \/ Messages' = AsRead(Messages, To(Messages, u))
               \/ Waiting(Messages, u) = {} /\ Messages' = Messages
        PROVE  Box!Fetch(u)
    <2>1. Strip(fetched') = Box!Fetched(p, u) /\ q = Box!Unfetched(p, u)
      BY <1>2, <1>4, AfterIs DEF p, q
    <2> QED
      BY <1>1, <2>1 DEF Box!Fetch
  <1>5. ASSUME NEW u \in Users, NEW v \in Users, Messages' = Marked(Messages, u, v), fetched' = <<>>
        PROVE  Box!Mark(u, v)
    <2>1. q = Box!Unmarked(p, u, v)
      BY <1>2, <1>5, AfterIs DEF p, q
    <2> QED
      BY <1>1, <1>2, <1>5, <2>1 DEF Box!Mark
  <1>6. ASSUME NEW u \in Users, Messages' = Without(Messages, u), fetched' = <<>>
        PROVE  Box!Clear(u)
    <2>1. q = Box!Cleared(p, u)
      BY <1>2, <1>6, AfterIs DEF p, q
    <2> QED
      BY <1>1, <1>2, <1>6, <2>1 DEF Box!Clear
  <1>7. ASSUME Messages' = Messages, fetched' = <<>>
        PROVE  Box!Restart
    BY <1>2, <1>7 DEF Box!Restart
  <1>8. CASE \E f, t \in Users, c \in Texts :
               Messages' = Append(Messages, NewMessage(f, t, c)) /\ fetched' = <<>>
    BY <1>3, <1>8 DEF Box!Next
  <1>9. CASE \E u \in Users :
               /\ fetched' = Selected(Messages, Waiting(Messages, u))
               /\ \/ Messages' = AsRead(Messages, To(Messages, u))
                  \/ Waiting(Messages, u) = {} /\ Messages' = Messages
    <2>1. PICK u \in Users :
            /\ fetched' = Selected(Messages, Waiting(Messages, u))
            /\ \/ Messages' = AsRead(Messages, To(Messages, u))
               \/ Waiting(Messages, u) = {} /\ Messages' = Messages
      BY <1>9
    <2>2. Box!Fetch(u)
      BY <1>4, <2>1
    <2> QED
      BY <2>2 DEF Box!Next
  <1>10. CASE \E u, v \in Users : Messages' = Marked(Messages, u, v) /\ fetched' = <<>>
    BY <1>5, <1>10 DEF Box!Next
  <1>11. CASE \E u \in Users : Messages' = Without(Messages, u) /\ fetched' = <<>>
    BY <1>6, <1>11 DEF Box!Next
  <1>12. CASE Messages' = Messages /\ fetched' = <<>>
    BY <1>7, <1>12 DEF Box!Next
  <1> QED
    BY <1>8, <1>9, <1>10, <1>11, <1>12 DEF CleanSteps

\* The steps with a fault.
LEMMA FaultyBox ==
  ASSUME Tidy, fault' = TRUE, FaultySteps
  PROVE  Box!Next
  <1> DEFINE p == Pend(Messages)
             q == Pend(Messages')
  <1>1. p = Strip(Those(Messages, Unread)) /\ q = Strip(Those(Messages', Unread))
    BY DEF Pend
  <1>2. /\ Heading = Box!Message /\ Strip(<<>>) = <<>>
        /\ Messages \in Seq(Stored) /\ <<>> \in Seq(Stored)
    BY NothingWaits, EmptySeq DEF Heading, Box!Message, Tidy, Orderly
  <1>3. ASSUME NEW out \in Seq(Stored), Part(out)
        PROVE  Box!Cut(Pend(out))
    <2>1. PICK n \in 0..Len(out) : Messages' = SubSeq(out, 1, n)
      BY <1>3 DEF Part
    <2>2. \E k \in 0..Len(Pend(out)) : q = SubSeq(Pend(out), 1, k)
      BY <2>1, PendCut DEF q
    <2> QED
      BY <1>1, <2>2 DEF Box!Cut
  <1>4. ASSUME NEW ms \in {Messages, <<>>}
        PROVE  ms \in Seq(Stored) /\ Pend(ms) \in {p, <<>>}
    BY <1>2, NothingWaits DEF p
  <1> HIDE DEF p, q
  <1>5. CASE Messages' \in {Messages, <<>>} /\ fetched' = <<>>
    <2>1. q \in {p, <<>>} /\ Strip(fetched') = <<>>
      BY <1>2, <1>5, NothingWaits DEF p, q
    <2>2. Box!Fault
      BY <1>1, <2>1 DEF Box!Fault
    <2> QED
      BY <2>2 DEF Box!Next
  <1>6. ASSUME NEW ms \in {Messages, <<>>}, fetched' = <<>>,
               NEW out \in Seq(Stored), Saves(ms, out), Part(out)
        PROVE  Box!Fault
    <2>1. ms \in Seq(Stored) /\ Pend(ms) \in {p, <<>>} /\ Strip(fetched') = <<>>
      BY <1>2, <1>4, <1>6
    <2> DEFINE s == Pend(ms)
               o == Pend(out)
    <2>2. Box!Cut(o)
      BY <1>3, <1>6
    <2>3. \/ \E m \in Box!Message : o = Append(s, m)
          \/ \E u \in Users : o = Box!Unfetched(s, u) \/ o = Box!Cleared(s, u)
          \/ \E u, v \in Users : o = Box!Unmarked(s, u, v)
      <3>1. CASE \E f, t \in Users, c \in Texts : out = Append(ms, NewMessage(f, t, c))
        BY <1>2, <2>1, <3>1, AfterIs
      <3>2. CASE \E u \in Users : out = Without(ms, u) \/ out = AsRead(ms, To(ms, u))
        BY <2>1, <3>2, AfterIs
      <3>3. CASE \E u, v \in Users : out = Marked(ms, u, v)
        BY <2>1, <3>3, AfterIs
      <3> QED
        BY <1>6, <3>1, <3>2, <3>3 DEF Saves
    <2> HIDE DEF s, o
    <2>4. \/ \E m \in Box!Message : Box!Cut(Append(s, m))
          \/ \E u \in Users : Box!Cut(Box!Unfetched(s, u)) \/ Box!Cut(Box!Cleared(s, u))
          \/ \E u, v \in Users : Box!Cut(Box!Unmarked(s, u, v))
      BY <2>2, <2>3
    <2>5. s \in {Strip(Those(Messages, Unread)), <<>>}
      BY <1>1, <2>1 DEF s
    <2> HIDE DEF Box!Cut
    <2> QED
      BY <2>1, <2>4, <2>5 DEF Box!Fault
  <1>7. ASSUME NEW ms \in {Messages, <<>>}, NEW u \in Users,
               fetched' = Selected(ms, Waiting(ms, u)),
               Messages' = Messages \/ Part(AsRead(ms, To(ms, u)))
        PROVE  Box!Fault
    <2>1. ms \in Seq(Stored) /\ Pend(ms) \in {p, <<>>}
      BY <1>4
    <2> DEFINE s == Pend(ms)
    <2>2. Strip(fetched') = Box!Fetched(s, u)
      BY <1>7, <2>1, AfterIs
    <2>3. q = p \/ Box!Cut(Box!Unfetched(s, u))
      <3>1. CASE Messages' = Messages
        BY <3>1 DEF p, q
      <3>2. CASE Part(AsRead(ms, To(ms, u)))
        <4>1. AsRead(ms, To(ms, u)) \in Seq(Stored)
          BY <2>1, StoredIs, AsReadIs
        <4>2. Box!Cut(Pend(AsRead(ms, To(ms, u))))
          BY <1>3, <3>2, <4>1
        <4> QED
          BY <2>1, <4>2, AfterIs
      <3> QED
        BY <1>7, <3>1, <3>2
    <2>4. s \in {Strip(Those(Messages, Unread)), <<>>}
      BY <1>1, <2>1
    <2> HIDE DEF s
    <2> QED
      BY <1>1, <2>2, <2>3, <2>4 DEF Box!Fault
  <1>8. CASE \E ms \in {Messages, <<>>} :
               \/ fetched' = <<>> /\ \E out \in Seq(Stored) : Saves(ms, out) /\ Part(out)
               \/ \E u \in Users :
                    /\ fetched' = Selected(ms, Waiting(ms, u))
                    /\ Messages' = Messages \/ Part(AsRead(ms, To(ms, u)))
    <2>1. Box!Fault
      BY <1>6, <1>7, <1>8
    <2> QED
      BY <2>1 DEF Box!Next
  <1> QED
    BY <1>5, <1>8 DEF FaultySteps

LEMMA BoxSteps ==
  ASSUME Tidy, MessageSteps
  PROVE  [Box!Next]_<<Strip(Those(Messages, Unread)), Strip(fetched), fault>>
  <1>1. CASE fault' = FALSE /\ CleanSteps
    BY <1>1, CleanBox
  <1>2. CASE fault' = TRUE /\ FaultySteps
    BY <1>2, FaultyBox
  <1>3. CASE UNCHANGED <<file, fetched, fault>>
    BY <1>3 DEF Messages
  <1> QED
    BY <1>1, <1>2, <1>3 DEF MessageSteps

\* Without a separator or a line break in a content, the file is an Inbox
\* (message_storage.cpp:9-166): without a fault a message that was saved is
\* returned once, whole and in the order of saving, unless it is marked or
\* cleared; a file that cannot be read or written, or a process that ends while it
\* is written, loses the newest or all of them or has them returned again.
THEOREM InboxImplemented ==
  ASSUME Plain
  PROVE  Spec => InboxSpec
  <1>1. Tidy /\ [Next]_vars => [Box!Next]_<<Strip(Those(Messages, Unread)), Strip(fetched), fault>>
    BY StepKinds, BoxSteps
  <1> QED
    BY <1>1, InitBox, TidyAlways, PTL DEF Spec, InboxSpec, Box!Spec
=============================================================================
