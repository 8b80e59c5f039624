------------------------- MODULE StreamDecoderProofs -------------------------
(***************************************************************************)
(* Theorems about packets over a byte stream, for every magic, every limit *)
(* and every size of the read buffer, and every way to cut the stream.     *)
(*                                                                         *)
(* Framing says where in buf \o wire the packets stand that are still to be *)
(* handed over; reading does not move them, and the decoder drops bytes in *)
(* front of the first and takes the first.                                 *)
(***************************************************************************)
EXTENDS StreamDecoder, SequenceTheorems, TLAPS

-----------------------------------------------------------------------------
(* Types.                                                                  *)

Bytes  == Seq(Byte)
Wanted == {p \in Packets : Legal(p)}

Size(p) == HeaderSize + Len(p.body)

LEMMA BytesAre ==
  ASSUME NEW s \in Bytes
  PROVE  /\ Len(s) \in Nat /\ DOMAIN s = 1..Len(s)
         /\ \A i \in 1..Len(s) : s[i] \in Byte
  BY DEF Bytes

\* What stands where in two sequences put together.
LEMMA Joined ==
  ASSUME NEW s \in Bytes, NEW t \in Bytes
  PROVE  /\ s \o t \in Bytes
         /\ Len(s \o t) = Len(s) + Len(t)
         /\ \A i \in 1..Len(s) : (s \o t)[i] = s[i]
         /\ \A i \in 1..Len(t) : (s \o t)[Len(s) + i] = t[i]
  <1>1. Len(s) \in Nat /\ Len(t) \in Nat
    BY BytesAre
  <1>2. /\ s \o t \in Bytes /\ Len(s \o t) = Len(s) + Len(t)
        /\ \A i \in 1..(Len(s) + Len(t)) :
             (s \o t)[i] = IF i <= Len(s) THEN s[i] ELSE t[i - Len(s)]
    BY ConcatProperties DEF Bytes
  <1>3. \A i \in 1..Len(s) : (s \o t)[i] = s[i]
    BY <1>1, <1>2
  <1>4. ASSUME NEW i \in 1..Len(t)
        PROVE  (s \o t)[Len(s) + i] = t[i]
    <2>1. /\ Len(s) + i \in 1..(Len(s) + Len(t))
          /\ ~(Len(s) + i <= Len(s)) /\ (Len(s) + i) - Len(s) = i
      BY <1>1
    <2> QED
      BY <1>2, <2>1
  <1> QED
    BY <1>2, <1>3, <1>4

LEMMA Regrouped ==
  ASSUME NEW s \in Bytes, NEW t \in Bytes, NEW u \in Bytes
  PROVE  (s \o t) \o u = s \o (t \o u)
  BY ConcatAssociative DEF Bytes

\* The first n bytes and the others.
LEMMA Parted ==
  ASSUME NEW s \in Bytes, NEW n \in 0..Len(s)
  PROVE  /\ SubSeq(s, 1, n) \in Bytes /\ Len(SubSeq(s, 1, n)) = n
         /\ SubSeq(s, n + 1, Len(s)) \in Bytes
         /\ s = SubSeq(s, 1, n) \o SubSeq(s, n + 1, Len(s))
  <1>1. Len(s) \in Nat /\ n \in Nat /\ \A i \in 1..Len(s) : s[i] \in Byte
    BY BytesAre
  <1>2. SubSeq(s, 1, n) \in Bytes /\ Len(SubSeq(s, 1, n)) = n
    <2>1. \A i \in 1..n : s[i] \in Byte
      BY <1>1
    <2>2. /\ SubSeq(s, 1, n) \in Bytes
          /\ Len(SubSeq(s, 1, n)) = IF 1 <= n THEN n - 1 + 1 ELSE 0
      BY <1>1, <2>1, SubSeqProperties DEF Bytes
    <2> QED
      BY <1>1, <2>2
  <1>3. SubSeq(s, n + 1, Len(s)) \in Bytes
    <2>1. \A i \in (n + 1)..Len(s) : s[i] \in Byte
      BY <1>1
    <2> QED
      BY <1>1, <2>1, SubSeqProperties DEF Bytes
  <1>4. SubSeq(s, 1, n) \o SubSeq(s, n + 1, Len(s)) = SubSeq(s, 1, Len(s))
    <2>1. 1 \in 1..(Len(s) + 1) /\ n \in (1 - 1)..Len(s) /\ Len(s) \in n..Len(s)
      BY <1>1
    <2> QED
      BY <1>1, <2>1, ConcatAdjacentSubSeq DEF Bytes
  <1> QED
    BY <1>2, <1>3, <1>4, SubSeqFull DEF Bytes

\* What stands where in an encoded packet.
LEMMA EncodeIs ==
  ASSUME NEW p \in Packets
  PROVE  /\ Encode(p) \in Bytes
         /\ Len(Encode(p)) = Size(p)
         /\ Size(p) = HeaderSize + Len(p.body)
         /\ Len(p.body) \in Nat /\ p.type \in Byte /\ p.body \in Bytes
         /\ HeaderSize = Len(Magic) + 2
         /\ Len(Magic) \in Nat \ {0}
         /\ \A j \in 1..Len(Magic) : Encode(p)[j] = Magic[j]
         /\ Encode(p)[Len(Magic) + 1] = p.type
         /\ Encode(p)[HeaderSize] = Len(p.body)
         /\ \A j \in 1..Len(p.body) : Encode(p)[HeaderSize + j] = p.body[j]
  <1>1. /\ p.type \in Byte /\ p.body \in Bytes /\ Len(p.body) \in Byte
        /\ Magic \in Bytes /\ Magic # <<>>
    BY PacketsAssumption, MagicAssumption DEF Bytes
  <1>2. Len(Magic) \in Nat \ {0} /\ Len(p.body) \in Nat
    BY <1>1 DEF Bytes
  <1> DEFINE h == <<p.type, Len(p.body)>>
  <1>3. h \in Bytes /\ Len(h) = 2 /\ h[1] = p.type /\ h[2] = Len(p.body)
    BY <1>1 DEF Bytes
  <1> HIDE DEF h
  <1> DEFINE f == Magic \o h
  <1>4. /\ f \in Bytes /\ Len(f) = Len(Magic) + 2
        /\ \A j \in 1..Len(Magic) : f[j] = Magic[j]
        /\ \A j \in 1..2 : f[Len(Magic) + j] = h[j]
    <2>1. /\ f \in Bytes /\ Len(f) = Len(Magic) + Len(h)
          /\ \A j \in 1..Len(Magic) : f[j] = Magic[j]
          /\ \A j \in 1..Len(h) : f[Len(Magic) + j] = h[j]
      BY <1>1, <1>3, Joined
    <2> HIDE DEF f
    <2> QED
      BY <1>3, <2>1
  <1> DEFINE e == f \o p.body
  <1> HIDE DEF f
  <1>5. /\ e \in Bytes /\ Len(e) = Len(f) + Len(p.body)
        /\ \A j \in 1..Len(f) : e[j] = f[j]
        /\ \A j \in 1..Len(p.body) : e[Len(f) + j] = p.body[j]
    BY <1>1, <1>4, Joined
  <1>6. e = Encode(p)
    BY DEF Encode, f, h
  <1>7. HeaderSize = Len(f) /\ HeaderSize = Len(Magic) + 2 /\ Size(p) = HeaderSize + Len(p.body)
    BY <1>4 DEF HeaderSize, Size
  <1> HIDE DEF e
  <1>8. \A j \in 1..Len(Magic) : e[j] = Magic[j]
    <2>1. \A j \in 1..Len(Magic) : j \in 1..Len(f)
      BY <1>2, <1>4
    <2> QED
      BY <1>4, <1>5, <2>1
  <1>9. e[Len(Magic) + 1] = p.type /\ e[Len(Magic) + 2] = Len(p.body)
    <2>1. Len(Magic) + 1 \in 1..Len(f) /\ Len(Magic) + 2 \in 1..Len(f)
      BY <1>2, <1>4
    <2>2. f[Len(Magic) + 1] = h[1] /\ f[Len(Magic) + 2] = h[2]
      BY <1>4
    <2> QED
      BY <1>3, <1>5, <2>1, <2>2
  <1> QED
    BY <1>1, <1>2, <1>5, <1>6, <1>7, <1>8, <1>9

\* The front of the buffer, when it holds a whole packet.
LEMMA FrontIs ==
  ASSUME TypeOK, HasMagic, ~TooLong, HasBody
  PROVE  /\ HeaderSize \in Nat /\ BodyLen \in Byte /\ Len(buf) \in Nat
         /\ FrontPacket \in {p \in [type : Byte, body : Seq(Byte)] : Legal(p)}
         /\ Len(FrontPacket.body) = BodyLen
         /\ FrontPacket.type = buf[Len(Magic) + 1]
         /\ \A j \in 1..BodyLen : FrontPacket.body[j] = buf[HeaderSize + j]
  <1>1. /\ buf \in Bytes /\ Len(buf) \in Nat /\ Len(Magic) \in Nat
        /\ \A i \in 1..Len(buf) : buf[i] \in Byte
    BY MagicAssumption DEF TypeOK, Bytes
  <1>2. HeaderSize \in Nat \ {0} /\ HeaderSize <= Len(buf) /\ HeaderSize = Len(Magic) + 2
    BY <1>1 DEF HasMagic, HasHeader, HeaderSize
  <1>3. BodyLen \in Byte /\ buf[Len(Magic) + 1] \in Byte
    BY <1>1, <1>2 DEF BodyLen
  <1>4. BodyLen \in Nat /\ HeaderSize + BodyLen <= Len(buf)
    BY <1>3 DEF Byte, HasBody
  <1> DEFINE b == SubSeq(buf, HeaderSize + 1, HeaderSize + BodyLen)
  <1>5. /\ b \in Bytes /\ Len(b) = BodyLen
        /\ \A j \in 1..BodyLen : b[j] = buf[HeaderSize + j]
    <2>1. CASE BodyLen = 0
      BY <1>1, <1>2, <2>1, SubSeqProperties DEF Bytes
    <2>2. CASE BodyLen > 0
      BY <1>1, <1>2, <1>4, <2>2, SubSeqProperties DEF Bytes
    <2> HIDE DEF b
    <2> QED
      BY <1>4, <2>1, <2>2
  <1>6. FrontPacket = [type |-> buf[Len(Magic) + 1], body |-> b]
    BY DEF FrontPacket
  <1> HIDE DEF b
  <1>7. BodyLen <= MaxBody
    BY <1>4, LimitsAssumption DEF TooLong
  <1> QED
    BY <1>1, <1>2, <1>3, <1>5, <1>6, <1>7 DEF Legal, Bytes

LEMMA InitType == Init => TypeOK
  <1>1. 0 \in 0..MaxSent /\ 0 \in 0..MaxGarbage
    BY LimitsAssumption
  <1> QED
    BY <1>1, EmptySeq DEF Init, TypeOK

LEMMA SendType ==
  ASSUME TypeOK, NEW p \in Packets, Send(p)
  PROVE  TypeOK'
  <1>1. wire' \in Seq(Byte)
    BY EncodeIs, ConcatProperties DEF TypeOK, Send, Bytes
  <1>2. sent \in Seq(Wanted) /\ Len(sent) \in Nat
    BY DEF TypeOK, Wanted
  <1>3. sent' \in Seq(Wanted)
    <2>1. CASE Legal(p)
      <3>1. p \in Wanted /\ sent' = Append(sent, p)
        BY <2>1 DEF Send, Wanted
      <3> QED
        BY <1>2, <3>1, AppendProperties
    <2>2. CASE ~Legal(p)
      BY <1>2, <2>2 DEF Send
    <2> QED
      BY <2>1, <2>2
  <1>4. excess' \in 0..MaxSent
    BY <1>2, LimitsAssumption DEF TypeOK, Send
  <1> QED
    BY <1>1, <1>3, <1>4 DEF TypeOK, Send, Wanted

LEMMA GarbleType ==
  ASSUME TypeOK, NEW b \in Garbage, Garble(b)
  PROVE  TypeOK'
  <1>1. wire' \in Seq(Byte)
    BY AppendProperties, GarbageAssumption DEF TypeOK, Garble
  <1>2. garbage' \in 0..MaxGarbage
    BY LimitsAssumption DEF TypeOK, Garble
  <1> QED
    BY <1>1, <1>2 DEF TypeOK, Garble

\* A read changes nothing in what the receiver still has before it.
LEMMA ReadMoves ==
  ASSUME TypeOK, Read
  PROVE  wire' \in Bytes /\ buf' \in Bytes /\ buf' \o wire' = buf \o wire
  <1>1. wire \in Bytes /\ buf \in Bytes
    BY DEF TypeOK, Bytes
  <1>2. PICK n \in 1..Len(wire) :
          /\ buf' = buf \o SubSeq(wire, 1, n)
          /\ wire' = SubSeq(wire, n + 1, Len(wire))
    BY DEF Read
  <1>3. n \in 0..Len(wire)
    BY <1>1, BytesAre
  <1>4. /\ SubSeq(wire, 1, n) \in Bytes
        /\ wire' \in Bytes
        /\ wire = SubSeq(wire, 1, n) \o wire'
    BY <1>1, <1>2, <1>3, Parted
  <1>5. buf' \o wire' = buf \o (SubSeq(wire, 1, n) \o wire')
    <2> DEFINE a == SubSeq(wire, 1, n)
    <2>1. a \in Bytes /\ wire' \in Bytes /\ buf' = buf \o a
      BY <1>2, <1>4
    <2> HIDE DEF a
    <2>2. (buf \o a) \o wire' = buf \o (a \o wire')
      BY <1>1, <2>1, Regrouped
    <2> QED
      BY <2>1, <2>2 DEF a
  <1>6. buf' \in Bytes
    BY <1>1, <1>2, <1>4, Joined
  <1> QED
    BY <1>4, <1>5, <1>6

\* What is taken from the buffer is the front of it.
LEMMA RestIs ==
  ASSUME TypeOK, NEW n \in 0..Len(buf), buf' = Rest(n), wire' = wire
  PROVE  /\ buf' \in Bytes
         /\ \E s \in Bytes : Len(s) = n /\ buf \o wire = s \o (buf' \o wire')
  <1>1. wire \in Bytes /\ buf \in Bytes
    BY DEF TypeOK, Bytes
  <1> DEFINE s == SubSeq(buf, 1, n)
  <1>2. s \in Bytes /\ Len(s) = n /\ buf' \in Bytes /\ buf = s \o buf'
    BY <1>1, Parted DEF Rest
  <1> HIDE DEF s
  <1>3. (s \o buf') \o wire = s \o (buf' \o wire)
    BY <1>1, <1>2, Regrouped
  <1> QED
    BY <1>2, <1>3

-----------------------------------------------------------------------------
(* Types.                                                                  *)

LEMMA DeliverType ==
  ASSUME TypeOK, Deliver
  PROVE  TypeOK'
  <1>1. HeaderSize + BodyLen \in 0..Len(buf)
    BY FrontIs DEF Deliver, HasBody, Byte
  <1>2. buf' \in Bytes
    BY <1>1, RestIs DEF Deliver
  <1>3. got' \in Seq({p \in [type : Byte, body : Seq(Byte)] : Legal(p)})
    BY FrontIs, AppendProperties DEF Deliver, TypeOK
  <1> QED
    BY <1>2, <1>3 DEF Deliver, TypeOK, Bytes

\* What Slide and SkipMagic drop is in the buffer.
LEMMA DropIs ==
  ASSUME TypeOK, Slide \/ SkipMagic
  PROVE  \E n \in 1..Len(Magic) :
           /\ n \in 0..Len(buf) /\ buf' = Rest(n)
           /\ Slide => n = 1
           /\ SkipMagic => n = Len(Magic)
  <1>1. Len(buf) \in Nat /\ Len(Magic) \in Nat \ {0}
    BY MagicAssumption DEF TypeOK
  <1>2. HasHeader
    BY DEF Slide, SkipMagic, HasMagic
  <1>3. HeaderSize = Len(Magic) + 2 /\ HeaderSize <= Len(buf)
    BY <1>1, <1>2 DEF HasHeader, HeaderSize
  <1>4. ~(Slide /\ SkipMagic)
    BY DEF Slide, SkipMagic
  <1> QED
    BY <1>1, <1>3, <1>4 DEF Slide, SkipMagic

LEMMA NextType ==
  ASSUME TypeOK, [Next]_vars
  PROVE  TypeOK'
  <1>1. CASE \E p \in Packets : Send(p)
    BY <1>1, SendType
  <1>2. CASE \E b \in Garbage : Garble(b)
    BY <1>2, GarbleType
  <1>3. CASE Read
    <2>1. wire' \in Bytes /\ buf' \in Bytes
      BY <1>3, ReadMoves
    <2> QED
      BY <1>3, <2>1 DEF Read, TypeOK, Bytes
  <1>4. CASE NeedMore
    BY <1>4 DEF NeedMore, TypeOK
  <1>5. CASE Slide \/ SkipMagic
    <2>1. wire' = wire /\ UNCHANGED <<sent, excess, garbage, got>> /\ decoding' = FALSE
      BY <1>5 DEF Slide, SkipMagic
    <2>2. buf' \in Bytes
      BY <1>5, <2>1, DropIs, RestIs
    <2> QED
      BY <2>1, <2>2 DEF TypeOK, Bytes
  <1>6. CASE Deliver
    BY <1>6, DeliverType
  <1>7. CASE UNCHANGED vars
    BY <1>7 DEF vars, TypeOK
  <1> QED
    BY <1>1, <1>2, <1>3, <1>4, <1>5, <1>6, <1>7 DEF Next, Receive

\* TypeOK: in particular no handler sees a body above the limit, whatever
\* comes over the stream (im_protocol.cpp:77-83).
THEOREM TypeCorrect == Spec => []TypeOK
  <1>1. Init => TypeOK
    BY InitType
  <1>2. TypeOK /\ [Next]_vars => TypeOK'
    BY NextType
  <1> QED
    BY <1>1, <1>2, PTL DEF Spec

-----------------------------------------------------------------------------
(* Where the packets stand in the stream.                                  *)

\* The magic can be told from everything that is not a packet to hand over:
\* its first byte stands nowhere else.
Marked ==
    /\ \A j \in 2..Len(Magic) : Magic[j] # Magic[1]
    /\ Magic[1] \notin Garbage
    /\ \A p \in Packets : ~Legal(p) =>
         /\ p.type # Magic[1] /\ Len(p.body) # Magic[1]
         /\ \A j \in 1..Len(p.body) : p.body[j] # Magic[1]

\* packet p stands in w behind the first o bytes
At(w, o, p) == /\ o + Size(p) <= Len(w)
               /\ \A j \in 1..Size(p) : w[o + j] = Encode(p)[j]

Covers(o, p, i) == o < i /\ i <= o + Size(p)

\* The packets of s from number g + 1 on stand in w, one behind the other, and
\* between them only what can be told from a packet.
Frames(at, w, s, g) ==
    /\ \A k \in (g + 1)..Len(s) : at[k] \in Nat /\ At(w, at[k], s[k])
    /\ \A k, l \in (g + 1)..Len(s) : k < l => at[k] + Size(s[k]) <= at[l]
    /\ \A i \in 1..Len(w) :
         \/ \E k \in (g + 1)..Len(s) : Covers(at[k], s[k], i)
         \/ Marked /\ (w[i] = Magic[1] => \E p \in Packets : ~Legal(p) /\ At(w, i - 1, p))

Framed(w, s, g) == \E at : Frames(at, w, s, g)

LEMMA AtMore ==
  ASSUME NEW w \in Bytes, NEW t \in Bytes, NEW p \in Packets, NEW o \in Nat, At(w, o, p)
  PROVE  At(w \o t, o, p)
  <1>1. Size(p) \in Nat /\ Len(w) \in Nat /\ Len(t) \in Nat
    BY EncodeIs, BytesAre
  <1>2. o + Size(p) <= Len(w) /\ \A j \in 1..Size(p) : w[o + j] = Encode(p)[j]
    BY DEF At
  <1>3. \A j \in 1..Size(p) : o + j \in 1..Len(w)
    BY <1>1, <1>2
  <1>4. Len(w \o t) = Len(w) + Len(t) /\ \A i \in 1..Len(w) : (w \o t)[i] = w[i]
    BY Joined
  <1>5. \A j \in 1..Size(p) : (w \o t)[o + j] = Encode(p)[j]
    BY <1>2, <1>3, <1>4
  <1> QED
    BY <1>1, <1>2, <1>4, <1>5 DEF At

LEMMA AtEnd ==
  ASSUME NEW w \in Bytes, NEW p \in Packets
  PROVE  At(w \o Encode(p), Len(w), p)
  <1>1. Encode(p) \in Bytes /\ Len(Encode(p)) = Size(p) /\ Size(p) \in Nat /\ Len(w) \in Nat
    BY EncodeIs, BytesAre
  <1> QED
    BY <1>1, Joined DEF At

LEMMA AtLess ==
  ASSUME NEW s \in Bytes, NEW v \in Bytes, NEW p \in Packets, NEW o \in Nat,
         At(s \o v, o, p), Len(s) <= o
  PROVE  o - Len(s) \in Nat /\ At(v, o - Len(s), p)
  <1>1. Size(p) \in Nat /\ Len(s) \in Nat /\ Len(v) \in Nat
    BY EncodeIs, BytesAre
  <1>2. Len(s \o v) = Len(s) + Len(v) /\ \A i \in 1..Len(v) : (s \o v)[Len(s) + i] = v[i]
    BY Joined
  <1>3. /\ o + Size(p) <= Len(s \o v)
        /\ \A j \in 1..Size(p) : (s \o v)[o + j] = Encode(p)[j]
    BY DEF At
  <1>4. o - Len(s) \in Nat /\ (o - Len(s)) + Size(p) <= Len(v)
    BY <1>1, <1>2, <1>3
  <1>5. ASSUME NEW j \in 1..Size(p)
        PROVE  v[(o - Len(s)) + j] = Encode(p)[j]
    <2>1. (o - Len(s)) + j \in 1..Len(v) /\ Len(s) + ((o - Len(s)) + j) = o + j
      BY <1>1, <1>4
    <2> QED
      BY <1>2, <1>3, <2>1
  <1> QED
    BY <1>4, <1>5 DEF At

\* What is sent comes behind what stands in the stream already.
LEMMA SentBehind ==
  ASSUME NEW w \in Bytes, NEW t \in Bytes, NEW s \in Seq(Wanted), NEW g \in Nat, NEW at,
         Frames(at, w, s, g)
  PROVE  /\ \A k \in (g + 1)..Len(s) : at[k] \in Nat /\ At(w \o t, at[k], s[k])
         /\ \A k, l \in (g + 1)..Len(s) : k < l => at[k] + Size(s[k]) <= at[l]
         /\ \A k \in (g + 1)..Len(s) : at[k] + Size(s[k]) <= Len(w)
         /\ \A i \in 1..Len(w) :
              \/ \E k \in (g + 1)..Len(s) : Covers(at[k], s[k], i)
              \/ Marked /\ ((w \o t)[i] = Magic[1] =>
                              \E p \in Packets : ~Legal(p) /\ At(w \o t, i - 1, p))
  <1>1. \A k \in (g + 1)..Len(s) : s[k] \in Packets
    BY LenProperties DEF Wanted
  <1>2. \A k \in (g + 1)..Len(s) : at[k] \in Nat /\ At(w, at[k], s[k])
    BY DEF Frames
  <1>3. \A k \in (g + 1)..Len(s) : at[k] + Size(s[k]) <= Len(w)
    BY <1>2 DEF At
  <1>4. \A k \in (g + 1)..Len(s) : At(w \o t, at[k], s[k])
    BY <1>1, <1>2, AtMore
  <1>5. ASSUME NEW i \in 1..Len(w)
        PROVE  \/ \E k \in (g + 1)..Len(s) : Covers(at[k], s[k], i)
               \/ Marked /\ ((w \o t)[i] = Magic[1] =>
                               \E p \in Packets : ~Legal(p) /\ At(w \o t, i - 1, p))
    <2>1. (w \o t)[i] = w[i]
      BY Joined
    <2>2. i - 1 \in Nat
      BY BytesAre
    <2>3. \A p \in Packets : At(w, i - 1, p) => At(w \o t, i - 1, p)
      BY <2>2, AtMore
    <2> QED
      BY <2>1, <2>3 DEF Frames
  <1> QED
    BY <1>2, <1>3, <1>4, <1>5 DEF Frames

\* A packet to hand over is sent.
LEMMA WantedSent ==
  ASSUME NEW w \in Bytes, NEW s \in Seq(Wanted), NEW g \in 0..Len(s), Framed(w, s, g),
         NEW p \in Wanted
  PROVE  Framed(w \o Encode(p), Append(s, p), g)
  <1>1. PICK at : Frames(at, w, s, g)
    BY DEF Framed
  <1> DEFINE n == Len(s) + 1
             v == w \o Encode(p)
             u == Append(s, p)
             to == [k \in 1..n |-> IF k = n THEN Len(w) ELSE at[k]]
  <1>2. /\ Len(s) \in Nat /\ Len(w) \in Nat /\ p \in Packets /\ g \in Nat
        /\ Encode(p) \in Bytes /\ Len(Encode(p)) = Size(p) /\ Size(p) \in Nat
    BY EncodeIs, BytesAre, LenProperties DEF Wanted
  <1>3. /\ u \in Seq(Wanted) /\ Len(u) = n /\ u[n] = p
        /\ \A k \in (g + 1)..Len(s) : u[k] = s[k]
    BY <1>2, AppendProperties
  <1>4. /\ \A k \in (g + 1)..Len(s) : at[k] \in Nat /\ At(v, at[k], s[k])
        /\ \A k, l \in (g + 1)..Len(s) : k < l => at[k] + Size(s[k]) <= at[l]
        /\ \A k \in (g + 1)..Len(s) : at[k] + Size(s[k]) <= Len(w)
        /\ \A i \in 1..Len(w) :
             \/ \E k \in (g + 1)..Len(s) : Covers(at[k], s[k], i)
             \/ Marked /\ (v[i] = Magic[1] => \E q \in Packets : ~Legal(q) /\ At(v, i - 1, q))
    BY <1>1, <1>2, SentBehind
  <1>5. Len(v) = Len(w) + Size(p) /\ At(v, Len(w), p)
    BY <1>2, Joined, AtEnd
  <1>6. to[n] = Len(w) /\ \A k \in (g + 1)..Len(s) : to[k] = at[k]
    BY <1>2
  <1> HIDE DEF to, u, v
  <1>7. \A k \in (g + 1)..n : k = n \/ k \in (g + 1)..Len(s)
    BY <1>2
  <1>8. \A k \in (g + 1)..n : to[k] \in Nat /\ At(v, to[k], u[k])
    BY <1>2, <1>3, <1>4, <1>5, <1>6, <1>7
  <1>9. ASSUME NEW k \in (g + 1)..n, NEW l \in (g + 1)..n, k < l
        PROVE  to[k] + Size(u[k]) <= to[l]
    <2>1. k \in (g + 1)..Len(s)
      BY <1>2, <1>9
    <2> QED
      BY <1>3, <1>4, <1>6, <1>7, <1>9, <2>1
  <1>10. ASSUME NEW i \in 1..Len(v)
         PROVE  \/ \E k \in (g + 1)..n : Covers(to[k], u[k], i)
                \/ Marked /\ (v[i] = Magic[1] => \E q \in Packets : ~Legal(q) /\ At(v, i - 1, q))
    <2>1. CASE i \in 1..Len(w)
      <3>1. \A k \in (g + 1)..Len(s) : k \in (g + 1)..n /\ to[k] = at[k] /\ u[k] = s[k]
        BY <1>2, <1>3, <1>6
      <3> QED
        BY <1>4, <2>1, <3>1
    <2>2. CASE Len(w) < i
      <3>1. Covers(to[n], u[n], i) /\ n \in (g + 1)..n
        BY <1>2, <1>3, <1>5, <1>6, <2>2 DEF Covers
      <3> QED
        BY <3>1
    <2> QED
      BY <1>2, <1>5, <2>1, <2>2
  <1>11. Frames(to, v, u, g)
    BY <1>3, <1>8, <1>9, <1>10 DEF Frames
  <1> QED
    BY <1>11 DEF Framed, u, v

\* Something else is sent: a packet that is too long, or garbage.
LEMMA OtherSent ==
  ASSUME NEW w \in Bytes, NEW t \in Bytes, NEW s \in Seq(Wanted), NEW g \in Nat,
         Framed(w, s, g), Marked,
         \A j \in 1..Len(t) : t[j] = Magic[1] =>
           \E p \in Packets : ~Legal(p) /\ At(w \o t, Len(w) + j - 1, p)
  PROVE  Framed(w \o t, s, g)
  <1>1. PICK at : Frames(at, w, s, g)
    BY DEF Framed
  <1> DEFINE v == w \o t
  <1>2. /\ \A k \in (g + 1)..Len(s) : at[k] \in Nat /\ At(v, at[k], s[k])
        /\ \A k, l \in (g + 1)..Len(s) : k < l => at[k] + Size(s[k]) <= at[l]
        /\ \A i \in 1..Len(w) :
             \/ \E k \in (g + 1)..Len(s) : Covers(at[k], s[k], i)
             \/ Marked /\ (v[i] = Magic[1] => \E q \in Packets : ~Legal(q) /\ At(v, i - 1, q))
    BY <1>1, SentBehind
  <1>3. /\ Len(w) \in Nat /\ Len(t) \in Nat /\ Len(v) = Len(w) + Len(t)
        /\ \A j \in 1..Len(t) : v[Len(w) + j] = t[j]
    BY Joined, BytesAre
  <1>4. ASSUME NEW i \in 1..Len(v), Len(w) < i, v[i] = Magic[1]
        PROVE  \E q \in Packets : ~Legal(q) /\ At(v, i - 1, q)
    <2>1. i - Len(w) \in 1..Len(t) /\ Len(w) + (i - Len(w)) = i
      BY <1>3, <1>4
    <2>2. t[i - Len(w)] = Magic[1]
      BY <1>3, <1>4, <2>1
    <2>3. Len(w) + (i - Len(w)) - 1 = i - 1
      BY <1>3
    <2> QED
      BY <2>1, <2>2, <2>3
  <1> HIDE DEF v
  <1>5. \A i \in 1..Len(v) : i \in 1..Len(w) \/ Len(w) < i
    BY <1>3
  <1>6. \A i \in 1..Len(v) :
          \/ \E k \in (g + 1)..Len(s) : Covers(at[k], s[k], i)
          \/ Marked /\ (v[i] = Magic[1] => \E q \in Packets : ~Legal(q) /\ At(v, i - 1, q))
    BY <1>2, <1>4, <1>5
  <1>7. Frames(at, v, s, g)
    BY <1>2, <1>6 DEF Frames
  <1> QED
    BY <1>7 DEF Framed, v

\* Bytes are taken from the front of the stream; packets up to number h go.
LEMMA FrontTaken ==
  ASSUME NEW b \in Bytes, NEW v \in Bytes, NEW s \in Seq(Wanted), NEW g \in Nat,
         NEW h \in g..Len(s), NEW at, Frames(at, b \o v, s, g),
         \A k \in (g + 1)..h : at[k] + Size(s[k]) <= Len(b),
         \A k \in (h + 1)..Len(s) : Len(b) <= at[k]
  PROVE  Framed(v, s, h)
  <1> DEFINE w == b \o v
             n == Len(b)
             to == [k \in 1..Len(s) |-> at[k] - n]
  <1>1. /\ n \in Nat /\ Len(v) \in Nat /\ Len(s) \in Nat /\ h \in Nat
        /\ \A k \in (g + 1)..Len(s) : s[k] \in Packets
    BY BytesAre, LenProperties DEF Wanted
  <1>2. Len(w) = n + Len(v) /\ \A i \in 1..Len(v) : w[n + i] = v[i]
    BY Joined
  <1>3. \A k \in (h + 1)..Len(s) : k \in (g + 1)..Len(s) /\ to[k] = at[k] - n /\ n <= at[k]
    BY <1>1
  <1>4. \A k \in (g + 1)..Len(s) : at[k] \in Nat /\ Size(s[k]) \in Nat /\ At(w, at[k], s[k])
    BY <1>1, EncodeIs DEF Frames
  <1> HIDE DEF to
  <1>5. \A k \in (h + 1)..Len(s) : to[k] \in Nat /\ At(v, to[k], s[k])
    BY <1>1, <1>3, <1>4, AtLess
  <1>6. \A k, l \in (h + 1)..Len(s) : k < l => to[k] + Size(s[k]) <= to[l]
    <2> SUFFICES ASSUME NEW k \in (h + 1)..Len(s), NEW l \in (h + 1)..Len(s), k < l
                 PROVE  to[k] + Size(s[k]) <= to[l]
      OBVIOUS
    <2>1. at[k] + Size(s[k]) <= at[l]
      BY <1>3 DEF Frames
    <2>2. /\ at[k] \in Nat /\ at[l] \in Nat /\ Size(s[k]) \in Nat
          /\ to[k] = at[k] - n /\ to[l] = at[l] - n
      BY <1>3, <1>4
    <2> QED
      BY <1>1, <2>1, <2>2
  <1>7. ASSUME NEW i \in 1..Len(v)
        PROVE  \/ \E k \in (h + 1)..Len(s) : Covers(to[k], s[k], i)
               \/ Marked /\ (v[i] = Magic[1] => \E p \in Packets : ~Legal(p) /\ At(v, i - 1, p))
    <2>1. n + i \in 1..Len(w) /\ w[n + i] = v[i] /\ i \in Nat
      BY <1>1, <1>2
    <2>2. CASE \E k \in (g + 1)..Len(s) : Covers(at[k], s[k], n + i)
      <3>1. PICK k \in (g + 1)..Len(s) : Covers(at[k], s[k], n + i)
        BY <2>2
      <3>2. k \in (h + 1)..Len(s)
        <4>1. CASE k \in (g + 1)..h
          <5>1. at[k] + Size(s[k]) <= n /\ n + i <= at[k] + Size(s[k])
            BY <3>1, <4>1 DEF Covers
          <5>2. at[k] \in Nat /\ Size(s[k]) \in Nat
            BY <1>4
          <5> QED
            BY <1>1, <5>1, <5>2
        <4> QED
          BY <1>1, <4>1
      <3>3. Covers(to[k], s[k], i)
        <4>1. at[k] < n + i /\ n + i <= at[k] + Size(s[k])
          BY <3>1 DEF Covers
        <4>2. at[k] \in Nat /\ Size(s[k]) \in Nat /\ to[k] = at[k] - n
          BY <1>3, <1>4, <3>2
        <4> QED
          BY <1>1, <2>1, <4>1, <4>2 DEF Covers
      <3> QED
        BY <3>2, <3>3
    <2>3. CASE Marked /\ (w[n + i] = Magic[1] =>
                            \E p \in Packets : ~Legal(p) /\ At(w, n + i - 1, p))
      <3>1. \A p \in Packets : At(w, n + i - 1, p) => At(v, i - 1, p)
        <4>1. /\ n + i - 1 \in Nat /\ n <= n + i - 1
              /\ (n + i - 1) - n = i - 1
          BY <1>1, <2>1
        <4> QED
          BY <4>1, AtLess
      <3> QED
        BY <2>1, <2>3, <3>1
    <2> QED
      BY <2>1, <2>2, <2>3 DEF Frames
  <1>8. Frames(to, v, s, h)
    BY <1>5, <1>6, <1>7 DEF Frames
  <1> QED
    BY <1>8 DEF Framed

-----------------------------------------------------------------------------
(* What stands at the front of the buffer.                                 *)

\* The magic is compared byte by byte.
LEMMA MagicIs ==
  ASSUME TypeOK, HasHeader
  PROVE  /\ HasMagic <=> \A j \in 1..Len(Magic) : buf[j] = Magic[j]
         /\ HeaderSize = Len(Magic) + 2 /\ HeaderSize <= Len(buf)
         /\ Len(buf) \in Nat /\ Len(Magic) \in Nat \ {0}
  <1>1. /\ buf \in Bytes /\ Magic \in Bytes /\ Magic # <<>>
        /\ Len(buf) \in Nat /\ Len(Magic) \in Nat \ {0}
    BY MagicAssumption DEF TypeOK, Bytes
  <1>2. HeaderSize = Len(Magic) + 2 /\ HeaderSize <= Len(buf)
    BY DEF HasHeader, HeaderSize
  <1> DEFINE a == SubSeq(buf, 1, Len(Magic))
  <1>3. Len(Magic) \in 1..Len(buf)
    BY <1>1, <1>2
  <1>4. /\ a \in Bytes /\ Len(a) = Len(Magic)
        /\ \A j \in 1..Len(Magic) : a[j] = buf[j]
    <2>1. \A j \in 1..Len(Magic) : buf[j] \in Byte
      BY <1>1, <1>3, BytesAre
    <2>2. /\ a \in Bytes /\ Len(a) = Len(Magic) - 1 + 1
          /\ \A j \in 1..(Len(Magic) - 1 + 1) : a[j] = buf[1 + j - 1]
      BY <1>1, <2>1, SubSeqProperties DEF Bytes
    <2> HIDE DEF a
    <2> QED
      BY <1>1, <2>2
  <1>5. SubSeq(Magic, 1, Len(Magic)) = Magic
    BY <1>1, SubSeqFull DEF Bytes
  <1>6. IsPrefix(Magic, buf) <=> a = Magic
    BY <1>1, <1>2, <1>5 DEF IsPrefix
  <1> HIDE DEF a
  <1>7. a = Magic <=> \A j \in 1..Len(Magic) : a[j] = Magic[j]
    BY <1>1, <1>4, SeqEqual DEF Bytes
  <1>8. HasMagic <=> IsPrefix(Magic, buf)
    BY DEF HasMagic
  <1>9. HasMagic <=> \A j \in 1..Len(Magic) : buf[j] = Magic[j]
    BY <1>4, <1>6, <1>7, <1>8
  <1> QED
    BY <1>1, <1>2, <1>9

\* The buffer is the front of the stream.
LEMMA BufferIsFront ==
  ASSUME TypeOK
  PROVE  /\ buf \o wire \in Bytes /\ Len(buf) \in Nat
         /\ Len(buf) <= Len(buf \o wire)
         /\ \A i \in 1..Len(buf) : (buf \o wire)[i] = buf[i]
  <1>1. buf \in Bytes /\ wire \in Bytes
    BY DEF TypeOK, Bytes
  <1>2. Len(buf) \in Nat /\ Len(wire) \in Nat
    BY <1>1, BytesAre
  <1> QED
    BY <1>1, <1>2, Joined

\* A packet at the front is seen by try_decode for what it is.
LEMMA PacketSeen ==
  ASSUME TypeOK, HasHeader, NEW p \in Packets, At(buf \o wire, 0, p)
  PROVE  /\ HasMagic /\ BodyLen = Len(p.body) /\ buf[Len(Magic) + 1] = p.type
         /\ \A j \in 1..Size(p) : j <= Len(buf) => buf[j] = Encode(p)[j]
  <1>1. /\ HeaderSize = Len(Magic) + 2 /\ HeaderSize <= Len(buf)
        /\ Len(buf) \in Nat /\ Len(Magic) \in Nat \ {0}
    BY MagicIs
  <1>2. /\ Size(p) = HeaderSize + Len(p.body) /\ Len(p.body) \in Nat
        /\ \A j \in 1..Len(Magic) : Encode(p)[j] = Magic[j]
        /\ Encode(p)[Len(Magic) + 1] = p.type
        /\ Encode(p)[HeaderSize] = Len(p.body)
    BY EncodeIs
  <1>3. \A j \in 1..Size(p) : 0 + j = j
    OBVIOUS
  <1>4. \A j \in 1..Size(p) : (buf \o wire)[j] = Encode(p)[j]
    BY <1>3 DEF At
  <1>5. \A j \in 1..Size(p) : j <= Len(buf) => buf[j] = Encode(p)[j]
    BY <1>1, <1>4, BufferIsFront
  <1>6. \A j \in 1..HeaderSize : j \in 1..Size(p) /\ j <= Len(buf)
    <2>1. HeaderSize \in Nat /\ HeaderSize <= Len(buf) /\ Len(buf) \in Nat
      BY <1>1
    <2>2. Size(p) \in Nat /\ HeaderSize <= Size(p)
      BY <1>2, <2>1
    <2> QED
      BY <2>1, <2>2
  <1>7. \A j \in 1..HeaderSize : buf[j] = Encode(p)[j]
    BY <1>5, <1>6
  <1>8. HeaderSize \in 1..HeaderSize /\ Len(Magic) + 1 \in 1..HeaderSize
        /\ \A j \in 1..Len(Magic) : j \in 1..HeaderSize
    BY <1>1
  <1>9. HasMagic
    BY <1>2, <1>7, <1>8, MagicIs
  <1>10. BodyLen = Len(p.body) /\ buf[Len(Magic) + 1] = p.type
    BY <1>2, <1>7, <1>8 DEF BodyLen
  <1> QED
    BY <1>5, <1>9, <1>10

LEMMA LegalIs ==
  ASSUME NEW p \in Packets, BodyLen = Len(p.body)
  PROVE  TooLong <=> ~Legal(p)
  BY EncodeIs, LimitsAssumption DEF TooLong, Legal

\* Only the first of the packets that are due can be at the front; when none is,
\* what stands there can be told from a packet.
LEMMA FrontKinds ==
  ASSUME TypeOK, HasHeader, NEW g \in Nat, g <= Len(sent), NEW at,
         Frames(at, buf \o wire, sent, g)
  PROVE  \/ g + 1 \in (g + 1)..Len(sent) /\ at[g + 1] = 0
         \/ /\ Marked
            /\ \A k \in (g + 1)..Len(sent) : at[k] \in Nat \ {0}
            /\ buf[1] = Magic[1] =>
                 \E p \in Packets : ~Legal(p) /\ At(buf \o wire, 0, p)
  <1> DEFINE w == buf \o wire
  <1>1. /\ Len(sent) \in Nat
        /\ \A k \in (g + 1)..Len(sent) : sent[k] \in Packets
    BY LenProperties DEF TypeOK
  <1>2. \A k \in (g + 1)..Len(sent) :
          /\ at[k] \in Nat /\ Size(sent[k]) \in Nat /\ Size(sent[k]) > 0
    BY <1>1, EncodeIs DEF Frames
  <1>3. 1 \in 1..Len(w) /\ 1 \in 1..Len(buf) /\ w[1] = buf[1] /\ 1 - 1 = 0
    <2>1. 1 \in 1..Len(buf) /\ Len(buf) \in Nat
      BY MagicIs
    <2> QED
      BY <2>1, BufferIsFront, BytesAre
  <1>4. CASE \E k \in (g + 1)..Len(sent) : at[k] = 0
    <2>1. PICK k \in (g + 1)..Len(sent) : at[k] = 0
      BY <1>4
    <2>2. g + 1 \in (g + 1)..Len(sent) /\ (g + 1 = k \/ g + 1 < k)
      BY <1>1
    <2>3. ~(g + 1 < k)
      <3>1. g + 1 < k => at[g + 1] + Size(sent[g + 1]) <= at[k]
        BY <2>2 DEF Frames
      <3> QED
        BY <1>2, <2>1, <2>2, <3>1
    <2> QED
      BY <2>1, <2>2, <2>3
  <1>5. CASE \A k \in (g + 1)..Len(sent) : at[k] # 0
    <2>1. \A k \in (g + 1)..Len(sent) : ~Covers(at[k], sent[k], 1)
      BY <1>2, <1>5 DEF Covers
    <2>2. Marked /\ (w[1] = Magic[1] => \E p \in Packets : ~Legal(p) /\ At(w, 1 - 1, p))
      BY <1>3, <2>1 DEF Frames
    <2>3. buf[1] = Magic[1] => \E p \in Packets : ~Legal(p) /\ At(w, 0, p)
      BY <1>3, <2>2
    <2> QED
      BY <1>2, <1>5, <2>2, <2>3
  <1> QED
    BY <1>4, <1>5

-----------------------------------------------------------------------------
(* The handlers see the packets once and in order.                         *)

Handed == Len(got) <= Len(sent) /\ \A k \in 1..Len(got) : got[k] = sent[k]

Framing == Clean \/ Marked => Handed /\ Framed(buf \o wire, sent, Len(got))

\* A packet is handed over: it is the next of those that were sent.
LEMMA DeliverNext ==
  ASSUME TypeOK, Handed, Framed(buf \o wire, sent, Len(got)), Deliver
  PROVE  /\ Len(got) < Len(sent) /\ got' = Append(got, sent[Len(got) + 1])
         /\ Framed(buf' \o wire', sent, Len(got) + 1)
  <1> DEFINE g == Len(got)
             w == buf \o wire
  <1>1. HasMagic /\ ~TooLong /\ HasBody /\ HasHeader /\ wire' = wire /\ buf' = Rest(HeaderSize + BodyLen)
    BY DEF Deliver, HasMagic
  <1>2. g \in Nat /\ Len(sent) \in Nat /\ g <= Len(sent) /\ sent \in Seq(Wanted)
    BY DEF TypeOK, Handed, Wanted
  <1>3. PICK at : Frames(at, w, sent, g)
    BY DEF Framed
  <1>4. buf[1] = Magic[1]
    BY <1>1, MagicIs
  <1>5. ASSUME NEW p \in Packets, ~Legal(p), At(w, 0, p)
        PROVE  FALSE
    BY <1>1, <1>5, PacketSeen, LegalIs
  <1>6. g + 1 \in (g + 1)..Len(sent) /\ at[g + 1] = 0
    BY <1>1, <1>2, <1>3, <1>4, <1>5, FrontKinds
  <1> DEFINE p == sent[g + 1]
  <1>7. p \in Wanted /\ p \in Packets /\ At(w, 0, p)
    <2>1. g + 1 \in 1..Len(sent)
      BY <1>2, <1>6
    <2>2. p \in Wanted
      BY <1>2, <2>1, LenProperties
    <2>3. At(w, at[g + 1], p)
      BY <1>3, <1>6 DEF Frames
    <2> QED
      BY <1>6, <2>2, <2>3 DEF Wanted
  <1> HIDE DEF p
  <1>8. /\ BodyLen = Len(p.body) /\ buf[Len(Magic) + 1] = p.type
        /\ \A j \in 1..Size(p) : j <= Len(buf) => buf[j] = Encode(p)[j]
    BY <1>1, <1>7, PacketSeen
  <1>9. /\ Size(p) = HeaderSize + BodyLen /\ BodyLen \in Nat /\ HeaderSize \in Nat
        /\ p \in [type : Byte, body : Bytes]
        /\ \A j \in 1..Len(p.body) : Encode(p)[HeaderSize + j] = p.body[j]
    BY <1>7, <1>8, EncodeIs, PacketsAssumption DEF Bytes
  <1>10. Size(p) \in 0..Len(buf) /\ Len(buf) \in Nat
    BY <1>1, <1>9, MagicIs DEF HasBody
  <1>11. FrontPacket = p
    <2>1. /\ FrontPacket \in [type : Byte, body : Bytes] /\ Len(FrontPacket.body) = BodyLen
          /\ FrontPacket.type = buf[Len(Magic) + 1]
          /\ \A j \in 1..BodyLen : FrontPacket.body[j] = buf[HeaderSize + j]
      BY <1>1, FrontIs DEF Bytes
    <2>2. \A j \in 1..BodyLen : FrontPacket.body[j] = p.body[j]
      <3>1. \A j \in 1..BodyLen : HeaderSize + j \in 1..Size(p) /\ HeaderSize + j <= Len(buf)
        BY <1>9, <1>10
      <3> QED
        BY <1>8, <1>9, <2>1, <3>1
    <2>3. FrontPacket.body = p.body
      <3>1. FrontPacket.body \in Seq(Byte) /\ p.body \in Seq(Byte)
        BY <1>9, <2>1 DEF Bytes
      <3> QED
        BY <1>8, <2>1, <2>2, <3>1, SeqEqual
    <2> QED
      BY <1>8, <1>9, <2>1, <2>3
  <1>12. PICK s \in Bytes : Len(s) = Size(p) /\ w = s \o (buf' \o wire')
    BY <1>1, <1>9, <1>10, RestIs
  <1>13. Framed(buf' \o wire', sent, g + 1)
    <2>1. buf' \o wire' \in Bytes
      <3>1. buf' \in Bytes /\ wire \in Bytes
        BY <1>1, <1>9, <1>10, RestIs DEF TypeOK, Bytes
      <3> QED
        BY <1>1, <3>1, Joined
    <2>2. \A k \in (g + 1)..(g + 1) : at[k] + Size(sent[k]) <= Len(s)
      BY <1>2, <1>6, <1>9, <1>12 DEF p
    <2>3. \A k \in (g + 2)..Len(sent) : Len(s) <= at[k]
      <3> SUFFICES ASSUME NEW k \in (g + 2)..Len(sent) PROVE Len(s) <= at[k]
        OBVIOUS
      <3>1. k \in (g + 1)..Len(sent) /\ g + 1 < k
        BY <1>2
      <3>2. at[g + 1] + Size(sent[g + 1]) <= at[k]
        BY <1>3, <1>6, <3>1 DEF Frames
      <3> QED
        BY <1>6, <1>9, <1>12, <3>2 DEF p
    <2>4. Frames(at, s \o (buf' \o wire'), sent, g)
      BY <1>3, <1>12
    <2>5. g + 1 \in g..Len(sent) /\ (g + 1) + 1 = g + 2
      BY <1>2, <1>6
    <2> HIDE DEF g
    <2> QED
      BY <1>2, <2>1, <2>2, <2>3, <2>4, <2>5, FrontTaken
  <1>14. got' = Append(got, p)
    BY <1>11 DEF Deliver
  <1> QED
    BY <1>2, <1>6, <1>13, <1>14 DEF p

\* What try_decode drops is part of no packet that is due.
LEMMA DropFrames ==
  ASSUME TypeOK, Handed, Framed(buf \o wire, sent, Len(got)), Slide \/ SkipMagic
  PROVE  Framed(buf' \o wire', sent, Len(got))
  <1> DEFINE g == Len(got)
             w == buf \o wire
  <1>1. HasHeader /\ wire' = wire
    BY DEF Slide, SkipMagic, HasMagic
  <1>2. g \in Nat /\ Len(sent) \in Nat /\ g <= Len(sent) /\ sent \in Seq(Wanted)
    BY DEF TypeOK, Handed, Wanted
  <1>3. PICK at : Frames(at, w, sent, g)
    BY DEF Framed
  <1>4. PICK n \in 1..Len(Magic) :
          /\ n \in 0..Len(buf) /\ buf' = Rest(n)
          /\ Slide => n = 1
          /\ SkipMagic => n = Len(Magic)
    BY DropIs
  <1>5. \A k \in (g + 1)..Len(sent) : sent[k] \in Wanted /\ At(w, at[k], sent[k]) /\ at[k] \in Nat
    BY <1>2, <1>3, LenProperties DEF Frames
  <1>6. ~(g + 1 \in (g + 1)..Len(sent) /\ at[g + 1] = 0)
    <2> SUFFICES ASSUME g + 1 \in (g + 1)..Len(sent), at[g + 1] = 0
                 PROVE  FALSE
      OBVIOUS
    <2>1. sent[g + 1] \in Packets /\ Legal(sent[g + 1]) /\ At(w, 0, sent[g + 1])
      BY <1>5 DEF Wanted
    <2>2. HasMagic /\ ~TooLong
      BY <1>1, <2>1, PacketSeen, LegalIs
    <2> QED
      BY <2>2 DEF Slide, SkipMagic
  <1>7. Marked /\ \A k \in (g + 1)..Len(sent) : at[k] \in Nat \ {0}
    BY <1>1, <1>2, <1>3, <1>6, FrontKinds
  <1>8. ASSUME NEW k \in (g + 1)..Len(sent)
        PROVE  n <= at[k]
    <2>1. CASE Slide
      BY <1>4, <1>7, <2>1
    <2>2. CASE SkipMagic /\ at[k] < Len(Magic)
      <3> DEFINE i == at[k] + 1
      <3>1. Len(Magic) \in Nat \ {0} /\ Len(Magic) + 2 <= Len(buf) /\ Len(buf) \in Nat
        BY <1>1, MagicIs
      <3>2. i \in 2..Len(Magic) /\ i \in 1..Len(buf)
        BY <1>7, <2>2, <3>1
      <3>3. buf[i] = Magic[i]
        BY <1>1, <2>2, <3>2, <3>1, MagicIs DEF SkipMagic
      <3>4. w[i] = buf[i]
        BY <3>2, BufferIsFront
      <3>5. w[i] = Magic[1]
        <4>1. sent[k] \in Packets /\ At(w, at[k], sent[k])
          BY <1>5 DEF Wanted
        <4>2. 1 \in 1..Size(sent[k]) /\ 1 \in 1..Len(Magic) /\ Encode(sent[k])[1] = Magic[1]
          BY <4>1, EncodeIs
        <4> QED
          BY <4>1, <4>2 DEF At
      <3> QED
        BY <1>7, <3>2, <3>3, <3>4, <3>5 DEF Marked
    <2>3. CASE SkipMagic /\ Len(Magic) <= at[k]
      BY <1>4, <2>3
    <2> QED
      BY <1>5, <2>1, <2>2, <2>3, MagicIs, <1>1
  <1>9. PICK s \in Bytes : Len(s) = n /\ w = s \o (buf' \o wire')
    BY <1>1, <1>4, RestIs
  <1>10. buf' \o wire' \in Bytes
    <2>1. buf' \in Bytes /\ wire \in Bytes
      BY <1>1, <1>4, RestIs DEF TypeOK, Bytes
    <2> QED
      BY <1>1, <2>1, Joined
  <1>11. Frames(at, s \o (buf' \o wire'), sent, g)
    BY <1>3, <1>9
  <1>12. g \in g..Len(sent) /\ \A k \in (g + 1)..g : FALSE
    BY <1>2
  <1>13. \A k \in (g + 1)..Len(sent) : Len(s) <= at[k]
    BY <1>8, <1>9
  <1> HIDE DEF g
  <1>14. Framed(buf' \o wire', sent, g)
    BY <1>2, <1>10, <1>11, <1>12, <1>13, FrontTaken
  <1> QED
    BY <1>14 DEF g

LEMMA SendFrames ==
  ASSUME TypeOK, Framing, NEW p \in Packets, Send(p)
  PROVE  Framing'
  <1> SUFFICES ASSUME (Clean \/ Marked)'
               PROVE  Handed' /\ Framed(buf \o wire', sent', Len(got))
    BY DEF Framing, Send
  <1>1. /\ buf \in Bytes /\ wire \in Bytes /\ sent \in Seq(Wanted) /\ Len(sent) \in Nat
        /\ Len(got) \in Nat /\ Encode(p) \in Bytes
    BY EncodeIs DEF TypeOK, Bytes, Wanted
  <1>2. buf' = buf /\ got' = got /\ wire' = wire \o Encode(p)
    BY DEF Send
  <1>3. buf \o wire' = (buf \o wire) \o Encode(p) /\ buf \o wire \in Bytes
    <2>1. buf \o wire \in Bytes
      BY <1>1, Joined
    <2>2. (buf \o wire) \o Encode(p) = buf \o (wire \o Encode(p))
      BY <1>1, Regrouped
    <2> QED
      BY <1>2, <2>1, <2>2
  <1>4. CASE Legal(p)
    <2>1. sent' = Append(sent, p) /\ UNCHANGED <<garbage, excess>> /\ p \in Wanted
      BY <1>4 DEF Send, Wanted
    <2>2. Handed /\ Framed(buf \o wire, sent, Len(got))
      BY <2>1 DEF Framing, Clean, Marked
    <2>3. Handed'
      <3>1. /\ Len(sent') = Len(sent) + 1
            /\ \A k \in 1..Len(sent) : sent'[k] = sent[k]
        BY <1>1, <2>1, AppendProperties
      <3> QED
        BY <1>1, <1>2, <2>2, <3>1 DEF Handed
    <2>4. Len(got) \in 0..Len(sent)
      BY <1>1, <2>2 DEF Handed
    <2>5. Framed((buf \o wire) \o Encode(p), Append(sent, p), Len(got))
      BY <1>1, <1>3, <2>1, <2>2, <2>4, WantedSent
    <2> QED
      BY <1>3, <2>1, <2>3, <2>5
  <1>5. CASE ~Legal(p)
    <2>1. sent' = sent /\ excess' = excess + 1 /\ excess \in Nat
      BY <1>5 DEF Send, TypeOK
    <2>2. Marked
      BY <2>1 DEF Clean, Marked
    <2>3. Handed /\ Framed(buf \o wire, sent, Len(got))
      BY <2>2 DEF Framing
    <2>4. ASSUME NEW j \in 1..Len(Encode(p)), Encode(p)[j] = Magic[1]
          PROVE  j = 1
      <3>1. /\ Len(Encode(p)) = Size(p) /\ Size(p) = HeaderSize + Len(p.body)
            /\ Len(p.body) \in Nat /\ HeaderSize = Len(Magic) + 2 /\ Len(Magic) \in Nat \ {0}
            /\ \A i \in 1..Len(Magic) : Encode(p)[i] = Magic[i]
            /\ Encode(p)[Len(Magic) + 1] = p.type /\ Encode(p)[HeaderSize] = Len(p.body)
            /\ \A i \in 1..Len(p.body) : Encode(p)[HeaderSize + i] = p.body[i]
        BY EncodeIs
      <3>2. CASE j \in 1..Len(Magic)
        <4>1. j = 1 \/ j \in 2..Len(Magic)
          BY <3>1, <3>2
        <4>2. Magic[j] = Magic[1]
          BY <2>4, <3>1, <3>2
        <4> QED
          BY <2>2, <4>1, <4>2 DEF Marked
      <3>3. CASE j = Len(Magic) + 1 \/ j = HeaderSize
        <4>1. Encode(p)[j] = p.type \/ Encode(p)[j] = Len(p.body)
          BY <3>1, <3>3
        <4>2. p.type # Magic[1] /\ Len(p.body) # Magic[1]
          BY <1>5, <2>2 DEF Marked
        <4> QED
          BY <2>4, <4>1, <4>2
      <3>4. CASE HeaderSize < j
        <4>1. j - HeaderSize \in 1..Len(p.body) /\ HeaderSize + (j - HeaderSize) = j
          <5>1. HeaderSize \in Nat /\ Len(p.body) \in Nat
            BY <3>1
          <5>2. j \in 1..(HeaderSize + Len(p.body))
            <6>1. Len(Encode(p)) = HeaderSize + Len(p.body)
              BY <3>1
            <6> QED
              BY <6>1, Zenon
          <5> QED
            BY <3>4, <5>1, <5>2
        <4>2. Encode(p)[j] = p.body[j - HeaderSize]
          BY <3>1, <4>1
        <4> QED
          BY <1>5, <2>2, <2>4, <4>1, <4>2 DEF Marked
      <3> QED
        BY <3>1, <3>2, <3>3, <3>4
    <2> DEFINE w == buf \o wire
    <2>5. At(w \o Encode(p), Len(w), p) /\ Len(w) \in Nat /\ Len(w) + 1 - 1 = Len(w)
      <3>1. w \in Bytes
        BY <1>3
      <3> HIDE DEF w
      <3>2. At(w \o Encode(p), Len(w), p) /\ Len(w) \in Nat
        BY <3>1, AtEnd, BytesAre
      <3> QED
        BY <3>2
    <2>6. \A j \in 1..Len(Encode(p)) : Encode(p)[j] = Magic[1] =>
            \E q \in Packets : ~Legal(q) /\ At(w \o Encode(p), Len(w) + j - 1, q)
      BY <1>5, <2>4, <2>5
    <2>7. Framed(w \o Encode(p), sent, Len(got))
      BY <1>1, <1>3, <2>2, <2>3, <2>6, OtherSent
    <2> QED
      BY <1>2, <1>3, <2>1, <2>3, <2>7 DEF Handed
  <1> QED
    BY <1>4, <1>5

LEMMA GarbleFrames ==
  ASSUME TypeOK, Framing, NEW b \in Garbage, Garble(b)
  PROVE  Framing'
  <1> SUFFICES ASSUME (Clean \/ Marked)'
               PROVE  Handed' /\ Framed(buf \o wire', sent, Len(got))
    BY DEF Framing, Garble
  <1>1. /\ buf \in Bytes /\ wire \in Bytes /\ sent \in Seq(Wanted)
        /\ Len(got) \in Nat /\ b \in Byte /\ garbage \in Nat
    BY GarbageAssumption DEF TypeOK, Bytes, Wanted
  <1>2. Marked
    BY <1>1 DEF Garble, Clean, Marked
  <1>3. Handed /\ Framed(buf \o wire, sent, Len(got))
    BY <1>2 DEF Framing
  <1>4. <<b>> \in Bytes /\ Len(<<b>>) = 1 /\ <<b>>[1] = b
    BY <1>1 DEF Bytes
  <1>5. wire' = wire \o <<b>>
    BY <1>1, AppendIsConcat DEF Garble, Bytes
  <1>6. buf \o wire' = (buf \o wire) \o <<b>> /\ buf \o wire \in Bytes
    <2>1. buf \o wire \in Bytes
      BY <1>1, Joined
    <2>2. (buf \o wire) \o <<b>> = buf \o (wire \o <<b>>)
      BY <1>1, <1>4, Regrouped
    <2> QED
      BY <1>5, <2>1, <2>2
  <1>7. \A j \in 1..Len(<<b>>) : <<b>>[j] # Magic[1]
    BY <1>2, <1>4 DEF Marked
  <1> DEFINE t == <<b>>
  <1> HIDE DEF t
  <1>8. Framed((buf \o wire) \o t, sent, Len(got))
    BY <1>1, <1>2, <1>3, <1>4, <1>6, <1>7, OtherSent DEF t
  <1>9. Handed'
    BY <1>3 DEF Handed, Garble
  <1> QED
    BY <1>6, <1>8, <1>9 DEF t

LEMMA NextFrames ==
  ASSUME TypeOK, Framing, [Next]_vars
  PROVE  Framing'
  <1>1. CASE \E p \in Packets : Send(p)
    BY <1>1, SendFrames
  <1>2. CASE \E b \in Garbage : Garble(b)
    BY <1>2, GarbleFrames
  <1>3. CASE Read
    <2>1. UNCHANGED <<sent, excess, garbage, got>> /\ buf' \o wire' = buf \o wire
      BY <1>3, ReadMoves DEF Read
    <2> QED
      BY <2>1 DEF Framing, Clean, Marked, Handed
  <1>4. CASE NeedMore \/ UNCHANGED vars
    BY <1>4 DEF NeedMore, vars, Framing, Clean, Marked, Handed
  <1>5. CASE Slide \/ SkipMagic
    <2>1. UNCHANGED <<sent, excess, garbage, got>>
      BY <1>5 DEF Slide, SkipMagic
    <2>2. ASSUME Clean \/ Marked
          PROVE  Framed(buf' \o wire', sent, Len(got))
      BY <1>5, <2>2, DropFrames DEF Framing
    <2> QED
      BY <2>1, <2>2 DEF Framing, Clean, Marked, Handed
  <1>6. CASE Deliver
    <2>1. UNCHANGED <<sent, excess, garbage>>
      BY <1>6 DEF Deliver
    <2>2. ASSUME Clean \/ Marked
          PROVE  Handed' /\ Framed(buf' \o wire', sent, Len(got'))
      <3>1. Handed /\ Framed(buf \o wire, sent, Len(got))
        BY <2>2 DEF Framing
      <3>2. /\ Len(got) < Len(sent) /\ got' = Append(got, sent[Len(got) + 1])
            /\ Framed(buf' \o wire', sent, Len(got) + 1)
        BY <1>6, <3>1, DeliverNext
      <3>3. got \in Seq({p \in [type : Byte, body : Seq(Byte)] : Legal(p)}) /\ Len(got) \in Nat
        BY DEF TypeOK
      <3>4. sent[Len(got) + 1] \in {p \in [type : Byte, body : Seq(Byte)] : Legal(p)}
        <4>1. Len(got) + 1 \in 1..Len(sent)
          BY <3>2, <3>3 DEF TypeOK
        <4> QED
          BY <4>1, PacketsAssumption DEF TypeOK
      <3>5. /\ Len(got') = Len(got) + 1
            /\ \A k \in 1..Len(got) : got'[k] = got[k]
            /\ got'[Len(got) + 1] = sent[Len(got) + 1]
        BY <3>2, <3>3, <3>4, AppendProperties
      <3>6. \A k \in 1..Len(got') : k \in 1..Len(got) \/ k = Len(got) + 1
        BY <3>3, <3>5
      <3>7. Len(got') <= Len(sent) /\ \A k \in 1..Len(got') : got'[k] = sent[k]
        BY <3>1, <3>2, <3>3, <3>5, <3>6 DEF Handed, TypeOK
      <3> QED
        BY <2>1, <3>2, <3>5, <3>7 DEF Handed
    <2> QED
      BY <2>1, <2>2 DEF Framing, Clean, Marked
  <1> QED
    BY <1>1, <1>2, <1>3, <1>4, <1>5, <1>6 DEF Next, Receive

LEMMA FramingAlways == Spec => [](TypeOK /\ Framing)
  <1>1. Init => TypeOK
    BY InitType
  <1>2. Init => Framing
    <2> SUFFICES ASSUME Init PROVE Framing
      OBVIOUS
    <2>1. sent = <<>> /\ got = <<>> /\ Len(sent) = 0 /\ Len(got) = 0
      BY DEF Init
    <2>2. Len(buf \o wire) = 0
      <3>1. buf = <<>> /\ wire = <<>> /\ <<>> \in Bytes
        BY DEF Init, Bytes
      <3> QED
        BY <3>1, Joined
    <2>3. Frames(<<>>, buf \o wire, sent, Len(got))
      BY <2>1, <2>2 DEF Frames
    <2> QED
      BY <2>1, <2>3 DEF Framing, Framed, Handed
  <1>3. TypeOK /\ Framing /\ [Next]_vars => (TypeOK /\ Framing)'
    BY NextType, NextFrames
  <1> QED
    BY <1>1, <1>2, <1>3, PTL DEF Spec

\* On a clean stream the handlers see what was sent, each packet once and in
\* order, however the stream is cut, whatever the packets contain: also the
\* magic or a whole packet (im_protocol.cpp:62-92).
THEOREM CleanStreamInOrder == Spec => [](Clean => Handed)
  <1>1. Framing => (Clean => Handed)
    BY DEF Framing
  <1> QED
    BY <1>1, FramingAlways, PTL

\* With garbage and with packets that are too long between the packets: the
\* decoder implements PacketOrder, if neither of the two contains the first
\* byte of the magic (im_protocol.cpp:65-83).
THEOREM MarkedStreamInOrder ==
  ASSUME Marked
  PROVE  Spec => InOrder
  <1>1. Init => Order!Init
    BY DEF Init, Order!Init
  <1>2. TypeOK /\ Framing /\ [Next]_vars => [Order!Put \/ Order!Get]_<<sent, got>>
    <2> SUFFICES ASSUME TypeOK, Framing, [Next]_vars
                 PROVE  [Order!Put \/ Order!Get]_<<sent, got>>
      OBVIOUS
    <2>1. CASE \E p \in Packets : Send(p)
      BY <2>1 DEF Send, Order!Put
    <2>2. CASE Deliver
      <3>1. Len(got) < Len(sent) /\ got' = Append(got, sent[Len(got) + 1])
        BY <2>2, DeliverNext DEF Framing
      <3> QED
        BY <2>2, <3>1 DEF Deliver, Order!Get
    <2>3. CASE \/ \E b \in Garbage : Garble(b)
               \/ Read \/ NeedMore \/ Slide \/ SkipMagic \/ UNCHANGED vars
      BY <2>3 DEF Garble, Read, NeedMore, Slide, SkipMagic, vars
    <2> QED
      BY <2>1, <2>2, <2>3 DEF Next, Receive
  <1> QED
    BY <1>1, <1>2, FramingAlways, PTL DEF Spec, InOrder, Order!Spec
=============================================================================
