--------------------------- MODULE StreamDecoder ---------------------------
(***************************************************************************)
(* Packets over a byte stream: Codec::encode, Codec::try_decode and the    *)
(* read loop around them, which the server, the reactor and the command    *)
(* line client share:                                                      *)
(*                                                                         *)
(*    n = read(fd, buf); in_buf.append(buf, n);                            *)
(*    while (try_decode(in_buf, pkt)) handle(pkt);                         *)
(*                                                                         *)
(* TCP delivers the stream in pieces of any size.  The header is scaled:   *)
(* the magic has Len(Magic) bytes instead of 4, type and length one byte   *)
(* each instead of 2 and 4, and MaxBody stands for 2 MB; as in the code a  *)
(* length field can be larger than MaxBody, and a body can contain the     *)
(* magic.  buf is the readable part of the ByteBuffer.                     *)
(***************************************************************************)
EXTENDS Integers, Sequences, SequencesExt

CONSTANTS
    Magic,      \* kMagic, a sequence of bytes
    MaxBody,    \* kMaxBody
    Packets,    \* what the sender may encode: records of a type and a body
    Garbage,    \* bytes that can get between two packets
    MaxSent,    \* bound: packets sent
    MaxGarbage, \* bound: garbage bytes sent
    ReadSize    \* sizeof(buf) of read()

Byte == 0..255

ASSUME MagicAssumption   == Magic \in Seq(Byte) /\ Magic # <<>>
ASSUME PacketsAssumption == /\ Packets \subseteq [type : Byte, body : Seq(Byte)]
                            /\ \A p \in Packets : Len(p.body) \in Byte
ASSUME GarbageAssumption == Garbage \subseteq Byte
ASSUME LimitsAssumption  == {MaxBody, MaxSent, MaxGarbage, ReadSize} \subseteq Nat

VARIABLES
    wire,       \* bytes that were sent and not read
    buf,        \* in_buf
    decoding,   \* inside the while loop
    sent,       \* history: packets sent that the receiver has to hand over
    excess,     \* history: number of packets sent that are too long
    garbage,    \* history: number of garbage bytes sent
    got         \* history: packets handled

vars == <<wire, buf, decoding, sent, excess, garbage, got>>

HeaderSize == Len(Magic) + 2
Legal(p)   == Len(p.body) <= MaxBody

\* Codec::encode does not look at the length of the body
Encode(p) == Magic \o <<p.type, Len(p.body)>> \o p.body

Init ==
    /\ wire = <<>> /\ buf = <<>> /\ decoding = FALSE
    /\ sent = <<>> /\ excess = 0 /\ garbage = 0 /\ got = <<>>

-----------------------------------------------------------------------------
(* The sender.                                                             *)

Send(p) ==
    /\ Len(sent) + excess < MaxSent
    /\ wire' = wire \o Encode(p)
    /\ IF Legal(p) THEN sent' = Append(sent, p) /\ UNCHANGED excess
                   ELSE excess' = excess + 1 /\ UNCHANGED sent
    /\ UNCHANGED <<buf, decoding, garbage, got>>

\* bytes that are no packet, between two packets
Garble(b) ==
    /\ garbage < MaxGarbage
    /\ wire' = Append(wire, b)
    /\ garbage' = garbage + 1
    /\ UNCHANGED <<buf, decoding, sent, excess, got>>

-----------------------------------------------------------------------------
(* The receiver: one read, then try_decode until it returns false.         *)

Read ==
    /\ ~decoding
    /\ \E n \in 1..Len(wire) :
        /\ n <= ReadSize
        /\ buf' = buf \o SubSeq(wire, 1, n)
        /\ wire' = SubSeq(wire, n + 1, Len(wire))
    /\ decoding' = TRUE
    /\ UNCHANGED <<sent, excess, garbage, got>>

\* ByteBuffer::consume
Rest(n) == SubSeq(buf, n + 1, Len(buf))

HasHeader == Len(buf) >= HeaderSize

\* mutant of HasMagic: the magic is not compared
HasMagic_Unchecked == HasHeader

HasMagic == HasHeader /\ IsPrefix(Magic, buf)
BodyLen  == buf[HeaderSize]

\* mutant of TooLong: no limit
TooLong_Never == FALSE

TooLong == BodyLen > MaxBody

HasBody == Len(buf) >= HeaderSize + BodyLen

\* an incomplete header or body: wait for more
NeedMore ==
    /\ decoding
    /\ ~HasHeader \/ (HasMagic /\ ~TooLong /\ ~HasBody)
    /\ decoding' = FALSE
    /\ UNCHANGED <<wire, buf, sent, excess, garbage, got>>

\* no magic: one byte is dropped and try_decode returns false
Slide ==
    /\ decoding
    /\ HasHeader /\ ~HasMagic
    /\ buf' = Rest(1)
    /\ decoding' = FALSE
    /\ UNCHANGED <<wire, sent, excess, garbage, got>>

\* the body would be too long: the magic is dropped, likewise
SkipMagic ==
    /\ decoding
    /\ HasMagic /\ TooLong
    /\ buf' = Rest(Len(Magic))
    /\ decoding' = FALSE
    /\ UNCHANGED <<wire, sent, excess, garbage, got>>

\* the packet at the front of buf
FrontPacket == [type |-> buf[Len(Magic) + 1],
          body |-> SubSeq(buf, HeaderSize + 1, HeaderSize + BodyLen)]

\* mutant of Deliver: one packet per read
Deliver_OnePerRead ==
    /\ decoding
    /\ HasMagic /\ ~TooLong /\ HasBody
    /\ got' = Append(got, FrontPacket)
    /\ buf' = Rest(HeaderSize + BodyLen)
    /\ decoding' = FALSE
    /\ UNCHANGED <<wire, sent, excess, garbage>>

\* a packet is complete: it is handled and the loop goes on
Deliver ==
    /\ decoding
    /\ HasMagic /\ ~TooLong /\ HasBody
    /\ got' = Append(got, FrontPacket)
    /\ buf' = Rest(HeaderSize + BodyLen)
    /\ UNCHANGED <<wire, decoding, sent, excess, garbage>>

Receive == Read \/ NeedMore \/ Slide \/ SkipMagic \/ Deliver

Next ==
    \/ \E p \in Packets : Send(p)
    \/ \E b \in Garbage : Garble(b)
    \/ Receive

\* select() reports a descriptor for as long as there are bytes to read, and
\* every iteration of the loop reads from each descriptor that is reported
\* (server_im.cpp:153-162).  Nothing obliges the sender.
Spec == Init /\ [][Next]_vars /\ WF_vars(Receive)

-----------------------------------------------------------------------------
\* Types: in particular no handler sees a body above the limit.
TypeOK ==
    /\ wire \in Seq(Byte) /\ buf \in Seq(Byte)
    /\ decoding \in BOOLEAN
    /\ sent \in Seq({p \in Packets : Legal(p)})
    /\ excess \in 0..MaxSent /\ garbage \in 0..MaxGarbage
    /\ got \in Seq({p \in [type : Byte, body : Seq(Byte)] : Legal(p)})

\* InOrder: whatever pieces the stream comes in, and with garbage or packets
\* that are too long between the packets, the handlers see packets that were
\* sent, each once and in order (im_protocol.cpp:62-92).
Order == INSTANCE PacketOrder WITH
            Packets <- {p \in Packets : Legal(p)}, put <- sent, got <- got

InOrder == Order!Spec

\* nothing but packets within the limit was sent
Clean == garbage = 0 /\ excess = 0

\* EventuallyHandled: on a clean stream every packet is handled; in particular no
\* complete packet stays in the buffer when the loop goes back to select(), where
\* it would wait until the client happens to send something else.
EventuallyHandled ==
    \A n \in 1..MaxSent : (Clean /\ Len(sent) = n) ~> (Len(got) >= n \/ ~Clean)
=============================================================================
